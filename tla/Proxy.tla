------------------------------- MODULE Proxy --------------------------------
(***************************************************************************)
(* p3/proxy.{hpp,cpp}: a TCP proxy.  One thread runs the handlers of       *)
(* Boost.Asio's io_service; every accepted client is given a connection to *)
(* a server, and what is read from either socket is written to the other.  *)
(*                                                                         *)
(* The code has each handler twice, once per direction, with the names     *)
(* exchanged; here a handler takes the side s its bytes come from, and     *)
(* buf is send_buf for the client's bytes and recv_buf for the server's.   *)
(* The k-th byte a peer sends is the number k, so that the order of bytes  *)
(* is their value; 0 is a byte read from freed memory.                     *)
(***************************************************************************)
EXTENDS Integers, Sequences, SequencesExt, FiniteSets

CONSTANTS
  Conns,     \* the client sockets that are ever accepted
  temp_size, \* how much one async_read_some takes
  Capacity,  \* bytes the kernel holds for a peer that does not read
  MaxSent    \* bound: per side, how many bytes the peer sends

ASSUME ConstantsAssumption ==
  /\ temp_size \in Nat \ {0}
  /\ Capacity \in Nat \ {0}
  /\ MaxSent \in [{"client", "server"} -> Nat]

VARIABLES
  clients_,  \* socket -> its ClientBuffer, as [client |-> ..., server |-> ...]
  io,        \* the io_service and the proxy's ends of the connections
  peer,      \* the other ends: what they sent, closed and received
  overlapped \* history: a read was handled while its direction was writing

vars == <<clients_, io, peer, overlapped>>

Sides == {"client", "server"}
Other(s) == IF s = "client" THEN "server" ELSE "client"
Least(a, b) == IF a <= b THEN a ELSE b

-----------------------------------------------------------------------------
(* Asio, as the code uses it.  io is a record:                             *)
(*   queue       what the io_service has to run, in order                  *)
(*   done        what completed of the socket whose operations it performs *)
(*   accepting   whether an async_accept is waiting                        *)
(*   fresh       the sockets no client was accepted on yet                 *)
(*   connecting  the clients whose async_connect has not completed         *)
(*   open        the pairs <<c, s>> of open sockets                        *)
(*   reading     the sockets with an async_read_some not yet performed     *)
(*   writes      per socket, the writes that wait for room in the kernel   *)
(*   taken       per socket, how many of the peer's bytes were read        *)
(*   delivered   per socket, the bytes handed to the kernel                *)
(* A completion holds what the handler is called with; a write holds the   *)
(* bytes its buffer points to.                                             *)

Completion(h, c, s, err, bytes, last) ==
  [handler |-> h, c |-> c, s |-> s, err |-> err, bytes |-> bytes, last |-> last]

Post(a, e) == [a EXCEPT !.queue = Append(@, e)]

Available(a, c, s) == peer[c][s].sent - a.taken[c][s]
RoomFor(a, c, s) == Capacity - (Len(a.delivered[c][s]) - peer[c][s].received)

CanRead(a, c, s) == Available(a, c, s) > 0 \/ peer[c][s].ended # "no"
CanWrite(a, c, s) == RoomFor(a, c, s) > 0 \/ peer[c][s].ended = "reset"

(* What a read that can be performed gives, and the handler it calls. *)
ReadResult(a, c, s) ==
  LET n == Least(temp_size, Available(a, c, s))
  IN IF n > 0 THEN Completion("recv", c, s, "none", [i \in 1 .. n |-> a.taken[c][s] + i], FALSE)
     ELSE Completion("recv", c, s, IF peer[c][s].ended = "eof" THEN "eof" ELSE "error", <<>>, FALSE)

Taken(a, c, s) == [a EXCEPT !.taken[c][s] = @ + Least(temp_size, Available(a, c, s))]

(* The same for write w: async_write calls the handler when all is sent,   *)
(* and goes on with the rest (handler "more") when the kernel took a part. *)
Fits(a, c, s, w) == Least(RoomFor(a, c, s), Len(w.bytes))

WriteResult(a, c, s, w) ==
  LET n == Fits(a, c, s, w)
  IN IF peer[c][s].ended = "reset" THEN Completion("send", c, s, "error", <<>>, w.last)
     ELSE IF n = Len(w.bytes) THEN Completion("send", c, s, "none", <<>>, w.last)
     ELSE Completion("more", c, s, "none", SubSeq(w.bytes, n + 1, Len(w.bytes)), w.last)

Written(a, c, s, w) ==
  IF peer[c][s].ended = "reset" THEN a
  ELSE [a EXCEPT !.delivered[c][s] = @ \o SubSeq(w.bytes, 1, Fits(a, c, s, w))]

(* async_read_some tries at once, and waits when there is nothing. *)
StartRead(a, c, s) ==
  IF <<c, s>> \notin a.open THEN Post(a, Completion("recv", c, s, "error", <<>>, FALSE))
  ELSE IF CanRead(a, c, s) THEN Post(Taken(a, c, s), ReadResult(a, c, s))
  ELSE [a EXCEPT !.reading = @ \cup {<<c, s>>}]

(* async_write tries at once unless another write waits before it. *)
StartWrite(a, c, s, bytes, last) ==
  LET w == [bytes |-> bytes, last |-> last]
  IN IF <<c, s>> \notin a.open THEN Post(a, Completion("send", c, s, "error", <<>>, last))
     ELSE IF a.writes[c][s] = <<>> /\ CanWrite(a, c, s)
     THEN Post(Written(a, c, s, w), WriteResult(a, c, s, w))
     ELSE [a EXCEPT !.writes[c][s] = Append(@, w)]

(* close() makes what the socket waits for complete with an error. *)
Close(a, c, s) ==
  LET ws == [i \in DOMAIN a.writes[c][s] |->
               Completion("send", c, s, "error", <<>>, a.writes[c][s][i].last)]
      rs == IF <<c, s>> \in a.reading THEN <<Completion("recv", c, s, "error", <<>>, FALSE)>>
            ELSE <<>>
  IN [a EXCEPT !.queue = @ \o rs \o ws,
               !.open = @ \ {<<c, s>>},
               !.reading = @ \ {<<c, s>>},
               !.writes[c][s] = <<>>]

(* The bytes of a buffer that writes on <<c, s>> still point to were freed. *)
Lost(w) == [w EXCEPT !.bytes = [i \in DOMAIN @ |-> 0]]

Freed(a, c, s) ==
  [a EXCEPT !.writes[c][s] = [i \in DOMAIN @ |-> Lost(@[i])],
            !.queue = [i \in DOMAIN @ |->
                         IF @[i].c = c /\ @[i].s = s /\ @[i].handler = "more"
                         THEN Lost(@[i]) ELSE @[i]]]

(* Reading freed memory may still find the bytes. *)
MaybeFreed(a, c, s) == {a, Freed(a, c, s)}

Completed(a) == a.queue \o a.done

Queued(c, s, handlers) ==
  {i \in DOMAIN Completed(io) :
     LET e == Completed(io)[i] IN e.c = c /\ e.s = s /\ e.handler \in handlers}

(* A write towards s has been started and its handler has not run. *)
IsWriting(c, s) == io.writes[c][s] # <<>> \/ Queued(c, s, {"send", "more"}) # {}

-----------------------------------------------------------------------------
(* proxy.cpp *)

ClientBuffer == [s \in Sides |-> <<>>]

(* clients_[c]: operator[] of a map makes an entry where there is none. *)
Entry(c) == IF c \in DOMAIN clients_ THEN clients_[c] ELSE ClientBuffer

Insert(c, b) == [k \in DOMAIN clients_ \cup {c} |-> IF k = c THEN b ELSE clients_[k]]
Erase(c) == [k \in DOMAIN clients_ \ {c} |-> clients_[k]]

terminate_KeepsEntry(a, c) ==                \* mutant: clients_.erase is forgotten
  /\ io' = Close(Close(a, c, "server"), c, "client")
  /\ UNCHANGED clients_

terminate_OneSide(a, c) ==                   \* mutant: only the server's socket is closed
  /\ io' = Close(a, c, "server")
  /\ clients_' = Erase(c)

terminateClientServerConnection_(a, c) ==
  /\ io' = Close(Close(a, c, "server"), c, "client")
  /\ clients_' = Erase(c)

(* The completion at the front of the queue is the next to be handled. *)
Calls(h, c, s) ==
  /\ io.queue # <<>>
  /\ io.queue[1].handler = h /\ io.queue[1].c = c /\ io.queue[1].s = s

Called == io.queue[1]
Popped == [io EXCEPT !.queue = Tail(@)]


acceptClientHandler_(c) ==
  /\ Calls("accept", c, "client")
  /\ IF Called.err # "none"
     THEN io' = Close(Popped, c, "client") /\ clients_' = Erase(c)
     ELSE /\ io' = [Popped EXCEPT !.connecting = @ \cup {c},
                                  !.open = @ \cup {<<c, "server">>},
                                  !.accepting = TRUE]
          /\ clients_' = Insert(c, ClientBuffer)
  /\ UNCHANGED <<peer, overlapped>>

connectToServerHandler_(c) ==
  /\ Calls("connect", c, "server")
  /\ IF Called.err # "none" THEN terminateClientServerConnection_(Popped, c)
     ELSE /\ io' = StartRead(StartRead(Popped, c, "client"), c, "server")
          /\ UNCHANGED clients_
  /\ UNCHANGED <<peer, overlapped>>

IsLast_Short(e) == e.err = "eof" \/ Len(e.bytes) < temp_size   \* mutant: a short read is the end

IsLast(e) == e.err = "eof"

NextRead_Always(a, c, s, last) == StartRead(a, c, s)           \* mutant: reads on after the end

NextRead(a, c, s, last) == IF last THEN a ELSE StartRead(a, c, s)

flushTempBuf_Whole(buf, e) ==                \* mutant: all of the temp buffer, not recv_size bytes
  buf \o e.bytes \o [i \in 1 .. temp_size - Len(e.bytes) |-> MaxSent[e.s] + 1]

flushTempBuf(buf, e) == buf \o e.bytes

(* The bytes just read are put behind those not yet sent, which may move   *)
(* the buffer, and all of it is written to the other side.                 *)
recvMessageHandler_(c, s) ==
  /\ Calls("recv", c, s)
  /\ LET e == Called
         buf == flushTempBuf(Entry(c)[s], e)
         last == IsLast(e)
     IN IF e.err = "error" \/ (e.err = "eof" /\ buf = <<>>)
        THEN terminateClientServerConnection_(Popped, c)
        ELSE /\ clients_' = Insert(c, [Entry(c) EXCEPT ![s] = buf])
             /\ \E a \in IF e.bytes = <<>> THEN {Popped} ELSE MaybeFreed(Popped, c, Other(s)) :
                  io' = NextRead(StartWrite(a, c, Other(s), buf, last), c, s, last)
  /\ overlapped' = IF IsWriting(c, Other(s)) THEN overlapped \cup {<<c, s>>} ELSE overlapped
  /\ UNCHANGED peer

Sent_NotCleared(c, s) == Insert(c, Entry(c))                   \* mutant: what was sent stays

(* The whole buffer is dropped, also what came after the write started. *)
Sent(c, s) == Insert(c, [Entry(c) EXCEPT ![s] = <<>>])

(* The write of what came from s has ended. *)
sendMessageHandler_(c, s) ==
  /\ Calls("send", c, Other(s))
  /\ IF Called.err # "none" \/ Called.last
     THEN terminateClientServerConnection_(Popped, c)
     ELSE /\ clients_' = Sent(c, s)
          /\ \E a \in MaybeFreed(Popped, c, Other(s)) : io' = a
  /\ UNCHANGED <<peer, overlapped>>

-----------------------------------------------------------------------------
(* The io_service: what completes without a handler of the program. *)

(* async_write goes on with what the kernel did not take. *)
WriteMore(c, s) ==
  /\ Calls("more", c, s)
  /\ io' = StartWrite(Popped, c, s, Called.bytes, Called.last)
  /\ UNCHANGED <<clients_, peer, overlapped>>

(* The reactor puts a socket that epoll reports into the queue, behind the *)
(* handlers that are ready already.                                        *)
SocketReady(c, s) ==
  /\ io.done = <<>>
  /\ \/ <<c, s>> \in io.reading /\ CanRead(io, c, s)
     \/ io.writes[c][s] # <<>> /\ CanWrite(io, c, s)
  /\ ~\E i \in DOMAIN io.queue : io.queue[i].handler = "ready" /\ io.queue[i].c = c /\ io.queue[i].s = s
  /\ io' = Post(io, Completion("ready", c, s, "none", <<>>, FALSE))
  /\ UNCHANGED <<clients_, peer, overlapped>>

(* Its turn come, the socket's writes are tried in order, as long as there *)
(* is room for them.                                                       *)
PerformWrite(c, s) ==
  LET w == Head(io.writes[c][s])
  IN /\ Calls("ready", c, s)
     /\ io.writes[c][s] # <<>> /\ CanWrite(io, c, s)
     /\ io' = [Written(io, c, s, w) EXCEPT !.writes[c][s] = Tail(@),
                                           !.done = Append(@, WriteResult(io, c, s, w))]
     /\ UNCHANGED <<clients_, peer, overlapped>>

(* Then its read is; of what completed the first has its handler called at *)
(* once, and the others are queued.                                        *)
PerformRead(c, s) ==
  /\ Calls("ready", c, s)
  /\ io.writes[c][s] = <<>> \/ ~CanWrite(io, c, s)
  /\ LET reads == <<c, s>> \in io.reading /\ CanRead(io, c, s)
         a == IF reads THEN [Taken(io, c, s) EXCEPT !.reading = @ \ {<<c, s>>}] ELSE io
         done == IF reads THEN Append(io.done, ReadResult(io, c, s)) ELSE io.done
     IN io' = [a EXCEPT !.done = <<>>,
                        !.queue = IF done = <<>> THEN Tail(@)
                                  ELSE <<Head(done)>> \o Tail(@) \o Tail(done)]
  /\ UNCHANGED <<clients_, peer, overlapped>>

(* epoll is asked only when no socket's operations are being performed.    *)
AcceptReady(c) ==
  /\ io.done = <<>>
  /\ io.accepting /\ c \in io.fresh
  /\ \E err \in {"none", "error"} :
       io' = [Post(io, Completion("accept", c, "client", err, <<>>, FALSE)) EXCEPT
                !.accepting = FALSE, !.fresh = @ \ {c}, !.open = @ \cup {<<c, "client">>}]
  /\ UNCHANGED <<clients_, peer, overlapped>>

ConnectReady(c) ==
  /\ io.done = <<>>
  /\ c \in io.connecting
  /\ \E err \in {"none", "error"} :
       io' = [Post(io, Completion("connect", c, "server", err, <<>>, FALSE)) EXCEPT
                !.connecting = @ \ {c}]
  /\ UNCHANGED <<clients_, peer, overlapped>>

-----------------------------------------------------------------------------
(* The peers.  "eof": it has closed its sending direction; "reset": the    *)
(* connection is gone, as the proxy will learn from a read or a write.     *)

Connected(c, s) ==
  /\ <<c, s>> \in io.open
  /\ s = "server" => c \notin io.connecting /\ Queued(c, s, {"connect"}) = {}

PeerSends(c, s) ==
  /\ Connected(c, s)
  /\ peer[c][s].ended = "no" /\ peer[c][s].sent < MaxSent[s]
  /\ peer' = [peer EXCEPT ![c][s].sent = @ + 1]
  /\ UNCHANGED <<clients_, io, overlapped>>

PeerReceives(c, s) ==
  /\ Connected(c, s) /\ peer[c][s].ended # "reset"
  /\ peer[c][s].received < Len(io.delivered[c][s])
  /\ peer' = [peer EXCEPT ![c][s].received = @ + 1]
  /\ UNCHANGED <<clients_, io, overlapped>>

PeerEnds(c, s, how) ==
  /\ Connected(c, s)
  /\ peer[c][s].ended # "reset" /\ peer[c][s].ended # how
  /\ peer' = [peer EXCEPT ![c][s].ended = how]
  /\ UNCHANGED <<clients_, io, overlapped>>

-----------------------------------------------------------------------------
Init ==
  /\ clients_ = [c \in {} |-> ClientBuffer]
  /\ io = [queue |-> <<>>, done |-> <<>>, accepting |-> TRUE, fresh |-> Conns, connecting |-> {},
           open |-> {}, reading |-> {},
           writes |-> [c \in Conns |-> [s \in Sides |-> <<>>]],
           taken |-> [c \in Conns |-> [s \in Sides |-> 0]],
           delivered |-> [c \in Conns |-> [s \in Sides |-> <<>>]]]
  /\ peer = [c \in Conns |-> [s \in Sides |-> [sent |-> 0, received |-> 0, ended |-> "no"]]]
  /\ overlapped = {}

Handler(c) ==
  \/ acceptClientHandler_(c)
  \/ connectToServerHandler_(c)
  \/ \E s \in Sides : \/ recvMessageHandler_(c, s) \/ sendMessageHandler_(c, s)
                     \/ WriteMore(c, s) \/ PerformWrite(c, s) \/ PerformRead(c, s)

Reactor(c) ==
  \/ AcceptReady(c)
  \/ ConnectReady(c)
  \/ \E s \in Sides : SocketReady(c, s)

Peer(c, s) ==
  \/ PeerSends(c, s)
  \/ PeerReceives(c, s)
  \/ \E how \in {"eof", "reset"} : PeerEnds(c, s, how)

Next ==
  \/ \E c \in Conns : Handler(c) \/ Reactor(c)
  \/ \E c \in Conns, s \in Sides : Peer(c, s)

Spec == Init /\ [][Next]_vars

(* service_.run() runs every completion it has; the kernel reports every   *)
(* socket that is ready.  FairSpec adds that the peers go on reading.      *)
FairSpec ==
  /\ Spec
  /\ WF_vars(\E c \in Conns : Handler(c))
  /\ \A c \in Conns : WF_vars(ConnectReady(c))
  /\ \A c \in Conns, s \in Sides : /\ WF_vars(SocketReady(c, s))
                                   /\ WF_vars(PeerReceives(c, s))

-----------------------------------------------------------------------------
BytesFrom(s) == Seq(0 .. MaxSent[s])

CompletionType ==
  [handler : {"accept", "connect", "recv", "send", "more", "ready"}, c : Conns, s : Sides,
   err : {"none", "eof", "error"}, bytes : Seq(Nat), last : BOOLEAN]

(* The variables keep their types, and no more is read or received than    *)
(* was sent.                                                               *)
TypeOK ==
  /\ DOMAIN clients_ \subseteq Conns
  /\ \A c \in DOMAIN clients_ : \A s \in Sides : clients_[c][s] \in BytesFrom(s)
  /\ io.queue \in Seq(CompletionType) /\ io.done \in Seq(CompletionType)
  /\ io.accepting \in BOOLEAN /\ io.fresh \subseteq Conns /\ io.connecting \subseteq Conns
  /\ io.reading \subseteq io.open /\ io.open \subseteq Conns \X Sides
  /\ io.writes \in [Conns -> [Sides -> Seq([bytes : Seq(Nat), last : BOOLEAN])]]
  /\ overlapped \subseteq Conns \X Sides
  /\ \A c \in Conns, s \in Sides :
       /\ peer[c][s].sent \in 0 .. MaxSent[s] /\ peer[c][s].ended \in {"no", "eof", "reset"}
       /\ io.delivered[c][s] \in BytesFrom(Other(s))
       /\ io.taken[c][s] \in 0 .. peer[c][s].sent
       /\ peer[c][s].received \in 0 .. Len(io.delivered[c][s])

(* As long as every write of a direction had ended when its next read was  *)
(* handled, what is delivered is what was sent: no byte twice, none        *)
(* missing, none out of order, none from freed memory.  The code never     *)
(* checks that condition; it is what the relay rests on.                   *)
RelaysInOrder ==
  \A c \in Conns, s \in Sides :
    <<c, s>> \notin overlapped =>
      \A i \in DOMAIN io.delivered[c][Other(s)] : io.delivered[c][Other(s)][i] = i

WaitingLast(c, s) == {i \in DOMAIN io.writes[c][s] : io.writes[c][s][i].last}
LastWrites(c, s) == {i \in Queued(c, s, {"send", "more"}) : Completed(io)[i].last}

(* A connection in use has, in each direction, one read or one last write  *)
(* under way, never both and never two reads into one temp buffer; so it   *)
(* is never forgotten, with both sockets open and nothing to wake it.      *)
OneTaskPerDirection ==
  \A c \in Conns :
    Connected(c, "server") =>
      \A s \in Sides :
        (IF <<c, s>> \in io.reading THEN 1 ELSE 0) + Cardinality(Queued(c, s, {"recv"}))
        + Cardinality(WaitingLast(c, Other(s))) + Cardinality(LastWrites(c, Other(s))) = 1

(* Nothing is under way for c, and nothing will be. *)
Finished(c) ==
  /\ c \notin io.fresh /\ c \notin io.connecting
  /\ \A s \in Sides : <<c, s>> \notin io.reading /\ io.writes[c][s] = <<>>
  /\ \A i \in DOMAIN Completed(io) : Completed(io)[i].c # c

(* A finished client has both sockets closed; and it has no entry in       *)
(* clients_, if no read of either direction was handled while the write    *)
(* before it was under way.  Handlers that run after                       *)
(* terminateClientServerConnection_ make the entry again with              *)
(* clients_[client_sock], and without overlap one that erases it follows.  *)
NoEntryLeft ==
  \A c \in Conns :
    Finished(c) =>
      /\ \A s \in Sides : <<c, s>> \notin io.open
      /\ {<<c, s>> : s \in Sides} \cap overlapped = {} => c \notin DOMAIN clients_

(* Of a server that answers and closes every byte has been handed to the   *)
(* kernel for a client that keeps its own side open, if each write towards *)
(* the client had ended when the next read from the server was handled.    *)
(* Whether the client then reads them is the client's matter.              *)
WholeReply ==
  \A c \in Conns :
    /\ Finished(c) /\ <<c, "server">> \notin overlapped
    /\ peer[c]["server"].ended = "eof" /\ peer[c]["client"].ended = "no"
    => Len(io.delivered[c]["client"]) = peer[c]["server"].sent

(* When the sockets of both peers are read, an end of either peer closes   *)
(* both connections.                                                       *)
EndIsPassedOn ==
  \A c \in Conns, s \in Sides :
    Connected(c, s) /\ peer[c][s].ended # "no" ~>
      \A t \in Sides : <<c, t>> \notin io.open

(* What the comments "SENT TO SERVER" and "SENT TO CLIENT" say: every byte *)
(* of the buffer that is dropped there has been sent.                      *)
DropsOnlyWhatWasSent ==
  [][\A c \in Conns, s \in Sides :
       c \in DOMAIN clients_ /\ sendMessageHandler_(c, s) /\ c \in DOMAIN clients_' =>
         \A i \in DOMAIN clients_[c][s] :
           \E j \in DOMAIN io.delivered[c][Other(s)] :
             io.delivered[c][Other(s)][j] = clients_[c][s][i]]_vars
=============================================================================
