----------------------------- MODULE ChatServer -----------------------------
(***************************************************************************)
(* p2/server.cpp: a chat server.  One thread waits in epoll_wait, then     *)
(* goes through the events it was given; a message of a client is sent to  *)
(* all of them.  What epoll_wait said is old when its turn comes: clients  *)
(* send, read and leave between any two steps of the loop.                 *)
(*                                                                         *)
(* A byte is the pair <<c, k>>: the k-th byte client c sent.  All that is  *)
(* known of it is whether it ends a line, sent[c][k].                      *)
(***************************************************************************)
EXTENDS Integers, Sequences, SequencesExt, FiniteSets

CONSTANTS
  Clients,       \* the clients that may connect
  max_buf_size_, \* what one recv takes
  Room,          \* bytes the kernel holds for a client that does not read
  MaxFds,        \* how many connections the descriptor table has room for
  MaxSent,       \* bound: per client, how many bytes it sends
  MaxAtOnce,     \* bound: how many clients are connected and not terminated
  NoFd,          \* the -1 of a failed accept
  Listen         \* listen_socket_

ASSUME ConstantsAssumption ==
  /\ IsFiniteSet(Clients) /\ max_buf_size_ \in Nat \ {0}
  /\ Room \in Nat \ {0}
  /\ MaxFds \in Nat /\ MaxSent \in [Clients -> Nat]
  /\ NoFd \notin Clients /\ Listen \notin Clients \cup {NoFd}

VARIABLES
  clients_, message_buf_,
  watched,     \* the clients' sockets in the epoll set
  events,      \* what is left of the events of the last epoll_wait
  printed,     \* what run and sendMessage wrote to cout
  accepted,    \* how often run wrote "accepted connection", see CountTo
  terminated,  \* per client, how often "connection terminated" was written
  backlog,     \* the clients that have connected and were not accepted
  fds,         \* the clients whose socket holds a descriptor
  sent, taken, \* per client: what it sent, and how much of it was received
  delivered,   \* per client: what the kernel took for it
  read,        \* per client: how much of that it has read
  ended,       \* per client: "no", "closed" by it, or "reset" as the server sees
  joined,      \* history: how much had been printed when it was accepted
  cut          \* history: the clients that a send did not fit for

program == <<clients_, message_buf_, events, printed, accepted, terminated>>
peers == <<backlog, sent, read, ended>>
vars == <<program, peers, watched, fds, taken, delivered, joined, cut>>

Welcome == <<Listen, 0>>
Least(a, b) == IF a <= b THEN a ELSE b

(* "accepted connection" is counted one past the number of clients. *)
CountTo == Cardinality(Clients) + 1

Unread(c) == Len(delivered[c]) - read[c]
Arrived(c) == Len(sent[c]) - taken[c]

-----------------------------------------------------------------------------
(* send with MSG_NOSIGNAL on a non-blocking socket: what does not fit is   *)
(* not sent, and the program does not look.                                *)

FitsFor(c, bytes) == SubSeq(bytes, 1, Least(Room - Unread(c), Len(bytes)))

SendAll(cs, bytes) ==
  LET alive == {c \in cs \ {NoFd} : ended[c] # "reset"}
  IN /\ delivered' = [c \in Clients |-> IF c \in alive THEN delivered[c] \o FitsFor(c, bytes)
                                        ELSE delivered[c]]
     /\ cut' = cut \cup {c \in alive : FitsFor(c, bytes) # bytes}

-----------------------------------------------------------------------------
Without(f, x) == [y \in DOMAIN f \ {x} |-> f[y]]
With(f, x, v) == [y \in DOMAIN f \cup {x} |-> IF y = x THEN v ELSE f[y]]

terminate_KeepsBuffer(c) ==                  \* mutant: message_buf_.erase is forgotten
  /\ clients_' = clients_ \ {c}
  /\ watched' = watched \ {c}
  /\ terminated' = [terminated EXCEPT ![c] = @ + 1]
  /\ UNCHANGED message_buf_

terminate_KeepsWatching(c) ==                \* mutant: EPOLL_CTL_DEL is forgotten
  /\ clients_' = clients_ \ {c}
  /\ message_buf_' = Without(message_buf_, c)
  /\ terminated' = [terminated EXCEPT ![c] = Least(@ + 1, 2)]
  /\ UNCHANGED watched

(* The socket is shut down, not closed: it keeps its descriptor. *)
terminateConnection(c) ==
  /\ clients_' = clients_ \ {c}
  /\ message_buf_' = Without(message_buf_, c)
  /\ watched' = watched \ {c}
  /\ terminated' = [terminated EXCEPT ![c] = @ + 1]

(* recv, of data that comes before the end of the connection. *)
Received(c) ==
  [i \in 1 .. Least(max_buf_size_, Arrived(c)) |-> <<c, taken[c] + i>>]

recvMessage_OnlyEmpty(c) ==                  \* mutant: only a message in one piece is complete
  message_buf_[c] = <<>> /\ LET b == Last(Received(c)) IN sent[b[1]][b[2]]

recvMessage_AnyPiece(c) == TRUE              \* mutant: any piece is taken for a message

(* A message is complete when what was received ends with a newline. *)
recvMessage(c) ==
  /\ Received(c) # <<>>
  /\ LET b == Last(Received(c)) IN sent[b[1]][b[2]]

IsGone_Error(c) == Arrived(c) = 0 /\ ended[c] = "reset"   \* mutant: recv_bytes < 0, for <= 0

IsGone(c) == Arrived(c) = 0

Audience_Others(c) == clients_ \ {c}         \* mutant: the sender is left out

Audience(c) == clients_

(* Events: <<socket, whether it has EPOLLERR or EPOLLHUP>>. *)
Readable(c) == Arrived(c) > 0 \/ ended[c] # "no"

ReadyEvents ==
  {<<c, ended[c] = "reset">> : c \in {d \in watched : Readable(d)}}
  \cup (IF backlog # {} THEN {<<Listen, FALSE>>} ELSE {})

epoll_wait ==
  /\ events = <<>> /\ ReadyEvents # {}
  /\ events' \in SetToSeqs(ReadyEvents)
  /\ UNCHANGED <<clients_, message_buf_, printed, accepted, terminated>>
  /\ UNCHANGED <<peers, watched, fds, taken, delivered, joined, cut>>

Turn(e) == events # <<>> /\ events[1] = e /\ events' = Tail(events)

(* EPOLLERR and EPOLLHUP are looked at first: what has arrived is dropped. *)
HandleHangUp(c) ==
  /\ Turn(<<c, TRUE>>)
  /\ terminateConnection(c)
  /\ UNCHANGED <<printed, accepted, peers, fds, taken, delivered, joined, cut>>

(* What accept returns is not looked at: -1 becomes a client, and          *)
(* "accepted connection" is printed.                                       *)
HandleAccept ==
  /\ Turn(<<Listen, FALSE>>)
  /\ accepted' = Least(accepted + 1, CountTo)
  /\ IF Cardinality(fds) < MaxFds
     THEN \E c \in backlog :
            /\ backlog' = backlog \ {c} /\ fds' = fds \cup {c}
            /\ clients_' = clients_ \cup {c}
            /\ message_buf_' = With(message_buf_, c, <<>>)
            /\ watched' = watched \cup {c}
            /\ delivered' = [delivered EXCEPT ![c] = <<Welcome>>]
            /\ joined' = [joined EXCEPT ![c] = Len(printed)]
     ELSE /\ clients_' = clients_ \cup {NoFd}
          /\ message_buf_' = With(message_buf_, NoFd, <<>>)
          /\ UNCHANGED <<backlog, fds, watched, delivered, joined>>
  /\ UNCHANGED <<printed, terminated, sent, read, ended, taken, cut>>

HandleMessage(c) ==
  /\ Turn(<<c, FALSE>>)
  /\ IF IsGone(c)
     THEN /\ terminateConnection(c)
          /\ UNCHANGED <<printed, taken, delivered, cut>>
     ELSE LET message == message_buf_[c] \o Received(c)
          IN /\ taken' = [taken EXCEPT ![c] = @ + Len(Received(c))]
             /\ IF recvMessage(c)
                THEN /\ SendAll(Audience(c), message)
                     /\ printed' = printed \o message
                     /\ message_buf_' = With(message_buf_, c, <<>>)
                ELSE /\ message_buf_' = With(message_buf_, c, message)
                     /\ UNCHANGED <<printed, delivered, cut>>
             /\ UNCHANGED <<clients_, watched, terminated>>
  /\ UNCHANGED <<accepted, peers, fds, joined>>

-----------------------------------------------------------------------------
(* The clients. *)

ClientConnects(c) ==
  /\ c \notin backlog \cup fds
  /\ Cardinality(backlog \cup (clients_ \cap Clients)) < MaxAtOnce
  /\ backlog' = backlog \cup {c}
  /\ UNCHANGED <<program, sent, read, ended, watched, fds, taken, delivered, joined, cut>>

ClientSends(c, bytes) ==
  /\ c \in backlog \cup fds /\ ended[c] = "no" /\ Len(sent[c]) + Len(bytes) <= MaxSent[c]
  /\ sent' = [sent EXCEPT ![c] = @ \o bytes]
  /\ UNCHANGED <<program, backlog, read, ended, watched, fds, taken, delivered, joined, cut>>

ClientReads(c, n) ==
  /\ ended[c] = "no" /\ Unread(c) >= n
  /\ read' = [read EXCEPT ![c] = @ + n]
  /\ UNCHANGED <<program, backlog, sent, ended, watched, fds, taken, delivered, joined, cut>>

(* Closing with something unread resets the connection. *)
ClientCloses(c) ==
  /\ c \in backlog \cup fds /\ ended[c] = "no"
  /\ ended' = [ended EXCEPT ![c] = IF Unread(c) > 0 THEN "reset" ELSE "closed"]
  /\ UNCHANGED <<program, backlog, sent, read, watched, fds, taken, delivered, joined, cut>>

(* So does what the server sends to a client that has closed. *)
ResetArrives(c) ==
  /\ ended[c] = "closed" /\ Unread(c) > 0
  /\ ended' = [ended EXCEPT ![c] = "reset"]
  /\ UNCHANGED <<program, backlog, sent, read, watched, fds, taken, delivered, joined, cut>>

-----------------------------------------------------------------------------
Init ==
  /\ clients_ = {} /\ message_buf_ = [c \in {} |-> <<>>]
  /\ watched = {} /\ events = <<>> /\ printed = <<>> /\ accepted = 0
  /\ backlog = {} /\ fds = {} /\ cut = {}
  /\ terminated = [c \in Clients |-> 0]
  /\ sent = [c \in Clients |-> <<>>] /\ delivered = [c \in Clients |-> <<>>]
  /\ taken = [c \in Clients |-> 0] /\ read = [c \in Clients |-> 0]
  /\ ended = [c \in Clients |-> "no"]
  /\ joined = [c \in Clients |-> 0]

run ==
  \/ epoll_wait
  \/ HandleAccept
  \/ \E c \in Clients : HandleHangUp(c) \/ HandleMessage(c)

(* A client of its own making: it sends and reads byte by byte. *)
AnyClient(c) ==
  \/ ClientConnects(c)
  \/ \E newline \in BOOLEAN : ClientSends(c, <<newline>>)
  \/ ClientReads(c, 1)
  \/ ClientCloses(c)

Next == run \/ \E c \in Clients : AnyClient(c) \/ ResetArrives(c)

Spec == Init /\ [][Next]_vars

-----------------------------------------------------------------------------
Bytes == UNION {{c} \X (1 .. MaxSent[c]) : c \in Clients}

(* The variables keep their types; there is a message buffer for every     *)
(* client and for nobody else, and it holds bytes of that client.          *)
TypeOK ==
  /\ clients_ \subseteq Clients \cup {NoFd}
  /\ DOMAIN message_buf_ = clients_
  /\ \A c \in clients_ : message_buf_[c] \in Seq({b \in Bytes : b[1] = c})
  /\ watched \subseteq clients_
  /\ printed \in Seq(Bytes)
  /\ \A i \in DOMAIN events : events[i] \in (watched \cup {Listen}) \X BOOLEAN
  /\ \A c \in Clients : /\ taken[c] \in 0 .. Len(sent[c])
                        /\ read[c] \in 0 .. Len(delivered[c])
                        /\ ended[c] \in {"no", "closed", "reset"}

EndsLine(b) == sent[b[1]][b[2]]

(* What the server prints and sends are whole lines: a byte that does not  *)
(* end a line is followed by the next one of the same client, however the  *)
(* bytes of several clients arrive, and no byte is printed twice or out of *)
(* order.  The tests test_nosplit and test_communicate ask for it.         *)
PrintsWholeLines ==
  /\ \A i \in DOMAIN printed :
       ~EndsLine(printed[i]) =>
         /\ i < Len(printed)
         /\ printed[i + 1] = <<printed[i][1], printed[i][2] + 1>>
  /\ \A i, j \in DOMAIN printed :
       i < j /\ printed[i][1] = printed[j][1] => printed[i][2] < printed[j][2]

(* Everybody hears the same: a client for which every send had room has    *)
(* been given the greeting and then all that was printed since it came.    *)
EverybodyHearsAll ==
  \A c \in clients_ \cap Clients :
    c \notin cut /\ ended[c] = "no" =>
      delivered[c] = <<Welcome>> \o SubSeq(printed, joined[c] + 1, Len(printed))

(* "connection terminated" is printed once per client that was accepted    *)
(* and is gone, never for one that is still served.                        *)
TerminatedOnce ==
  \A c \in Clients : terminated[c] = IF c \in fds \ clients_ THEN 1 ELSE 0

(* The test test_read1: what a client sent before it left is printed.      *)
SentBeforeLeavingIsPrinted ==
  \A c \in Clients :
    c \in fds \ clients_ /\ sent[c] # <<>> /\ Last(sent[c]) =>
      \E i \in DOMAIN printed : printed[i] = <<c, Len(sent[c])>>

(* The tests count "accepted connection" to know how many clients there    *)
(* are: it is not printed more often than clients were accepted.           *)
AcceptedAreClients == accepted <= Cardinality(fds)
=============================================================================
