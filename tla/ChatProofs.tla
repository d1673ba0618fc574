----------------------------- MODULE ChatProofs -----------------------------
(***************************************************************************)
(* What is proved of the chat for any number of clients, any buffer sizes  *)
(* and any lines: the safety properties of the server, whatever its        *)
(* clients do, when those that run client.cpp run beside any others.       *)
(*                                                                         *)
(* The inductive invariant has four parts: the types; the batch of events  *)
(* names no socket twice, and none that was terminated; everybody hears    *)
(* the same; a message buffer holds the bytes that were received last.     *)
(***************************************************************************)
EXTENDS ChatClient, SequenceTheorems, FiniteSetTheorems, TLAPS

ByteOf(c) == {b \in Bytes : b[1] = c}

ServerTypes ==
  /\ clients_ \subseteq Clients \cup {NoFd}
  /\ watched = clients_ \cap Clients
  /\ clients_ \cap Clients \subseteq fds
  /\ fds \subseteq Clients /\ backlog \subseteq Clients /\ backlog \cap fds = {}
  /\ DOMAIN message_buf_ = clients_
  /\ \A c \in clients_ : message_buf_[c] \in Seq(ByteOf(c))
  /\ printed \in Seq(Bytes)
  /\ terminated \in [Clients -> Nat]
  /\ joined \in [Clients -> Nat]

KernelTypes ==
  /\ sent \in [Clients -> Seq(BOOLEAN)]
  /\ \A c \in Clients : Len(sent[c]) <= MaxSent[c]
  /\ taken \in [Clients -> Nat]
  /\ \A c \in Clients : taken[c] <= Len(sent[c])
  /\ delivered \in [Clients -> Seq(Bytes \cup {Welcome})]
  /\ read \in [Clients -> Nat]
  /\ \A c \in Clients : read[c] <= Len(delivered[c])
  /\ \A c \in Clients \ fds : delivered[c] = <<>>
  /\ ended \in [Clients -> {"no", "closed", "reset"}]

(* What epoll_wait said names a socket once, and only sockets that are     *)
(* still served.                                                           *)
Sockets == Clients \cup {Listen}

EventsAreLive ==
  /\ events \in Seq(Sockets \X BOOLEAN)
  /\ \A i \in 1 .. Len(events) : events[i][1] \in watched \cup {Listen}
  /\ \A i, j \in 1 .. Len(events) : i # j => events[i][1] # events[j][1]

HearsAll ==
  /\ \A c \in fds : joined[c] <= Len(printed)
  /\ EverybodyHearsAll

(* A message buffer holds what was received last of its client, and what   *)
(* was printed of a client comes before that.                              *)
Held(c) == IF c \in clients_ THEN Len(message_buf_[c]) ELSE 0

BuffersAreTails ==
  \A c \in clients_ \cap Clients :
    /\ Len(message_buf_[c]) <= taken[c]
    /\ \A i \in 1 .. Len(message_buf_[c]) :
         message_buf_[c][i] = <<c, taken[c] - Len(message_buf_[c]) + i>>

PrintedBefore ==
  \A i \in 1 .. Len(printed) :
    printed[i][2] <= taken[printed[i][1]] - Held(printed[i][1])

Whole == BuffersAreTails /\ PrintedBefore /\ PrintsWholeLines

ServerInv == ServerTypes /\ KernelTypes /\ EventsAreLive /\ TerminatedOnce /\ HearsAll /\ Whole

-----------------------------------------------------------------------------
(* The constants that the proofs use, with their types.                    *)
LEMMA Constants ==
  /\ max_buf_size_ \in Nat \ {0} /\ Room \in Nat
  /\ NoFd \notin Clients /\ Listen \notin Clients /\ Listen # NoFd
  /\ MaxSent \in [Clients -> Nat]
  BY ConstantsAssumption

(* Nobody is connected at first.                                           *)
LEMMA ServerInitially == Init => ServerInv
<1> SUFFICES ASSUME Init PROVE ServerInv
  OBVIOUS
<1>1. /\ clients_ = {} /\ DOMAIN message_buf_ = {} /\ watched = {} /\ events = <<>>
      /\ printed = <<>> /\ backlog = {} /\ fds = {}
      /\ terminated = [c \in Clients |-> 0] /\ joined = [c \in Clients |-> 0]
      /\ sent = [c \in Clients |-> <<>>] /\ delivered = [c \in Clients |-> <<>>]
      /\ taken = [c \in Clients |-> 0] /\ read = [c \in Clients |-> 0]
      /\ ended = [c \in Clients |-> "no"]
  BY DEF Init
<1>2. ServerTypes
  BY <1>1 DEF ServerTypes
<1>3. KernelTypes
  BY <1>1, Constants DEF KernelTypes
<1>4. EventsAreLive
  BY <1>1 DEF EventsAreLive
<1>5. TerminatedOnce
  BY <1>1 DEF TerminatedOnce
<1>6. HearsAll
  BY <1>1 DEF HearsAll, EverybodyHearsAll
<1>7. Whole
  BY <1>1 DEF Whole, BuffersAreTails, PrintedBefore, PrintsWholeLines
<1> QED
  BY <1>2, <1>3, <1>4, <1>5, <1>6, <1>7 DEF ServerInv

(* What recv returns: the next bytes of the client. *)
LEMMA ReceivedBytes ==
  ASSUME ServerInv, NEW c \in Clients
  PROVE  /\ Received(c) \in Seq(ByteOf(c))
         /\ Len(Received(c)) = Least(max_buf_size_, Arrived(c))
         /\ Len(Received(c)) \in Nat /\ taken[c] + Len(Received(c)) <= Len(sent[c])
         /\ \A i \in 1 .. Len(Received(c)) : Received(c)[i] = <<c, taken[c] + i>>
<1> DEFINE n == Least(max_buf_size_, Arrived(c))
<1>1. /\ taken[c] \in Nat /\ Len(sent[c]) \in Nat /\ taken[c] <= Len(sent[c])
      /\ Len(sent[c]) <= MaxSent[c] /\ MaxSent[c] \in Nat
  BY Constants, LenProperties DEF ServerInv, KernelTypes
<1>2. n \in Nat /\ taken[c] + n <= Len(sent[c])
  BY <1>1, Constants DEF Least, Arrived
<1>3. \A i \in 1 .. n : <<c, taken[c] + i>> \in ByteOf(c)
  BY <1>1, <1>2 DEF ByteOf, Bytes
<1> HIDE DEF n
<1>4. Received(c) = [i \in 1 .. n |-> <<c, taken[c] + i>>]
  BY DEF Received, n
<1>5. /\ Received(c) \in Seq(ByteOf(c)) /\ Len(Received(c)) = n
      /\ \A i \in 1 .. n : Received(c)[i] = <<c, taken[c] + i>>
  BY <1>2, <1>3, <1>4
<1> QED
  BY <1>2, <1>5 DEF n

(* Whatever is printed was received. *)
LEMMA PrintedTaken ==
  ASSUME ServerInv
  PROVE  \A i \in DOMAIN printed : /\ printed[i][1] \in Clients
                                   /\ printed[i][2] \in 1 .. taken[printed[i][1]]
<1> SUFFICES ASSUME NEW i \in DOMAIN printed
             PROVE  /\ printed[i][1] \in Clients
                    /\ printed[i][2] \in 1 .. taken[printed[i][1]]
  OBVIOUS
<1>1. printed \in Seq(Bytes) /\ i \in 1 .. Len(printed)
  BY DEF ServerInv, ServerTypes
<1>2. printed[i] \in Bytes
  BY <1>1
<1>3. printed[i][1] \in Clients /\ printed[i][2] \in Nat \ {0}
  BY <1>2, Constants DEF Bytes
<1>4. printed[i][2] <= taken[printed[i][1]] - Held(printed[i][1])
  BY <1>1 DEF ServerInv, Whole, PrintedBefore
<1>5. taken[printed[i][1]] \in Nat
  BY <1>3 DEF ServerInv, KernelTypes
<1>6. Held(printed[i][1]) \in Nat
  BY LenProperties DEF ServerInv, ServerTypes, Held
<1> QED
  BY <1>3, <1>4, <1>5, <1>6

-----------------------------------------------------------------------------
(* What the clients do. *)

(* A client that connects waits in the kernel.                             *)
LEMMA ConnectsKeeps ==
  ASSUME ServerInv, NEW c \in Clients, ClientConnects(c)
  PROVE  ServerInv'
<1>1. /\ c \notin fds /\ backlog' = backlog \cup {c}
      /\ UNCHANGED <<program, sent, read, ended, watched, fds, taken, delivered, joined, cut>>
  BY DEF ClientConnects
<1>2. ServerTypes'
  BY <1>1 DEF ServerInv, ServerTypes, ByteOf, Bytes, program
<1>3. KernelTypes'
  BY <1>1 DEF ServerInv, KernelTypes, Bytes
<1>4. EventsAreLive'
  BY <1>1 DEF ServerInv, EventsAreLive, Sockets, program
<1>5. TerminatedOnce' /\ HearsAll'
  BY <1>1 DEF ServerInv, TerminatedOnce, HearsAll, EverybodyHearsAll, program
<1>6. Whole'
  BY <1>1 DEF ServerInv, Whole, BuffersAreTails, PrintedBefore, PrintsWholeLines, Held, EndsLine, program
<1> QED
  BY <1>2, <1>3, <1>4, <1>5, <1>6 DEF ServerInv

(* A client that reads makes room, and no more.                            *)
LEMMA ReadsKeeps ==
  ASSUME ServerInv, NEW c \in Clients, NEW n \in Nat, ClientReads(c, n)
  PROVE  ServerInv'
<1>1. /\ Unread(c) >= n /\ read' = [read EXCEPT ![c] = @ + n]
      /\ UNCHANGED <<program, backlog, sent, ended, watched, fds, taken, delivered, joined, cut>>
  BY DEF ClientReads
<1>2. ServerTypes'
  BY <1>1 DEF ServerInv, ServerTypes, ByteOf, Bytes, program
<1>3. KernelTypes'
  <2>1. /\ read \in [Clients -> Nat] /\ delivered \in [Clients -> Seq(Bytes \cup {Welcome})]
        /\ \A d \in Clients : read[d] <= Len(delivered[d])
    BY DEF ServerInv, KernelTypes
  <2>2. read'[c] = read[c] + n /\ \A d \in Clients \ {c} : read'[d] = read[d]
    BY <1>1, <2>1
  <2>3. Len(delivered[c]) \in Nat /\ read[c] + n <= Len(delivered[c])
    BY <1>1, <2>1, LenProperties DEF Unread
  <2>4. read' \in [Clients -> Nat] /\ \A d \in Clients : read'[d] <= Len(delivered[d])
    BY <1>1, <2>1, <2>2, <2>3
  <2> QED
    BY <1>1, <2>4 DEF ServerInv, KernelTypes, Bytes
<1>4. EventsAreLive'
  BY <1>1 DEF ServerInv, EventsAreLive, Sockets, program
<1>5. TerminatedOnce' /\ HearsAll'
  BY <1>1 DEF ServerInv, TerminatedOnce, HearsAll, EverybodyHearsAll, program
<1>6. Whole'
  BY <1>1 DEF ServerInv, Whole, BuffersAreTails, PrintedBefore, PrintsWholeLines, Held, EndsLine, program
<1> QED
  BY <1>2, <1>3, <1>4, <1>5, <1>6 DEF ServerInv

(* A client that closes, or whose connection is reset. *)
LEMMA EndsKeeps ==
  ASSUME ServerInv, NEW c \in Clients, ClientCloses(c) \/ ResetArrives(c)
  PROVE  ServerInv'
<1>1. /\ \E v \in {"closed", "reset"} : ended' = [ended EXCEPT ![c] = v]
      /\ UNCHANGED <<program, backlog, sent, read, watched, fds, taken, delivered, joined, cut>>
  BY DEF ClientCloses, ResetArrives
<1>2. ServerTypes'
  BY <1>1 DEF ServerInv, ServerTypes, ByteOf, Bytes, program
<1>3. KernelTypes'
  BY <1>1 DEF ServerInv, KernelTypes, Bytes
<1>4. EventsAreLive'
  BY <1>1 DEF ServerInv, EventsAreLive, Sockets, program
<1>5. TerminatedOnce'
  BY <1>1 DEF ServerInv, TerminatedOnce, program
<1>6. HearsAll'
  <2>1. \A d \in Clients : ended'[d] = "no" => ended[d] = "no"
    BY <1>1 DEF ServerInv, KernelTypes
  <2> QED
    BY <1>1, <2>1 DEF ServerInv, HearsAll, EverybodyHearsAll, program
<1>7. Whole'
  BY <1>1 DEF ServerInv, Whole, BuffersAreTails, PrintedBefore, PrintsWholeLines, Held, EndsLine, program
<1> QED
  BY <1>2, <1>3, <1>4, <1>5, <1>6, <1>7 DEF ServerInv

(* What is sent later does not change whether an earlier byte ends a line. *)
LEMMA SendsKeeps ==
  ASSUME ServerInv, NEW c \in Clients, NEW bytes \in Seq(BOOLEAN), ClientSends(c, bytes)
  PROVE  ServerInv'
<1>1. /\ Len(sent[c]) + Len(bytes) <= MaxSent[c]
      /\ sent' = [sent EXCEPT ![c] = @ \o bytes]
      /\ UNCHANGED <<program, backlog, read, ended, watched, fds, taken, delivered, joined, cut>>
  BY DEF ClientSends
<1>2. /\ sent \in [Clients -> Seq(BOOLEAN)] /\ taken \in [Clients -> Nat]
      /\ \A d \in Clients : Len(sent[d]) <= MaxSent[d] /\ taken[d] <= Len(sent[d])
  BY DEF ServerInv, KernelTypes
<1>3. sent'[c] = sent[c] \o bytes /\ \A d \in Clients \ {c} : sent'[d] = sent[d]
  BY <1>1, <1>2
<1>4. /\ sent[c] \o bytes \in Seq(BOOLEAN)
      /\ Len(sent[c] \o bytes) = Len(sent[c]) + Len(bytes) /\ Len(bytes) \in Nat
      /\ \A k \in 1 .. Len(sent[c]) : (sent[c] \o bytes)[k] = sent[c][k]
  BY <1>2, ConcatProperties, LenProperties
<1>5. \A d \in Clients : \A k \in 1 .. taken[d] : sent'[d][k] = sent[d][k]
  <2> SUFFICES ASSUME NEW d \in Clients, NEW k \in 1 .. taken[d] PROVE sent'[d][k] = sent[d][k]
    OBVIOUS
  <2>1. k \in 1 .. Len(sent[d])
    BY <1>2, LenProperties
  <2> QED
    BY <2>1, <1>3, <1>4
<1>6. ServerTypes'
  BY <1>1 DEF ServerInv, ServerTypes, ByteOf, Bytes, program
<1>7. KernelTypes'
  <2>1. sent' \in [Clients -> Seq(BOOLEAN)]
    BY <1>1, <1>2, <1>4
  <2>2. \A d \in Clients : Len(sent'[d]) <= MaxSent[d] /\ taken[d] <= Len(sent'[d])
    <3> SUFFICES ASSUME NEW d \in Clients
                 PROVE  Len(sent'[d]) <= MaxSent[d] /\ taken[d] <= Len(sent'[d])
      OBVIOUS
    <3>1. Len(sent[d]) \in Nat /\ taken[d] \in Nat
      BY <1>2, LenProperties
    <3>2. CASE d = c
      BY <3>1, <3>2, <1>1, <1>2, <1>3, <1>4
    <3>3. CASE d # c
      BY <3>3, <1>2, <1>3
    <3> QED
      BY <3>2, <3>3
  <2> QED
    BY <1>1, <2>1, <2>2 DEF ServerInv, KernelTypes, Bytes
<1>8. EventsAreLive'
  BY <1>1 DEF ServerInv, EventsAreLive, Sockets, program
<1>9. TerminatedOnce' /\ HearsAll'
  BY <1>1 DEF ServerInv, TerminatedOnce, HearsAll, EverybodyHearsAll, program
<1>10. BuffersAreTails' /\ PrintedBefore'
  BY <1>1 DEF ServerInv, Whole, BuffersAreTails, PrintedBefore, Held, program
<1>11. PrintsWholeLines'
  <2>1. \A i \in DOMAIN printed : EndsLine(printed[i])' = EndsLine(printed[i])
    <3> SUFFICES ASSUME NEW i \in DOMAIN printed
                 PROVE  EndsLine(printed[i])' = EndsLine(printed[i])
      OBVIOUS
    <3>1. PICK d \in Clients : printed[i][1] = d /\ printed[i][2] \in 1 .. taken[d]
      BY PrintedTaken
    <3> QED
      BY <1>1, <1>5, <3>1 DEF EndsLine, program
  <2> QED
    BY <1>1, <2>1 DEF ServerInv, Whole, PrintsWholeLines, program
<1> QED
  BY <1>6, <1>7, <1>8, <1>9, <1>10, <1>11 DEF ServerInv, Whole

-----------------------------------------------------------------------------
(* The server's loop. *)

(* A batch names sockets that are served, each once.                       *)
LEMMA EpollWaitKeeps ==
  ASSUME ServerInv, epoll_wait
  PROVE  ServerInv'
<1>1. /\ events' \in SetToSeqs(ReadyEvents)
      /\ UNCHANGED <<clients_, message_buf_, printed, accepted, terminated>>
      /\ UNCHANGED <<peers, watched, fds, taken, delivered, joined, cut>>
  BY DEF epoll_wait
<1>2. ServerTypes'
  BY <1>1 DEF ServerInv, ServerTypes, ByteOf, Bytes, peers
<1>3. KernelTypes'
  BY <1>1 DEF ServerInv, KernelTypes, Bytes, peers
<1>4. EventsAreLive'
  <2>1. watched \subseteq Clients
    BY DEF ServerInv, ServerTypes
  <2>2. /\ ReadyEvents \subseteq (watched \cup {Listen}) \X BOOLEAN
        /\ \A e, f \in ReadyEvents : e[1] = f[1] => e = f
    <3> DEFINE Reset(c) == ended[c] = "reset"
    <3>0. \A c \in watched : Reset(c) \in BOOLEAN
      OBVIOUS
    <3>1. \A e \in ReadyEvents : \/ \E c \in watched : e = <<c, Reset(c)>>
                                 \/ e = <<Listen, FALSE>>
      BY DEF ReadyEvents
    <3> HIDE DEF Reset
    <3>2. \A e \in ReadyEvents : e \in (watched \cup {Listen}) \X BOOLEAN
      <4> SUFFICES ASSUME NEW e \in ReadyEvents
                   PROVE  e \in (watched \cup {Listen}) \X BOOLEAN
        OBVIOUS
      <4>1. CASE e = <<Listen, FALSE>>
        BY <4>1
      <4>2. CASE \E c \in watched : e = <<c, Reset(c)>>
        <5>1. PICK c \in watched : e = <<c, Reset(c)>>
          BY <4>2
        <5>2. Reset(c) \in BOOLEAN /\ c \in watched \cup {Listen}
          BY <3>0
        <5> QED
          BY <5>1, <5>2
      <4> QED
        BY <3>1, <4>1, <4>2
    <3>3. \A e, f \in ReadyEvents : e[1] = f[1] => e = f
      <4> SUFFICES ASSUME NEW e \in ReadyEvents, NEW f \in ReadyEvents, e[1] = f[1]
                   PROVE  e = f
        OBVIOUS
      <4>1. CASE e[1] = Listen
        <5>1. \A c \in watched : <<c, Reset(c)>>[1] # Listen
          BY <2>1, Constants
        <5> QED
          BY <3>1, <4>1, <5>1
      <4>2. CASE e[1] # Listen
        <5>1. /\ \E c \in watched : e = <<c, Reset(c)>>
              /\ \E c \in watched : f = <<c, Reset(c)>>
          <6>1. <<Listen, FALSE>>[1] = Listen
            OBVIOUS
          <6>2. e # <<Listen, FALSE>>
            BY <4>2, <6>1, Zenon
          <6>3. f # <<Listen, FALSE>>
            BY <4>2, <6>1, Zenon
          <6> QED
            BY <3>1, <6>2, <6>3
        <5> QED
          BY <5>1
      <4> QED
        BY <4>1, <4>2
    <3> QED
      BY <3>2, <3>3
  <2>3. IsFiniteSet(ReadyEvents)
    <3>1. IsFiniteSet(Clients \cup {Listen})
      BY ConstantsAssumption, FS_AddElement
    <3>2. IsFiniteSet(BOOLEAN)
      <4>1. IsFiniteSet({TRUE})
        BY FS_Singleton
      <4>2. IsFiniteSet({TRUE} \cup {FALSE})
        BY <4>1, FS_AddElement
      <4>3. BOOLEAN = {TRUE} \cup {FALSE}
        OBVIOUS
      <4> QED
        BY <4>2, <4>3
    <3>3. IsFiniteSet((Clients \cup {Listen}) \X BOOLEAN)
      BY <3>1, <3>2, FS_Product
    <3>4. ReadyEvents \in SUBSET ((Clients \cup {Listen}) \X BOOLEAN)
      BY <2>1, <2>2
    <3> QED
      BY <3>3, <3>4, FS_Subset
  <2> DEFINE n == Cardinality(ReadyEvents)
  <2>4. n \in Nat
    BY <2>3, FS_CardinalityType
  <2>5. /\ events' \in [1 .. n -> ReadyEvents]
        /\ \A i, j \in 1 .. n : i # j => events'[i] # events'[j]
    BY <1>1 DEF SetToSeqs
  <2> HIDE DEF n
  <2>6. /\ events' \in Seq(ReadyEvents) /\ Len(events') = n
    BY <2>4, <2>5
  <2>7. \A i \in 1 .. n : events'[i] \in ReadyEvents
    BY <2>5
  <2>8. \A i, j \in 1 .. n : i # j => events'[i][1] # events'[j][1]
    BY <2>2, <2>5, <2>7
  <2>9. events' \in Seq(Sockets \X BOOLEAN)
    <3>1. ReadyEvents \subseteq Sockets \X BOOLEAN
      BY <2>1, <2>2 DEF Sockets
    <3>2. events' \in [1 .. n -> Sockets \X BOOLEAN]
      BY <3>1, <2>5
    <3> QED
      BY <3>2, <2>4
  <2> QED
    BY <1>1, <2>2, <2>6, <2>7, <2>8, <2>9 DEF EventsAreLive, Sockets
<1>5. TerminatedOnce' /\ HearsAll'
  BY <1>1 DEF ServerInv, TerminatedOnce, HearsAll, EverybodyHearsAll, peers
<1>6. Whole'
  BY <1>1 DEF ServerInv, Whole, BuffersAreTails, PrintedBefore, PrintsWholeLines, Held, EndsLine, peers
<1> QED
  BY <1>2, <1>3, <1>4, <1>5, <1>6 DEF ServerInv

(* The event that is handled is of a socket that is served, and no other   *)
(* event of the batch is of that socket.                                   *)
LEMMA TurnTakes ==
  ASSUME ServerInv, NEW s, NEW b, Turn(<<s, b>>)
  PROVE  /\ s \in watched \cup {Listen}
         /\ events' \in Seq(Sockets \X BOOLEAN)
         /\ \A i \in 1 .. Len(events') : events'[i][1] \in (watched \cup {Listen}) \ {s}
         /\ \A i, j \in 1 .. Len(events') : i # j => events'[i][1] # events'[j][1]
<1>1. events # <<>> /\ events[1] = <<s, b>> /\ events' = Tail(events)
  BY DEF Turn
<1>2. /\ events \in Seq(Sockets \X BOOLEAN)
      /\ \A i \in 1 .. Len(events) : events[i][1] \in watched \cup {Listen}
      /\ \A i, j \in 1 .. Len(events) : i # j => events[i][1] # events[j][1]
  BY DEF ServerInv, EventsAreLive
<1>3. /\ events' \in Seq(Sockets \X BOOLEAN) /\ Len(events') = Len(events) - 1
      /\ \A i \in 1 .. Len(events') : events'[i] = events[i + 1]
  BY <1>1, <1>2, HeadTailProperties
<1>4. Len(events) \in Nat \ {0}
  BY <1>1, <1>2, LenProperties, EmptySeq
<1>5. s \in watched \cup {Listen}
  BY <1>1, <1>2, <1>4
<1>6. \A i \in 1 .. Len(events') : i + 1 \in 1 .. Len(events) /\ i + 1 # 1
  BY <1>3, <1>4
<1>7. 1 \in 1 .. Len(events) /\ events[1][1] = s
  BY <1>1, <1>4
<1>8. \A i \in 1 .. Len(events') : events'[i][1] \in (watched \cup {Listen}) \ {s}
  <2> SUFFICES ASSUME NEW i \in 1 .. Len(events')
               PROVE  events'[i][1] \in (watched \cup {Listen}) \ {s}
    OBVIOUS
  <2>1. i + 1 \in 1 .. Len(events) /\ i + 1 # 1 /\ events'[i] = events[i + 1]
    BY <1>3, <1>6
  <2> QED
    BY <1>2, <1>7, <2>1
<1>9. \A i, j \in 1 .. Len(events') : i # j => events'[i][1] # events'[j][1]
  <2> SUFFICES ASSUME NEW i \in 1 .. Len(events'), NEW j \in 1 .. Len(events'), i # j
               PROVE  events'[i][1] # events'[j][1]
    OBVIOUS
  <2>1. /\ i + 1 \in 1 .. Len(events) /\ events'[i] = events[i + 1]
        /\ j + 1 \in 1 .. Len(events) /\ events'[j] = events[j + 1]
    BY <1>3, <1>6
  <2>2. i + 1 # j + 1
    BY <1>3
  <2> QED
    BY <1>2, <2>1, <2>2
<1> QED
  BY <1>3, <1>5, <1>8, <1>9

(* Whoever is terminated is forgotten, with its buffer and its events.     *)
LEMMA TerminateKeeps ==
  ASSUME ServerInv, NEW c \in Clients, NEW b, Turn(<<c, b>>), terminateConnection(c),
         UNCHANGED <<printed, peers, fds, taken, delivered, joined, cut>>
  PROVE  ServerInv'
<1>1. /\ clients_' = clients_ \ {c} /\ message_buf_' = Without(message_buf_, c)
      /\ watched' = watched \ {c} /\ terminated' = [terminated EXCEPT ![c] = @ + 1]
  BY DEF terminateConnection
<1>2. c \in watched
  BY TurnTakes, Constants
<1>3. c \in clients_ /\ c \in fds /\ terminated \in [Clients -> Nat]
  BY <1>2 DEF ServerInv, ServerTypes
<1>4. /\ DOMAIN message_buf_' = clients_'
      /\ \A d \in clients_' : message_buf_'[d] = message_buf_[d]
  BY <1>1 DEF Without, ServerInv, ServerTypes
<1>5. ServerTypes'
  <2>1. \A d \in clients_' : message_buf_'[d] \in Seq(ByteOf(d))
    BY <1>1, <1>4 DEF ServerInv, ServerTypes
  <2>2. terminated' \in [Clients -> Nat]
    BY <1>1, <1>3
  <2> QED
    BY <1>1, <1>4, <2>1, <2>2 DEF ServerInv, ServerTypes, ByteOf, Bytes, peers
<1>6. KernelTypes'
  BY DEF ServerInv, KernelTypes, Bytes, peers
<1>7. EventsAreLive'
  <2>1. \A i \in 1 .. Len(events') : events'[i][1] \in watched' \cup {Listen}
    BY <1>1, TurnTakes
  <2> QED
    BY <2>1, TurnTakes DEF EventsAreLive, Sockets
<1>8. TerminatedOnce'
  <2>1. terminated[c] = 0
    BY <1>3 DEF ServerInv, TerminatedOnce
  <2>2. terminated'[c] = 1 /\ \A d \in Clients \ {c} : terminated'[d] = terminated[d]
    BY <1>1, <1>3, <2>1
  <2>3. c \in fds' \ clients_'
    BY <1>1, <1>3
  <2>4. \A d \in Clients \ {c} : d \in fds' \ clients_' <=> d \in fds \ clients_
    BY <1>1
  <2> QED
    BY <2>2, <2>3, <2>4 DEF ServerInv, TerminatedOnce
<1>9. HearsAll'
  BY <1>1 DEF ServerInv, HearsAll, EverybodyHearsAll, peers
<1>10. BuffersAreTails'
  BY <1>1, <1>4 DEF ServerInv, Whole, BuffersAreTails
<1>11. PrintedBefore'
  <2>1. \A d \in Clients : Held(d)' <= Held(d) /\ Held(d)' \in Nat /\ Held(d) \in Nat
    BY <1>1, <1>4, LenProperties DEF ServerInv, ServerTypes, Held
  <2>2. \A i \in 1 .. Len(printed) : printed[i][1] \in Clients /\ printed[i][2] \in Nat
    <3>1. printed \in Seq(Bytes)
      BY DEF ServerInv, ServerTypes
    <3>2. \A i \in 1 .. Len(printed) : i \in DOMAIN printed
      BY <3>1
    <3> QED
      BY <3>2, PrintedTaken
  <2>3. \A d \in Clients : taken[d] \in Nat
    BY DEF ServerInv, KernelTypes
  <2>4. \A i \in 1 .. Len(printed) : printed[i][2] <= taken[printed[i][1]] - Held(printed[i][1])
    BY DEF ServerInv, Whole, PrintedBefore
  <2>5. \A i \in 1 .. Len(printed) : printed[i][2] <= taken[printed[i][1]] - Held(printed[i][1])'
    <3> SUFFICES ASSUME NEW i \in 1 .. Len(printed)
                 PROVE  printed[i][2] <= taken[printed[i][1]] - Held(printed[i][1])'
      OBVIOUS
    <3> DEFINE d == printed[i][1]
    <3>1. d \in Clients /\ printed[i][2] \in Nat /\ printed[i][2] <= taken[d] - Held(d)
      BY <2>2, <2>4
    <3>2. Held(d)' <= Held(d) /\ Held(d)' \in Nat /\ Held(d) \in Nat /\ taken[d] \in Nat
      BY <3>1, <2>1, <2>3
    <3> QED
      BY <3>1, <3>2
  <2> QED
    BY <2>5 DEF PrintedBefore
<1>12. PrintsWholeLines'
  BY DEF ServerInv, Whole, PrintsWholeLines, EndsLine, peers
<1> QED
  BY <1>5, <1>6, <1>7, <1>8, <1>9, <1>10, <1>11, <1>12 DEF ServerInv, Whole

(* An event of a connection that is gone.                                  *)
LEMMA HangUpKeeps ==
  ASSUME ServerInv, NEW c \in Clients, HandleHangUp(c)
  PROVE  ServerInv'
  BY TerminateKeeps DEF HandleHangUp

(* The client that is accepted has been given nothing and has no buffer.   *)
LEMMA AcceptedKeeps ==
  ASSUME ServerInv, NEW c \in backlog, Turn(<<Listen, FALSE>>),
         backlog' = backlog \ {c}, fds' = fds \cup {c}, clients_' = clients_ \cup {c},
         message_buf_' = With(message_buf_, c, <<>>), watched' = watched \cup {c},
         delivered' = [delivered EXCEPT ![c] = <<Welcome>>],
         joined' = [joined EXCEPT ![c] = Len(printed)],
         UNCHANGED <<printed, terminated, sent, read, ended, taken, cut>>
  PROVE  ServerInv'
<1>1. c \in Clients /\ c \notin fds /\ c \notin clients_
  BY DEF ServerInv, ServerTypes
<1>2. /\ DOMAIN message_buf_' = clients_' /\ message_buf_'[c] = <<>>
      /\ \A d \in clients_ : message_buf_'[d] = message_buf_[d]
  BY <1>1 DEF With, ServerInv, ServerTypes
<1>3. /\ delivered \in [Clients -> Seq(Bytes \cup {Welcome})] /\ joined \in [Clients -> Nat]
      /\ delivered[c] = <<>> /\ read \in [Clients -> Nat]
      /\ \A d \in Clients : read[d] <= Len(delivered[d])
  BY <1>1 DEF ServerInv, ServerTypes, KernelTypes
<1>4. printed \in Seq(Bytes) /\ Len(printed) \in Nat
  BY LenProperties DEF ServerInv, ServerTypes
<1>5. /\ delivered'[c] = <<Welcome>> /\ joined'[c] = Len(printed)
      /\ \A d \in Clients \ {c} : delivered'[d] = delivered[d] /\ joined'[d] = joined[d]
  BY <1>1, <1>3
<1>6. ServerTypes'
  <2>1. joined' \in [Clients -> Nat]
    BY <1>3, <1>4
  <2>2. \A d \in clients_' : message_buf_'[d] \in Seq(ByteOf(d))
    <3>1. <<>> \in Seq(ByteOf(c)) /\ \A d \in clients_ : message_buf_[d] \in Seq(ByteOf(d))
      BY DEF ServerInv, ServerTypes
    <3>2. \A d \in clients_' : d = c \/ d \in clients_
      OBVIOUS
    <3> QED
      BY <1>2, <3>1, <3>2
  <2> QED
    BY <1>1, <1>2, <2>1, <2>2 DEF ServerInv, ServerTypes, ByteOf, Bytes
<1>7. KernelTypes'
  <2>1. <<Welcome>> \in Seq(Bytes \cup {Welcome}) /\ Len(<<Welcome>>) = 1
    OBVIOUS
  <2>2. delivered' \in [Clients -> Seq(Bytes \cup {Welcome})]
    BY <1>3, <2>1
  <2>3. read[c] = 0
    BY <1>1, <1>3
  <2>4. \A d \in Clients : read[d] <= Len(delivered'[d])
    BY <1>3, <1>5, <2>1, <2>3
  <2>5. \A d \in Clients \ fds' : delivered'[d] = <<>>
    BY <1>5 DEF ServerInv, KernelTypes
  <2> QED
    BY <2>2, <2>4, <2>5 DEF ServerInv, KernelTypes, Bytes, Welcome
<1>8. EventsAreLive'
  BY TurnTakes DEF EventsAreLive, Sockets
<1>9. TerminatedOnce'
  BY <1>1 DEF ServerInv, TerminatedOnce
<1>10. HearsAll'
  <2>1. \A d \in fds' : joined'[d] <= Len(printed)
    BY <1>4, <1>5 DEF ServerInv, ServerTypes, HearsAll
  <2>2. delivered'[c] = <<Welcome>> \o SubSeq(printed, joined'[c] + 1, Len(printed))
    <3>1. SubSeq(printed, Len(printed) + 1, Len(printed)) = <<>>
      BY <1>4, SubSeqEmpty
    <3>2. <<Welcome>> \o <<>> = <<Welcome>>
      OBVIOUS
    <3> QED
      BY <1>5, <3>1, <3>2
  <2>3. ASSUME NEW d \in clients_' \cap Clients, d \notin cut, ended[d] = "no"
        PROVE  delivered'[d] = <<Welcome>> \o SubSeq(printed, joined'[d] + 1, Len(printed))
    <3>1. CASE d = c
      BY <3>1, <2>2
    <3>2. CASE d # c
      BY <3>2, <2>3, <1>5 DEF ServerInv, HearsAll, EverybodyHearsAll
    <3> QED
      BY <3>1, <3>2
  <2> QED
    BY <2>1, <2>3 DEF HearsAll, EverybodyHearsAll, Welcome
<1>11. BuffersAreTails'
  <2>1. ASSUME NEW d \in clients_' \cap Clients
        PROVE  /\ Len(message_buf_'[d]) <= taken[d]
               /\ \A i \in 1 .. Len(message_buf_'[d]) :
                    message_buf_'[d][i] = <<d, (taken[d] - Len(message_buf_'[d])) + i>>
    <3>1. CASE d = c
      BY <3>1, <1>1, <1>2 DEF ServerInv, KernelTypes
    <3>2. CASE d # c
      BY <3>2, <1>2 DEF ServerInv, Whole, BuffersAreTails
    <3> QED
      BY <3>1, <3>2
  <2> QED
    BY <2>1 DEF BuffersAreTails
<1>12. PrintedBefore' /\ PrintsWholeLines'
  <2>1. \A d \in Clients : Held(d)' = Held(d)
    BY <1>1, <1>2 DEF Held
  <2>2. \A i \in 1 .. Len(printed) : printed[i][1] \in Clients
    BY <1>4, PrintedTaken
  <2> QED
    BY <2>1, <2>2 DEF ServerInv, Whole, PrintedBefore, PrintsWholeLines, EndsLine
<1> QED
  BY <1>6, <1>7, <1>8, <1>9, <1>10, <1>11, <1>12 DEF ServerInv, Whole

(* An event of the listening socket.                                       *)
LEMMA AcceptKeeps ==
  ASSUME ServerInv, HandleAccept
  PROVE  ServerInv'
<1>1. CASE Cardinality(fds) < MaxFds
  BY <1>1, AcceptedKeeps DEF HandleAccept
<1>2. CASE ~(Cardinality(fds) < MaxFds)
  <2>1. /\ Turn(<<Listen, FALSE>>) /\ clients_' = clients_ \cup {NoFd}
        /\ message_buf_' = With(message_buf_, NoFd, <<>>)
        /\ UNCHANGED <<backlog, fds, watched, delivered, joined,
                       printed, terminated, sent, read, ended, taken, cut>>
    BY <1>2 DEF HandleAccept
  <2>2. clients_' \cap Clients = clients_ \cap Clients
    BY <2>1, Constants
  <2>3. /\ DOMAIN message_buf_' = clients_' /\ message_buf_'[NoFd] = <<>>
        /\ \A d \in clients_ \cap Clients : message_buf_'[d] = message_buf_[d]
    BY <2>1, Constants DEF With, ServerInv, ServerTypes
  <2>4. ServerTypes'
    <3>1. \A d \in clients_' : message_buf_'[d] \in Seq(ByteOf(d))
      <4>1. /\ <<>> \in Seq(ByteOf(NoFd))
            /\ \A d \in clients_ : message_buf_[d] \in Seq(ByteOf(d))
            /\ clients_ \subseteq Clients \cup {NoFd}
        BY DEF ServerInv, ServerTypes
      <4>2. \A d \in clients_' : d = NoFd \/ d \in clients_ \cap Clients
        BY <2>1, <4>1
      <4> QED
        BY <2>3, <4>1, <4>2
    <3> QED
      BY <2>1, <2>2, <2>3, <3>1 DEF ServerInv, ServerTypes, ByteOf, Bytes
  <2>5. KernelTypes'
    BY <2>1 DEF ServerInv, KernelTypes, Bytes
  <2>6. EventsAreLive'
    BY <2>1, TurnTakes DEF EventsAreLive, Sockets
  <2>7. TerminatedOnce'
    BY <2>1, Constants DEF ServerInv, ServerTypes, TerminatedOnce
  <2>8. HearsAll'
    BY <2>1, <2>2 DEF ServerInv, HearsAll, EverybodyHearsAll
  <2>9. BuffersAreTails'
    BY <2>1, <2>2, <2>3 DEF ServerInv, Whole, BuffersAreTails
  <2>10. PrintedBefore' /\ PrintsWholeLines'
    <3>1. \A d \in Clients : Held(d)' = Held(d)
      BY <2>1, <2>2, <2>3 DEF Held
    <3>2. \A i \in 1 .. Len(printed) : i \in DOMAIN printed
      BY DEF ServerInv, ServerTypes
    <3>3. \A i \in 1 .. Len(printed) : printed[i][1] \in Clients
      BY <3>2, PrintedTaken
    <3> QED
      BY <2>1, <3>1, <3>3 DEF ServerInv, Whole, PrintedBefore, PrintsWholeLines, EndsLine
  <2> QED
    BY <2>4, <2>5, <2>6, <2>7, <2>8, <2>9, <2>10 DEF ServerInv, Whole
<1> QED
  BY <1>1, <1>2

(* The end of a sequence grows with it.                                    *)
LEMMA EndOfConcat ==
  ASSUME NEW S, NEW s \in Seq(S), NEW t \in Seq(S), NEW n \in Nat, n <= Len(s)
  PROVE  SubSeq(s \o t, n + 1, Len(s \o t)) = SubSeq(s, n + 1, Len(s)) \o t
<1> DEFINE a == SubSeq(s \o t, n + 1, Len(s \o t))
           b == SubSeq(s, n + 1, Len(s))
<1>1. Len(s) \in Nat /\ Len(t) \in Nat
  BY LenProperties
<1>2. /\ s \o t \in Seq(S) /\ Len(s \o t) = Len(s) + Len(t)
      /\ \A i \in 1 .. Len(s) + Len(t) : (s \o t)[i] = IF i <= Len(s) THEN s[i] ELSE t[i - Len(s)]
  BY ConcatProperties
<1>3. a \in Seq(S) /\ Len(a) = (Len(s) + Len(t)) - n
      /\ \A i \in 1 .. (Len(s) + Len(t)) - n : a[i] = (s \o t)[n + i]
  <2> DEFINE st == s \o t
             l == Len(s) + Len(t)
  <2>1. Len(st) = l /\ \A i \in 1 .. l : st[i] \in S
    BY <1>2, ElementOfSeq
  <2>2. n + 1 \in Int /\ l \in Nat
    BY <1>1
  <2>3. a = SubSeq(st, n + 1, l)
    BY <1>2
  <2> HIDE DEF st, l, a
  <2>4. \A i \in n + 1 .. l : st[i] \in S
    BY <2>1, <2>2
  <2>5. /\ a \in Seq(S)
        /\ Len(a) = IF n + 1 <= l THEN (l - (n + 1)) + 1 ELSE 0
        /\ \A i \in 1 .. (l - (n + 1)) + 1 : a[i] = st[((n + 1) + i) - 1]
    BY <2>2, <2>3, <2>4, SubSeqProperties
  <2>6. n <= l
    BY <1>1 DEF l
  <2>7. /\ a \in Seq(S) /\ Len(a) = l - n
        /\ \A i \in 1 .. l - n : a[i] = st[n + i]
    BY <2>2, <2>5, <2>6
  <2> QED
    BY <2>7 DEF st, l
<1>4. b \in Seq(S) /\ Len(b) = Len(s) - n /\ \A i \in 1 .. Len(s) - n : b[i] = s[n + i]
  <2>1. \A i \in n + 1 .. Len(s) : s[i] \in S
    BY <1>1, ElementOfSeq
  <2>2. n + 1 \in Int /\ Len(s) \in Int
    BY <1>1
  <2>3. /\ b \in Seq(S)
        /\ Len(b) = IF n + 1 <= Len(s) THEN (Len(s) - (n + 1)) + 1 ELSE 0
        /\ \A i \in 1 .. (Len(s) - (n + 1)) + 1 : b[i] = s[((n + 1) + i) - 1]
    BY <2>1, <2>2, SubSeqProperties
  <2> QED
    BY <1>1, <2>3
<1> HIDE DEF a, b
<1>5. /\ b \o t \in Seq(S) /\ Len(b \o t) = Len(b) + Len(t)
      /\ \A i \in 1 .. Len(b) + Len(t) : (b \o t)[i] = IF i <= Len(b) THEN b[i] ELSE t[i - Len(b)]
  BY <1>4, ConcatProperties
<1>6. Len(a) = Len(b \o t)
  BY <1>1, <1>3, <1>4, <1>5
<1>7. \A i \in 1 .. Len(a) : a[i] = (b \o t)[i]
  <2> SUFFICES ASSUME NEW i \in 1 .. Len(a) PROVE a[i] = (b \o t)[i]
    OBVIOUS
  <2>1. /\ i \in 1 .. (Len(s) + Len(t)) - n /\ n + i \in 1 .. Len(s) + Len(t)
        /\ i \in 1 .. Len(b) + Len(t)
    BY <1>1, <1>3, <1>4
  <2>2. a[i] = IF n + i <= Len(s) THEN s[n + i] ELSE t[(n + i) - Len(s)]
    BY <1>2, <1>3, <2>1
  <2>3. (b \o t)[i] = IF i <= Len(s) - n THEN b[i] ELSE t[i - (Len(s) - n)]
    BY <1>4, <1>5, <2>1
  <2>4. CASE n + i <= Len(s)
    BY <1>1, <1>4, <2>1, <2>2, <2>3, <2>4
  <2>5. CASE ~(n + i <= Len(s))
    <3>1. (n + i) - Len(s) = i - (Len(s) - n)
      BY <1>1
    <3> QED
      BY <1>1, <2>1, <2>2, <2>3, <2>5, <3>1
  <2> QED
    BY <2>4, <2>5
<1>8. a = b \o t
  BY <1>3, <1>5, <1>6, <1>7, SeqEqual
<1> QED
  BY <1>8 DEF a, b

(* A message and the buffer it ends are the bytes of one client in order.  *)
LEMMA MessageBytes ==
  ASSUME ServerInv, NEW c \in Clients, c \in clients_,
         NEW m, m = message_buf_[c] \o Received(c)
  PROVE  /\ m \in Seq(ByteOf(c)) /\ m \in Seq(Bytes) /\ Len(m) \in Nat
         /\ Len(message_buf_[c]) \in Nat
         /\ Len(m) = Len(message_buf_[c]) + Len(Received(c))
         /\ Len(m) <= taken[c] + Len(Received(c))
         /\ \A i \in 1 .. Len(m) : m[i] = <<c, (taken[c] - Len(message_buf_[c])) + i>>
<1> DEFINE buf == message_buf_[c]
           rcv == Received(c)
<1>1. /\ buf \in Seq(ByteOf(c)) /\ Len(buf) \in Nat /\ Len(buf) <= taken[c]
      /\ \A i \in 1 .. Len(buf) : buf[i] = <<c, (taken[c] - Len(buf)) + i>>
  BY LenProperties DEF ServerInv, ServerTypes, Whole, BuffersAreTails
<1>2. /\ rcv \in Seq(ByteOf(c)) /\ Len(rcv) \in Nat
      /\ \A i \in 1 .. Len(rcv) : rcv[i] = <<c, taken[c] + i>>
  BY ReceivedBytes
<1>3. taken[c] \in Nat
  BY DEF ServerInv, KernelTypes
<1> HIDE DEF buf, rcv
<1>4. /\ m \in Seq(ByteOf(c)) /\ Len(m) = Len(buf) + Len(rcv)
      /\ \A i \in 1 .. Len(buf) + Len(rcv) : m[i] = IF i <= Len(buf) THEN buf[i] ELSE rcv[i - Len(buf)]
  <2>1. m = buf \o rcv
    BY DEF buf, rcv
  <2> QED
    BY <1>1, <1>2, <2>1, ConcatProperties
<1>5. \A i \in 1 .. Len(m) : m[i] = <<c, (taken[c] - Len(buf)) + i>>
  <2> SUFFICES ASSUME NEW i \in 1 .. Len(m) PROVE m[i] = <<c, (taken[c] - Len(buf)) + i>>
    OBVIOUS
  <2>1. CASE i <= Len(buf)
    BY <2>1, <1>1, <1>2, <1>4
  <2>2. CASE ~(i <= Len(buf))
    <3>1. i - Len(buf) \in 1 .. Len(rcv) /\ m[i] = rcv[i - Len(buf)]
      BY <2>2, <1>1, <1>2, <1>4
    <3>2. taken[c] + (i - Len(buf)) = (taken[c] - Len(buf)) + i
      BY <1>1, <1>2, <1>3, <1>4
    <3> QED
      BY <1>2, <3>1, <3>2
  <2> QED
    BY <2>1, <2>2
<1>6. m \in Seq(Bytes)
  <2>1. ByteOf(c) \subseteq Bytes
    BY DEF ByteOf
  <2> QED
    BY <1>4, <2>1, SeqMonotonic
<1>7. /\ Len(m) \in Nat /\ Len(m) = Len(buf) + Len(rcv)
      /\ Len(m) <= taken[c] + Len(rcv)
  BY <1>1, <1>2, <1>3, <1>4
<1> QED
  BY <1>1, <1>4, <1>5, <1>6, <1>7 DEF buf, rcv

(* A piece that does not end a message stays in the buffer.                *)
LEMMA HeldBackKeeps ==
  ASSUME ServerInv, NEW c \in Clients, Turn(<<c, FALSE>>),
         NEW m, m = message_buf_[c] \o Received(c),
         taken' = [taken EXCEPT ![c] = @ + Len(Received(c))],
         message_buf_' = With(message_buf_, c, m),
         UNCHANGED <<printed, delivered, cut, clients_, watched, terminated, peers, fds, joined>>
  PROVE  ServerInv'
<1> DEFINE r == Len(Received(c))
<1>1. c \in clients_
  BY TurnTakes, Constants DEF ServerInv, ServerTypes
<1>2. /\ DOMAIN message_buf_' = clients_' /\ message_buf_'[c] = m
      /\ \A d \in clients_ \ {c} : message_buf_'[d] = message_buf_[d]
  BY <1>1 DEF With, ServerInv, ServerTypes
<1>3. /\ m \in Seq(ByteOf(c)) /\ Len(m) \in Nat /\ Len(message_buf_[c]) \in Nat
      /\ Len(m) = Len(message_buf_[c]) + r /\ Len(m) <= taken[c] + r
      /\ \A i \in 1 .. Len(m) : m[i] = <<c, (taken[c] - Len(message_buf_[c])) + i>>
  BY <1>1, MessageBytes
<1>4. r \in Nat /\ taken[c] + r <= Len(sent[c]) /\ taken \in [Clients -> Nat]
  BY ReceivedBytes DEF ServerInv, KernelTypes
<1>5. /\ taken' \in [Clients -> Nat] /\ taken'[c] = taken[c] + r
      /\ \A d \in Clients \ {c} : taken'[d] = taken[d]
  BY <1>4
<1> HIDE DEF r
<1>6. ServerTypes'
  <2>1. \A d \in clients_' : message_buf_'[d] \in Seq(ByteOf(d))
    <3>1. \A d \in clients_ : message_buf_[d] \in Seq(ByteOf(d))
      BY DEF ServerInv, ServerTypes
    <3> QED
      BY <1>2, <1>3, <3>1
  <2> QED
    BY <1>2, <2>1 DEF ServerInv, ServerTypes, ByteOf, Bytes, peers
<1>7. KernelTypes'
  BY <1>4, <1>5 DEF ServerInv, KernelTypes, Bytes, peers
<1>8. EventsAreLive'
  BY TurnTakes DEF EventsAreLive, Sockets
<1>9. TerminatedOnce' /\ HearsAll'
  BY DEF ServerInv, TerminatedOnce, HearsAll, EverybodyHearsAll, peers
<1>10. BuffersAreTails'
  <2>1. ASSUME NEW d \in clients_ \cap Clients
        PROVE  /\ Len(message_buf_'[d]) <= taken'[d]
               /\ \A i \in 1 .. Len(message_buf_'[d]) :
                    message_buf_'[d][i] = <<d, (taken'[d] - Len(message_buf_'[d])) + i>>
    <3>1. CASE d = c
      <4>1. taken'[c] - Len(m) = taken[c] - Len(message_buf_[c])
        BY <1>3, <1>4, <1>5
      <4>2. Len(m) <= taken'[c]
        BY <1>3, <1>5
      <4>3. \A i \in 1 .. Len(m) : m[i] = <<c, (taken'[c] - Len(m)) + i>>
        BY <1>3, <4>1, Zenon
      <4>4. message_buf_'[d] = m /\ d = c
        BY <1>2, <3>1
      <4> QED
        BY <4>2, <4>3, <4>4, Zenon
    <3>2. CASE d # c
      BY <3>2, <1>2, <1>5 DEF ServerInv, Whole, BuffersAreTails
    <3> QED
      BY <3>1, <3>2
  <2> QED
    BY <2>1 DEF BuffersAreTails
<1>11. PrintedBefore'
  <2>1. ASSUME NEW d \in Clients PROVE taken'[d] - Held(d)' = taken[d] - Held(d)
    <3>1. CASE d = c
      <4>1. Held(c)' = Len(m) /\ Held(c) = Len(message_buf_[c])
        BY <1>1, <1>2 DEF Held
      <4> QED
        BY <3>1, <4>1, <1>3, <1>4, <1>5
    <3>2. CASE d # c
      BY <3>2, <1>2, <1>5 DEF Held
    <3> QED
      BY <3>1, <3>2
  <2>2. \A i \in 1 .. Len(printed) : i \in DOMAIN printed
    BY DEF ServerInv, ServerTypes
  <2>3. \A i \in 1 .. Len(printed) : printed[i][1] \in Clients
    BY <2>2, PrintedTaken
  <2> QED
    BY <2>1, <2>3 DEF ServerInv, Whole, PrintedBefore
<1>12. PrintsWholeLines'
  BY DEF ServerInv, Whole, PrintsWholeLines, EndsLine, peers
<1> QED
  BY <1>6, <1>7, <1>8, <1>9, <1>10, <1>11, <1>12 DEF ServerInv, Whole

(* A send gives a client the whole message or marks it as cut.             *)
LEMMA SendAllGives ==
  ASSUME ServerInv, NEW m \in Seq(Bytes), SendAll(clients_, m)
  PROVE  /\ delivered' \in [Clients -> Seq(Bytes \cup {Welcome})]
         /\ \A d \in Clients : Len(delivered[d]) <= Len(delivered'[d])
         /\ \A d \in Clients \ fds : delivered'[d] = delivered[d]
         /\ cut \subseteq cut'
         /\ \A d \in clients_ \cap Clients :
              d \notin cut' /\ ended[d] = "no" => delivered'[d] = delivered[d] \o m
<1> DEFINE alive == {d \in clients_ \ {NoFd} : ended[d] # "reset"}
<1>1. /\ delivered' = [d \in Clients |-> IF d \in alive THEN delivered[d] \o FitsFor(d, m)
                                         ELSE delivered[d]]
      /\ cut' = cut \cup {d \in alive : FitsFor(d, m) # m}
  BY DEF SendAll
<1>2. /\ delivered \in [Clients -> Seq(Bytes \cup {Welcome})]
      /\ \A d \in Clients : Len(delivered[d]) \in Nat
      /\ read \in [Clients -> Nat] /\ clients_ \cap Clients \subseteq fds
  BY LenProperties DEF ServerInv, ServerTypes, KernelTypes
<1>3. ASSUME NEW d \in Clients PROVE FitsFor(d, m) \in Seq(Bytes \cup {Welcome})
  <2> DEFINE n == Least(Room - Unread(d), Len(m))
  <2>1. Len(m) \in Nat /\ \A i \in 1 .. Len(m) : m[i] \in Bytes
    BY LenProperties, ElementOfSeq
  <2>2. n \in Int /\ n <= Len(m)
    BY <1>2, <2>1, Constants DEF Least, Unread
  <2> HIDE DEF n
  <2>3. \A i \in 1 .. n : m[i] \in Bytes \cup {Welcome}
    BY <2>1, <2>2
  <2>4. SubSeq(m, 1, n) \in Seq(Bytes \cup {Welcome})
    BY <2>2, <2>3, SubSeqProperties
  <2> QED
    BY <2>4 DEF FitsFor, n
<1>4. ASSUME NEW d \in Clients
      PROVE  /\ delivered[d] \o FitsFor(d, m) \in Seq(Bytes \cup {Welcome})
             /\ Len(delivered[d]) <= Len(delivered[d] \o FitsFor(d, m))
  <2>1. Len(FitsFor(d, m)) \in Nat
    BY <1>3, LenProperties
  <2>2. delivered[d] \in Seq(Bytes \cup {Welcome})
    BY <1>2
  <2>3. /\ delivered[d] \o FitsFor(d, m) \in Seq(Bytes \cup {Welcome})
        /\ Len(delivered[d] \o FitsFor(d, m)) = Len(delivered[d]) + Len(FitsFor(d, m))
    BY <1>3, <2>2, ConcatProperties
  <2> QED
    BY <1>2, <2>1, <2>3
<1> HIDE DEF alive
<1>5. delivered' \in [Clients -> Seq(Bytes \cup {Welcome})]
  BY <1>1, <1>2, <1>4
<1>6. \A d \in Clients : Len(delivered[d]) <= Len(delivered'[d])
  BY <1>1, <1>2, <1>4
<1>7. \A d \in Clients \ fds : delivered'[d] = delivered[d]
  BY <1>1, <1>2 DEF alive
<1>8. ASSUME NEW d \in clients_ \cap Clients, d \notin cut', ended[d] = "no"
      PROVE  delivered'[d] = delivered[d] \o m
  <2>1. d \in alive
    BY <1>8, Constants DEF alive
  <2>2. FitsFor(d, m) = m
    BY <1>1, <1>8, <2>1
  <2> QED
    BY <1>1, <2>1, <2>2
<1> QED
  BY <1>1, <1>5, <1>6, <1>7, <1>8

(* The heart of it: what is printed is a message of one client, all that   *)
(* is held of it, which ends a line, and comes after what was printed of   *)
(* that client before.                                                     *)
LEMMA MessageKeepsLines ==
  ASSUME ServerInv, NEW c \in Clients, c \in clients_,
         NEW m \in Seq(Bytes), NEW a \in Nat, a = taken[c] - Len(message_buf_[c]),
         \A i \in 1 .. Len(m) : m[i] = <<c, a + i>>,
         Len(m) > 0, EndsLine(<<c, a + Len(m)>>),
         printed' = printed \o m, sent' = sent
  PROVE  /\ PrintsWholeLines'
         /\ \A i \in 1 .. Len(printed') :
              \/ i \in 1 .. Len(printed) /\ printed'[i] = printed[i]
              \/ printed'[i][1] = c /\ printed'[i][2] <= a + Len(m)
<1> DEFINE n == Len(printed)
           k == Len(m)
           q == printed'
<1>1. printed \in Seq(Bytes) /\ n \in Nat /\ k \in Nat /\ taken[c] \in Nat /\ DOMAIN printed = 1 .. n
  BY LenProperties DEF ServerInv, ServerTypes, KernelTypes
<1>2. /\ q \in Seq(Bytes) /\ Len(q) = n + k
      /\ \A i \in 1 .. n + k : q[i] = IF i <= n THEN printed[i] ELSE m[i - n]
  BY <1>1, ConcatProperties
<1>3. DOMAIN q = 1 .. n + k
  BY <1>2
<1>4. /\ \A i \in 1 .. n : ~EndsLine(printed[i]) =>
           i < n /\ printed[i + 1] = <<printed[i][1], printed[i][2] + 1>>
      /\ \A i, j \in 1 .. n : i < j /\ printed[i][1] = printed[j][1] => printed[i][2] < printed[j][2]
  BY <1>1 DEF ServerInv, Whole, PrintsWholeLines
<1>5. \A i \in 1 .. n : printed[i][1] = c => printed[i][2] <= a
  BY <1>1 DEF ServerInv, Whole, PrintedBefore, Held
<1>6. \A i \in 1 .. n : q[i] = printed[i]
  BY <1>1, <1>2
<1>7. \A i \in 1 .. k : q[n + i] = <<c, a + i>>
  <2> SUFFICES ASSUME NEW i \in 1 .. k PROVE q[n + i] = <<c, a + i>>
    OBVIOUS
  <2>1. n + i \in 1 .. n + k /\ ~(n + i <= n) /\ (n + i) - n = i
    BY <1>1
  <2> QED
    BY <1>2, <2>1
<1>8. \A i \in 1 .. n : printed[i][2] \in Nat
  <2>1. \A i \in 1 .. n : printed[i][1] \in Clients /\ printed[i][2] \in 1 .. taken[printed[i][1]]
    BY <1>1, PrintedTaken
  <2>2. taken \in [Clients -> Nat]
    BY DEF ServerInv, KernelTypes
  <2> QED
    BY <2>1, <2>2
<1>9. EndsLine(<<c, a + k>>)
  OBVIOUS
<1> HIDE DEF n, k, q
<1>10. \A i \in 1 .. n + k : i \in 1 .. n \/ \E h \in 1 .. k : i = n + h
  <2> SUFFICES ASSUME NEW i \in 1 .. n + k, i \notin 1 .. n PROVE \E h \in 1 .. k : i = n + h
    OBVIOUS
  <2>1. i - n \in 1 .. k /\ i = n + (i - n)
    BY <1>1
  <2> QED
    BY <2>1
<1>11. ASSUME NEW i \in 1 .. n + k, ~EndsLine(q[i])
       PROVE  i < n + k /\ q[i + 1] = <<q[i][1], q[i][2] + 1>>
  <2>1. CASE i \in 1 .. n
    <3>1. i < n /\ printed[i + 1] = <<printed[i][1], printed[i][2] + 1>>
      BY <2>1, <1>4, <1>6, <1>11
    <3>2. i + 1 \in 1 .. n
      BY <3>1, <1>1, <2>1
    <3> QED
      BY <3>1, <3>2, <2>1, <1>1, <1>6
  <2>2. ASSUME NEW h \in 1 .. k, i = n + h
        PROVE  i < n + k /\ q[i + 1] = <<q[i][1], q[i][2] + 1>>
    <3>1. q[i] = <<c, a + h>>
      BY <1>7, <2>2
    <3>2. h # k
      BY <1>9, <1>11, <3>1
    <3>3. h + 1 \in 1 .. k /\ i + 1 = n + (h + 1)
      BY <1>1, <2>2, <3>2
    <3>4. q[i + 1] = <<c, a + (h + 1)>>
      BY <1>7, <3>3
    <3>5. a + (h + 1) = (a + h) + 1
      BY <1>1
    <3>6. i < n + k
      BY <1>1, <2>2, <3>3
    <3> QED
      BY <3>1, <3>4, <3>5, <3>6
  <2> QED
    BY <1>10, <2>1, <2>2
<1>12. ASSUME NEW i \in 1 .. n + k, NEW j \in 1 .. n + k, i < j, q[i][1] = q[j][1]
       PROVE  q[i][2] < q[j][2]
  <2>1. CASE i \in 1 .. n /\ j \in 1 .. n
    BY <2>1, <1>4, <1>6, <1>12
  <2>2. ASSUME i \in 1 .. n, NEW h \in 1 .. k, j = n + h
        PROVE  q[i][2] < q[j][2]
    <3>1. q[j] = <<c, a + h>> /\ q[i] = printed[i]
      BY <1>6, <1>7, <2>2
    <3>2. printed[i][2] <= a /\ printed[i][2] \in Nat
      BY <1>5, <1>8, <1>12, <2>2, <3>1
    <3>3. h \in Nat \ {0}
      BY <1>1
    <3>4. \A x \in Nat : x <= a => x < a + h
      BY <3>3
    <3>5. printed[i][2] < a + h
      BY <3>2, <3>4, Zenon
    <3> QED
      BY <3>1, <3>5
  <2>3. ASSUME NEW g \in 1 .. k, NEW h \in 1 .. k, i = n + g, j = n + h
        PROVE  q[i][2] < q[j][2]
    <3>1. q[i] = <<c, a + g>> /\ q[j] = <<c, a + h>>
      BY <1>7, <2>3
    <3>2. a + g < a + h
      BY <1>1, <1>12, <2>3
    <3> QED
      BY <3>1, <3>2
  <2>4. j \in 1 .. n => i \in 1 .. n
    BY <1>1, <1>12
  <2> QED
    BY <1>10, <2>1, <2>2, <2>3, <2>4
<1>13. \A i \in 1 .. n + k : \/ i \in 1 .. n /\ q[i] = printed[i]
                             \/ q[i][1] = c /\ q[i][2] <= a + k
  <2> SUFFICES ASSUME NEW h \in 1 .. k
               PROVE  q[n + h][1] = c /\ q[n + h][2] <= a + k
    BY <1>6, <1>10
  <2>1. a + h <= a + k
    BY <1>1
  <2> QED
    BY <2>1, <1>7
<1>14. \A i : EndsLine(printed[i])' = EndsLine(q[i])
  BY DEF EndsLine, q
<1>15. PrintsWholeLines'
  <2>1. \A i \in DOMAIN q : ~EndsLine(printed[i])' => i < Len(q) /\ q[i + 1] = <<q[i][1], q[i][2] + 1>>
    BY <1>2, <1>3, <1>11, <1>14
  <2>2. \A i, j \in DOMAIN q : i < j /\ q[i][1] = q[j][1] => q[i][2] < q[j][2]
    BY <1>3, <1>12
  <2> QED
    BY <2>1, <2>2 DEF PrintsWholeLines, q
<1> QED
  BY <1>2, <1>13, <1>15 DEF q, n, k

(* A client that has heard all that was printed, and then hears m, has     *)
(* heard all that is printed when m is.                                    *)
LEMMA HeardGrows ==
  \A p, m \in Seq(Bytes) : \A n \in Nat : n <= Len(p) =>
    (<<Welcome>> \o SubSeq(p, n + 1, Len(p))) \o m
      = <<Welcome>> \o SubSeq(p \o m, n + 1, Len(p \o m))
<1> SUFFICES ASSUME NEW p \in Seq(Bytes), NEW m \in Seq(Bytes), NEW n \in Nat, n <= Len(p)
             PROVE  (<<Welcome>> \o SubSeq(p, n + 1, Len(p))) \o m
                      = <<Welcome>> \o SubSeq(p \o m, n + 1, Len(p \o m))
  OBVIOUS
<1> DEFINE T == Bytes \cup {Welcome}
           wel == <<Welcome>>
           heard == SubSeq(p, n + 1, Len(p))
<1>1. SubSeq(p \o m, n + 1, Len(p \o m)) = heard \o m
  BY EndOfConcat
<1>2. wel \in Seq(T) /\ m \in Seq(T)
  BY SeqMonotonic
<1>3. heard \in Seq(T)
  <2>1. Len(p) \in Nat /\ \A i \in n + 1 .. Len(p) : p[i] \in T
    BY LenProperties, ElementOfSeq
  <2>2. n + 1 \in Int /\ Len(p) \in Int
    BY <2>1
  <2> HIDE DEF T
  <2> QED
    BY <2>1, <2>2, SubSeqProperties
<1> HIDE DEF T, wel, heard
<1>4. (wel \o heard) \o m = wel \o (heard \o m)
  BY <1>2, <1>3, ConcatAssociative
<1> QED
  BY <1>1, <1>4 DEF wel, heard

(* A message is printed and sent to everybody, and the buffer is emptied.  *)
LEMMA RelayKeeps ==
  ASSUME ServerInv, NEW c \in Clients, Turn(<<c, FALSE>>), recvMessage(c),
         NEW m \in Seq(Bytes), Len(m) = Len(message_buf_[c]) + Len(Received(c)),
         \A i \in 1 .. Len(m) : m[i] = <<c, (taken[c] - Len(message_buf_[c])) + i>>,
         taken' = [taken EXCEPT ![c] = @ + Len(Received(c))],
         SendAll(Audience(c), m), printed' = printed \o m,
         message_buf_' = With(message_buf_, c, <<>>),
         UNCHANGED <<clients_, watched, terminated, peers, fds, joined>>
  PROVE  ServerInv'
<1> DEFINE r == Len(Received(c))
           l == Len(message_buf_[c])
           a == taken[c] - l
<1>1. c \in clients_
  BY TurnTakes, Constants DEF ServerInv, ServerTypes
<1>2. /\ DOMAIN message_buf_' = clients_' /\ message_buf_'[c] = <<>>
      /\ \A d \in clients_ \ {c} : message_buf_'[d] = message_buf_[d]
  BY <1>1 DEF With, ServerInv, ServerTypes
<1>3. /\ l \in Nat /\ l <= taken[c] /\ Len(m) \in Nat /\ Len(m) = l + r
      /\ \A i \in 1 .. Len(m) : m[i] = <<c, a + i>>
  BY <1>1, LenProperties DEF ServerInv, ServerTypes, Whole, BuffersAreTails
<1>4. r \in Nat /\ taken[c] + r <= Len(sent[c]) /\ taken \in [Clients -> Nat]
  BY ReceivedBytes DEF ServerInv, KernelTypes
<1>5. /\ taken' \in [Clients -> Nat] /\ taken'[c] = taken[c] + r
      /\ \A d \in Clients \ {c} : taken'[d] = taken[d]
  BY <1>4
<1>6. r > 0 /\ EndsLine(<<c, taken[c] + r>>)
  <2>1. Received(c) # <<>> /\ EndsLine(Received(c)[r])
    BY DEF recvMessage, Last, EndsLine
  <2>2. r \in Nat \ {0}
    BY <2>1, ReceivedBytes, EmptySeq
  <2>3. Received(c)[r] = <<c, taken[c] + r>>
    BY <2>2, ReceivedBytes
  <2> QED
    BY <2>1, <2>2, <2>3
<1> HIDE DEF r, l
<1>7. a \in Nat /\ a + Len(m) = taken[c] + r /\ Len(m) > 0
  <2>1. \A t, u, v \in Nat : u <= t => t - u \in Nat /\ (t - u) + (u + v) = t + v
    OBVIOUS
  <2>2. taken[c] \in Nat
    BY <1>4
  <2>3. l + r > 0
    BY <1>3, <1>4, <1>6
  <2>4. l \in Nat /\ r \in Nat /\ l <= taken[c] /\ Len(m) = l + r
    BY <1>3, <1>4
  <2>5. taken[c] - l \in Nat /\ (taken[c] - l) + (l + r) = taken[c] + r
    BY <2>1, <2>2, <2>4, Zenon
  <2> QED
    BY <2>3, <2>4, <2>5, Zenon
<1> HIDE DEF a
<1>8. PrintsWholeLines' /\ \A i \in 1 .. Len(printed') :
                             \/ i \in 1 .. Len(printed) /\ printed'[i] = printed[i]
                             \/ printed'[i][1] = c /\ printed'[i][2] <= a + Len(m)
  <2>1. a = taken[c] - Len(message_buf_[c]) /\ EndsLine(<<c, a + Len(m)>>)
    BY <1>6, <1>7 DEF a, l
  <2>2. sent' = sent
    BY DEF peers
  <2> QED
    BY <1>1, <1>3, <1>7, <2>1, <2>2, MessageKeepsLines
<1>9. SendAll(clients_, m)
  BY DEF Audience
<1>10. /\ printed \in Seq(Bytes) /\ printed' \in Seq(Bytes)
       /\ Len(printed) \in Nat /\ Len(printed') = Len(printed) + Len(m)
  <2>1. printed \in Seq(Bytes)
    BY DEF ServerInv, ServerTypes
  <2>2. printed \o m \in Seq(Bytes) /\ Len(printed \o m) = Len(printed) + Len(m)
    BY <2>1, ConcatProperties
  <2> QED
    BY <2>1, <2>2, LenProperties
<1>11. ServerTypes'
  <2>1. \A d \in clients_' : message_buf_'[d] \in Seq(ByteOf(d))
    <3>1. \A d \in clients_ : message_buf_[d] \in Seq(ByteOf(d))
      BY DEF ServerInv, ServerTypes
    <3>2. <<>> \in Seq(ByteOf(c))
      OBVIOUS
    <3> QED
      BY <1>2, <3>1, <3>2
  <2> QED
    BY <1>2, <1>10, <2>1 DEF ServerInv, ServerTypes, ByteOf, Bytes, peers
<1>12. KernelTypes'
  <2>1. /\ delivered' \in [Clients -> Seq(Bytes \cup {Welcome})]
        /\ \A d \in Clients : Len(delivered[d]) <= Len(delivered'[d])
        /\ \A d \in Clients \ fds : delivered'[d] = delivered[d]
    BY <1>3, <1>9, SendAllGives
  <2>2. \A d \in Clients : read[d] <= Len(delivered'[d])
    <3> SUFFICES ASSUME NEW d \in Clients PROVE read[d] <= Len(delivered'[d])
      OBVIOUS
    <3>1. delivered[d] \in Seq(Bytes \cup {Welcome}) /\ delivered'[d] \in Seq(Bytes \cup {Welcome})
      BY <2>1 DEF ServerInv, KernelTypes
    <3>2. Len(delivered[d]) \in Nat /\ Len(delivered'[d]) \in Nat
      BY <3>1, LenProperties
    <3>3. read[d] \in Nat /\ read[d] <= Len(delivered[d]) /\ Len(delivered[d]) <= Len(delivered'[d])
      BY <2>1 DEF ServerInv, KernelTypes
    <3> QED
      BY <3>2, <3>3
  <2> QED
    BY <1>4, <1>5, <2>1, <2>2 DEF ServerInv, KernelTypes, Bytes, Welcome, peers
<1>13. EventsAreLive'
  BY TurnTakes DEF EventsAreLive, Sockets
<1>14. TerminatedOnce'
  BY DEF ServerInv, TerminatedOnce
<1>15. HearsAll'
  <2>1. \A d \in fds : joined[d] \in Nat /\ joined[d] <= Len(printed)
    BY DEF ServerInv, ServerTypes, HearsAll
  <2>2. \A d \in fds : joined[d] <= Len(printed')
    BY <1>3, <1>10, <2>1
  <2>3. ASSUME NEW d \in clients_ \cap Clients, d \notin cut', ended[d] = "no"
        PROVE  delivered'[d] = <<Welcome>> \o SubSeq(printed', joined[d] + 1, Len(printed'))
    <3>1. cut \subseteq cut' /\ delivered'[d] = delivered[d] \o m
      BY <1>3, <1>9, <2>3, SendAllGives
    <3>2. delivered[d] = <<Welcome>> \o SubSeq(printed, joined[d] + 1, Len(printed))
      BY <2>3, <3>1 DEF ServerInv, HearsAll, EverybodyHearsAll
    <3>3. joined[d] \in Nat /\ joined[d] <= Len(printed)
      BY <2>1 DEF ServerInv, ServerTypes
    <3> QED
      <4>1. (<<Welcome>> \o SubSeq(printed, joined[d] + 1, Len(printed))) \o m
              = <<Welcome>> \o SubSeq(printed \o m, joined[d] + 1, Len(printed \o m))
        BY <1>10, <3>3, HeardGrows, Zenon
      <4> QED
        BY <3>1, <3>2, <4>1
  <2> QED
    BY <2>2, <2>3 DEF HearsAll, EverybodyHearsAll, Welcome, peers
<1>16. BuffersAreTails'
  <2>1. ASSUME NEW d \in clients_ \cap Clients
        PROVE  /\ Len(message_buf_'[d]) <= taken'[d]
               /\ \A i \in 1 .. Len(message_buf_'[d]) :
                    message_buf_'[d][i] = <<d, (taken'[d] - Len(message_buf_'[d])) + i>>
    <3>1. CASE d = c
      BY <3>1, <1>2, <1>5
    <3>2. CASE d # c
      BY <3>2, <1>2, <1>5 DEF ServerInv, Whole, BuffersAreTails
    <3> QED
      BY <3>1, <3>2
  <2> QED
    BY <2>1 DEF BuffersAreTails
<1>17. PrintedBefore'
  <2> DEFINE held(d) == IF d \in clients_ THEN Len(message_buf_'[d]) ELSE 0
             before(b) == b[2] <= taken'[b[1]] - held(b[1])
  <2>1. taken'[c] - held(c) = a + Len(m)
    <3>1. held(c) = 0
      BY <1>1, <1>2
    <3> QED
      BY <3>1, <1>4, <1>5, <1>7
  <2>2. \A d \in Clients \ {c} : taken'[d] - held(d) = taken[d] - Held(d)
    BY <1>2, <1>5 DEF Held
  <2>3. Held(c) = l
    BY <1>1 DEF Held, l
  <2> HIDE DEF held
  <2>4. ASSUME NEW i \in 1 .. Len(printed') PROVE before(printed'[i])
    <3>1. CASE printed'[i][1] = c /\ printed'[i][2] <= a + Len(m)
      BY <3>1, <2>1
    <3>2. CASE i \in 1 .. Len(printed) /\ printed'[i] = printed[i]
      <4>1. printed[i][1] \in Clients /\ printed[i][2] \in 1 .. taken[printed[i][1]]
        BY <1>10, <3>2, PrintedTaken
      <4>2. printed[i][2] <= taken[printed[i][1]] - Held(printed[i][1])
        BY <3>2 DEF ServerInv, Whole, PrintedBefore
      <4>3. CASE printed[i][1] = c
        <5>1. printed[i][2] <= a /\ printed[i][2] \in Int
          BY <4>1, <4>2, <4>3, <2>3, <1>4 DEF a
        <5>2. \A x \in Int : x <= a => x <= a + Len(m)
          BY <1>3, <1>7
        <5>3. printed[i][2] <= a + Len(m)
          BY <5>1, <5>2, Zenon
        <5> QED
          BY <5>3, <4>3, <3>2, <2>1
      <4>4. CASE printed[i][1] # c
        BY <4>1, <4>2, <4>4, <3>2, <2>2
      <4> QED
        BY <4>3, <4>4
    <3> QED
      BY <1>8, <3>1, <3>2
  <2> QED
    BY <2>4 DEF PrintedBefore, Held, held
<1> QED
  BY <1>8, <1>11, <1>12, <1>13, <1>14, <1>15, <1>16, <1>17 DEF ServerInv, Whole

(* An event of a client that sent something.                               *)
LEMMA MessageKeeps ==
  ASSUME ServerInv, NEW c \in Clients, HandleMessage(c)
  PROVE  ServerInv'
<1>1. Turn(<<c, FALSE>>) /\ UNCHANGED <<peers, fds, joined>>
  BY DEF HandleMessage
<1>2. c \in clients_
  BY <1>1, TurnTakes, Constants DEF ServerInv, ServerTypes
<1>3. CASE IsGone(c)
  <2>1. terminateConnection(c) /\ UNCHANGED <<printed, taken, delivered, cut>>
    BY <1>3 DEF HandleMessage
  <2> QED
    BY <1>1, <2>1, TerminateKeeps
<1>4. CASE ~IsGone(c)
  <2> DEFINE m == message_buf_[c] \o Received(c)
  <2>1. /\ taken' = [taken EXCEPT ![c] = @ + Len(Received(c))]
        /\ UNCHANGED <<clients_, watched, terminated>>
        /\ IF recvMessage(c)
           THEN /\ SendAll(Audience(c), m) /\ printed' = printed \o m
                /\ message_buf_' = With(message_buf_, c, <<>>)
           ELSE message_buf_' = With(message_buf_, c, m) /\ UNCHANGED <<printed, delivered, cut>>
    BY <1>4 DEF HandleMessage
  <2>2. /\ m \in Seq(Bytes) /\ Len(m) = Len(message_buf_[c]) + Len(Received(c))
        /\ \A i \in 1 .. Len(m) : m[i] = <<c, (taken[c] - Len(message_buf_[c])) + i>>
    BY <1>2, MessageBytes
  <2>3. CASE recvMessage(c)
    <3> HIDE DEF m
    <3>1. /\ SendAll(Audience(c), m) /\ printed' = printed \o m
          /\ message_buf_' = With(message_buf_, c, <<>>)
      BY <2>1, <2>3
    <3> QED
      BY <1>1, <2>1, <2>2, <2>3, <3>1, RelayKeeps
  <2>4. CASE ~recvMessage(c)
    <3>1. message_buf_' = With(message_buf_, c, m) /\ UNCHANGED <<printed, delivered, cut>>
      BY <2>1, <2>4
    <3> QED
      BY <1>1, <2>1, <3>1, HeldBackKeeps
  <2> QED
    BY <2>3, <2>4
<1> QED
  BY <1>3, <1>4

-----------------------------------------------------------------------------
(* The chat as a whole.  Of the clients that run client.cpp all that       *)
(* matters here is that they connect, send, read and close as any client.  *)

(* What a program has still to send of a line are bytes.                   *)
LineTypes == buf_send \in [Programs -> Seq(BOOLEAN)]

(* A piece of a line, and what is left after it. *)
LEMMA PieceIsCutOff ==
  ASSUME LineTypes, NEW c \in Programs
  PROVE  /\ Piece(c) \in Seq(BOOLEAN) /\ AfterPiece(c) \in Seq(BOOLEAN)
         /\ Len(Piece(c)) \in Nat /\ Len(AfterPiece(c)) \in Nat
         /\ buf_send[c] = Piece(c) \o AfterPiece(c)
         /\ Len(Piece(c)) + Len(AfterPiece(c)) = Len(buf_send[c])
         /\ buf_send[c] # <<>> => Len(Piece(c)) > 0
<1> DEFINE s == buf_send[c]
           n == Least(max_buf_size_, Len(s))
<1>1. s \in Seq(BOOLEAN) /\ Len(s) \in Nat
  BY LenProperties DEF LineTypes
<1>2. n \in 0 .. Len(s) /\ (Len(s) > 0 => n > 0)
  BY <1>1, Constants DEF Least
<1>3. Piece(c) = SubSeq(s, 1, n)
  BY DEF Piece
<1> HIDE DEF s, n
<1>4. \A i \in 1 .. Len(s) : s[i] \in BOOLEAN
  BY <1>1, ElementOfSeq
<1>5. SubSeq(s, 1, n) \in Seq(BOOLEAN) /\ Len(SubSeq(s, 1, n)) = n
  <2>1. \A i \in 1 .. n : s[i] \in BOOLEAN
    BY <1>1, <1>2, <1>4
  <2>2. Len(SubSeq(s, 1, n)) = IF 1 <= n THEN n - 1 + 1 ELSE 0
    BY <1>2, <2>1, SubSeqProperties
  <2>3. Len(SubSeq(s, 1, n)) = n
    BY <1>2, <2>2
  <2> QED
    BY <1>2, <2>1, <2>3, SubSeqProperties
<1>6. AfterPiece(c) = SubSeq(s, n + 1, Len(s))
  BY <1>3, <1>5 DEF AfterPiece, s
<1>7. SubSeq(s, n + 1, Len(s)) \in Seq(BOOLEAN)
  <2>1. \A i \in n + 1 .. Len(s) : s[i] \in BOOLEAN
    BY <1>1, <1>2, <1>4
  <2>2. n + 1 \in Int /\ Len(s) \in Int
    BY <1>1, <1>2
  <2> QED
    BY <2>1, <2>2, SubSeqProperties
<1>8. SubSeq(s, 1, n) \o SubSeq(s, n + 1, Len(s)) = s
  <2>1. SubSeq(s, 1, n) \o SubSeq(s, n + 1, Len(s)) = SubSeq(s, 1, Len(s))
    <3>1. 1 \in 1 .. Len(s) + 1 /\ n \in 1 - 1 .. Len(s) /\ Len(s) \in n .. Len(s)
      BY <1>1, <1>2
    <3> QED
      BY <1>1, <3>1, ConcatAdjacentSubSeq
  <2> QED
    BY <1>1, <2>1, SubSeqFull
<1>9. Len(Piece(c)) + Len(AfterPiece(c)) = Len(s) /\ Len(Piece(c)) = n
  <2>1. Len(Piece(c) \o AfterPiece(c)) = Len(Piece(c)) + Len(AfterPiece(c))
    BY <1>3, <1>5, <1>6, <1>7, ConcatProperties
  <2> QED
    BY <1>3, <1>5, <1>6, <1>8, <2>1
<1>10. s # <<>> => Len(s) > 0
  BY <1>1, EmptySeq
<1> QED
  BY <1>2, <1>3, <1>5, <1>6, <1>7, <1>8, <1>9, <1>10, LenProperties DEF s

(* What the kernel takes of it are bytes, and no more than there are.      *)
LEMMA AcceptedBytes ==
  ASSUME ServerInv, LineTypes, NEW c \in Programs
  PROVE  /\ Accepted(c) \in Nat /\ Accepted(c) <= Len(Piece(c))
         /\ SubSeq(Piece(c), 1, Accepted(c)) \in Seq(BOOLEAN)
         /\ Len(SubSeq(Piece(c), 1, Accepted(c))) = Accepted(c)
<1> DEFINE s == Piece(c)
           n == Accepted(c)
<1>1. s \in Seq(BOOLEAN) /\ Len(s) \in Nat
  BY PieceIsCutOff
<1>2. n \in Nat /\ n <= Len(s)
  <2>1. Arrived(c) \in Int
    <3>1. c \in Clients
      BY ClientAssumption
    <3>2. sent[c] \in Seq(BOOLEAN) /\ taken[c] \in Nat
      BY <3>1 DEF ServerInv, KernelTypes
    <3> QED
      BY <3>2, LenProperties DEF Arrived
  <2>2. Room - Least(Room, Arrived(c)) \in Nat
    BY <2>1, Constants DEF Least
  <2> HIDE DEF s
  <2>3. Least(Room - Least(Room, Arrived(c)), Len(s)) \in Nat
        /\ Least(Room - Least(Room, Arrived(c)), Len(s)) <= Len(s)
    BY <1>1, <2>2 DEF Least
  <2> QED
    BY <1>1, <2>3 DEF Accepted, s
<1> HIDE DEF s, n
<1>3. \A i \in 1 .. n : s[i] \in BOOLEAN
  BY <1>1, <1>2, ElementOfSeq
<1>4. SubSeq(s, 1, n) \in Seq(BOOLEAN) /\ Len(SubSeq(s, 1, n)) = IF 1 <= n THEN n - 1 + 1 ELSE 0
  BY <1>2, <1>3, SubSeqProperties
<1>5. Len(SubSeq(s, 1, n)) = n
  BY <1>2, <1>4
<1> QED
  BY <1>2, <1>4, <1>5 DEF s, n

(* A step that changes nothing keeps the invariant.                        *)
LEMMA NothingHappens ==
  ASSUME ServerInv, UNCHANGED vars
  PROVE  ServerInv'
<1>1. UNCHANGED <<clients_, message_buf_, events, printed, accepted, terminated, backlog, sent,
                  read, ended, watched, fds, taken, delivered, joined, cut>>
  BY DEF vars, program, peers
<1>2. ServerTypes'
  BY <1>1 DEF ServerInv, ServerTypes, ByteOf, Bytes
<1>3. KernelTypes'
  BY <1>1 DEF ServerInv, KernelTypes, Bytes
<1>4. EventsAreLive' /\ TerminatedOnce' /\ HearsAll'
  BY <1>1 DEF ServerInv, EventsAreLive, Sockets, TerminatedOnce, HearsAll, EverybodyHearsAll
<1>5. Whole'
  BY <1>1 DEF ServerInv, Whole, BuffersAreTails, PrintedBefore, PrintsWholeLines, Held, EndsLine
<1> QED
  BY <1>2, <1>3, <1>4, <1>5 DEF ServerInv

(* One step of the loop of run.                                            *)
LEMMA ServerStepKeeps ==
  ASSUME ServerInv, run
  PROVE  ServerInv'
<1>1. CASE epoll_wait
  BY <1>1, EpollWaitKeeps
<1>2. CASE HandleAccept
  BY <1>2, AcceptKeeps
<1>3. CASE \E c \in Clients : HandleHangUp(c) \/ HandleMessage(c)
  BY <1>3, HangUpKeeps, MessageKeeps
<1> QED
  BY <1>1, <1>2, <1>3 DEF run

(* One step of a client that may do anything.                              *)
LEMMA AnyClientKeeps ==
  ASSUME ServerInv, NEW c \in Clients, AnyClient(c)
  PROVE  ServerInv'
<1>1. CASE ClientConnects(c)
  BY <1>1, ConnectsKeeps
<1>2. ASSUME NEW newline \in BOOLEAN, ClientSends(c, <<newline>>) PROVE ServerInv'
  <2>1. <<newline>> \in Seq(BOOLEAN)
    OBVIOUS
  <2> QED
    BY <1>2, <2>1, SendsKeeps
<1>3. CASE ClientReads(c, 1)
  BY <1>3, ReadsKeeps
<1>4. CASE ClientCloses(c)
  BY <1>4, EndsKeeps
<1> QED
  BY <1>1, <1>2, <1>3, <1>4 DEF AnyClient

(* One step of the program of client.cpp, or of its user.                  *)
LEMMA ProgramKeeps ==
  ASSUME ServerInv, LineTypes, NEW c \in Programs, Program(c) \/ Established(c) \/ User(c)
  PROVE  ServerInv' /\ LineTypes'
<1>1. c \in Clients
  BY ClientAssumption
<1>2. CASE Client_recvMessage(c)
  <2> DEFINE n == Least(max_buf_size_, Unread(c))
  <2>1. ClientReads(c, n) /\ UNCHANGED buf_send
    BY <1>2 DEF Client_recvMessage, keyboard
  <2>2. Unread(c) \in Int /\ Unread(c) > 0
    <3>1. delivered[c] \in Seq(Bytes \cup {Welcome}) /\ read[c] \in Nat
      BY <1>1 DEF ServerInv, KernelTypes
    <3>2. Len(delivered[c]) \in Nat
      BY <3>1, LenProperties
    <3> QED
      BY <1>2, <3>1, <3>2 DEF Unread, Client_recvMessage
  <2>3. n \in Nat
    BY <2>2, Constants DEF Least
  <2> HIDE DEF n
  <2>4. LineTypes'
    BY <2>1 DEF LineTypes
  <2> QED
    BY <1>1, <2>1, <2>3, <2>4, ReadsKeeps
<1>3. CASE poll(c) \/ LoseConnection(c) \/ Type(c)
  <2>1. UNCHANGED vars /\ UNCHANGED buf_send
    BY <1>3 DEF poll, LoseConnection, Type, keyboard
  <2> QED
    BY <2>1, NothingHappens DEF LineTypes
<1>4. CASE Established(c)
  <2>1. ClientConnects(c) /\ UNCHANGED buf_send
    BY <1>4 DEF Established, client, keyboard
  <2> QED
    BY <1>1, <2>1, ConnectsKeeps DEF LineTypes
<1>5. CASE Client_sendMessage(c)
  <2>1. UNCHANGED vars /\ buf_send' = [buf_send EXCEPT ![c] = Line]
    BY <1>5 DEF Client_sendMessage
  <2>2. LineTypes'
    BY <2>1, ClientAssumption DEF LineTypes
  <2> QED
    BY <2>1, <2>2, NothingHappens
<1>6. CASE SendPiece(c)
  <2>1. /\ ClientSends(c, SubSeq(Piece(c), 1, Accepted(c))) \/ UNCHANGED vars
        /\ buf_send' = [buf_send EXCEPT ![c] = AfterPiece(c)]
    BY <1>6 DEF SendPiece
  <2>2. LineTypes'
    BY <2>1, PieceIsCutOff DEF LineTypes
  <2> QED
    BY <1>1, <2>1, <2>2, AcceptedBytes, SendsKeeps, NothingHappens
<1>7. CASE Interrupt(c)
  <2>1. (ClientCloses(c) \/ UNCHANGED vars) /\ UNCHANGED buf_send
    BY <1>7 DEF Interrupt, keyboard
  <2> QED
    BY <1>1, <2>1, EndsKeeps, NothingHappens DEF LineTypes
<1> QED
  BY <1>2, <1>3, <1>4, <1>5, <1>6, <1>7 DEF Program, User

(* Every step of the chat, a stuttering one too, keeps the invariant.      *)
THEOREM ServerInvariance == ChatSpec => [](ServerInv /\ LineTypes)
<1>1. ChatInit => ServerInv /\ LineTypes
  <2> SUFFICES ASSUME ChatInit PROVE ServerInv /\ LineTypes
    OBVIOUS
  <2>1. buf_send = [c \in Programs |-> <<>>]
    BY DEF ChatInit
  <2>2. LineTypes
    BY <2>1 DEF LineTypes
  <2> QED
    BY <2>2, ServerInitially DEF ChatInit
<1>2. ServerInv /\ LineTypes /\ [ChatNext]_chat => ServerInv' /\ LineTypes'
  <2> SUFFICES ASSUME ServerInv, LineTypes, [ChatNext]_chat PROVE ServerInv' /\ LineTypes'
    OBVIOUS
  <2>1. CASE Server
    BY <2>1, ServerStepKeeps DEF Server, client, keyboard, LineTypes
  <2>2. CASE ServerDies \/ UNCHANGED chat
    BY <2>2, NothingHappens DEF ServerDies, chat, client, keyboard, LineTypes
  <2>3. ASSUME NEW c \in Programs, Program(c) \/ Established(c) \/ User(c)
        PROVE  ServerInv' /\ LineTypes'
    BY <2>3, ProgramKeeps
  <2>4. ASSUME NEW c \in Clients, AnyClient(c) \/ ResetArrives(c), UNCHANGED client
        PROVE  ServerInv' /\ LineTypes'
    BY <2>4, AnyClientKeeps, EndsKeeps DEF client, keyboard, LineTypes
  <2> QED
    BY <2>1, <2>2, <2>3, <2>4 DEF ChatNext
<1> QED
  BY <1>1, <1>2, PTL DEF ChatSpec

(* The variables of the server keep their types: a buffer for every client *)
(* and for nobody else, with bytes of that client alone.                   *)
THEOREM ServerTypeCorrect == ChatSpec => []TypeOK
<1>1. ServerInv => TypeOK
  <2> SUFFICES ASSUME ServerInv PROVE TypeOK
    OBVIOUS
  <2>1. /\ clients_ \subseteq Clients \cup {NoFd} /\ DOMAIN message_buf_ = clients_
        /\ watched \subseteq clients_ /\ printed \in Seq(Bytes)
    BY DEF ServerInv, ServerTypes
  <2>2. \A c \in clients_ : message_buf_[c] \in Seq({b \in Bytes : b[1] = c})
    BY DEF ServerInv, ServerTypes, ByteOf
  <2>3. \A i \in DOMAIN events : events[i] \in (watched \cup {Listen}) \X BOOLEAN
    <3>1. events \in Seq(Sockets \X BOOLEAN)
      BY DEF ServerInv, EventsAreLive
    <3>2. \A i \in DOMAIN events : events[i] \in Sockets \X BOOLEAN /\ events[i][1] \in watched \cup {Listen}
      BY <3>1 DEF ServerInv, EventsAreLive
    <3> QED
      BY <3>2
  <2>4. ASSUME NEW c \in Clients
        PROVE  /\ taken[c] \in 0 .. Len(sent[c]) /\ read[c] \in 0 .. Len(delivered[c])
               /\ ended[c] \in {"no", "closed", "reset"}
    <3>1. sent[c] \in Seq(BOOLEAN) /\ delivered[c] \in Seq(Bytes \cup {Welcome})
      BY DEF ServerInv, KernelTypes
    <3>2. Len(sent[c]) \in Nat /\ Len(delivered[c]) \in Nat
      BY <3>1, LenProperties
    <3> QED
      BY <3>2 DEF ServerInv, KernelTypes
  <2> QED
    BY <2>1, <2>2, <2>3, <2>4 DEF TypeOK
<1> QED
  BY <1>1, ServerInvariance, PTL

(* What the server prints and sends are whole lines, each byte once and in *)
(* order, however the clients' bytes arrive and are mixed.                 *)
THEOREM WholeLines == ChatSpec => []PrintsWholeLines
<1>1. ServerInv => PrintsWholeLines
  BY DEF ServerInv, Whole
<1> QED
  BY <1>1, ServerInvariance, PTL

(* A client that the kernel had room for has been given the greeting and   *)
(* then all that was printed since it came.                                *)
THEOREM AllHear == ChatSpec => []EverybodyHearsAll
<1>1. ServerInv => EverybodyHearsAll
  BY DEF ServerInv, HearsAll
<1> QED
  BY <1>1, ServerInvariance, PTL

(* "connection terminated" is printed once per client that is gone.        *)
THEOREM OneTermination == ChatSpec => []TerminatedOnce
<1>1. ServerInv => TerminatedOnce
  BY DEF ServerInv
<1> QED
  BY <1>1, ServerInvariance, PTL
=============================================================================
