---------------------------- MODULE ScreenProofs ----------------------------
(***************************************************************************)
(* What the users of client.cpp see, for any number of clients, any        *)
(* buffer sizes and any lines: whole lines, each byte once and in order,   *)
(* from the keyboard of one client through the server to the screens of    *)
(* the others.                                                             *)
(*                                                                         *)
(* The invariant of ChatProofs speaks of the server.  Here it is joined by *)
(* what the kernel was given for each client (Given), what each program    *)
(* did with it (Screens), where the bytes are that were typed (Counted),   *)
(* in what order they leave as long as send takes them (InOrder), and what *)
(* poll may have said (Polled).                                            *)
(***************************************************************************)
EXTENDS ChatProofs

HeardBytes == Bytes \cup {Welcome}

SentByte(b) == b[1] \in Clients /\ b[2] \in 1 .. Len(sent[b[1]])

(* A byte on its way to a client was sent, and its line goes on after it.  *)
GoesOn(s, i) ==
  /\ SentByte(s[i])
  /\ ~EndsLine(s[i]) => i + 1 \in 1 .. Len(s) /\ s[i + 1] = <<s[i][1], s[i][2] + 1>>

WholeLinesIn(s) == s[1] = Welcome /\ \A i \in 2 .. Len(s) : GoesOn(s, i)

Given ==
  \A d \in Clients :
    /\ d \in clients_ => delivered[d] # <<>>
    /\ d \notin cut /\ delivered[d] # <<>> => WholeLinesIn(delivered[d])

(* What a program has received is what it has shown and what it holds      *)
(* back; it has shown whole lines, and holds back no end of one.           *)
Screen(c) ==
  /\ cout[c] \in Seq(HeardBytes) /\ recv_message_[c] \in Seq(HeardBytes)
  /\ cout[c] \o recv_message_[c] = SubSeq(delivered[c], 1, read[c])
  /\ c \notin cut /\ cout[c] # <<>> => EndsALine(Last(cout[c]))
  /\ c \notin cut /\ Len(cout[c]) < read[c] => ~EndsALine(delivered[c][read[c]])

Screens ==
  /\ DOMAIN cout = Programs /\ DOMAIN recv_message_ = Programs
  /\ \A c \in Programs : Screen(c)

Counts(c) ==
  typed[c] * Len(Line) =
    (stdin[c] + cin[c]) * Len(Line) + Len(buf_send[c]) + Len(sent[c]) + refused[c]

Counted ==
  /\ stdin \in [Programs -> Nat] /\ cin \in [Programs -> Nat]
  /\ typed \in [Programs -> Nat] /\ refused \in [Programs -> Nat]
  /\ \A c \in Programs : Counts(c)

(* Bytes that are lines, one after the other, and end with a line.         *)
LinesIn(w) ==
  /\ \A k \in 1 .. Len(w) : w[k] = IF k <= Len(Line) THEN Line[k] ELSE w[k - Len(Line)]
  /\ Len(w) = 0 \/ /\ Len(w) >= Len(Line)
                   /\ \A j \in 1 .. Len(Line) : w[Len(w) - Len(Line) + j] = Line[j]

InOrder == \A c \in Programs : refused[c] = 0 => LinesIn(sent[c] \o buf_send[c])

(* What poll said of a socket is still so when its turn comes, but for     *)
(* what has come since; and what is left of a program that ended.          *)
Poll(c) ==
  /\ revents[c] \subseteq {"POLLIN", "POLLERR", "POLLHUP", "STDIN"}
  /\ SaysEnd(revents[c]) => ~up /\ ("POLLIN" \in revents[c] \/ Unread(c) = 0)
  /\ up /\ "POLLIN" \in revents[c] => Unread(c) > 0
  /\ buf_send[c] # <<>> => revents[c] = {}
  /\ told[c] => ~up /\ pc[c] = "done" /\ (c \notin cut => cout[c] = delivered[c])

Polled ==
  /\ DOMAIN revents = Programs /\ DOMAIN pc = Programs /\ DOMAIN told = Programs
  /\ \A c \in Programs : Poll(c)

ChatInv == ServerInv /\ LineTypes /\ Given /\ Screens /\ Counted /\ InOrder /\ Polled

-----------------------------------------------------------------------------
(* What a step leaves: the bytes that were sent and delivered stay, and    *)
(* more may follow.                                                        *)
SentStays ==
  \A d \in Clients : /\ Len(sent[d]) <= Len(sent'[d]) /\ Len(sent'[d]) \in Nat
                     /\ \A k \in 1 .. Len(sent[d]) : sent'[d][k] = sent[d][k]

DeliveredStays ==
  /\ delivered' \in [Clients -> Seq(HeardBytes)]
  /\ \A d \in Clients : /\ Len(delivered[d]) <= Len(delivered'[d])
                        /\ \A i \in 1 .. Len(delivered[d]) : delivered'[d][i] = delivered[d][i]

(* The types this module uses of ServerInv. *)
LEMMA Kept ==
  ASSUME ServerInv
  PROVE  /\ delivered \in [Clients -> Seq(HeardBytes)] /\ read \in [Clients -> Nat]
         /\ sent \in [Clients -> Seq(BOOLEAN)]
         /\ \A d \in Clients : /\ read[d] <= Len(delivered[d]) /\ Len(delivered[d]) \in Nat
                               /\ Len(sent[d]) \in Nat
         /\ \A d \in Clients \ fds : delivered[d] = <<>>
         /\ clients_ \cap Clients \subseteq fds /\ fds \subseteq Clients
         /\ backlog \subseteq Clients /\ backlog \cap fds = {}
<1>1. /\ delivered \in [Clients -> Seq(HeardBytes)] /\ read \in [Clients -> Nat]
      /\ sent \in [Clients -> Seq(BOOLEAN)]
      /\ \A d \in Clients : read[d] <= Len(delivered[d])
      /\ \A d \in Clients \ fds : delivered[d] = <<>>
  BY DEF ServerInv, KernelTypes, HeardBytes
<1>2. \A d \in Clients : Len(delivered[d]) \in Nat /\ Len(sent[d]) \in Nat
  BY <1>1, LenProperties
<1> QED
  BY <1>1, <1>2 DEF ServerInv, ServerTypes

(* A byte that was sent ends a line or not, once and for all. *)
LEMMA SameByte ==
  ASSUME SentStays, NEW b, SentByte(b)
  PROVE  SentByte(b)' /\ (EndsLine(b)' <=> EndsLine(b))
<1>1. b[1] \in Clients /\ b[2] \in 1 .. Len(sent[b[1]])
  BY DEF SentByte
<1>2. Len(sent[b[1]]) <= Len(sent'[b[1]]) /\ sent'[b[1]][b[2]] = sent[b[1]][b[2]]
  BY <1>1 DEF SentStays
<1>3. Len(sent'[b[1]]) \in Nat
  BY <1>1 DEF SentStays
<1>4. b[2] \in 1 .. Len(sent'[b[1]])
  BY <1>1, <1>2, <1>3
<1> QED
  BY <1>1, <1>2, <1>4 DEF SentByte, EndsLine

(* Whole lines stay whole lines when more is sent. *)
LEMMA SameLines ==
  ASSUME SentStays, NEW s, WholeLinesIn(s)
  PROVE  WholeLinesIn(s)'
<1>1. ASSUME NEW i \in 2 .. Len(s) PROVE GoesOn(s, i)'
  <2>1. GoesOn(s, i)
    BY DEF WholeLinesIn
  <2> QED
    BY <2>1, SameByte DEF GoesOn
<1> QED
  BY <1>1 DEF WholeLinesIn

(* Whole lines that were delivered, as long as nothing else is.            *)
LEMMA SameDelivery ==
  ASSUME Given, SentStays, NEW d \in Clients, delivered'[d] = delivered[d],
         d \notin cut, delivered[d] # <<>>
  PROVE  WholeLinesIn(delivered[d])'
<1> DEFINE s == delivered[d]
<1>1. WholeLinesIn(s) /\ s' = s
  BY DEF Given
<1> HIDE DEF s
<1>2. WholeLinesIn(s)'
  BY <1>1, SameLines
<1> QED
  BY <1>2 DEF s

(* A step in which nothing is delivered. *)
LEMMA GivenStays ==
  ASSUME Given, SentStays, UNCHANGED <<delivered, cut>>,
         \A d \in Clients : d \in clients_' => d \in clients_
  PROVE  Given'
  BY SameDelivery DEF Given

(* A program shows what it has shown when it does nothing, whatever is     *)
(* sent and delivered meanwhile.                                           *)
LEMMA ScreenStays ==
  ASSUME ServerInv, Given, SentStays, DeliveredStays, cut \subseteq cut',
         NEW c \in Programs, read'[c] = read[c],
         cout'[c] = cout[c], recv_message_'[c] = recv_message_[c],
         Screen(c)
  PROVE  Screen(c)'
<1>0. /\ cout[c] \in Seq(HeardBytes) /\ recv_message_[c] \in Seq(HeardBytes)
      /\ cout[c] \o recv_message_[c] = SubSeq(delivered[c], 1, read[c])
      /\ c \notin cut /\ cout[c] # <<>> => EndsALine(Last(cout[c]))
      /\ c \notin cut /\ Len(cout[c]) < read[c] => ~EndsALine(delivered[c][read[c]])
  BY DEF Screen
<1>1. /\ c \in Clients /\ read[c] \in Nat /\ Len(delivered[c]) \in Nat
      /\ read[c] <= Len(delivered[c]) /\ delivered[c] \in Seq(HeardBytes)
      /\ delivered'[c] \in Seq(HeardBytes) /\ Len(delivered[c]) <= Len(delivered'[c])
      /\ \A i \in 1 .. Len(delivered[c]) : delivered'[c][i] = delivered[c][i]
  BY Kept, ClientAssumption DEF DeliveredStays
<1> DEFINE r == read[c]
           s == delivered[c]
           t == delivered'[c]
           o == cout[c]
           k == recv_message_[c]
<1> HIDE DEF r, s, t, o, k
<1>2. r \in Nat /\ r <= Len(s) /\ s \in Seq(HeardBytes) /\ t \in Seq(HeardBytes)
      /\ Len(s) \in Nat /\ \A i \in 1 .. Len(s) : t[i] = s[i]
  BY <1>1 DEF r, s, t
<1>3. \A i \in 1 .. r : s[i] \in HeardBytes /\ t[i] \in HeardBytes /\ t[i] = s[i]
  BY <1>2, ElementOfSeq
<1>4. /\ SubSeq(s, 1, r) \in Seq(HeardBytes) /\ Len(SubSeq(s, 1, r)) = r
      /\ \A i \in 1 .. r : SubSeq(s, 1, r)[i] = s[i]
  <2>1. \A i \in 1 .. r : s[i] \in HeardBytes
    BY <1>3
  <2>2. /\ SubSeq(s, 1, r) \in Seq(HeardBytes)
        /\ Len(SubSeq(s, 1, r)) = (IF 1 <= r THEN r - 1 + 1 ELSE 0)
        /\ \A i \in 1 .. r - 1 + 1 : SubSeq(s, 1, r)[i] = s[1 + i - 1]
    BY <1>2, <2>1, SubSeqProperties
  <2> QED
    BY <1>2, <2>2
<1>5. /\ SubSeq(t, 1, r) \in Seq(HeardBytes) /\ Len(SubSeq(t, 1, r)) = r
      /\ \A i \in 1 .. r : SubSeq(t, 1, r)[i] = t[i]
  <2>1. \A i \in 1 .. r : t[i] \in HeardBytes
    BY <1>3
  <2>2. /\ SubSeq(t, 1, r) \in Seq(HeardBytes)
        /\ Len(SubSeq(t, 1, r)) = (IF 1 <= r THEN r - 1 + 1 ELSE 0)
        /\ \A i \in 1 .. r - 1 + 1 : SubSeq(t, 1, r)[i] = t[1 + i - 1]
    BY <1>2, <2>1, SubSeqProperties
  <2> QED
    BY <1>2, <2>2
<1>6. SubSeq(t, 1, r) = SubSeq(s, 1, r)
  BY <1>3, <1>4, <1>5, SeqEqual
<1>7. cout'[c] \o recv_message_'[c] = SubSeq(delivered'[c], 1, read'[c])
  BY <1>0, <1>6 DEF r, s, t
<1>8. ASSUME c \notin cut', o # <<>> PROVE EndsALine(Last(o))'
  <2>1. c \notin cut /\ EndsALine(Last(o))
    BY <1>0, <1>8 DEF o
  <2>2. o \in Seq(HeardBytes) /\ k \in Seq(HeardBytes) /\ o \o k = SubSeq(s, 1, r)
    BY <1>0 DEF o, k, s, r
  <2>3. /\ Len(o) \in Nat \ {0} /\ Len(k) \in Nat /\ Len(o) + Len(k) = r
        /\ Last(o) = s[Len(o)]
    <3>1. Len(o) \in Nat \ {0} /\ Len(k) \in Nat
      BY <1>8, <2>2, EmptySeq, LenProperties
    <3>2. /\ Len(o \o k) = Len(o) + Len(k)
          /\ \A i \in 1 .. Len(o) + Len(k) : (o \o k)[i] = IF i <= Len(o) THEN o[i] ELSE k[i - Len(o)]
      BY <2>2, ConcatProperties
    <3>3. Len(o) \in 1 .. Len(o) + Len(k) /\ Len(o) + Len(k) = r
      BY <1>4, <2>2, <3>1, <3>2
    <3>4. (o \o k)[Len(o)] = o[Len(o)] /\ (o \o k)[Len(o)] = s[Len(o)]
      BY <1>4, <2>2, <3>2, <3>3
    <3> QED
      BY <3>1, <3>3, <3>4 DEF Last
  <2>4. Len(o) \in 1 .. Len(s) /\ s # <<>>
    BY <1>2, <2>3, EmptySeq
  <2>5. WholeLinesIn(s)
    BY <1>1, <2>1, <2>4 DEF Given, s
  <2>6. Last(o) = Welcome \/ SentByte(Last(o))
    <3>1. CASE Len(o) = 1
      BY <2>3, <2>5, <3>1 DEF WholeLinesIn
    <3>2. CASE Len(o) # 1
      <4>1. Len(o) \in 2 .. Len(s)
        <5>1. \A n, l \in Nat : n \in 1 .. l /\ n # 1 => n \in 2 .. l
          OBVIOUS
        <5>2. Len(o) \in Nat /\ Len(s) \in Nat
          BY <1>2, <2>3
        <5> QED
          BY <2>4, <3>2, <5>1, <5>2, Zenon
      <4> QED
        BY <2>3, <2>5, <4>1 DEF WholeLinesIn, GoesOn
    <3> QED
      BY <3>1, <3>2
  <2>7. Last(o)' = Last(o)
    BY DEF o, Last
  <2>8. CASE Last(o) = Welcome
    BY <2>7, <2>8 DEF EndsALine, Welcome
  <2>9. CASE SentByte(Last(o)) /\ Last(o) # Welcome
    <3> DEFINE b == Last(o)
    <3> HIDE DEF b
    <3>1. SentByte(b) /\ sent[b[1]][b[2]]
      BY <2>1, <2>9 DEF b, EndsALine
    <3>2. sent'[b[1]][b[2]]
      BY <3>1, SameByte DEF EndsLine
    <3> QED
      BY <2>7, <3>2 DEF b, EndsALine
  <2> QED
    BY <2>6, <2>8, <2>9, Zenon
<1>9. c \notin cut' /\ cout'[c] # <<>> => EndsALine(Last(cout[c]))'
  BY <1>8 DEF o
<1>10. ASSUME c \notin cut', Len(o) < r PROVE ~EndsALine(delivered[c][read[c]])'
  <2>1. c \notin cut /\ ~EndsALine(s[r])
    BY <1>0, <1>10 DEF o, r, s
  <2>2. r \in 1 .. Len(s) /\ s # <<>> /\ t[r] = s[r]
    <3>1. Len(o) \in Nat
      BY <1>0, LenProperties DEF o
    <3> QED
      BY <1>2, <1>10, <3>1, EmptySeq
  <2>3. WholeLinesIn(s)
    BY <1>1, <2>1, <2>2 DEF Given, s
  <2>4. r # 1 /\ s[r] # Welcome
    BY <2>1, <2>3 DEF WholeLinesIn, EndsALine
  <2>5. SentByte(s[r]) /\ ~EndsLine(s[r])
    <3>1. r \in 2 .. Len(s)
      BY <1>2, <2>2, <2>4
    <3> QED
      BY <2>1, <2>3, <3>1 DEF WholeLinesIn, GoesOn, EndsALine, EndsLine
  <2> DEFINE b == s[r]
  <2> HIDE DEF b
  <2>6. SentByte(b) /\ ~EndsLine(b) /\ b # Welcome
    BY <2>4, <2>5 DEF b
  <2>7. ~(sent'[b[1]][b[2]])
    BY <2>6, SameByte DEF EndsLine
  <2>8. delivered'[c][read'[c]] = b
    BY <2>2 DEF b, t, r
  <2> QED
    BY <2>6, <2>7, <2>8 DEF EndsALine, Welcome
<1>11. c \notin cut' /\ Len(cout'[c]) < read'[c] => ~EndsALine(delivered[c][read[c]])'
  BY <1>10 DEF o, r
<1> QED
  BY <1>0, <1>7, <1>9, <1>11 DEF Screen, HeardBytes, Bytes

(* Nothing is sent by the server's own steps, and nothing delivered by the *)
(* clients'.                                                               *)
LEMMA NothingIsSent ==
  ASSUME ServerInv
  PROVE  /\ sent' = sent => SentStays
         /\ delivered' = delivered => DeliveredStays
<1>1. delivered' = delivered => DeliveredStays
  BY Kept DEF DeliveredStays
<1>2. sent' = sent => SentStays
  BY Kept DEF SentStays
<1> QED
  BY <1>1, <1>2

(* Who is accepted has been given the greeting. *)
LEMMA AcceptGives ==
  ASSUME ServerInv, Given, HandleAccept
  PROVE  Given' /\ SentStays /\ DeliveredStays /\ UNCHANGED <<sent, read, cut>>
<1>1. UNCHANGED <<sent, read, cut>> /\ SentStays
  BY NothingIsSent DEF HandleAccept
<1>2. ASSUME NEW c \in backlog, clients_' = clients_ \cup {c},
             delivered' = [delivered EXCEPT ![c] = <<Welcome>>]
      PROVE  Given' /\ DeliveredStays
  <2>1. c \in Clients /\ delivered[c] = <<>> /\ c \notin clients_
    BY Kept
  <2>2. delivered'[c] = <<Welcome>> /\ \A d \in Clients \ {c} : delivered'[d] = delivered[d]
    BY <1>2, <2>1, Kept
  <2>3. /\ Welcome \in HeardBytes /\ <<Welcome>> \in Seq(HeardBytes) /\ Len(<<Welcome>>) = 1
        /\ <<Welcome>>[1] = Welcome /\ <<Welcome>> # <<>>
    BY DEF HeardBytes
  <2>4. delivered' \in [Clients -> Seq(HeardBytes)]
    BY <1>2, <2>3, Kept
  <2>5. ASSUME NEW d \in Clients
        PROVE  /\ Len(delivered[d]) <= Len(delivered'[d])
               /\ \A i \in 1 .. Len(delivered[d]) : delivered'[d][i] = delivered[d][i]
    <3>1. CASE d = c
      <4>1. Len(delivered[d]) = 0 /\ Len(delivered'[d]) = 1
        BY <2>1, <2>2, <2>3, <3>1
      <4> QED
        BY <4>1
    <3>2. CASE d # c
      BY <2>2, <3>2, Kept
    <3> QED
      BY <3>1, <3>2
  <2>6. ASSUME NEW d \in Clients
        PROVE  /\ d \in clients_' => delivered'[d] # <<>>
               /\ d \notin cut' /\ delivered'[d] # <<>> => WholeLinesIn(delivered[d])'
    <3>1. CASE d = c
      <4>1. WholeLinesIn(<<Welcome>>)'
        BY <2>3 DEF WholeLinesIn, Welcome
      <4> QED
        BY <2>2, <2>3, <3>1, <4>1
    <3>2. CASE d # c
      <4>1. delivered'[d] = delivered[d] /\ (d \in clients_' => d \in clients_)
        BY <1>2, <2>2, <3>2
      <4>2. d \notin cut /\ delivered[d] # <<>> => WholeLinesIn(delivered[d])'
        BY <1>1, <4>1, SameDelivery
      <4> QED
        BY <1>1, <4>1, <4>2 DEF Given
    <3> QED
      BY <3>1, <3>2
  <2> QED
    BY <2>4, <2>5, <2>6 DEF Given, DeliveredStays
<1>3. ASSUME clients_' = clients_ \cup {NoFd}, UNCHANGED delivered
      PROVE  Given' /\ DeliveredStays
  <2>1. \A d \in Clients : d \in clients_' => d \in clients_
    BY <1>3, Constants
  <2>2. DeliveredStays
    BY <1>3, NothingIsSent
  <2> QED
    BY <1>1, <1>3, <2>1, <2>2, GivenStays
<1> QED
  BY <1>1, <1>2, <1>3 DEF HandleAccept

(* A message that is sent to a client: whole lines go on with whole lines. *)
LEMMA MessageGoesOn ==
  ASSUME NEW s \in Seq(HeardBytes), s # <<>>, WholeLinesIn(s),
         NEW c \in Clients, NEW a \in Nat, NEW m \in Seq(Bytes), Len(m) > 0,
         \A i \in 1 .. Len(m) : m[i] = <<c, a + i>>,
         a + Len(m) <= Len(sent[c]), Len(sent[c]) \in Nat, EndsLine(<<c, a + Len(m)>>)
  PROVE  WholeLinesIn(s \o m)
<1> DEFINE t == s \o m
           n == Len(s)
           k == Len(m)
<1>1. n \in Nat \ {0} /\ k \in Nat \ {0}
  BY EmptySeq, LenProperties
<1>2. m \in Seq(HeardBytes)
  BY SeqMonotonic DEF HeardBytes
<1>3. /\ Len(t) = n + k
      /\ \A i \in 1 .. n + k : t[i] = IF i <= n THEN s[i] ELSE m[i - n]
  BY <1>2, ConcatProperties
<1>4. t[1] = Welcome
  BY <1>1, <1>3 DEF WholeLinesIn
<1>5. \A i \in 1 .. n : t[i] = s[i]
  BY <1>1, <1>3
<1>6. \A j \in 1 .. k : t[n + j] = <<c, a + j>>
  <2> SUFFICES ASSUME NEW j \in 1 .. k PROVE t[n + j] = <<c, a + j>>
    OBVIOUS
  <2>1. n + j \in 1 .. n + k /\ ~(n + j <= n) /\ (n + j) - n = j
    BY <1>1
  <2>2. t[n + j] = m[j]
    BY <1>3, <2>1
  <2> QED
    BY <2>2
<1> HIDE DEF t, n, k
<1>7. ASSUME NEW i \in 2 .. n PROVE GoesOn(t, i)
  <2>1. GoesOn(s, i)
    BY DEF WholeLinesIn, n
  <2>2. i \in 1 .. n /\ t[i] = s[i]
    BY <1>1, <1>5
  <2>3. ASSUME ~EndsLine(s[i]) PROVE i + 1 \in 1 .. Len(t) /\ t[i + 1] = <<s[i][1], s[i][2] + 1>>
    <3>1. i + 1 \in 1 .. n /\ s[i + 1] = <<s[i][1], s[i][2] + 1>>
      BY <2>1, <2>3 DEF GoesOn, n
    <3> QED
      BY <1>1, <1>3, <1>5, <3>1
  <2> QED
    BY <2>1, <2>2, <2>3 DEF GoesOn
<1>8. ASSUME NEW j \in 1 .. k PROVE GoesOn(t, n + j)
  <2>1. t[n + j] = <<c, a + j>>
    BY <1>6
  <2>2. SentByte(<<c, a + j>>)
    <3>1. a + j \in 1 .. Len(sent[c])
      <4>1. \A l \in Nat : a + k <= l => a + j \in 1 .. l
        BY <1>1
      <4> QED
        BY <4>1 DEF k
    <3> QED
      BY <3>1 DEF SentByte
  <2>3. CASE j = k
    <3>1. EndsLine(t[n + j])
      BY <2>1, <2>3 DEF k
    <3> QED
      BY <2>1, <2>2, <3>1 DEF GoesOn
  <2>4. CASE j # k
    <3>1. j + 1 \in 1 .. k /\ n + (j + 1) = (n + j) + 1 /\ (n + j) + 1 \in 1 .. n + k
          /\ a + (j + 1) = (a + j) + 1
      BY <1>1, <2>4
    <3>2. t[(n + j) + 1] = <<c, (a + j) + 1>>
      BY <1>6, <3>1
    <3> QED
      BY <1>3, <2>1, <2>2, <3>1, <3>2 DEF GoesOn
  <2> QED
    BY <2>3, <2>4
<1>9. ASSUME NEW i \in 2 .. Len(t) PROVE GoesOn(t, i)
  <2>1. i \in 2 .. n \/ (i - n \in 1 .. k /\ n + (i - n) = i)
    BY <1>1, <1>3
  <2> QED
    BY <1>7, <1>8, <2>1
<1> QED
  BY <1>4, <1>9 DEF WholeLinesIn, t

(* What a message is when it is sent on: all that is held of a client, in  *)
(* order, to the end of a line.                                            *)
LEMMA MessageIsWhole ==
  ASSUME ServerInv, NEW c \in Clients, c \in clients_, recvMessage(c),
         NEW m, m = message_buf_[c] \o Received(c)
  PROVE  /\ m \in Seq(Bytes) /\ Len(m) \in Nat \ {0}
         /\ \E a \in Nat : /\ \A i \in 1 .. Len(m) : m[i] = <<c, a + i>>
                           /\ a + Len(m) <= Len(sent[c]) /\ EndsLine(<<c, a + Len(m)>>)
<1> DEFINE r == Len(Received(c))
           l == Len(message_buf_[c])
           a == taken[c] - l
<1>1. /\ m \in Seq(Bytes) /\ Len(m) \in Nat /\ l \in Nat /\ Len(m) = l + r
      /\ \A i \in 1 .. Len(m) : m[i] = <<c, a + i>>
  BY MessageBytes
<1>2. l <= taken[c] /\ taken[c] \in Nat /\ Len(sent[c]) \in Nat
  BY Kept DEF ServerInv, KernelTypes, Whole, BuffersAreTails
<1>3. r \in Nat /\ taken[c] + r <= Len(sent[c])
  BY ReceivedBytes
<1>4. r > 0 /\ EndsLine(<<c, taken[c] + r>>)
  <2>1. Received(c) # <<>> /\ EndsLine(Received(c)[r])
    BY DEF recvMessage, Last, EndsLine
  <2>2. r \in Nat \ {0}
    BY <2>1, ReceivedBytes, EmptySeq
  <2>3. Received(c)[r] = <<c, taken[c] + r>>
    BY <2>2, ReceivedBytes
  <2> QED
    BY <2>1, <2>2, <2>3
<1> HIDE DEF r, l
<1>5. a \in Nat /\ a + Len(m) = taken[c] + r /\ Len(m) \in Nat \ {0}
  <2>1. \A t, u, v \in Nat : u <= t => t - u \in Nat /\ (t - u) + (u + v) = t + v
    OBVIOUS
  <2> HIDE DEF a
  <2>2. taken[c] \in Nat /\ l \in Nat /\ r \in Nat /\ l <= taken[c]
    BY <1>1, <1>2, <1>3
  <2>3. taken[c] - l \in Nat /\ (taken[c] - l) + (l + r) = taken[c] + r
    BY <2>1, <2>2, Zenon
  <2>4. Len(m) \in Nat \ {0} /\ Len(m) = l + r
    BY <1>1, <1>3, <1>4
  <2> QED
    BY <2>3, <2>4, Zenon DEF a
<1> HIDE DEF a
<1>6. a + Len(m) <= Len(sent[c]) /\ EndsLine(<<c, a + Len(m)>>)
  BY <1>3, <1>4, <1>5
<1> QED
  BY <1>1, <1>5, <1>6

(* What is sent on goes to everybody, in whole lines.                      *)
LEMMA RelayGives ==
  ASSUME ServerInv, Given, NEW c \in Clients, c \in clients_, recvMessage(c),
         SendAll(clients_, message_buf_[c] \o Received(c)), sent' = sent, clients_' = clients_
  PROVE  Given' /\ DeliveredStays /\ cut \subseteq cut'
<1> DEFINE m == message_buf_[c] \o Received(c)
           alive == {d \in clients_ \ {NoFd} : ended[d] # "reset"}
<1>1. m \in Seq(Bytes) /\ Len(m) \in Nat \ {0}
  BY MessageIsWhole
<1>2. PICK a \in Nat : /\ \A i \in 1 .. Len(m) : m[i] = <<c, a + i>>
                       /\ a + Len(m) <= Len(sent[c]) /\ EndsLine(<<c, a + Len(m)>>)
  BY MessageIsWhole
<1> HIDE DEF m
<1>3. SendAll(clients_, m)
  BY DEF m
<1>4. /\ delivered' \in [Clients -> Seq(HeardBytes)] /\ cut \subseteq cut'
      /\ \A d \in Clients : Len(delivered[d]) <= Len(delivered'[d])
  BY <1>1, <1>3, SendAllGives DEF HeardBytes
<1>5. /\ delivered' = [d \in Clients |-> IF d \in alive THEN delivered[d] \o FitsFor(d, m)
                                         ELSE delivered[d]]
      /\ cut' = cut \cup {d \in alive : FitsFor(d, m) # m}
  BY <1>3 DEF SendAll
<1> HIDE DEF alive
<1>6. ASSUME NEW d \in Clients
      PROVE  \/ d \in alive /\ delivered'[d] = delivered[d] \o FitsFor(d, m)
                /\ (d \notin cut' => delivered'[d] = delivered[d] \o m)
             \/ delivered'[d] = delivered[d]
  BY <1>5
<1>7. ASSUME NEW d \in Clients PROVE FitsFor(d, m) \in Seq(HeardBytes)
  <2> DEFINE n == Least(Room - Unread(d), Len(m))
  <2>1. n \in Int /\ n <= Len(m)
    BY <1>1, Kept, Constants DEF Least, Unread
  <2> HIDE DEF n
  <2>2. \A i \in 1 .. n : m[i] \in HeardBytes
    <3> SUFFICES ASSUME NEW i \in 1 .. n PROVE m[i] \in HeardBytes
      OBVIOUS
    <3>1. i \in 1 .. Len(m)
      BY <1>1, <2>1
    <3> QED
      BY <1>1, <3>1, ElementOfSeq DEF HeardBytes
  <2>3. SubSeq(m, 1, n) \in Seq(HeardBytes)
    BY <2>1, <2>2, SubSeqProperties
  <2> QED
    BY <2>3 DEF FitsFor, n
<1>8. ASSUME NEW d \in Clients, NEW i \in 1 .. Len(delivered[d])
      PROVE  delivered'[d][i] = delivered[d][i]
  <2> DEFINE s == delivered[d]
             f == FitsFor(d, m)
  <2>1. s \in Seq(HeardBytes) /\ Len(s) \in Nat /\ f \in Seq(HeardBytes) /\ Len(f) \in Nat
    BY <1>7, Kept, LenProperties
  <2> HIDE DEF f
  <2>2. \A j \in 1 .. Len(s) + Len(f) : (s \o f)[j] = IF j <= Len(s) THEN s[j] ELSE f[j - Len(s)]
    BY <2>1, ConcatProperties
  <2>3. (s \o f)[i] = s[i]
    BY <2>1, <2>2
  <2> QED
    BY <1>6, <2>3 DEF f
<1>9. SentStays
  BY NothingIsSent
<1>10. ASSUME NEW d \in Clients, d \in clients_ PROVE delivered'[d] # <<>>
  <2>1. Len(delivered[d]) \in Nat \ {0}
    BY <1>10, Kept, EmptySeq DEF Given
  <2>2. Len(delivered'[d]) > 0 /\ Len(<<>>) = 0
    <3>1. Len(delivered'[d]) \in Nat
      BY <1>4, LenProperties
    <3> QED
      BY <1>4, <2>1, <3>1, EmptySeq
  <2> QED
    BY <2>2
<1>11. ASSUME NEW d \in Clients, d \notin cut', delivered'[d] # <<>>
       PROVE  WholeLinesIn(delivered[d])'
  <2>1. d \notin cut
    BY <1>4, <1>11
  <2>2. CASE delivered'[d] = delivered[d]
    BY <1>9, <1>11, <2>1, <2>2, SameDelivery
  <2>3. CASE d \in alive /\ delivered'[d] = delivered[d] \o m
    <3> DEFINE s == delivered[d]
               t == s \o m
    <3>1. d \in clients_ /\ s \in Seq(HeardBytes) /\ s # <<>>
      BY <2>3, Kept DEF alive, Given
    <3>2. WholeLinesIn(s)
      BY <2>1, <3>1 DEF Given
    <3> HIDE DEF s
    <3>3. Len(sent[c]) \in Nat /\ Len(m) > 0
      BY <1>1, Kept
    <3>4. WholeLinesIn(t)
      BY <1>1, <1>2, <3>1, <3>2, <3>3, MessageGoesOn
    <3>5. delivered'[d] = t
      BY <2>3 DEF s
    <3> HIDE DEF t
    <3>6. \A u : WholeLinesIn(u) => (u = delivered'[d] => WholeLinesIn(delivered[d])')
      BY DEF WholeLinesIn, GoesOn, SentByte, EndsLine
    <3> QED
      BY <3>4, <3>5, <3>6
  <2> QED
    BY <1>6, <1>11, <2>2, <2>3
<1> QED
  BY <1>4, <1>8, <1>10, <1>11 DEF Given, DeliveredStays

(* One step of the loop of run. *)
LEMMA RunGives ==
  ASSUME ServerInv, Given, run
  PROVE  Given' /\ SentStays /\ DeliveredStays /\ cut \subseteq cut' /\ UNCHANGED <<sent, read>>
<1>1. CASE epoll_wait
  <2>1. UNCHANGED <<clients_, sent, read, delivered, cut>>
    BY <1>1 DEF epoll_wait, peers
  <2> QED
    BY <2>1, NothingIsSent, GivenStays
<1>2. CASE HandleAccept
  BY <1>2, AcceptGives
<1>3. ASSUME NEW c \in Clients, HandleHangUp(c) \/ HandleMessage(c)
      PROVE  Given' /\ SentStays /\ DeliveredStays /\ cut \subseteq cut' /\ UNCHANGED <<sent, read>>
  <2>1. UNCHANGED <<sent, read>> /\ SentStays /\ c \in clients_
    <3>1. Turn(<<c, TRUE>>) \/ Turn(<<c, FALSE>>)
      BY <1>3 DEF HandleHangUp, HandleMessage
    <3>2. c \in watched
      BY <3>1, TurnTakes, Constants
    <3> QED
      BY <1>3, <3>2, NothingIsSent DEF HandleHangUp, HandleMessage, peers, ServerInv, ServerTypes
  <2>2. CASE terminateConnection(c) /\ UNCHANGED <<delivered, cut>>
    <3>1. \A d \in Clients : d \in clients_' => d \in clients_
      BY <2>2 DEF terminateConnection
    <3> QED
      BY <2>1, <2>2, <3>1, NothingIsSent, GivenStays
  <2>3. CASE recvMessage(c) /\ SendAll(clients_, message_buf_[c] \o Received(c)) /\ UNCHANGED clients_
    BY <2>1, <2>3, RelayGives
  <2>4. CASE UNCHANGED <<delivered, cut, clients_>>
    BY <2>1, <2>4, NothingIsSent, GivenStays
  <2> QED
    BY <1>3, <2>2, <2>3, <2>4 DEF HandleHangUp, HandleMessage, Audience
<1> QED
  BY <1>1, <1>2, <1>3 DEF run

(* What a client sends comes after what it sent. *)
LEMMA SendsGive ==
  ASSUME ServerInv, Given, NEW c \in Clients, NEW bytes \in Seq(BOOLEAN), ClientSends(c, bytes)
  PROVE  /\ Given' /\ SentStays /\ DeliveredStays /\ UNCHANGED <<cut, read, delivered>>
         /\ sent'[c] = sent[c] \o bytes
         /\ \A d \in Clients \ {c} : sent'[d] = sent[d]
<1>1. /\ sent' = [sent EXCEPT ![c] = @ \o bytes]
      /\ UNCHANGED <<clients_, read, delivered, cut>>
  BY DEF ClientSends, program
<1>2. sent'[c] = sent[c] \o bytes /\ \A d \in Clients \ {c} : sent'[d] = sent[d]
  BY <1>1, Kept
<1>3. /\ Len(sent[c] \o bytes) = Len(sent[c]) + Len(bytes) /\ Len(bytes) \in Nat
      /\ \A k \in 1 .. Len(sent[c]) : (sent[c] \o bytes)[k] = sent[c][k]
  BY Kept, ConcatProperties, LenProperties
<1>4. SentStays
  <2> SUFFICES ASSUME NEW d \in Clients
               PROVE  /\ Len(sent[d]) <= Len(sent'[d]) /\ Len(sent'[d]) \in Nat
                      /\ \A k \in 1 .. Len(sent[d]) : sent'[d][k] = sent[d][k]
    BY DEF SentStays
  <2>1. CASE d = c
    BY <1>2, <1>3, <2>1, Kept
  <2>2. CASE d # c
    BY <1>2, <2>2, Kept
  <2> QED
    BY <2>1, <2>2
<1> QED
  BY <1>1, <1>2, <1>3, <1>4, NothingIsSent, GivenStays

(* The other steps of a client give nobody anything. *)
LEMMA NothingIsGiven ==
  ASSUME ServerInv, Given, UNCHANGED <<sent, delivered, cut, clients_>>
  PROVE  Given' /\ SentStays /\ DeliveredStays
  BY NothingIsSent, GivenStays

(* A client that does as it likes touches no other.                        *)
LEMMA AnyClientGives ==
  ASSUME ServerInv, Given, NEW c \in Clients, AnyClient(c) \/ ResetArrives(c)
  PROVE  /\ Given' /\ SentStays /\ DeliveredStays /\ cut \subseteq cut'
         /\ \A d \in Clients \ {c} : read'[d] = read[d] /\ sent'[d] = sent[d]
<1>1. ASSUME NEW newline \in BOOLEAN, ClientSends(c, <<newline>>)
      PROVE  /\ Given' /\ SentStays /\ DeliveredStays /\ cut \subseteq cut'
             /\ \A d \in Clients \ {c} : read'[d] = read[d] /\ sent'[d] = sent[d]
  <2>1. <<newline>> \in Seq(BOOLEAN)
    OBVIOUS
  <2> QED
    BY <1>1, <2>1, SendsGive
<1>2. CASE ClientConnects(c) \/ ClientReads(c, 1) \/ ClientCloses(c) \/ ResetArrives(c)
  <2>1. UNCHANGED <<sent, delivered, cut, clients_>>
    BY <1>2 DEF ClientConnects, ClientReads, ClientCloses, ResetArrives, program
  <2>2. \A d \in Clients \ {c} : read'[d] = read[d]
    BY <1>2, Kept DEF ClientConnects, ClientReads, ClientCloses, ResetArrives
  <2> QED
    BY <2>1, <2>2, NothingIsGiven
<1> QED
  BY <1>1, <1>2 DEF AnyClient

-----------------------------------------------------------------------------
(* A program that receives shows all it holds back and all it received, or *)
(* holds back both.                                                        *)
LEMMA RecvShows ==
  ASSUME ServerInv, Screens, NEW c \in Programs, Client_recvMessage(c)
  PROVE  /\ Screen(c)' /\ DOMAIN cout' = Programs /\ DOMAIN recv_message_' = Programs
         /\ UNCHANGED <<clients_, sent, delivered, cut>>
         /\ \A d \in Programs \ {c} : /\ cout'[d] = cout[d] /\ recv_message_'[d] = recv_message_[d]
                                      /\ read'[d] = read[d]
<1> DEFINE n == Least(max_buf_size_, Unread(c))
           s == delivered[c]
           r == read[c]
           new == SubSeq(s, r + 1, r + n)
           m == recv_message_[c] \o new
<1>1. /\ c \in Clients /\ r \in Nat /\ Len(s) \in Nat /\ r <= Len(s) /\ s \in Seq(HeardBytes)
      /\ read \in [Clients -> Nat] /\ Programs \subseteq Clients
  BY Kept, ClientAssumption
<1>2. /\ ClientReads(c, n) /\ Unread(c) > 0
      /\ cout' = [cout EXCEPT ![c] = IF ToShow(c, m) THEN @ \o m ELSE @]
      /\ recv_message_' = [recv_message_ EXCEPT ![c] = KeptBack(c, m)]
  BY DEF Client_recvMessage
<1>3. n \in Nat \ {0} /\ r + n <= Len(s)
  <2>1. Unread(c) = Len(s) - r /\ Unread(c) \in Nat \ {0}
    BY <1>1, <1>2 DEF Unread
  <2> QED
    BY <1>1, <2>1, Constants DEF Least
<1>4. /\ read' = [read EXCEPT ![c] = @ + n]
      /\ UNCHANGED <<clients_, sent, delivered, cut>>
  BY <1>2 DEF ClientReads, program
<1>5. /\ cout[c] \in Seq(HeardBytes) /\ recv_message_[c] \in Seq(HeardBytes)
      /\ cout[c] \o recv_message_[c] = SubSeq(s, 1, r)
      /\ c \notin cut /\ cout[c] # <<>> => EndsALine(Last(cout[c]))
      /\ DOMAIN cout = Programs /\ DOMAIN recv_message_ = Programs
  BY DEF Screens, Screen
<1>6. /\ DOMAIN cout' = Programs /\ DOMAIN recv_message_' = Programs
      /\ read'[c] = r + n
      /\ cout'[c] = (IF ToShow(c, m) THEN cout[c] \o m ELSE cout[c])
      /\ recv_message_'[c] = KeptBack(c, m)
      /\ \A d \in Programs \ {c} : /\ cout'[d] = cout[d] /\ recv_message_'[d] = recv_message_[d]
                                   /\ read'[d] = read[d]
  BY <1>1, <1>2, <1>4, <1>5
<1> HIDE DEF n, s, r, m
<1>7. new \in Seq(HeardBytes) /\ Len(new) = n
  <2>1. \A i \in r + 1 .. r + n : s[i] \in HeardBytes
    BY <1>1, <1>3, ElementOfSeq
  <2>2. r + 1 \in Int /\ r + n \in Int /\ r + 1 <= r + n /\ (r + n) - (r + 1) + 1 = n
    BY <1>1, <1>3
  <2> QED
    BY <2>1, <2>2, SubSeqProperties
<1>8. SubSeq(s, 1, r) \o new = SubSeq(s, 1, r + n)
  BY <1>1, <1>3, ConcatAdjacentSubSeq
<1> HIDE DEF new
<1>9. m \in Seq(HeardBytes) /\ m # <<>> /\ Len(m) \in Nat \ {0}
  <2>1. m \in Seq(HeardBytes) /\ Len(m) = Len(recv_message_[c]) + n /\ Len(recv_message_[c]) \in Nat
    BY <1>5, <1>7, ConcatProperties, LenProperties DEF m
  <2>2. Len(m) \in Nat \ {0}
    BY <1>3, <2>1
  <2> QED
    BY <2>1, <2>2, EmptySeq
<1>10. cout[c] \o m = SubSeq(s, 1, r + n)
  <2>1. (cout[c] \o recv_message_[c]) \o new = cout[c] \o m
    <3>1. \A x, y, z \in Seq(HeardBytes) : (x \o y) \o z = x \o (y \o z)
      BY ConcatAssociative
    <3>2. (cout[c] \o recv_message_[c]) \o new = cout[c] \o (recv_message_[c] \o new)
      BY <1>5, <1>7, <3>1
    <3> QED
      BY <3>2 DEF m
  <2> QED
    BY <1>5, <1>8, <2>1
<1>11. Len(SubSeq(s, 1, r + n)) = r + n /\ SubSeq(s, 1, r + n)[r + n] = s[r + n] /\ r + n \in Nat \ {0}
  <2>1. \A i \in 1 .. r + n : s[i] \in HeardBytes
    BY <1>1, <1>3, ElementOfSeq DEF s, r
  <2>2. r + n \in Nat \ {0} /\ r \in Nat
    BY <1>1, <1>3 DEF r
  <2> HIDE DEF r
  <2>3. /\ Len(SubSeq(s, 1, r + n)) = (IF 1 <= r + n THEN (r + n) - 1 + 1 ELSE 0)
        /\ \A i \in 1 .. (r + n) - 1 + 1 : SubSeq(s, 1, r + n)[i] = s[1 + i - 1]
    BY <2>1, <2>2, SubSeqProperties
  <2> DEFINE p == r + n
  <2> HIDE DEF p
  <2>4. p \in Nat \ {0} /\ Len(SubSeq(s, 1, p)) = (IF 1 <= p THEN p - 1 + 1 ELSE 0)
        /\ \A i \in 1 .. p - 1 + 1 : SubSeq(s, 1, p)[i] = s[1 + i - 1]
    BY <2>2, <2>3 DEF p
  <2>5. p \in 1 .. p - 1 + 1 /\ 1 + p - 1 = p
    BY <2>4
  <2>6. SubSeq(s, 1, p)[p] = s[p] /\ Len(SubSeq(s, 1, p)) = p
    BY <2>4, <2>5
  <2> QED
    BY <2>4, <2>6 DEF p
<1>12. Last(cout[c] \o m) = Last(m)
  <2>1. /\ Len(cout[c] \o m) = Len(cout[c]) + Len(m) /\ Len(cout[c]) \in Nat
        /\ \A i \in 1 .. Len(cout[c]) + Len(m) :
             (cout[c] \o m)[i] = IF i <= Len(cout[c]) THEN cout[c][i] ELSE m[i - Len(cout[c])]
    BY <1>5, <1>9, ConcatProperties, LenProperties
  <2>2. \A a \in Nat, b \in Nat \ {0} :
          a + b \in 1 .. a + b /\ ~(a + b <= a) /\ (a + b) - a = b
    OBVIOUS
  <2>3. (cout[c] \o m)[Len(cout[c]) + Len(m)] = m[Len(m)]
    BY <1>9, <2>1, <2>2
  <2> QED
    BY <2>1, <2>3 DEF Last
<1>13. CASE ToShow(c, m)
  <2>1. cout'[c] = cout[c] \o m /\ recv_message_'[c] = <<>>
    BY <1>6, <1>13 DEF KeptBack
  <2>2. /\ cout[c] \o m \in Seq(HeardBytes) /\ (cout[c] \o m) \o <<>> = cout[c] \o m
        /\ <<>> \in Seq(HeardBytes)
    BY <1>5, <1>9, ConcatProperties, ConcatEmptySeq, EmptySeq
  <2>4. EndsALine(Last(cout[c]))'
    <3>1. EndsALine(Last(cout[c] \o m))
      BY <1>13, <1>12 DEF ToShow
    <3> QED
      BY <1>4, <2>1, <3>1 DEF EndsALine, Welcome, Last
  <2>5. cout'[c] \o recv_message_'[c] = SubSeq(delivered'[c], 1, read'[c])
    BY <1>4, <1>6, <1>10, <2>1, <2>2 DEF s
  <2>6. ~(Len(cout'[c]) < read'[c])
    <3>1. Len(SubSeq(s, 1, r + n)) = r + n
      BY <1>11
    <3> QED
      BY <1>6, <1>10, <1>11, <2>1, <3>1
  <2>7. Screen(c)'
    BY <2>1, <2>2, <2>4, <2>5, <2>6 DEF Screen, HeardBytes, Bytes, Welcome
  <2> QED
    BY <1>4, <1>6, <2>7
<1>14. CASE ~ToShow(c, m)
  <2>1. cout'[c] = cout[c] /\ recv_message_'[c] = m
    BY <1>6, <1>14 DEF KeptBack
  <2>2. cout'[c] \o recv_message_'[c] = SubSeq(delivered'[c], 1, read'[c])
    BY <1>4, <1>6, <1>10, <2>1 DEF s
  <2>3. c \notin cut' /\ cout'[c] # <<>> => EndsALine(Last(cout[c]))'
    BY <1>4, <1>5, <2>1 DEF EndsALine, Welcome, Last
  <2>5. ~EndsALine(delivered[c][read[c]])'
    <3>1. Last(cout[c] \o m) = s[r + n]
      BY <1>10, <1>11 DEF Last
    <3>2. ~EndsALine(s[r + n])
      BY <1>14, <1>12, <3>1 DEF ToShow
    <3> QED
      BY <1>4, <1>6, <3>2 DEF EndsALine, Welcome, s
  <2>4. Screen(c)'
    BY <1>5, <1>9, <2>1, <2>2, <2>3, <2>5 DEF Screen, HeardBytes, Bytes, Welcome
  <2> QED
    BY <1>4, <1>6, <2>4
<1> QED
  BY <1>13, <1>14

-----------------------------------------------------------------------------
(* Bytes are where they were as long as nobody types, reads or sends. *)
LEMMA SameCount ==
  ASSUME Counted, InOrder, UNCHANGED <<stdin, cin, buf_send, typed, refused>>,
         \A c \in Programs : sent'[c] = sent[c]
  PROVE  Counted' /\ InOrder'
<1>1. Counted'
  BY DEF Counted, Counts
<1>2. \A c \in Programs : refused'[c] = 0 => LinesIn(sent'[c] \o buf_send'[c])
  BY DEF InOrder
<1> QED
  BY <1>1, <1>2 DEF InOrder

(* Screens are what they were as long as no program receives. *)
LEMMA SameScreens ==
  ASSUME ServerInv, Given, Screens, SentStays, DeliveredStays, cut \subseteq cut',
         UNCHANGED <<cout, recv_message_>>, \A c \in Programs : read'[c] = read[c]
  PROVE  Screens'
<1>1. \A c \in Programs : Screen(c)'
  BY ScreenStays DEF Screens
<1> QED
  BY <1>1 DEF Screens

(* More to read does not make what poll said wrong, and when the server is *)
(* gone nothing more comes.                                                *)
LEMMA SamePoll ==
  ASSUME ServerInv, Polled, DeliveredStays, cut \subseteq cut', up' => up,
         ~up => UNCHANGED delivered, NEW c \in Programs, read'[c] = read[c],
         revents'[c] = revents[c], buf_send'[c] = buf_send[c],
         told'[c] = told[c], pc'[c] = pc[c], cout'[c] = cout[c]
  PROVE  Poll(c)'
<1>1. /\ c \in Clients /\ read[c] \in Nat /\ Len(delivered[c]) \in Nat
      /\ Len(delivered[c]) <= Len(delivered'[c]) /\ Len(delivered'[c]) \in Nat
  BY Kept, ClientAssumption, LenProperties DEF DeliveredStays
<1>2. Unread(c)' >= Unread(c) /\ Unread(c) \in Int /\ Unread(c)' \in Int
  BY <1>1 DEF Unread
<1>3. ~up => Unread(c)' = Unread(c) /\ delivered'[c] = delivered[c]
  BY DEF Unread
<1>4. Poll(c)
  BY DEF Polled
<1>5. up' /\ "POLLIN" \in revents'[c] => Unread(c)' > 0
  <2>1. up' /\ "POLLIN" \in revents'[c] => Unread(c) > 0
    BY <1>4 DEF Poll
  <2> QED
    BY <1>2, <2>1
<1>6. SaysEnd(revents'[c]) => ~up' /\ ("POLLIN" \in revents'[c] \/ Unread(c)' = 0)
  BY <1>3, <1>4 DEF Poll
<1>7. told'[c] => ~up' /\ pc'[c] = "done" /\ (c \notin cut' => cout'[c] = delivered'[c])
  BY <1>3, <1>4 DEF Poll
<1> QED
  BY <1>4, <1>5, <1>6, <1>7 DEF Poll, SaysEnd

(* The same of all programs, when none of them does anything. *)
LEMMA SamePolled ==
  ASSUME ServerInv, Polled, DeliveredStays, cut \subseteq cut', up' => up,
         ~up => UNCHANGED delivered, \A c \in Programs : read'[c] = read[c],
         UNCHANGED <<revents, buf_send, told, pc, cout>>
  PROVE  Polled'
<1>1. \A c \in Programs : Poll(c)'
  BY SamePoll
<1> QED
  BY <1>1 DEF Polled

(* What one program does leaves what poll said to the others. *)
LEMMA OthersPoll ==
  ASSUME ServerInv, Polled, NEW c \in Programs, Poll(c)', UNCHANGED <<delivered, cut, up>>,
         DOMAIN revents' = Programs, DOMAIN pc' = Programs, DOMAIN told' = Programs,
         \A d \in Programs \ {c} :
           /\ read'[d] = read[d] /\ revents'[d] = revents[d] /\ buf_send'[d] = buf_send[d]
           /\ told'[d] = told[d] /\ pc'[d] = pc[d] /\ cout'[d] = cout[d]
  PROVE  Polled'
<1>1. DeliveredStays
  BY NothingIsSent
<1>2. \A d \in Programs \ {c} : Poll(d)'
  BY <1>1, SamePoll
<1> QED
  BY <1>2 DEF Polled

-----------------------------------------------------------------------------
(* One more of something that has l bytes. *)
LEMMA OneMore ==
  ASSUME NEW x \in Nat, NEW l \in Nat
  PROVE  (x + 1) * l = x * l + l /\ x * l \in Nat
  OBVIOUS

(* One line more is typed, and waits. *)
LEMMA OneLineMore ==
  ASSUME NEW a \in Nat, NEW x \in Nat, NEW b \in Nat, NEW s \in Nat, NEW f \in Nat, NEW l \in Nat,
         a * l = x * l + b + s + f
  PROVE  (a + 1) * l = (x + 1) * l + b + s + f
<1>1. /\ (a + 1) * l = a * l + l /\ (x + 1) * l = x * l + l
      /\ a * l \in Nat /\ x * l \in Nat
  BY OneMore
<1> QED
  BY <1>1

(* A line has a byte at least, the one that ends it. *)
LEMMA LineLength == Len(Line) \in Nat \ {0} /\ Line \in Seq(BOOLEAN)
  BY ClientAssumption, EmptySeq, LenProperties

(* A line after lines. *)
LEMMA LineFollows ==
  ASSUME NEW w \in Seq(BOOLEAN), LinesIn(w)
  PROVE  LinesIn(w \o Line)
<1> DEFINE t == w \o Line
           n == Len(w)
           l == Len(Line)
<1>1. n \in Nat /\ l \in Nat \ {0} /\ Line \in Seq(BOOLEAN)
  BY LineLength, LenProperties
<1>2. Len(t) = n + l /\ \A i \in 1 .. n + l : t[i] = IF i <= n THEN w[i] ELSE Line[i - n]
  BY <1>1, ConcatProperties
<1>3. /\ \A k \in 1 .. n : w[k] = IF k <= l THEN Line[k] ELSE w[k - l]
      /\ n = 0 \/ (n >= l /\ \A j \in 1 .. l : w[n - l + j] = Line[j])
  BY DEF LinesIn
<1> HIDE DEF t, n, l
<1>4. \A j \in 1 .. l : t[n + j] = Line[j]
  <2> SUFFICES ASSUME NEW j \in 1 .. l PROVE t[n + j] = Line[j]
    OBVIOUS
  <2>1. n + j \in 1 .. n + l /\ ~(n + j <= n) /\ (n + j) - n = j
    BY <1>1
  <2> QED
    BY <1>2, <2>1
<1>5. \A i \in 1 .. n : t[i] = w[i]
  BY <1>1, <1>2
<1> DEFINE P(i) == t[i] = IF i <= l THEN Line[i] ELSE t[i - l]
<1>6. ASSUME NEW k \in 1 .. n PROVE P(k)
  <2>1. ~(k <= l) => k - l \in 1 .. n
    BY <1>1
  <2> QED
    BY <1>3, <1>5, <2>1
<1>7. ASSUME NEW j \in 1 .. l, NEW k, k = n + j PROVE P(k)
  <2>1. CASE n = 0
    <3>1. k <= l /\ k = j
      BY <1>1, <1>7, <2>1
    <3> QED
      BY <1>4, <1>7, <3>1
  <2>2. CASE n >= l /\ \A i \in 1 .. l : w[n - l + i] = Line[i]
    <3>1. ~(k <= l) /\ k - l \in 1 .. n /\ k - l = n - l + j
      BY <1>1, <1>7, <2>2
    <3>2. t[k - l] = w[n - l + j]
      BY <1>5, <3>1
    <3> QED
      BY <1>4, <1>7, <2>2, <3>1, <3>2
  <2> QED
    BY <1>3, <2>1, <2>2
<1>8. ASSUME NEW k \in 1 .. n + l PROVE P(k)
  <2> HIDE DEF P
  <2>1. k \in 1 .. n \/ (k - n \in 1 .. l /\ n + (k - n) = k)
    BY <1>1
  <2> QED
    BY <1>6, <1>7, <2>1
<1>9. n + l >= l /\ \A j \in 1 .. l : t[n + l - l + j] = Line[j]
  <2>1. n + l >= l /\ n + l - l = n
    BY <1>1
  <2> QED
    BY <1>4, <2>1
<1> QED
  BY <1>2, <1>8, <1>9 DEF LinesIn, t, l

(* A line is taken by getline: it was typed, and is sent next. *)
LEMMA LineIsTaken ==
  ASSUME ServerInv, LineTypes, Counted, InOrder, Polled, NEW c \in Programs, Client_sendMessage(c)
  PROVE  Counted' /\ InOrder'
<1>1. /\ revents[c] = {"STDIN"} /\ UNCHANGED <<typed, refused, sent>>
      /\ buf_send' = [buf_send EXCEPT ![c] = Line]
  BY DEF Client_sendMessage, vars, peers
<1>2. PICK n \in Taken(c) : /\ stdin' = [stdin EXCEPT ![c] = @ - n]
                            /\ cin' = [cin EXCEPT ![c] = @ + n - 1]
  BY DEF Client_sendMessage
<1>3. /\ stdin[c] \in Nat /\ cin[c] \in Nat /\ typed[c] \in Nat /\ refused[c] \in Nat
      /\ stdin \in [Programs -> Nat] /\ cin \in [Programs -> Nat]
      /\ typed \in [Programs -> Nat] /\ refused \in [Programs -> Nat]
      /\ \A d \in Programs : Counts(d)
  BY DEF Counted
<1>4. n \in Nat /\ n <= stdin[c] /\ cin[c] + n >= 1
  BY <1>2, <1>3 DEF Taken
<1>5. /\ stdin'[c] = stdin[c] - n /\ cin'[c] = cin[c] + n - 1
      /\ stdin' \in [Programs -> Nat] /\ cin' \in [Programs -> Nat]
      /\ \A d \in Programs \ {c} : stdin'[d] = stdin[d] /\ cin'[d] = cin[d]
  BY <1>2, <1>3, <1>4
<1>6. /\ buf_send[c] = <<>> /\ buf_send'[c] = Line
      /\ \A d \in Programs \ {c} : buf_send'[d] = buf_send[d]
  BY <1>1 DEF Polled, Poll, LineTypes
<1>7. /\ c \in Clients /\ Len(sent[c]) \in Nat /\ sent[c] \in Seq(BOOLEAN)
      /\ Len(Line) \in Nat \ {0} /\ Line \in Seq(BOOLEAN)
  BY Kept, ClientAssumption, LineLength
<1>8. Counts(c)'
  <2> DEFINE l == Len(Line)
             x == stdin'[c] + cin'[c]
             sl == Len(sent[c])
  <2>1. x \in Nat /\ stdin[c] + cin[c] = x + 1
    BY <1>3, <1>4, <1>5
  <2>2. typed[c] * l = (stdin[c] + cin[c]) * l + Len(buf_send[c]) + sl + refused[c]
    BY <1>3 DEF Counts
  <2> HIDE DEF x, l, sl
  <2>3. l \in Nat /\ sl \in Nat /\ Len(buf_send[c]) = 0
    BY <1>6, <1>7 DEF l, sl
  <2>4. (x + 1) * l = x * l + l /\ x * l \in Nat
    BY <2>1, <2>3, OneMore
  <2>5. typed[c] * l = x * l + l + sl + refused[c]
    BY <1>3, <2>1, <2>2, <2>3, <2>4
  <2> QED
    BY <1>1, <1>6, <2>5 DEF Counts, x, l, sl
<1>9. \A d \in Programs \ {c} : Counts(d)'
  BY <1>1, <1>3, <1>5, <1>6 DEF Counts
<1>10. Counted'
  <2>1. UNCHANGED <<typed, refused>>
    BY <1>1
  <2> QED
    BY <1>3, <1>5, <1>8, <1>9, <2>1 DEF Counted
<1>11. ASSUME refused'[c] = 0 PROVE LinesIn(sent'[c] \o buf_send'[c])
  <2>1. LinesIn(sent[c])
    <3>1. LinesIn(sent[c] \o buf_send[c])
      BY <1>1, <1>11 DEF InOrder
    <3>2. sent[c] \o <<>> = sent[c]
      BY <1>7, ConcatEmptySeq
    <3> QED
      BY <1>6, <3>1, <3>2
  <2> QED
    BY <1>1, <1>6, <1>7, <2>1, LineFollows
<1>12. \A d \in Programs \ {c} : refused'[d] = 0 => LinesIn(sent'[d] \o buf_send'[d])
  BY <1>1, <1>6 DEF InOrder
<1>13. InOrder'
  BY <1>11, <1>12 DEF InOrder
<1> QED
  BY <1>10, <1>13

(* A piece is sent, as much of it as the kernel takes: it goes after what  *)
(* was sent, and the rest is refused.                                      *)
LEMMA PieceIsSent ==
  ASSUME ServerInv, LineTypes, Given, Counted, InOrder, NEW c \in Programs, SendPiece(c)
  PROVE  /\ Counted' /\ InOrder' /\ Given' /\ SentStays /\ DeliveredStays
         /\ UNCHANGED <<cut, read, delivered>>
<1> DEFINE p == Piece(c)
           q == AfterPiece(c)
           a == Accepted(c)
           p1 == SubSeq(p, 1, a)
           s == sent[c]
<1>1. /\ buf_send' = [buf_send EXCEPT ![c] = q] /\ UNCHANGED <<stdin, cin, typed>>
      /\ refused' = [refused EXCEPT ![c] = @ + Len(p) - a]
      /\ IF a = 0 THEN UNCHANGED vars ELSE ClientSends(c, p1)
  BY DEF SendPiece
<1>2. /\ p \in Seq(BOOLEAN) /\ q \in Seq(BOOLEAN) /\ Len(p) \in Nat /\ Len(q) \in Nat
      /\ buf_send[c] = p \o q /\ Len(p) + Len(q) = Len(buf_send[c])
      /\ a \in Nat /\ a <= Len(p) /\ p1 \in Seq(BOOLEAN) /\ Len(p1) = a
  BY PieceIsCutOff, AcceptedBytes
<1>3. c \in Clients /\ Programs \subseteq Clients /\ s \in Seq(BOOLEAN) /\ Len(s) \in Nat
  BY Kept, ClientAssumption
<1>4. a = Len(p) => p1 = p
  BY <1>2, SubSeqFull
<1> HIDE DEF p, q, a, p1
<1>5. /\ sent'[c] = s \o p1 /\ \A d \in Clients \ {c} : sent'[d] = sent[d]
      /\ Given' /\ SentStays /\ DeliveredStays /\ UNCHANGED <<cut, read, delivered>>
  <2>1. CASE a = 0
    <3>1. UNCHANGED <<sent, read, delivered, cut, clients_>>
      BY <1>1, <2>1 DEF vars, peers, program
    <3>2. p1 = <<>> /\ s \o <<>> = s
      BY <1>2, <1>3, <2>1, EmptySeq, ConcatEmptySeq
    <3> QED
      BY <3>1, <3>2, NothingIsGiven
  <2>2. CASE a # 0
    <3>1. ClientSends(c, p1)
      BY <1>1, <2>2
    <3> QED
      BY <1>2, <1>3, <3>1, SendsGive
  <2> QED
    BY <2>1, <2>2
<1>6. Len(sent'[c]) = Len(s) + a
  <2> HIDE DEF s
  <2>1. s \in Seq(BOOLEAN) /\ p1 \in Seq(BOOLEAN)
    BY <1>2, <1>3
  <2>2. Len(s \o p1) = Len(s) + Len(p1)
    BY <2>1, ConcatProperties
  <2> QED
    BY <1>2, <1>5, <2>2 DEF s
<1>7. /\ stdin \in [Programs -> Nat] /\ cin \in [Programs -> Nat]
      /\ typed \in [Programs -> Nat] /\ refused \in [Programs -> Nat]
      /\ \A d \in Programs : Counts(d)
  BY DEF Counted
<1>8. /\ buf_send'[c] = q /\ refused'[c] = refused[c] + Len(p) - a
      /\ refused' \in [Programs -> Nat]
      /\ \A d \in Programs \ {c} : buf_send'[d] = buf_send[d] /\ refused'[d] = refused[d]
  BY <1>1, <1>2, <1>7 DEF LineTypes
<1>9. Counts(c)'
  <2> DEFINE x == typed[c] * Len(Line)
             y == (stdin[c] + cin[c]) * Len(Line)
  <2>1. x = y + Len(buf_send[c]) + Len(s) + refused[c]
    BY <1>7 DEF Counts
  <2>2. x' = x /\ y' = y
    BY <1>1
  <2>3. y \in Nat
    <3>1. stdin[c] \in Nat /\ cin[c] \in Nat /\ Len(Line) \in Nat
      BY <1>7, LineLength
    <3>2. stdin[c] + cin[c] \in Nat
      BY <3>1
    <3> QED
      BY <3>1, <3>2, OneMore
  <2> HIDE DEF x, y
  <2>4. refused[c] \in Nat /\ Len(s) \in Nat /\ Len(buf_send'[c]) = Len(q)
    BY <1>3, <1>7, <1>8
  <2> DEFINE ls == Len(s)
  <2> HIDE DEF s
  <2>5. x = y + Len(q) + (Len(s) + a) + (refused[c] + Len(p) - a)
    BY <1>2, <2>1, <2>3, <2>4
  <2>6. x' = y' + Len(buf_send'[c]) + Len(sent'[c]) + refused'[c]
    BY <1>6, <1>8, <2>2, <2>4, <2>5
  <2> QED
    BY <2>6 DEF Counts, x, y
<1>10. \A d \in Programs \ {c} : Counts(d)'
  BY <1>1, <1>3, <1>5, <1>7, <1>8 DEF Counts
<1>11. Counted'
  <2>1. \A d \in Programs : Counts(d)'
    BY <1>9, <1>10
  <2> QED
    BY <1>1, <1>7, <1>8, <2>1 DEF Counted
<1>12. ASSUME refused'[c] = 0 PROVE LinesIn(sent'[c] \o buf_send'[c])
  <2>1. refused[c] = 0 /\ a = Len(p)
    <3>1. refused[c] \in Nat
      BY <1>7
    <3> QED
      BY <1>2, <1>8, <1>12, <3>1
  <2>2. LinesIn(s \o (p \o q))
    BY <1>2, <2>1 DEF InOrder
  <2>3. (s \o p) \o q = s \o (p \o q)
    <3> HIDE DEF s
    <3> QED
      BY <1>2, <1>3, ConcatAssociative
  <2>4. sent'[c] \o buf_send'[c] = s \o (p \o q)
    BY <1>4, <1>5, <1>8, <2>1, <2>3
  <2> QED
    BY <2>2, <2>4
<1>13. \A d \in Programs \ {c} : refused'[d] = 0 => LinesIn(sent'[d] \o buf_send'[d])
  BY <1>3, <1>5, <1>8 DEF InOrder
<1>14. InOrder'
  BY <1>12, <1>13 DEF InOrder
<1> QED
  BY <1>5, <1>11, <1>14

(* When nothing is left to read, all that was delivered has been shown:    *)
(* what is held back would be the end of a line.                           *)
LEMMA AllIsShown ==
  ASSUME ServerInv, Given, Screens, NEW c \in Programs, c \notin cut, Unread(c) = 0
  PROVE  cout[c] = delivered[c]
<1> DEFINE s == delivered[c]
           o == cout[c]
           k == recv_message_[c]
<1>1. /\ s \in Seq(HeardBytes) /\ Len(s) \in Nat /\ read[c] = Len(s)
      /\ s # <<>> => WholeLinesIn(s)
  BY Kept, ClientAssumption DEF Unread, Given
<1>2. /\ o \in Seq(HeardBytes) /\ k \in Seq(HeardBytes) /\ Len(o) \in Nat /\ Len(k) \in Nat
      /\ o \o k = SubSeq(s, 1, Len(s)) /\ (Len(o) < Len(s) => ~EndsALine(s[Len(s)]))
  BY <1>1, LenProperties DEF Screens, Screen
<1> HIDE DEF s, o, k
<1>3. o \o k = s /\ Len(o) + Len(k) = Len(s)
  <2>1. Len(o \o k) = Len(o) + Len(k)
    BY <1>2, ConcatProperties
  <2> QED
    BY <1>1, <1>2, <2>1, SubSeqFull
<1>4. ~(Len(o) < Len(s))
  <2> SUFFICES ASSUME Len(o) < Len(s) PROVE FALSE
    OBVIOUS
  <2>1. ~EndsALine(s[Len(s)]) /\ s # <<>> /\ WholeLinesIn(s)
    BY <1>1, <1>2, EmptySeq
  <2>2. CASE Len(s) = 1
    BY <2>1, <2>2 DEF WholeLinesIn, EndsALine
  <2>3. CASE Len(s) # 1
    <3>1. Len(s) \in 2 .. Len(s) /\ Len(s) + 1 \notin 1 .. Len(s)
      <4>1. \A i, j \in Nat : i < j /\ j # 1 => j \in 2 .. j /\ j + 1 \notin 1 .. j
        OBVIOUS
      <4>2. Len(o) \in Nat /\ Len(s) \in Nat
        BY <1>1, <1>2
      <4> QED
        BY <2>3, <4>1, <4>2, Zenon
    <3> QED
      BY <2>1, <3>1 DEF WholeLinesIn, GoesOn, EndsALine, EndsLine
  <2> QED
    BY <2>2, <2>3
<1>5. k = <<>>
  <2>1. Len(k) = 0
    BY <1>1, <1>2, <1>3, <1>4
  <2> QED
    BY <1>2, <2>1, EmptySeq
<1>6. o = s
  BY <1>2, <1>3, <1>5, ConcatEmptySeq
<1> QED
  BY <1>6 DEF o, s

-----------------------------------------------------------------------------
(* Nothing is typed, sent or shown at first. *)
LEMMA ChatInitially == ChatInit => ChatInv
<1> SUFFICES ASSUME ChatInit PROVE ChatInv
  OBVIOUS
<1>1. ServerInv /\ Programs \subseteq Clients
  BY ServerInitially, ClientAssumption DEF ChatInit
<1>2. /\ clients_ = {} /\ sent = [c \in Clients |-> <<>>]
      /\ delivered = [c \in Clients |-> <<>>] /\ read = [c \in Clients |-> 0]
      /\ stdin = [c \in Programs |-> 0] /\ cin = [c \in Programs |-> 0]
      /\ typed = [c \in Programs |-> 0] /\ refused = [c \in Programs |-> 0]
      /\ recv_message_ = [c \in Programs |-> <<>>] /\ cout = [c \in Programs |-> <<>>]
      /\ buf_send = [c \in Programs |-> <<>>]
      /\ pc = [c \in Programs |-> "polls"] /\ revents = [c \in Programs |-> {}]
      /\ told = [c \in Programs |-> FALSE]
  BY DEF ChatInit, Init
<1>3. Given /\ LineTypes
  BY <1>2 DEF Given, LineTypes
<1>4. Screens
  <2> SUFFICES ASSUME NEW c \in Programs PROVE Screen(c)
    BY <1>2 DEF Screens
  <2>1. cout[c] = <<>> /\ recv_message_[c] = <<>> /\ read[c] = 0
    BY <1>1, <1>2
  <2>2. <<>> \in Seq(HeardBytes) /\ <<>> \o <<>> = <<>> /\ ~(Len(<<>>) < 0)
    BY EmptySeq, ConcatEmptySeq
  <2>3. SubSeq(delivered[c], 1, read[c]) = <<>>
    BY <2>1, SubSeqEmpty
  <2> QED
    BY <2>1, <2>2, <2>3 DEF Screen
<1>5. Counted
  <2>1. Len(Line) \in Nat
    BY LineLength
  <2>2. ASSUME NEW c \in Programs PROVE Counts(c)
    <3>1. /\ Len(sent[c]) = 0 /\ typed[c] = 0 /\ stdin[c] = 0 /\ cin[c] = 0 /\ refused[c] = 0
          /\ Len(buf_send[c]) = 0
      BY <1>1, <1>2
    <3> QED
      BY <2>1, <3>1 DEF Counts
  <2>3. stdin \in [Programs -> Nat]
    BY <1>2
  <2> QED
    BY <1>2, <2>2, <2>3 DEF Counted
<1>6. InOrder
  <2>1. LinesIn(<<>>)
    BY EmptySeq DEF LinesIn
  <2>2. \A c \in Programs : sent[c] \o buf_send[c] = <<>>
    BY <1>1, <1>2
  <2> QED
    BY <2>1, <2>2 DEF InOrder
<1>7. Polled
  BY <1>2 DEF Polled, Poll, SaysEnd
<1> QED
  BY <1>1, <1>3, <1>4, <1>5, <1>6, <1>7 DEF ChatInv

(* What poll says is so. *)
LEMMA PollSays ==
  ASSUME ServerInv, Polled, NEW c \in Programs, poll(c)
  PROVE  Polled'
<1>1. PICK e \in SocketEvents(c) : revents' = [revents EXCEPT ![c] = e \cup InputEvents(c)]
  BY DEF poll
<1>2. /\ pc[c] = "polls" /\ buf_send[c] = <<>>
      /\ UNCHANGED <<delivered, cut, up, read, buf_send, told, pc, cout>>
  BY DEF poll, vars, peers, keyboard, screen
<1>3. /\ DOMAIN revents = Programs /\ DOMAIN pc = Programs /\ DOMAIN told = Programs
      /\ ~told[c]
  BY <1>2 DEF Polled, Poll
<1>4. /\ revents'[c] = e \cup InputEvents(c) /\ DOMAIN revents' = Programs
      /\ \A d \in Programs \ {c} : revents'[d] = revents[d]
  BY <1>1, <1>3
<1>5. InputEvents(c) \subseteq {"STDIN"}
  BY DEF InputEvents
<1>6. ("POLLIN" \in revents'[c] <=> "POLLIN" \in e) /\ (SaysEnd(revents'[c]) <=> SaysEnd(e))
  BY <1>4, <1>5 DEF SaysEnd
<1>7. Unread(c)' = Unread(c) /\ Unread(c) \in Nat
  BY <1>2, Kept, ClientAssumption DEF Unread
<1>8. CASE up
  <2>1. e \subseteq {"POLLIN"} /\ (e # {} => Unread(c) > 0)
    BY <1>8 DEF SocketEvents
  <2> QED
    BY <1>2, <1>3, <1>4, <1>5, <1>6, <1>7, <2>1, OthersPoll DEF Poll, SaysEnd
<1>9. CASE ~up
  <2>1. e \subseteq {"POLLIN", "POLLERR", "POLLHUP"} /\ (Unread(c) > 0 => "POLLIN" \in e)
    BY <1>9 DEF SocketEvents
  <2>2. "POLLIN" \in e \/ Unread(c) = 0
    BY <1>7, <2>1
  <2> QED
    BY <1>2, <1>3, <1>4, <1>5, <1>6, <1>7, <1>9, <2>1, <2>2, OthersPoll DEF Poll
<1> QED
  BY <1>8, <1>9

(* A program that says that the connection is lost has nothing to read and *)
(* nothing held back.                                                      *)
LEMMA LossIsLast ==
  ASSUME ServerInv, Given, Screens, Polled, NEW c \in Programs, LoseConnection(c)
  PROVE  Polled'
<1>1. /\ pc[c] = "polls" /\ Loses(c)
      /\ told' = [told EXCEPT ![c] = TRUE] /\ pc' = [pc EXCEPT ![c] = "done"]
      /\ revents' = [revents EXCEPT ![c] = {}]
      /\ UNCHANGED <<delivered, cut, up, read, buf_send, cout>>
  BY DEF LoseConnection, Ends, vars, peers, keyboard
<1>2. /\ DOMAIN revents = Programs /\ DOMAIN pc = Programs /\ DOMAIN told = Programs /\ Poll(c)
  BY DEF Polled
<1>3. Unread(c) \in Nat
  BY Kept, ClientAssumption DEF Unread
<1>4. ~up /\ Unread(c) = 0
  BY <1>1, <1>2, <1>3 DEF Loses, Poll
<1>5. c \notin cut' => cout'[c] = delivered'[c]
  BY <1>1, <1>4, AllIsShown
<1>6. Poll(c)'
  BY <1>1, <1>2, <1>4, <1>5 DEF Poll, SaysEnd
<1> QED
  BY <1>1, <1>2, <1>6, OthersPoll

(* The other steps of the program and of its user leave nothing of what    *)
(* poll said that is not so any more.                                      *)
LEMMA HandledIsForgotten ==
  ASSUME ServerInv, LineTypes, Polled, NEW c \in Programs,
         Client_recvMessage(c) \/ Client_sendMessage(c) \/ SendPiece(c) \/ Interrupt(c),
         UNCHANGED <<delivered, cut>>, \A d \in Programs \ {c} : read'[d] = read[d] /\ cout'[d] = cout[d]
  PROVE  Polled'
<1>1. /\ DOMAIN revents = Programs /\ DOMAIN pc = Programs /\ DOMAIN told = Programs /\ Poll(c)
      /\ DOMAIN buf_send = Programs
  BY DEF Polled, LineTypes
<1>2. CASE Client_recvMessage(c)
  <2>1. /\ pc[c] = "polls" /\ "POLLIN" \in revents[c] /\ UNCHANGED <<pc, told, buf_send, up>>
        /\ revents' = [revents EXCEPT ![c] = @ \cap {"STDIN"}]
    BY <1>2 DEF Client_recvMessage, SocketDone, keyboard
  <2>2. Poll(c)'
    BY <1>1, <2>1 DEF Poll, SaysEnd
  <2> QED
    BY <1>1, <2>1, <2>2, OthersPoll
<1>3. CASE Client_sendMessage(c)
  <2>1. /\ pc[c] = "polls" /\ UNCHANGED <<pc, told, up>>
        /\ revents' = [revents EXCEPT ![c] = {}] /\ buf_send' = [buf_send EXCEPT ![c] = Line]
    BY <1>3 DEF Client_sendMessage, screen
  <2>2. Poll(c)'
    BY <1>1, <2>1 DEF Poll, SaysEnd
  <2> QED
    BY <1>1, <2>1, <2>2, OthersPoll
<1>4. CASE SendPiece(c)
  <2>1. /\ pc[c] = "polls" /\ buf_send[c] # <<>> /\ UNCHANGED <<pc, told, up, revents>>
        /\ buf_send' = [buf_send EXCEPT ![c] = AfterPiece(c)]
    BY <1>4 DEF SendPiece, screen
  <2>2. Poll(c)'
    BY <1>1, <2>1 DEF Poll, SaysEnd
  <2> QED
    BY <1>1, <2>1, <2>2, OthersPoll
<1>5. CASE Interrupt(c)
  <2>1. /\ pc[c] = "polls" /\ UNCHANGED <<told, buf_send, up>>
        /\ pc' = [pc EXCEPT ![c] = "done"] /\ revents' = [revents EXCEPT ![c] = {}]
    BY <1>5 DEF Interrupt, Ends, keyboard, screen
  <2>2. Poll(c)'
    BY <1>1, <2>1 DEF Poll, SaysEnd
  <2> QED
    BY <1>1, <2>1, <2>2, OthersPoll
<1> QED
  BY <1>2, <1>3, <1>4, <1>5

(* One step of the program of client.cpp, or of its user. *)
LEMMA ProgramKeepsChat ==
  ASSUME ChatInv, NEW c \in Programs, Program(c) \/ Established(c) \/ User(c)
  PROVE  ChatInv'
<1>1. /\ ServerInv' /\ LineTypes'
      /\ ServerInv /\ LineTypes /\ Given /\ Screens /\ Counted /\ InOrder /\ Polled
  BY ProgramKeeps DEF ChatInv
<1>2. CASE Client_recvMessage(c)
  <2>1. /\ UNCHANGED <<stdin, cin, buf_send, typed, refused>>
        /\ Screen(c)' /\ DOMAIN cout' = Programs /\ DOMAIN recv_message_' = Programs
        /\ UNCHANGED <<clients_, sent, delivered, cut>>
        /\ \A d \in Programs \ {c} : /\ cout'[d] = cout[d] /\ recv_message_'[d] = recv_message_[d]
                                     /\ read'[d] = read[d]
    BY <1>1, <1>2, RecvShows DEF Client_recvMessage, keyboard
  <2>2. Given' /\ SentStays /\ DeliveredStays
    BY <1>1, <2>1, NothingIsGiven
  <2>3. \A d \in Programs \ {c} : Screen(d)'
    BY <1>1, <2>1, <2>2, ScreenStays DEF Screens
  <2>4. Screens'
    BY <2>1, <2>3 DEF Screens
  <2>5. Polled'
    BY <1>1, <1>2, <2>1, HandledIsForgotten
  <2> QED
    BY <1>1, <2>1, <2>2, <2>4, <2>5, SameCount DEF ChatInv
<1>3. CASE Client_sendMessage(c)
  <2>1. UNCHANGED <<clients_, sent, read, delivered, cut, cout, recv_message_>>
    BY <1>3 DEF Client_sendMessage, vars, program, peers, screen
  <2>2. Given' /\ SentStays /\ DeliveredStays /\ Polled'
    BY <1>1, <1>3, <2>1, NothingIsGiven, HandledIsForgotten
  <2>3. Counted' /\ InOrder'
    BY <1>1, <1>3, LineIsTaken
  <2> QED
    BY <1>1, <2>1, <2>2, <2>3, SameScreens DEF ChatInv
<1>4. CASE SendPiece(c)
  <2>1. /\ Counted' /\ InOrder' /\ Given' /\ SentStays /\ DeliveredStays
        /\ UNCHANGED <<cut, read, delivered>>
    BY <1>1, <1>4, PieceIsSent
  <2>2. UNCHANGED <<cout, recv_message_>>
    BY <1>4 DEF SendPiece, screen
  <2>3. Polled' /\ Screens'
    BY <1>1, <1>4, <2>1, <2>2, HandledIsForgotten, SameScreens
  <2> QED
    BY <1>1, <2>1, <2>3 DEF ChatInv
<1>5. CASE Type(c)
  <2>1. /\ UNCHANGED <<clients_, sent, read, delivered, cut, cout, recv_message_>>
        /\ UNCHANGED <<cin, buf_send, refused, revents, told, pc, up>>
        /\ typed' = [typed EXCEPT ![c] = @ + 1] /\ stdin' = [stdin EXCEPT ![c] = @ + 1]
    BY <1>5 DEF Type, vars, program, peers, screen
  <2>2. Given' /\ SentStays /\ DeliveredStays
    BY <1>1, <2>1, NothingIsGiven
  <2>3. Screens' /\ Polled'
    BY <1>1, <2>1, <2>2, SameScreens, SamePolled
  <2>4. Counted'
    <3>1. /\ stdin \in [Programs -> Nat] /\ cin \in [Programs -> Nat]
          /\ typed \in [Programs -> Nat] /\ refused \in [Programs -> Nat]
          /\ \A d \in Programs : Counts(d)
      BY <1>1 DEF Counted
    <3>2. /\ stdin' \in [Programs -> Nat] /\ typed' \in [Programs -> Nat]
          /\ typed'[c] = typed[c] + 1 /\ stdin'[c] = stdin[c] + 1
          /\ \A d \in Programs \ {c} : typed'[d] = typed[d] /\ stdin'[d] = stdin[d]
      BY <2>1, <3>1
    <3>3. Counts(c)'
      <4>1. /\ stdin[c] \in Nat /\ cin[c] \in Nat /\ typed[c] \in Nat /\ refused[c] \in Nat
            /\ Len(sent[c]) \in Nat /\ Len(buf_send[c]) \in Nat /\ Len(Line) \in Nat
        BY <1>1, <3>1, Kept, ClientAssumption, LineLength, LenProperties DEF LineTypes
      <4>2. stdin[c] + cin[c] \in Nat /\ stdin'[c] + cin'[c] = (stdin[c] + cin[c]) + 1
        <5>1. cin'[c] = cin[c] /\ stdin'[c] = stdin[c] + 1
          BY <2>1, <3>2
        <5> QED
          BY <4>1, <5>1
      <4>3. typed[c] * Len(Line) =
              (stdin[c] + cin[c]) * Len(Line) + Len(buf_send[c]) + Len(sent[c]) + refused[c]
        BY <3>1 DEF Counts
      <4>4. (typed[c] + 1) * Len(Line) =
              ((stdin[c] + cin[c]) + 1) * Len(Line) + Len(buf_send[c]) + Len(sent[c]) + refused[c]
        <5> DEFINE a == typed[c]
                   x == stdin[c] + cin[c]
                   b == Len(buf_send[c])
                   n == Len(sent[c])
                   f == refused[c]
                   l == Len(Line)
        <5>1. /\ a \in Nat /\ x \in Nat /\ b \in Nat /\ n \in Nat /\ f \in Nat /\ l \in Nat
              /\ a * l = x * l + b + n + f
          BY <4>1, <4>2, <4>3
        <5> HIDE DEF a, x, b, n, f, l
        <5>2. (a + 1) * l = (x + 1) * l + b + n + f
          BY <5>1, OneLineMore
        <5> QED
          BY <5>2 DEF a, x, b, n, f, l
      <4>5. Len(buf_send'[c]) = Len(buf_send[c]) /\ Len(sent'[c]) = Len(sent[c]) /\ refused'[c] = refused[c]
        BY <2>1
      <4>6. typed'[c] * Len(Line) =
              (stdin'[c] + cin'[c]) * Len(Line) + Len(buf_send'[c]) + Len(sent'[c]) + refused'[c]
        BY <3>2, <4>2, <4>4, <4>5, Zenon
      <4> QED
        BY <4>6 DEF Counts
    <3>4. \A d \in Programs \ {c} : Counts(d)'
      BY <2>1, <3>1, <3>2 DEF Counts
    <3>5. \A d \in Programs : Counts(d)'
      BY <3>3, <3>4
    <3> QED
      BY <2>1, <3>1, <3>2, <3>5 DEF Counted
  <2>5. InOrder'
    <3>1. \A d \in Programs : refused'[d] = 0 => LinesIn(sent'[d] \o buf_send'[d])
      BY <1>1, <2>1 DEF InOrder
    <3> QED
      BY <3>1 DEF InOrder
  <2> QED
    BY <1>1, <2>2, <2>3, <2>4, <2>5 DEF ChatInv
<1>6. CASE poll(c) \/ LoseConnection(c) \/ Established(c) \/ Interrupt(c)
  <2>1. /\ UNCHANGED <<clients_, sent, read, delivered, cut, cout, recv_message_>>
        /\ UNCHANGED <<stdin, cin, buf_send, typed, refused>>
    BY <1>6 DEF poll, LoseConnection, Established, Interrupt, ClientConnects, ClientCloses, vars,
                program, peers, client, keyboard, screen
  <2>2. Given' /\ SentStays /\ DeliveredStays
    BY <1>1, <2>1, NothingIsGiven
  <2>3. ASSUME Established(c) PROVE Polled'
    <3>1. UNCHANGED <<revents, told, pc, up>>
      BY <2>3 DEF Established, client, screen
    <3> QED
      BY <1>1, <2>1, <2>2, <3>1, SamePolled
  <2>4. Polled'
    BY <1>1, <1>6, <2>1, <2>3, PollSays, LossIsLast, HandledIsForgotten
  <2> QED
    BY <1>1, <2>1, <2>2, <2>4, SameScreens, SameCount DEF ChatInv
<1> QED
  BY <1>2, <1>3, <1>4, <1>5, <1>6 DEF Program, User

(* Every step of the chat keeps the invariant of all its parts. *)
THEOREM ChatInvariance == ChatSpec => []ChatInv
<1>1. ChatInv /\ [ChatNext]_chat => ChatInv'
  <2> SUFFICES ASSUME ChatInv, [ChatNext]_chat PROVE ChatInv'
    OBVIOUS
  <2>1. /\ ServerInv /\ LineTypes /\ Given /\ Screens /\ Counted /\ InOrder /\ Polled
        /\ Programs \subseteq Clients
    BY ClientAssumption DEF ChatInv
  <2>2. ASSUME UNCHANGED client, ServerInv', Given', SentStays, DeliveredStays, cut \subseteq cut',
               \A d \in Programs : read'[d] = read[d] /\ sent'[d] = sent[d],
               up' => up, ~up => UNCHANGED delivered
        PROVE  ChatInv'
    <3>1. /\ UNCHANGED <<stdin, cin, buf_send, typed, refused, cout, recv_message_>>
          /\ UNCHANGED <<revents, told, pc>>
      BY <2>2 DEF client, keyboard, screen
    <3>2. Counted' /\ InOrder'
      BY <2>1, <2>2, <3>1, SameCount
    <3>3. Screens'
      BY <2>1, <2>2, <3>1, SameScreens
    <3>4. Polled'
      BY <2>1, <2>2, <3>1, SamePolled
    <3>5. LineTypes'
      BY <2>1, <3>1 DEF LineTypes
    <3> QED
      BY <2>2, <3>2, <3>3, <3>4, <3>5 DEF ChatInv
  <2>3. CASE Server
    <3>1. run /\ UNCHANGED <<client, up>> /\ up
      BY <2>3 DEF Server
    <3>2. ServerInv'
      BY <2>1, <3>1, ServerStepKeeps
    <3>3. Given' /\ SentStays /\ DeliveredStays /\ cut \subseteq cut' /\ UNCHANGED <<sent, read>>
      BY <2>1, <3>1, RunGives
    <3> QED
      BY <2>2, <3>1, <3>2, <3>3
  <2>4. CASE ServerDies \/ UNCHANGED chat
    <3>1. /\ UNCHANGED <<clients_, sent, read, delivered, cut, client>> /\ UNCHANGED vars
          /\ (up' => up)
      BY <2>4 DEF ServerDies, chat, vars, program, peers
    <3>2. ServerInv' /\ Given' /\ SentStays /\ DeliveredStays
      BY <2>1, <3>1, NothingHappens, NothingIsGiven
    <3> QED
      BY <2>2, <3>1, <3>2
  <2>5. ASSUME NEW c \in Programs, Program(c) \/ Established(c) \/ User(c) PROVE ChatInv'
    BY <2>5, ProgramKeepsChat
  <2>6. ASSUME NEW c \in Clients, (c \notin Programs /\ AnyClient(c)) \/ ResetArrives(c),
               up, UNCHANGED <<client, up>>
        PROVE  ChatInv'
    <3>1. ServerInv'
      BY <2>1, <2>6, AnyClientKeeps, EndsKeeps
    <3>2. /\ Given' /\ SentStays /\ DeliveredStays /\ cut \subseteq cut'
          /\ \A d \in Clients \ {c} : read'[d] = read[d] /\ sent'[d] = sent[d]
      BY <2>1, <2>6, AnyClientGives
    <3>3. \A d \in Programs : read'[d] = read[d] /\ sent'[d] = sent[d]
      <4>1. CASE c \notin Programs
        BY <2>1, <3>2, <4>1
      <4>2. CASE ResetArrives(c)
        BY <4>2 DEF ResetArrives
      <4> QED
        BY <2>6, <4>1, <4>2
    <3> QED
      BY <2>2, <2>6, <3>1, <3>2, <3>3
  <2> QED
    BY <2>3, <2>4, <2>5, <2>6 DEF ChatNext
<1> QED
  BY <1>1, ChatInitially, PTL DEF ChatSpec

(* No byte that a program received is shown twice or forgotten, and none    *)
(* that was typed is in two places or in none.                             *)
THEOREM ClientTypeCorrect == ChatSpec => []ClientTypeOK
<1>1. ChatInv => ClientTypeOK
  <2> SUFFICES ASSUME ChatInv, NEW c \in Programs
               PROVE  /\ cout[c] \o recv_message_[c] = SubSeq(delivered[c], 1, read[c])
                      /\ revents[c] \subseteq {"POLLIN", "POLLERR", "POLLHUP", "STDIN"}
                      /\ stdin[c] >= 0 /\ cin[c] >= 0 /\ refused[c] >= 0
                      /\ Counts(c)
    BY DEF ClientTypeOK, Counts
  <2>1. cout[c] \o recv_message_[c] = SubSeq(delivered[c], 1, read[c])
    BY DEF ChatInv, Screens, Screen
  <2>2. stdin[c] \in Nat /\ cin[c] \in Nat /\ refused[c] \in Nat /\ Counts(c)
    BY DEF ChatInv, Counted
  <2>3. revents[c] \subseteq {"POLLIN", "POLLERR", "POLLHUP", "STDIN"}
    BY DEF ChatInv, Polled, Poll
  <2> QED
    BY <2>1, <2>2, <2>3
<1> QED
  BY <1>1, ChatInvariance, PTL

(* As long as send takes all it is given, the lines leave whole and one    *)
(* after the other, however long they are and whatever a piece takes.      *)
THEOREM LinesLeave == ChatSpec => []LinesLeaveInOrder
<1>1. ChatInv => LinesLeaveInOrder
  <2> SUFFICES ASSUME ChatInv, NEW c \in Programs, refused[c] = 0, NEW k \in DOMAIN sent[c]
               PROVE  sent[c][k] = IF k <= Len(Line) THEN Line[k] ELSE sent[c][k - Len(Line)]
    BY DEF LinesLeaveInOrder
  <2> DEFINE s == sent[c]
             b == buf_send[c]
             w == s \o b
             l == Len(Line)
  <2>1. /\ s \in Seq(BOOLEAN) /\ b \in Seq(BOOLEAN) /\ Len(s) \in Nat /\ Len(b) \in Nat
        /\ LinesIn(w) /\ l \in Nat \ {0} /\ k \in DOMAIN s
    BY Kept, ClientAssumption, LineLength, LenProperties DEF ChatInv, LineTypes, InOrder
  <2> HIDE DEF s, b
  <2>2. Len(w) = Len(s) + Len(b) /\ \A i \in 1 .. Len(s) + Len(b) : w[i] = IF i <= Len(s) THEN s[i] ELSE b[i - Len(s)]
    BY <2>1, ConcatProperties
  <2>3. \A i \in 1 .. Len(w) : w[i] = IF i <= l THEN Line[i] ELSE w[i - l]
    BY <2>1 DEF LinesIn
  <2> HIDE DEF w, l
  <2>4. \A i \in 1 .. Len(s) : i \in 1 .. Len(w) /\ w[i] = s[i]
    BY <2>1, <2>2
  <2>5. k \in 1 .. Len(s) /\ (~(k <= l) => k - l \in 1 .. Len(s))
    BY <2>1, LenProperties
  <2>6. s[k] = IF k <= l THEN Line[k] ELSE s[k - l]
    BY <2>3, <2>4, <2>5
  <2> QED
    BY <2>6 DEF s, l
<1> QED
  BY <1>1, ChatInvariance, PTL

(* A program that says that it lost the connection has shown all that the  *)
(* server had sent it, whichever of POLLIN, POLLERR and POLLHUP it saw.    *)
THEOREM ShownHolds == ChatSpec => []ShownBeforeLoss
<1>1. ChatInv => ShownBeforeLoss
  BY DEF ChatInv, Polled, Poll, ShownBeforeLoss
<1> QED
  BY <1>1, ChatInvariance, PTL

(* Every screen shows the greeting and then whole lines, whoever else types *)
(* and in whatever pieces they arrive.                                     *)
THEOREM ScreensHold == ChatSpec => []ScreensShowWholeLines
<1>1. ChatInv => ScreensShowWholeLines
  <2> SUFFICES ASSUME ChatInv, NEW c \in Programs, c \notin cut
               PROVE  /\ cout[c] # <<>> => cout[c][1] = Welcome /\ EndsALine(Last(cout[c]))
                      /\ \A i \in 2 .. Len(cout[c]) - 1 :
                           ~EndsALine(cout[c][i]) =>
                             cout[c][i + 1] = <<cout[c][i][1], cout[c][i][2] + 1>>
    BY DEF ScreensShowWholeLines
  <2> DEFINE o == cout[c]
             s == delivered[c]
  <2>1. /\ o \in Seq(HeardBytes) /\ recv_message_[c] \in Seq(HeardBytes)
        /\ o \o recv_message_[c] = SubSeq(s, 1, read[c])
        /\ o # <<>> => EndsALine(Last(o))
    BY DEF ChatInv, Screens, Screen
  <2>2. /\ s \in Seq(HeardBytes) /\ read[c] \in Nat /\ read[c] <= Len(s) /\ Len(s) \in Nat
        /\ s # <<>> => WholeLinesIn(s)
    BY Kept, ClientAssumption DEF ChatInv, Given
  <2> HIDE DEF o, s
  <2>3. Len(o) \in Nat /\ Len(o) <= read[c] /\ \A i \in 1 .. Len(o) : o[i] = s[i]
    <3> DEFINE k == recv_message_[c]
    <3> HIDE DEF k
    <3>1. /\ Len(o \o k) = Len(o) + Len(k) /\ Len(o) \in Nat /\ Len(k) \in Nat
          /\ \A i \in 1 .. Len(o) + Len(k) : (o \o k)[i] = IF i <= Len(o) THEN o[i] ELSE k[i - Len(o)]
      BY <2>1, ConcatProperties, LenProperties DEF k
    <3>2. \A i \in 1 .. read[c] : s[i] \in HeardBytes
      BY <2>2, ElementOfSeq
    <3>3. /\ Len(SubSeq(s, 1, read[c])) = (IF 1 <= read[c] THEN read[c] - 1 + 1 ELSE 0)
          /\ \A i \in 1 .. read[c] - 1 + 1 : SubSeq(s, 1, read[c])[i] = s[1 + i - 1]
      BY <2>2, <3>2, SubSeqProperties
    <3>4. Len(o) + Len(k) = read[c] /\ \A i \in 1 .. read[c] : (o \o k)[i] = s[i]
      <4>1. /\ Len(SubSeq(s, 1, read[c])) = read[c]
            /\ \A i \in 1 .. read[c] : SubSeq(s, 1, read[c])[i] = s[i]
        BY <2>2, <3>3
      <4>2. o \o k = SubSeq(s, 1, read[c])
        BY <2>1 DEF k
      <4> QED
        BY <3>1, <4>1, <4>2
    <3>5. ASSUME NEW i \in 1 .. Len(o) PROVE o[i] = s[i]
      <4>1. i \in 1 .. Len(o) + Len(k) /\ i \in 1 .. read[c]
        BY <3>1, <3>4
      <4> QED
        BY <3>1, <3>4, <4>1
    <3> QED
      BY <3>1, <3>4, <3>5
  <2>4. ASSUME o # <<>> PROVE o[1] = Welcome /\ EndsALine(Last(o))
    <3>1. 1 \in 1 .. Len(o) /\ s # <<>>
      BY <2>1, <2>2, <2>3, <2>4, EmptySeq
    <3> QED
      BY <2>1, <2>2, <2>3, <2>4, <3>1 DEF WholeLinesIn
  <2>5. ASSUME NEW i \in 2 .. Len(o) - 1, ~EndsALine(o[i])
        PROVE  o[i + 1] = <<o[i][1], o[i][2] + 1>>
    <3>1. i \in 2 .. Len(s) /\ i \in 1 .. Len(o) /\ i + 1 \in 1 .. Len(o) /\ s # <<>>
      BY <2>2, <2>3, EmptySeq
    <3>2. GoesOn(s, i)
      BY <2>2, <3>1 DEF WholeLinesIn
    <3>3. ~EndsLine(s[i])
      BY <2>3, <2>5, <3>1 DEF EndsALine, EndsLine
    <3> QED
      BY <2>3, <3>1, <3>2, <3>3 DEF GoesOn
  <2> QED
    BY <2>4, <2>5 DEF o
<1> QED
  BY <1>1, ChatInvariance, PTL
=============================================================================
