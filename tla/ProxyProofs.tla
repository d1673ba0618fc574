---------------------------- MODULE ProxyProofs -----------------------------
(***************************************************************************)
(* Theorems about Proxy, for any number of clients, any size of the temp   *)
(* buffers and of the kernel's, and whatever the peers do.                 *)
(*                                                                         *)
(* First what a queue of completions keeps when something is posted; then  *)
(* what each operation of Asio does to a client's operations; then the     *)
(* invariant of a client, by phases and by direction, and one lemma per    *)
(* handler and per event.                                                  *)
(***************************************************************************)
EXTENDS Proxy, SequenceTheorems, FiniteSetTheorems, TLAPS

(* At most one element of q is in S. *)
AtMostOne(S, q) == \A i, j \in DOMAIN q : q[i] \in S /\ q[j] \in S => i = j

LEMMA AppendKeeps ==
  ASSUME NEW T, NEW q \in Seq(T), NEW e \in T
  PROVE  /\ ToSet(Append(q, e)) = ToSet(q) \cup {e}
         /\ \A S : AtMostOne(S, q) /\ (e \notin S \/ ToSet(q) \cap S = {})
                     => AtMostOne(S, Append(q, e))
<1>1. /\ Len(q) \in Nat /\ DOMAIN q = 1 .. Len(q) /\ DOMAIN Append(q, e) = 1 .. Len(q) + 1
      /\ \A i \in 1 .. Len(q) : Append(q, e)[i] = q[i]
      /\ Append(q, e)[Len(q) + 1] = e
  BY LenProperties, AppendProperties
<1> QED
  BY <1>1 DEF ToSet, AtMostOne

LEMMA TailKeeps ==
  ASSUME NEW T, NEW q \in Seq(T), q # <<>>
  PROVE  /\ Tail(q) \in Seq(T) /\ q[1] \in T
         /\ ToSet(q) = ToSet(Tail(q)) \cup {q[1]}
         /\ \A S : AtMostOne(S, q) => /\ AtMostOne(S, Tail(q))
                                      /\ q[1] \in S => ToSet(Tail(q)) \cap S = {}
<1>1. Len(q) \in Nat \ {0} /\ DOMAIN q = 1 .. Len(q) /\ 1 \in DOMAIN q
  BY LenProperties, EmptySeq
<1>2. /\ Tail(q) \in Seq(T) /\ DOMAIN Tail(q) = 1 .. Len(q) - 1 /\ q[1] \in T
      /\ \A i \in 1 .. Len(q) - 1 : Tail(q)[i] = q[i + 1]
  BY <1>1, HeadTailProperties, LenProperties
<1>3. ToSet(q) = ToSet(Tail(q)) \cup {q[1]}
  <2>1. \A i \in DOMAIN q : i = 1 \/ (i - 1 \in 1 .. Len(q) - 1 /\ q[i] = Tail(q)[i - 1])
    BY <1>1, <1>2
  <2>2. \A i \in DOMAIN Tail(q) : i + 1 \in DOMAIN q /\ q[i + 1] = Tail(q)[i]
    BY <1>1, <1>2
  <2>3. \A i \in DOMAIN q : q[i] \in ToSet(Tail(q)) \cup {q[1]}
    BY <1>2, <2>1 DEF ToSet
  <2>4. \A x \in ToSet(Tail(q)) : x \in ToSet(q)
    BY <2>2 DEF ToSet
  <2>5. q[1] \in ToSet(q)
    BY <1>1 DEF ToSet
  <2>6. \A x \in ToSet(q) : x \in ToSet(Tail(q)) \cup {q[1]}
    BY <2>3 DEF ToSet
  <2> QED
    BY <2>4, <2>5, <2>6
<1>4. ASSUME NEW S, AtMostOne(S, q)
      PROVE  AtMostOne(S, Tail(q)) /\ (q[1] \in S => ToSet(Tail(q)) \cap S = {})
  BY <1>1, <1>2, <1>4 DEF ToSet, AtMostOne
<1> QED
  BY <1>2, <1>3, <1>4

LEMMA ConcatKeeps ==
  ASSUME NEW T, NEW q \in Seq(T), NEW r \in Seq(T)
  PROVE  /\ q \o r \in Seq(T)
         /\ ToSet(q \o r) = ToSet(q) \cup ToSet(r)
         /\ \A S : AtMostOne(S, q) /\ ToSet(r) \cap S = {} => AtMostOne(S, q \o r)
<1>1. /\ Len(q) \in Nat /\ DOMAIN q = 1 .. Len(q)
      /\ Len(r) \in Nat /\ DOMAIN r = 1 .. Len(r)
      /\ q \o r \in Seq(T) /\ DOMAIN (q \o r) = 1 .. Len(q) + Len(r)
      /\ \A i \in 1 .. Len(q) : (q \o r)[i] = q[i]
      /\ \A i \in 1 .. Len(r) : (q \o r)[Len(q) + i] = r[i]
      /\ \A i \in 1 .. Len(q) + Len(r) : i \in 1 .. Len(q) \/ (i - Len(q) \in 1 .. Len(r)
                                           /\ (q \o r)[i] = r[i - Len(q)])
  BY LenProperties, ConcatProperties
<1>2. ToSet(q \o r) = ToSet(q) \cup ToSet(r)
  <2>1. \A x \in ToSet(q \o r) : x \in ToSet(q) \cup ToSet(r)
    BY <1>1 DEF ToSet
  <2>2. \A x \in ToSet(q) : x \in ToSet(q \o r)
    BY <1>1 DEF ToSet
  <2>3. \A x \in ToSet(r) : x \in ToSet(q \o r)
    <3>1. ASSUME NEW i \in 1 .. Len(r) PROVE r[i] \in ToSet(q \o r)
      <4>1. Len(q) + i \in 1 .. Len(q) + Len(r)
        BY <1>1
      <4> QED
        BY <1>1, <4>1 DEF ToSet
    <3> QED
      BY <1>1, <3>1 DEF ToSet
  <2> QED
    BY <2>1, <2>2, <2>3
<1>3. ASSUME NEW S, AtMostOne(S, q), ToSet(r) \cap S = {} PROVE AtMostOne(S, q \o r)
  <2>1. \A i \in DOMAIN (q \o r) : (q \o r)[i] \in S => i \in 1 .. Len(q)
    BY <1>1, <1>3 DEF ToSet
  <2> QED
    BY <1>1, <1>3, <2>1 DEF AtMostOne
<1> QED
  BY <1>1, <1>2, <1>3

(* r has the elements of all, which has n and then m, but the first, with  *)
(* the first of the m before what is left of the n.                        *)
Reorders(all, r, n, m) ==
  /\ n \in Nat \ {0} /\ m \in Nat \ {0}
  /\ DOMAIN all = 1 .. n + m /\ DOMAIN r = 1 .. n + m - 1
  /\ r[1] = all[n + 1]
  /\ \A i \in 2 .. n : r[i] = all[i]
  /\ \A i \in n + 1 .. n + m - 1 : r[i] = all[i + 1]

LEMMA Reordered ==
  ASSUME NEW n, NEW m, NEW all, NEW r, Reorders(all, r, n, m)
  PROVE  /\ ToSet(all) = ToSet(r) \cup {all[1]}
         /\ \A S : AtMostOne(S, all) => AtMostOne(S, r) /\ (all[1] \in S => ToSet(r) \cap S = {})
<1> USE DEF Reorders
<1> DEFINE p(i) == IF i = 1 THEN n + 1 ELSE IF i <= n THEN i ELSE i + 1
<1>3. \A i \in DOMAIN r : p(i) \in DOMAIN all /\ r[i] = all[p(i)] /\ p(i) # 1
  <2>1. ASSUME NEW i \in 1 .. n + m - 1 PROVE i = 1 \/ i \in 2 .. n \/ i \in n + 1 .. n + m - 1
    OBVIOUS
  <2> QED
    BY <2>1
<1>4. \A i, j \in DOMAIN r : p(i) = p(j) => i = j
  OBVIOUS
<1>5. \A i \in DOMAIN all : i = 1 \/ \E j \in DOMAIN r : r[j] = all[i]
  <2>1. ASSUME NEW i \in 1 .. n + m, i # 1 PROVE \E j \in DOMAIN r : r[j] = all[i]
    <3>1. CASE i \in 2 .. n
      BY <3>1
    <3>2. CASE i = n + 1
      <4>1. 1 \in DOMAIN r
        OBVIOUS
      <4> QED
        BY <3>2, <4>1
    <3>3. CASE i \in n + 2 .. n + m
      <4>1. i - 1 \in n + 1 .. n + m - 1 /\ (i - 1) + 1 = i /\ i - 1 \in DOMAIN r
        BY <3>3
      <4>2. r[i - 1] = all[i]
        BY <4>1
      <4> QED
        BY <4>1, <4>2
    <3> QED
      BY <2>1, <3>1, <3>2, <3>3
  <2> QED
    BY <2>1
<1>6. ToSet(all) = ToSet(r) \cup {all[1]}
  <2>1. 1 \in DOMAIN all
    OBVIOUS
  <2>2. \A x \in ToSet(all) : x \in ToSet(r) \cup {all[1]}
    BY <1>5, <2>1 DEF ToSet
  <2>3. \A x \in ToSet(r) : x \in ToSet(all)
    BY <1>3 DEF ToSet
  <2>4. all[1] \in ToSet(all)
    BY <2>1 DEF ToSet
  <2> QED
    BY <2>2, <2>3, <2>4
<1>7. \A S : AtMostOne(S, all) => AtMostOne(S, r)
  BY <1>3, <1>4 DEF AtMostOne
<1>8. ASSUME NEW S, AtMostOne(S, all), all[1] \in S PROVE ToSet(r) \cap S = {}
  <2>1. 1 \in DOMAIN all
    OBVIOUS
  <2>2. \A i \in DOMAIN r : r[i] \notin S
    BY <1>3, <1>8, <2>1 DEF AtMostOne
  <2> QED
    BY <2>2 DEF ToSet
<1> QED
  BY <1>6, <1>7, <1>8

LEMMA ConcatIs ==
  ASSUME NEW T, NEW s \in Seq(T), NEW t \in Seq(T), NEW n, NEW m, n = Len(s), m = Len(t)
  PROVE  /\ s \o t \in Seq(T) /\ n \in Nat /\ m \in Nat
         /\ Len(s \o t) = n + m /\ DOMAIN (s \o t) = 1 .. n + m
         /\ \A i \in 1 .. n : (s \o t)[i] = s[i]
         /\ \A i \in n + 1 .. n + m : (s \o t)[i] = t[i - n]
BY ConcatProperties, LenProperties

(* What PerformRead does to the queue q and what is done, d.               *)
LEMMA MoveKeeps ==
  ASSUME NEW T, NEW q \in Seq(T), q # <<>>, NEW d \in Seq(T), d # <<>>
  PROVE  LET r == <<Head(d)>> \o Tail(q) \o Tail(d)
         IN /\ r \in Seq(T)
            /\ ToSet(q \o d) = ToSet(r) \cup {q[1]}
            /\ \A S : AtMostOne(S, q \o d) => AtMostOne(S, r) /\ (q[1] \in S => ToSet(r) \cap S = {})
<1> DEFINE h == <<Head(d)>>
           tq == Tail(q)
           td == Tail(d)
           hq == h \o tq
           all == q \o d
<1>1. PICK n \in Nat \ {0}, m \in Nat \ {0} : n = Len(q) /\ m = Len(d)
  BY EmptySeq
<1>2. /\ DOMAIN all = 1 .. n + m
      /\ \A i \in 1 .. n : all[i] = q[i]
      /\ \A i \in n + 1 .. n + m : all[i] = d[i - n]
  BY <1>1, ConcatIs
<1>3. h \in Seq(T) /\ Len(h) = 1 /\ h[1] = d[1]
  BY <1>1, HeadTailProperties
<1>4. /\ tq \in Seq(T) /\ Len(tq) = n - 1 /\ \A i \in 1 .. n - 1 : tq[i] = q[i + 1]
      /\ td \in Seq(T) /\ Len(td) = m - 1 /\ \A i \in 1 .. m - 1 : td[i] = d[i + 1]
  BY <1>1, HeadTailProperties
<1> HIDE DEF h, tq, td
<1>5. /\ hq \in Seq(T) /\ Len(hq) = n /\ hq[1] = d[1]
      /\ \A i \in 2 .. n : hq[i] = q[i]
  <2>1. /\ hq \in Seq(T) /\ Len(hq) = 1 + (n - 1) /\ hq[1] = h[1]
        /\ \A i \in 1 + 1 .. 1 + (n - 1) : hq[i] = tq[i - 1]
    <3>1. /\ hq \in Seq(T) /\ Len(hq) = Len(h) + Len(tq)
          /\ \A i \in 1 .. Len(h) : hq[i] = h[i]
          /\ \A i \in Len(h) + 1 .. Len(h) + Len(tq) : hq[i] = tq[i - Len(h)]
      <4>1. h \in Seq(T) /\ tq \in Seq(T)
        BY <1>3, <1>4
      <4> QED
        BY <4>1, ConcatIs
    <3> HIDE DEF hq
    <3> QED
      BY <1>3, <1>4, <3>1
  <2> HIDE DEF hq
  <2>2. \A i \in 2 .. n : i - 1 \in 1 .. n - 1 /\ (i - 1) + 1 = i /\ i \in 1 + 1 .. 1 + (n - 1)
    OBVIOUS
  <2> QED
    BY <1>3, <1>4, <2>1, <2>2
<1> HIDE DEF hq, all
<1> DEFINE r == hq \o td
<1>6. /\ r \in Seq(T) /\ DOMAIN r = 1 .. n + (m - 1)
      /\ \A i \in 1 .. n : r[i] = hq[i]
      /\ \A i \in n + 1 .. n + (m - 1) : r[i] = td[i - n]
  <2>1. /\ r \in Seq(T) /\ DOMAIN r = 1 .. Len(hq) + Len(td)
        /\ \A i \in 1 .. Len(hq) : r[i] = hq[i]
        /\ \A i \in Len(hq) + 1 .. Len(hq) + Len(td) : r[i] = td[i - Len(hq)]
    <3>1. hq \in Seq(T) /\ td \in Seq(T)
      BY <1>4, <1>5
    <3> QED
      BY <3>1, ConcatIs
  <2> HIDE DEF r
  <2> QED
    BY <1>4, <1>5, <2>1
<1> HIDE DEF r
<1>7. /\ r[1] = all[n + 1] /\ \A i \in 2 .. n : r[i] = all[i]
      /\ \A i \in n + 1 .. n + m - 1 : r[i] = all[i + 1]
  <2>1. r[1] = d[1] /\ all[n + 1] = d[(n + 1) - n] /\ (n + 1) - n = 1
    BY <1>2, <1>5, <1>6
  <2>2. ASSUME NEW i \in n + 1 .. n + m - 1 PROVE r[i] = all[i + 1]
    <3>1. i - n \in 1 .. m - 1 /\ i \in n + 1 .. n + (m - 1) /\ i + 1 \in n + 1 .. n + m
          /\ (i + 1) - n = (i - n) + 1
      OBVIOUS
    <3> QED
      BY <1>2, <1>4, <1>6, <3>1
  <2>3. \A i \in 2 .. n : i \in 1 .. n
    OBVIOUS
  <2> QED
    BY <1>2, <1>5, <1>6, <2>1, <2>2, <2>3
<1>8. all[1] = q[1] /\ n + (m - 1) = n + m - 1
  BY <1>2
<1>9. /\ ToSet(all) = ToSet(r) \cup {all[1]}
      /\ \A S : AtMostOne(S, all) => AtMostOne(S, r) /\ (all[1] \in S => ToSet(r) \cap S = {})
  <2>1. DOMAIN r = 1 .. n + m - 1
    BY <1>6, <1>8
  <2>2. Reorders(all, r, n, m)
    BY <1>2, <1>7, <2>1 DEF Reorders
  <2> QED
    BY <2>2, Reordered
<1> QED
  BY <1>6, <1>8, <1>9 DEF r, hq, h, tq, td, all

-----------------------------------------------------------------------------
(* The io record: its type, what is pending in it, and what a step of one  *)
(* client leaves alone.                                                    *)

WriteType == [bytes : Seq(Nat), last : BOOLEAN]

IoType ==
  [queue : Seq(CompletionType), done : Seq(CompletionType), accepting : BOOLEAN,
   fresh : SUBSET Conns, connecting : SUBSET Conns,
   open : SUBSET (Conns \X Sides), reading : SUBSET (Conns \X Sides),
   writes : [Conns -> [Sides -> Seq(WriteType)]],
   taken : [Conns -> [Sides -> Nat]], delivered : [Conns -> [Sides -> Seq(Nat)]]]

PeerType ==
  [Conns -> [Sides -> [sent : Nat, received : Nat, ended : {"no", "eof", "reset"}]]]

Pending(a) == ToSet(Completed(a))

(* From a to b the completion e is added to what is pending. *)
Posts(a, b, e) ==
  /\ Pending(b) = Pending(a) \cup {e}
  /\ \A S : AtMostOne(S, Completed(a)) /\ (e \notin S \/ Pending(a) \cap S = {})
              => AtMostOne(S, Completed(b))

(* From a to b nothing is added, and e may be taken away. *)
Takes(a, b, e) ==
  /\ Pending(a) = Pending(b) \cup {e}
  /\ \A S : AtMostOne(S, Completed(a)) =>
              AtMostOne(S, Completed(b)) /\ (e \in S => Pending(b) \cap S = {})

(* Only what belongs to c differs between a and b. *)
OthersPending(c, a, b) ==
  /\ \A e \in CompletionType : e.c # c => (e \in Pending(a) <=> e \in Pending(b))
  /\ \A S : (\A e \in S : e.c # c) /\ AtMostOne(S, Completed(a)) => AtMostOne(S, Completed(b))

OthersSockets(c, a, b) ==
  \A k \in Conns \ {c} :
    /\ k \in a.fresh <=> k \in b.fresh
    /\ k \in a.connecting <=> k \in b.connecting
    /\ \A s \in Sides :
         /\ <<k, s>> \in a.open <=> <<k, s>> \in b.open
         /\ <<k, s>> \in a.reading <=> <<k, s>> \in b.reading
         /\ b.writes[k][s] = a.writes[k][s] /\ b.taken[k][s] = a.taken[k][s]
         /\ b.delivered[k][s] = a.delivered[k][s]

Others(c, a, b) == OthersPending(c, a, b) /\ OthersSockets(c, a, b)

LEMMA OthersTransitive ==
  ASSUME NEW c, NEW a1, NEW a2, NEW a3, Others(c, a1, a2), Others(c, a2, a3)
  PROVE  Others(c, a1, a3)
<1>1. OthersPending(c, a1, a3)
  BY DEF Others, OthersPending
<1>2. OthersSockets(c, a1, a3)
  BY DEF Others, OthersSockets
<1> QED
  BY <1>1, <1>2 DEF Others

LEMMA QueueType ==
  ASSUME NEW a \in IoType
  PROVE  /\ Completed(a) \in Seq(CompletionType)
         /\ Pending(a) \subseteq CompletionType
         /\ a.done = <<>> => Completed(a) = a.queue
         /\ a.queue = <<>> => Completed(a) = a.done
<1>1. a.queue \in Seq(CompletionType) /\ a.done \in Seq(CompletionType)
  BY DEF IoType
<1>2. Completed(a) \in Seq(CompletionType)
  BY <1>1, ConcatKeeps DEF Completed
<1>3. Pending(a) \subseteq CompletionType
  BY <1>2, LenProperties DEF Pending, ToSet
<1> QED
  BY <1>1, <1>2, <1>3, ConcatEmptySeq DEF Completed

LEMMA PostIs ==
  ASSUME NEW a \in IoType, a.done = <<>>, NEW e \in CompletionType
  PROVE  LET b == Post(a, e)
         IN /\ b \in IoType /\ b.done = <<>> /\ Posts(a, b, e)
            /\ OthersPending(e.c, a, b)
            /\ b = [a EXCEPT !.queue = Append(a.queue, e)]
<1> DEFINE b == Post(a, e)
<1>1. a.queue \in Seq(CompletionType) /\ Append(a.queue, e) \in Seq(CompletionType)
  BY DEF IoType
<1>2. b = [a EXCEPT !.queue = Append(a.queue, e)]
  BY DEF Post
<1>3. b \in IoType /\ b.queue = Append(a.queue, e) /\ b.done = <<>>
  BY <1>1, <1>2 DEF IoType
<1>4. Completed(a) = a.queue /\ Completed(b) = Append(a.queue, e)
  BY <1>3, QueueType
<1> HIDE DEF b
<1>5. Posts(a, b, e)
  BY <1>1, <1>4, AppendKeeps DEF Posts, Pending
<1>6. OthersPending(e.c, a, b)
  BY <1>5 DEF Posts, OthersPending
<1> QED
  BY <1>2, <1>3, <1>5, <1>6 DEF b

(* The completion at the front is called. *)
LEMMA PoppedIs ==
  ASSUME io \in IoType, io.done = <<>>, io.queue # <<>>
  PROVE  /\ Popped \in IoType /\ Popped.done = <<>> /\ Called \in CompletionType
         /\ Called \in Pending(io) /\ Takes(io, Popped, Called)
         /\ OthersPending(Called.c, io, Popped)
         /\ Popped = [io EXCEPT !.queue = Tail(io.queue)]
<1>1. io.queue \in Seq(CompletionType)
  BY DEF IoType
<1>2. /\ Tail(io.queue) \in Seq(CompletionType) /\ io.queue[1] \in CompletionType
      /\ ToSet(io.queue) = ToSet(Tail(io.queue)) \cup {io.queue[1]}
      /\ \A S : AtMostOne(S, io.queue) =>
                  /\ AtMostOne(S, Tail(io.queue))
                  /\ io.queue[1] \in S => ToSet(Tail(io.queue)) \cap S = {}
  BY <1>1, TailKeeps
<1>3. Popped = [io EXCEPT !.queue = Tail(io.queue)]
  BY DEF Popped
<1>4. Popped \in IoType /\ Popped.queue = Tail(io.queue) /\ Popped.done = <<>>
  BY <1>2, <1>3 DEF IoType
<1>5. Completed(io) = io.queue /\ Completed(Popped) = Tail(io.queue)
  BY <1>4, QueueType
<1>6. Takes(io, Popped, Called)
  BY <1>2, <1>5 DEF Takes, Pending, Called
<1>7. OthersPending(Called.c, io, Popped)
  BY <1>6 DEF Takes, OthersPending
<1> QED
  BY <1>2, <1>3, <1>4, <1>6, <1>7 DEF Called, Takes

-----------------------------------------------------------------------------
(* What each operation of Asio does to the io record. *)

Of(c) == {e \in CompletionType : e.c = c}
Reads(c, s) == {e \in Of(c) : e.s = s /\ e.handler = "recv"}
Writes(c, s) == {e \in Of(c) : e.s = s /\ e.handler \in {"send", "more"}}

LEMMA NoBytes == <<>> \in Seq(Nat) /\ Len(<<>>) = 0 /\ DOMAIN <<>> = {}
OBVIOUS

LEMMA CompletionIs ==
  ASSUME NEW h \in {"accept", "connect", "recv", "send", "more", "ready"}, NEW c \in Conns, NEW s \in Sides,
         NEW err \in {"none", "eof", "error"}, NEW bytes \in Seq(Nat), NEW last \in BOOLEAN,
         NEW e, e = Completion(h, c, s, err, bytes, last)
  PROVE  /\ e \in CompletionType /\ e.handler = h /\ e.c = c /\ e.s = s
         /\ e.err = err /\ e.bytes = bytes /\ e.last = last
BY DEF Completion, CompletionType

Received(c, s, err, bytes) == Completion("recv", c, s, err, bytes, FALSE)

LEMMA RecvIs ==
  ASSUME NEW c \in Conns, NEW s \in Sides, NEW err \in {"none", "eof", "error"},
         NEW bytes \in Seq(Nat), NEW e, e = Received(c, s, err, bytes)
  PROVE  /\ e \in Reads(c, s) /\ e \in CompletionType /\ e.c = c
         /\ e.err = err /\ e.bytes = bytes /\ ~e.last
<1>1. /\ e \in CompletionType /\ e.handler = "recv" /\ e.c = c /\ e.s = s
      /\ e.err = err /\ e.bytes = bytes /\ ~e.last
  BY DEF Received, Completion, CompletionType
<1> QED
  BY <1>1 DEF Reads, Of

LEMMA FailedRecvIs ==
  ASSUME NEW c \in Conns, NEW s \in Sides, NEW err \in {"eof", "error"},
         NEW e, e = Received(c, s, err, <<>>)
  PROVE  /\ e \in Reads(c, s) /\ e \in CompletionType /\ e.c = c
         /\ e.err = err /\ e.bytes = <<>> /\ ~e.last
<1>1. PICK bytes \in Seq(Nat) : bytes = <<>>
  BY NoBytes
<1>2. e = Received(c, s, err, bytes) /\ err \in {"none", "eof", "error"}
  BY <1>1
<1>3. e \in Reads(c, s) /\ e \in CompletionType /\ e.c = c /\ e.err = err /\ e.bytes = bytes /\ ~e.last
  BY <1>2, RecvIs
<1> QED
  BY <1>1, <1>3

LEMMA SendIs ==
  ASSUME NEW h \in {"send", "more"}, NEW c \in Conns, NEW s \in Sides, NEW err \in {"none", "error"},
         NEW bytes \in Seq(Nat), NEW last \in BOOLEAN, NEW e, e = Completion(h, c, s, err, bytes, last)
  PROVE  /\ e \in Writes(c, s) /\ e \in CompletionType /\ e.c = c
         /\ e.handler = h /\ e.err = err /\ e.bytes = bytes /\ e.last = last
<1>1. /\ e \in CompletionType /\ e.handler = h /\ e.c = c /\ e.s = s
      /\ e.err = err /\ e.bytes = bytes /\ e.last = last
  BY CompletionIs
<1> QED
  BY <1>1 DEF Writes, Of

LEMMA FailedSendIs ==
  ASSUME NEW c \in Conns, NEW s \in Sides, NEW err \in {"none", "error"}, NEW last \in BOOLEAN,
         NEW e, e = Completion("send", c, s, err, <<>>, last)
  PROVE  /\ e \in Writes(c, s) /\ e \in CompletionType /\ e.c = c
         /\ e.handler = "send" /\ e.err = err /\ e.bytes = <<>> /\ e.last = last
<1>1. PICK bytes \in Seq(Nat), h \in {"send", "more"} : bytes = <<>> /\ h = "send"
  BY NoBytes
<1>2. e = Completion(h, c, s, err, bytes, last)
  BY <1>1
<1>3. /\ e \in Writes(c, s) /\ e \in CompletionType /\ e.c = c
      /\ e.handler = h /\ e.err = err /\ e.bytes = bytes /\ e.last = last
  BY <1>2, SendIs
<1> QED
  BY <1>1, <1>3

(* A read from an open socket that completes: the next bytes of the peer,  *)
(* or how it has ended.                                                    *)
ReadFits(a, c, s, e) ==
  /\ e.err = "error" => peer[c][s].ended = "reset"
  /\ e.err = "eof" => peer[c][s].ended # "no" /\ a.taken[c][s] = peer[c][s].sent
  /\ e.err # "none" <=> e.bytes = <<>>
  /\ \A i \in DOMAIN e.bytes : e.bytes[i] = a.taken[c][s] + i
  /\ a.taken[c][s] + Len(e.bytes) <= peer[c][s].sent

LEMMA ReadResultIs ==
  ASSUME NEW a \in IoType, peer \in PeerType, NEW c \in Conns, NEW s \in Sides,
         a.taken[c][s] <= peer[c][s].sent, CanRead(a, c, s)
  PROVE  LET e == ReadResult(a, c, s)
         IN /\ e \in Reads(c, s) /\ ReadFits(a, c, s, e) /\ ~e.last
            /\ Taken(a, c, s) = [a EXCEPT !.taken = [@ EXCEPT ![c][s] = a.taken[c][s] + Len(e.bytes)]]
<1> DEFINE e == ReadResult(a, c, s)
           n == Least(temp_size, Available(a, c, s))
           bytes == [i \in 1 .. n |-> a.taken[c][s] + i]
<1>1. /\ a.taken[c][s] \in Nat /\ peer[c][s].sent \in Nat
      /\ peer[c][s].ended \in {"no", "eof", "reset"}
  BY DEF IoType, PeerType
<1>2. Available(a, c, s) = peer[c][s].sent - a.taken[c][s] /\ Available(a, c, s) \in Nat
  BY <1>1 DEF Available
<1>3. n \in Nat /\ n <= Available(a, c, s) /\ (n = 0 => Available(a, c, s) = 0)
  BY <1>2, ConstantsAssumption DEF Least
<1>4. Taken(a, c, s) = [a EXCEPT !.taken = [@ EXCEPT ![c][s] = a.taken[c][s] + n]]
  BY DEF Taken
<1> HIDE DEF n
<1>5. bytes \in Seq(Nat) /\ Len(bytes) = n /\ DOMAIN bytes = 1 .. n
  <2>1. bytes \in [1 .. n -> Nat]
    BY <1>1, <1>3
  <2>2. bytes \in Seq(Nat)
    BY <1>3, <2>1, SeqDef
  <2> QED
    BY <1>3, <2>2, LenProperties
<1>6. CASE n > 0
  <2>1. e = Received(c, s, "none", bytes)
    BY <1>6 DEF ReadResult, Received, n
  <2> HIDE DEF bytes, e
  <2>2. e \in Reads(c, s) /\ e.err = "none" /\ e.bytes = bytes /\ ~e.last
    BY <1>5, <2>1, RecvIs
  <2>4. e.bytes # <<>>
    BY <1>5, <1>6, <2>2, EmptySeq
  <2> QED
    BY <1>1, <1>2, <1>3, <1>4, <1>5, <2>2, <2>4 DEF ReadFits, bytes, e
<1>7. CASE n = 0
  <2> DEFINE err == IF peer[c][s].ended = "eof" THEN "eof" ELSE "error"
  <2>1. e = Received(c, s, err, <<>>)
    BY <1>3, <1>7 DEF ReadResult, Received, n
  <2>2. peer[c][s].ended # "no" /\ a.taken[c][s] = peer[c][s].sent
    BY <1>1, <1>2, <1>3, <1>7 DEF CanRead
  <2> HIDE DEF e
  <2>3. e \in Reads(c, s) /\ e.err = err /\ e.bytes = <<>> /\ ~e.last
    BY <2>1, FailedRecvIs
  <2>4. Len(e.bytes) = 0 /\ DOMAIN e.bytes = {}
    BY <2>3
  <2>5. ReadFits(a, c, s, e)
    BY <1>1, <2>2, <2>3, <2>4 DEF ReadFits
  <2>6. Taken(a, c, s) = [a EXCEPT !.taken = [@ EXCEPT ![c][s] = a.taken[c][s] + Len(e.bytes)]]
    BY <1>4, <1>7, <2>4
  <2> QED
    BY <2>3, <2>5, <2>6 DEF e
<1> QED
  BY <1>3, <1>6, <1>7

(* What a start of a read leaves alone. *)
ReadKeeps(a, b) ==
  /\ b.accepting = a.accepting /\ b.fresh = a.fresh /\ b.connecting = a.connecting
  /\ b.open = a.open /\ b.writes = a.writes /\ b.delivered = a.delivered

ReadWaits(a, b, c, s) ==
  /\ <<c, s>> \in a.open
  /\ b.reading = a.reading \cup {<<c, s>>} /\ b.taken = a.taken
  /\ Completed(b) = Completed(a)

ReadCompletes(a, b, c, s, e) ==
  /\ e \in Reads(c, s) /\ ~e.last /\ Posts(a, b, e)
  /\ b.reading = a.reading
  /\ b.taken = [a.taken EXCEPT ![c][s] = @ + Len(e.bytes)]
  /\ IF <<c, s>> \in a.open THEN ReadFits(a, c, s, e) ELSE e.err = "error" /\ e.bytes = <<>>

LEMMA StartReadIs ==
  ASSUME NEW a \in IoType, a.done = <<>>, peer \in PeerType, NEW c \in Conns, NEW s \in Sides,
         a.taken[c][s] <= peer[c][s].sent
  PROVE  LET b == StartRead(a, c, s)
         IN /\ b \in IoType /\ b.done = <<>> /\ Others(c, a, b) /\ ReadKeeps(a, b)
            /\ ReadWaits(a, b, c, s) \/ \E e \in CompletionType : ReadCompletes(a, b, c, s, e)
<1> DEFINE b == StartRead(a, c, s)
<1>1. CASE <<c, s>> \notin a.open
  <2> DEFINE e == Received(c, s, "error", <<>>)
  <2>1. b = Post(a, e)
    BY <1>1 DEF StartRead, Received
  <2>2. e \in CompletionType /\ e \in Reads(c, s) /\ e.err = "error" /\ e.bytes = <<>> /\ e.c = c /\ ~e.last
    BY FailedRecvIs
  <2> HIDE DEF e
  <2>3. b \in IoType /\ b.done = <<>> /\ Posts(a, b, e) /\ OthersPending(c, a, b)
        /\ b = [a EXCEPT !.queue = Append(a.queue, e)]
    BY <2>1, <2>2, PostIs
  <2> HIDE DEF b
  <2>4. ReadKeeps(a, b) /\ OthersSockets(c, a, b) /\ b.reading = a.reading /\ b.taken = a.taken
    BY <2>3 DEF ReadKeeps, OthersSockets, IoType
  <2>5. b.taken = [a.taken EXCEPT ![c][s] = @ + Len(e.bytes)]
    <3>1. a.taken[c][s] + Len(e.bytes) = a.taken[c][s]
      BY <2>2 DEF IoType
    <3> QED
      BY <2>4, <3>1 DEF IoType
  <2> QED
    BY <1>1, <2>2, <2>3, <2>4, <2>5 DEF Others, ReadCompletes, b
<1>2. CASE <<c, s>> \in a.open /\ CanRead(a, c, s)
  <2> DEFINE e == ReadResult(a, c, s)
             t == Taken(a, c, s)
  <2>1. b = Post(t, e)
    BY <1>2 DEF StartRead
  <2>2. /\ e \in Reads(c, s) /\ ReadFits(a, c, s, e) /\ ~e.last
        /\ t = [a EXCEPT !.taken = [@ EXCEPT ![c][s] = a.taken[c][s] + Len(e.bytes)]]
    BY <1>2, ReadResultIs
  <2> HIDE DEF e, t
  <2>3. e \in CompletionType /\ e.c = c /\ e.bytes \in Seq(Nat)
    BY <2>2 DEF Reads, Of, CompletionType
  <2>4. t \in IoType /\ t.queue = a.queue /\ t.done = <<>>
    <3>1. a.taken[c][s] + Len(e.bytes) \in Nat
      BY <2>3 DEF IoType
    <3> QED
      BY <2>2, <3>1 DEF IoType
  <2>5. Completed(t) = Completed(a)
    BY <2>4 DEF Completed
  <2>6. b \in IoType /\ b.done = <<>> /\ Posts(t, b, e) /\ OthersPending(c, t, b)
        /\ b = [t EXCEPT !.queue = Append(t.queue, e)]
    BY <2>1, <2>3, <2>4, PostIs
  <2>7. Posts(a, b, e) /\ OthersPending(c, a, b)
    BY <2>5, <2>6 DEF Posts, OthersPending, Pending
  <2> HIDE DEF b
  <2>8. /\ ReadKeeps(a, b) /\ OthersSockets(c, a, b) /\ b.reading = a.reading
        /\ b.taken = [a.taken EXCEPT ![c][s] = @ + Len(e.bytes)]
    BY <2>2, <2>6 DEF ReadKeeps, OthersSockets, IoType
  <2> QED
    BY <1>2, <2>2, <2>3, <2>6, <2>7, <2>8 DEF Others, ReadCompletes, b
<1>3. CASE <<c, s>> \in a.open /\ ~CanRead(a, c, s)
  <2>1. b = [a EXCEPT !.reading = @ \cup {<<c, s>>}]
    BY <1>3 DEF StartRead
  <2>2. b \in IoType /\ b.queue = a.queue /\ b.done = a.done
    <3> DEFINE r == a.reading \cup {<<c, s>>}
    <3>1. r \in SUBSET (Conns \X Sides)
      BY DEF IoType
    <3> HIDE DEF r, b
    <3>2. b = [a EXCEPT !.reading = r]
      BY <2>1 DEF r
    <3> QED
      BY <3>1, <3>2 DEF IoType
  <2>3. Completed(b) = Completed(a)
    BY <2>2 DEF Completed
  <2>4. ReadKeeps(a, b) /\ OthersSockets(c, a, b) /\ ReadWaits(a, b, c, s)
    BY <1>3, <2>1, <2>3 DEF ReadKeeps, OthersSockets, ReadWaits, IoType
  <2>5. OthersPending(c, a, b)
    BY <2>3 DEF OthersPending, Pending
  <2> QED
    BY <2>2, <2>4, <2>5 DEF Others
<1> QED
  BY <1>1, <1>2, <1>3

-----------------------------------------------------------------------------
(* A direction is what comes from side s and is written to the other.  The *)
(* two directions of a client share nothing but the sockets.               *)

Dir(c, s) == Reads(c, s) \cup Writes(c, Other(s))

SameDir(a, b, c, s) ==
  /\ \A e \in Dir(c, s) : e \in Pending(a) <=> e \in Pending(b)
  /\ \A S \in SUBSET Dir(c, s) : AtMostOne(S, Completed(a)) => AtMostOne(S, Completed(b))
  /\ <<c, s>> \in a.reading <=> <<c, s>> \in b.reading
  /\ b.writes[c][Other(s)] = a.writes[c][Other(s)] /\ b.taken[c][s] = a.taken[c][s]
  /\ b.delivered[c][Other(s)] = a.delivered[c][Other(s)]

LEMMA OtherIs == \A s \in Sides : Other(s) \in Sides /\ Other(s) # s /\ Other(Other(s)) = s
BY DEF Sides, Other

LEMMA OthersSame ==
  ASSUME NEW a, NEW b, NEW c, NEW k \in Conns \ {c}, NEW s \in Sides, Others(c, a, b)
  PROVE  SameDir(a, b, k, s)
<1>1. \A e \in Dir(k, s) : e \in CompletionType /\ e.c = k
  BY DEF Dir, Reads, Writes, Of
<1>2. \A S \in SUBSET Dir(k, s) : \A e \in S : e.c # c
  BY <1>1
<1>3. OthersPending(c, a, b) /\ OthersSockets(c, a, b)
  BY DEF Others
<1>4. /\ \A e \in Dir(k, s) : e \in Pending(a) <=> e \in Pending(b)
      /\ \A S \in SUBSET Dir(k, s) : AtMostOne(S, Completed(a)) => AtMostOne(S, Completed(b))
  BY <1>1, <1>2, <1>3 DEF OthersPending
<1> QED
  BY <1>3, <1>4, OtherIs DEF OthersSockets, SameDir

(* The phases of a client: not accepted, accepted, being connected,        *)
(* running, closed.                                                        *)

IsPending(a, S) == \E e \in Pending(a) : e \in S
NonePending(a, S) == \A e \in Pending(a) : e \notin S

Starts(c, h) == {e \in Of(c) : e.handler = h}
Accepting(a, c) == IsPending(a, Starts(c, "accept"))
Connecting(a, c) == IsPending(a, Starts(c, "connect"))
Starting(a, c) == c \in a.fresh \/ c \in a.connecting \/ Accepting(a, c) \/ Connecting(a, c)
Running(a, c) == <<c, "server">> \in a.open /\ ~Starting(a, c)
Closed(a, c) == <<c, "server">> \notin a.open /\ ~Starting(a, c)

Untouched(a, c, s) == /\ <<c, s>> \notin a.reading /\ a.writes[c][s] = <<>>
                      /\ a.taken[c][s] = 0 /\ a.delivered[c][s] = <<>>

PhaseInv(a, c) ==
  /\ c \in a.fresh => /\ NonePending(a, Of(c)) /\ c \notin a.connecting
                      /\ <<c, "client">> \notin a.open
  /\ c \in a.connecting => NonePending(a, Of(c)) /\ <<c, "server">> \in a.open
  /\ Accepting(a, c) \/ Connecting(a, c) =>
       AtMostOne(Of(c), Completed(a)) /\ c \notin a.fresh /\ c \notin a.connecting
  /\ Connecting(a, c) => <<c, "server">> \in a.open
  /\ \A e \in Pending(a) : /\ e \in Starts(c, "accept") => e.s = "client"
                           /\ e \in Starts(c, "connect") => e.s = "server"
  /\ <<c, "server">> \in a.open => <<c, "client">> \in a.open
  /\ Accepting(a, c) <=> <<c, "client">> \in a.open /\ <<c, "server">> \notin a.open
  /\ \A s \in Sides : /\ Starting(a, c) => Untouched(a, c, s)
                      /\ <<c, s>> \notin a.open => <<c, s>> \notin a.reading /\ a.writes[c][s] = <<>>

(* Before it runs a client has no bytes, p and buf the peers and entry.    *)
StartInv(a, p, c, buf, has) ==
  Starting(a, c) => /\ p["server"] = [sent |-> 0, received |-> 0, ended |-> "no"]
                    /\ buf = ClientBuffer
                    /\ <<c, "server">> \notin a.open => ~has

(* A running direction has one task: a read that waits or whose handler is *)
(* pending, or a last write that waits or is pending.                      *)

Tasks(c, s) == Reads(c, s) \cup {e \in Writes(c, Other(s)) : e.last}

NoneLast(q) == \A i \in DOMAIN q : ~q[i].last
OneLast(q) == \E i \in DOMAIN q : q[i].last /\ \A j \in DOMAIN q : q[j].last => j = i

NoTask(a, c, s) ==
  <<c, s>> \notin a.reading /\ NonePending(a, Tasks(c, s)) /\ NoneLast(a.writes[c][Other(s)])

OneTask(a, c, s) ==
  \/ <<c, s>> \in a.reading /\ NonePending(a, Tasks(c, s)) /\ NoneLast(a.writes[c][Other(s)])
  \/ /\ <<c, s>> \notin a.reading /\ NoneLast(a.writes[c][Other(s)])
     /\ IsPending(a, Tasks(c, s)) /\ AtMostOne(Tasks(c, s), Completed(a))
  \/ <<c, s>> \notin a.reading /\ NonePending(a, Tasks(c, s)) /\ OneLast(a.writes[c][Other(s)])

(* What the pending completions say of the peers, p.                       *)
EndsInv(a, p, c, s) ==
  /\ \A e \in Pending(a) : e \in Reads(c, s) =>
       /\ e.err = "error" => p[s].ended = "reset"
       /\ e.err = "eof" => p[s].ended # "no" /\ a.taken[c][s] = p[s].sent
       /\ e.err # "none" => e.bytes = <<>>
  /\ \A e \in Pending(a) : e \in Writes(c, Other(s)) =>
       /\ e.err # "none" => p[Other(s)].ended = "reset" /\ e.handler = "send"
       /\ e.last => p[s].ended # "no"
       /\ e.handler = "send" => e.bytes = <<>>
  /\ \A i \in DOMAIN a.writes[c][Other(s)] : a.writes[c][Other(s)][i].last => p[s].ended # "no"

(* All bytes from s but those of a pending read are the first n.           *)
HandledTo(a, c, s, n) ==
  /\ NonePending(a, Reads(c, s)) => a.taken[c][s] = n
  /\ \A e \in Pending(a) : e \in Reads(c, s) =>
       a.taken[c][s] = n + Len(e.bytes) /\ \A i \in DOMAIN e.bytes : e.bytes[i] = n + i

(* The bytes are what follows those delivered, and all before a pending    *)
(* read.                                                                   *)
Continues(a, c, s, bytes) ==
  LET d == Len(a.delivered[c][Other(s)])
  IN /\ \A i \in DOMAIN bytes : bytes[i] = d + i
     /\ HandledTo(a, c, s, d + Len(bytes))

NotWriting(a, c, s) == a.writes[c][s] = <<>> /\ NonePending(a, Writes(c, s))

InOrder(a, c, s) == \A i \in DOMAIN a.delivered[c][s] : a.delivered[c][s][i] = i

(* In a direction that has not overlapped there is one write at most, of   *)
(* all that was read and not delivered.                                    *)
FlowInv(a, c, s, buf) ==
  LET t == Other(s)
  IN /\ AtMostOne(Writes(c, t), Completed(a))
     /\ a.writes[c][t] # <<>> => Len(a.writes[c][t]) = 1 /\ NonePending(a, Writes(c, t))
     /\ NotWriting(a, c, t) => buf = <<>> /\ Continues(a, c, s, <<>>)
     /\ \A i \in DOMAIN a.writes[c][t] :
          ~a.writes[c][t][i].last /\ Continues(a, c, s, a.writes[c][t][i].bytes)
     /\ \A e \in Pending(a) : e \in Writes(c, t) =>
          ~e.last /\ (e.err = "none" => Continues(a, c, s, e.bytes))

(* The bytes are those the peer may have sent, and no more were read than  *)
(* it sent.                                                                *)
BytesInv(a, p, c, s, buf) ==
  /\ p[s].sent <= MaxSent[s] /\ a.taken[c][s] <= p[s].sent
  /\ p[Other(s)].received <= Len(a.delivered[c][Other(s)])
  /\ a.delivered[c][Other(s)] \in BytesFrom(s)
  /\ \A i \in DOMAIN a.writes[c][Other(s)] : a.writes[c][Other(s)][i].bytes \in BytesFrom(s)
  /\ \A e \in Pending(a) : e \in Dir(c, s) => e.bytes \in BytesFrom(s)
  /\ buf \in BytesFrom(s)

(* A completion whose handler erases the entry, or starts what does.       *)
Erasing(e) == e.handler \in {"recv", "more"} \/ (e.handler = "send" /\ (e.err # "none" \/ e.last))

(* ov are the directions of c that have overlapped, has whether it has an  *)
(* entry.                                                                  *)
ClosedInv(a, p, c, ov, has) ==
  Closed(a, c) =>
    /\ \A s \in Sides : s \notin ov =>
         \A e \in Pending(a) : e \in Writes(c, Other(s)) => Erasing(e) \/ IsPending(a, Reads(c, s))
    /\ ov = {} /\ has => \E e \in Pending(a) : e \in Of(c) /\ Erasing(e)
    /\ "server" \notin ov /\ p["server"].ended = "eof" /\ p["client"].ended = "no" =>
         Len(a.delivered[c]["client"]) = p["server"].sent

DirInv(a, p, c, s, ov, buf) ==
  /\ BytesInv(a, p, c, s, buf[s])
  /\ s \notin ov => InOrder(a, c, Other(s))
  /\ Running(a, c) => /\ OneTask(a, c, s) /\ EndsInv(a, p, c, s)
                      /\ s \notin ov => FlowInv(a, c, s, buf[s])

ConnInv(a, p, c, ov, buf, has) ==
  /\ PhaseInv(a, c) /\ StartInv(a, p, c, buf, has) /\ ClosedInv(a, p, c, ov, has)
  /\ \A s \in Sides : DirInv(a, p, c, s, ov, buf)

Buffers == [Sides -> Seq(Nat)]

TypesInv ==
  /\ io \in IoType /\ peer \in PeerType /\ overlapped \in SUBSET (Conns \X Sides)
  /\ DOMAIN clients_ \subseteq Conns
  /\ \A c \in DOMAIN clients_ : clients_[c] \in Buffers

(* What completes of one socket is gathered while "ready" is in front.     *)
Performing(a) == a.done # <<>> => a.queue # <<>> /\ a.queue[1].handler = "ready"

Overlaps(c) == {s \in Sides : <<c, s>> \in overlapped}

ClientInv(c) == ConnInv(io, peer[c], c, Overlaps(c), Entry(c), c \in DOMAIN clients_)

IInv == /\ TypesInv /\ Performing(io)
        /\ \A c \in Conns : ClientInv(c)

-----------------------------------------------------------------------------
(* What concerns one direction only is kept by what leaves it alone.       *)

LEMMA SameContinues ==
  ASSUME NEW a, NEW b, NEW c, NEW s \in Sides, SameDir(a, b, c, s), NEW bytes, Continues(a, c, s, bytes)
  PROVE  Continues(b, c, s, bytes)
<1>1. /\ b.taken[c][s] = a.taken[c][s] /\ b.delivered[c][Other(s)] = a.delivered[c][Other(s)]
      /\ \A e \in Reads(c, s) : e \in Pending(a) <=> e \in Pending(b)
  BY DEF SameDir, Dir
<1> QED
  BY <1>1 DEF Continues, HandledTo, NonePending

LEMMA SameDirKeeps ==
  ASSUME NEW a, NEW b, NEW c, NEW s \in Sides, SameDir(a, b, c, s), NEW p
  PROVE  /\ NoTask(a, c, s) => NoTask(b, c, s)
         /\ OneTask(a, c, s) => OneTask(b, c, s)
         /\ EndsInv(a, p, c, s) => EndsInv(b, p, c, s)
         /\ InOrder(a, c, Other(s)) => InOrder(b, c, Other(s))
         /\ \A buf : FlowInv(a, c, s, buf) => FlowInv(b, c, s, buf)
         /\ \A buf : BytesInv(a, p, c, s, buf) => BytesInv(b, p, c, s, buf)
<1>1. /\ \A e \in Reads(c, s) : e \in Pending(a) <=> e \in Pending(b)
      /\ \A e \in Writes(c, Other(s)) : e \in Pending(a) <=> e \in Pending(b)
      /\ \A e \in Dir(c, s) : e \in Pending(a) <=> e \in Pending(b)
      /\ <<c, s>> \in a.reading <=> <<c, s>> \in b.reading
      /\ b.writes[c][Other(s)] = a.writes[c][Other(s)] /\ b.taken[c][s] = a.taken[c][s]
      /\ b.delivered[c][Other(s)] = a.delivered[c][Other(s)]
  BY DEF SameDir, Dir
<1>2. /\ \A e \in Tasks(c, s) : e \in Pending(a) <=> e \in Pending(b)
      /\ AtMostOne(Tasks(c, s), Completed(a)) => AtMostOne(Tasks(c, s), Completed(b))
      /\ AtMostOne(Writes(c, Other(s)), Completed(a)) => AtMostOne(Writes(c, Other(s)), Completed(b))
  <2>1. Tasks(c, s) \in SUBSET Dir(c, s) /\ Writes(c, Other(s)) \in SUBSET Dir(c, s)
    BY DEF Tasks, Dir
  <2> QED
    BY <2>1 DEF SameDir
<1>3. /\ NonePending(a, Tasks(c, s)) <=> NonePending(b, Tasks(c, s))
      /\ IsPending(a, Tasks(c, s)) <=> IsPending(b, Tasks(c, s))
      /\ NonePending(a, Writes(c, Other(s))) <=> NonePending(b, Writes(c, Other(s)))
  BY <1>1, <1>2 DEF NonePending, IsPending
<1>4. NoTask(a, c, s) => NoTask(b, c, s)
  BY <1>1, <1>3 DEF NoTask
<1>5. OneTask(a, c, s) => OneTask(b, c, s)
  BY <1>1, <1>2, <1>3 DEF OneTask
<1>6. EndsInv(a, p, c, s) => EndsInv(b, p, c, s)
  BY <1>1 DEF EndsInv
<1>7. InOrder(a, c, Other(s)) => InOrder(b, c, Other(s))
  BY <1>1 DEF InOrder
<1>8. ASSUME NEW buf, FlowInv(a, c, s, buf) PROVE FlowInv(b, c, s, buf)
  <2>1. NotWriting(b, c, Other(s)) => NotWriting(a, c, Other(s))
    BY <1>1, <1>3 DEF NotWriting
  <2>2. \A bytes : Continues(a, c, s, bytes) => Continues(b, c, s, bytes)
    BY SameContinues
  <2> QED
    BY <1>1, <1>2, <1>3, <1>8, <2>1, <2>2 DEF FlowInv
<1>9. ASSUME NEW buf, BytesInv(a, p, c, s, buf) PROVE BytesInv(b, p, c, s, buf)
  BY <1>1, <1>9 DEF BytesInv
<1> QED
  BY <1>4, <1>5, <1>6, <1>7, <1>8, <1>9

(* A step of one client keeps what is said of another.                     *)
LEMMA OthersKeep ==
  ASSUME NEW a, NEW b, NEW c, NEW k \in Conns \ {c}, Others(c, a, b),
         NEW p, NEW ov, NEW buf, NEW has, ConnInv(a, p, k, ov, buf, has)
  PROVE  ConnInv(b, p, k, ov, buf, has)
<1>1. /\ \A e \in Of(k) : e \in Pending(a) <=> e \in Pending(b)
      /\ AtMostOne(Of(k), Completed(a)) => AtMostOne(Of(k), Completed(b))
  BY DEF Others, OthersPending, Of
<1>2. /\ k \in a.fresh <=> k \in b.fresh
      /\ k \in a.connecting <=> k \in b.connecting
      /\ \A s \in Sides :
           /\ <<k, s>> \in a.open <=> <<k, s>> \in b.open
           /\ <<k, s>> \in a.reading <=> <<k, s>> \in b.reading
           /\ b.writes[k][s] = a.writes[k][s] /\ b.taken[k][s] = a.taken[k][s]
           /\ b.delivered[k][s] = a.delivered[k][s]
  BY DEF Others, OthersSockets
<1>3. "client" \in Sides /\ "server" \in Sides
  BY DEF Sides
<1>4. /\ NonePending(a, Of(k)) => NonePending(b, Of(k))
      /\ \A S \in SUBSET Of(k) : IsPending(a, S) <=> IsPending(b, S)
  BY <1>1 DEF NonePending, IsPending
<1>5. \A h : Starts(k, h) \in SUBSET Of(k)
  BY DEF Starts
<1>6. (Accepting(a, k) <=> Accepting(b, k)) /\ (Connecting(a, k) <=> Connecting(b, k))
  BY <1>4, <1>5 DEF Accepting, Connecting
<1>7. /\ Starting(a, k) <=> Starting(b, k)
      /\ Running(a, k) <=> Running(b, k)
      /\ Closed(a, k) <=> Closed(b, k)
  BY <1>2, <1>3, <1>6 DEF Starting, Running, Closed
<1>8. PhaseInv(b, k)
  <2>1. PhaseInv(a, k)
    BY DEF ConnInv
  <2>2. \A e \in Pending(b) : /\ e \in Starts(k, "accept") => e.s = "client"
                              /\ e \in Starts(k, "connect") => e.s = "server"
    BY <1>1, <1>5, <2>1 DEF PhaseInv
  <2>3. \A s \in Sides : Untouched(a, k, s) => Untouched(b, k, s)
    BY <1>2 DEF Untouched
  <2> QED
    BY <1>1, <1>2, <1>3, <1>4, <1>6, <1>7, <2>1, <2>2, <2>3 DEF PhaseInv
<1>9. StartInv(b, p, k, buf, has)
  BY <1>2, <1>3, <1>7 DEF StartInv, ConnInv
<1>10. ClosedInv(b, p, k, ov, has)
  <2>1. ClosedInv(a, p, k, ov, has)
    BY DEF ConnInv
  <2>2. \A s \in Sides : Writes(k, Other(s)) \in SUBSET Of(k) /\ Reads(k, s) \in SUBSET Of(k)
    BY DEF Writes, Reads
  <2> SUFFICES ASSUME Closed(b, k) PROVE
          /\ \A s \in Sides : s \notin ov =>
               \A e \in Pending(b) : e \in Writes(k, Other(s)) => Erasing(e) \/ IsPending(b, Reads(k, s))
          /\ ov = {} /\ has => \E e \in Pending(b) : e \in Of(k) /\ Erasing(e)
          /\ "server" \notin ov /\ p["server"].ended = "eof" /\ p["client"].ended = "no" =>
               Len(b.delivered[k]["client"]) = p["server"].sent
    BY DEF ClosedInv
  <2>3. ASSUME NEW s \in Sides, s \notin ov, NEW e \in Pending(b), e \in Writes(k, Other(s))
        PROVE  Erasing(e) \/ IsPending(b, Reads(k, s))
    <3>1. e \in Pending(a)
      BY <1>1, <2>2, <2>3
    <3> QED
      BY <1>4, <1>7, <2>1, <2>2, <2>3, <3>1 DEF ClosedInv
  <2>4. ov = {} /\ has => \E e \in Pending(b) : e \in Of(k) /\ Erasing(e)
    BY <1>1, <1>7, <2>1 DEF ClosedInv
  <2>5. b.delivered[k]["client"] = a.delivered[k]["client"]
    BY <1>2, <1>3
  <2> QED
    BY <1>7, <2>1, <2>3, <2>4, <2>5 DEF ClosedInv
<1>11. ASSUME NEW s \in Sides PROVE DirInv(b, p, k, s, ov, buf)
  <2>1. SameDir(a, b, k, s) /\ DirInv(a, p, k, s, ov, buf)
    BY OthersSame DEF ConnInv
  <2> QED
    BY <1>7, <2>1, SameDirKeeps DEF DirInv
<1> QED
  BY <1>8, <1>9, <1>10, <1>11 DEF ConnInv

-----------------------------------------------------------------------------
(* A write: of the bytes the first n are delivered, and the rest is left.  *)

Gives(bytes, d, d2, rest) ==
  \E n \in 0 .. Len(bytes) :
    /\ d2 \in Seq(Nat) /\ Len(d2) = Len(d) + n
    /\ \A i \in 1 .. Len(d) : d2[i] = d[i]
    /\ \A i \in 1 .. n : d2[Len(d) + i] = bytes[i]
    /\ Len(rest) = Len(bytes) - n
    /\ \A i \in 1 .. Len(bytes) - n : rest[i] = bytes[n + i]

(* What the kernel does with a write to an open socket, and e tells.       *)
WriteFits(a, b, c, s, bytes, e) ==
  /\ e.handler = "send" => e.bytes = <<>>
  /\ e.err # "none" => peer[c][s].ended = "reset" /\ e.handler = "send"
  /\ e.err # "none" => e.bytes = <<>> /\ b.delivered = a.delivered
  /\ e.err = "none" =>
       \E d2 : /\ Gives(bytes, a.delivered[c][s], d2, e.bytes)
               /\ b.delivered = [a.delivered EXCEPT ![c] = [@ EXCEPT ![s] = d2]]

LEMMA GivesIs ==
  ASSUME NEW bytes \in Seq(Nat), NEW d \in Seq(Nat), NEW n \in 0 .. Len(bytes)
  PROVE  /\ SubSeq(bytes, n + 1, Len(bytes)) \in Seq(Nat)
         /\ Gives(bytes, d, d \o SubSeq(bytes, 1, n), SubSeq(bytes, n + 1, Len(bytes)))
<1> DEFINE first == SubSeq(bytes, 1, n)
           rest == SubSeq(bytes, n + 1, Len(bytes))
           d2 == d \o first
<1>1. PICK l \in Nat : l = Len(bytes)
  BY LenProperties
<1>2. n \in Nat /\ n <= l
  BY <1>1
<1>3. first \in Seq(Nat) /\ Len(first) = n /\ \A i \in 1 .. n : first[i] = bytes[i]
  <2>1. \A i \in 1 .. n : bytes[i] \in Nat
    BY <1>1, <1>2, LenProperties
  <2>2. /\ first \in Seq(Nat)
        /\ Len(first) = IF 1 <= n THEN n - 1 + 1 ELSE 0
        /\ \A i \in 1 .. n - 1 + 1 : first[i] = bytes[1 + i - 1]
    BY <1>1, <1>2, <2>1, SubSeqProperties
  <2> HIDE DEF first
  <2> QED
    BY <1>2, <2>2
<1>4. rest \in Seq(Nat) /\ Len(rest) = l - n /\ \A i \in 1 .. l - n : rest[i] = bytes[n + i]
  <2>1. \A i \in n + 1 .. l : bytes[i] \in Nat
    BY <1>1, <1>2, LenProperties
  <2>2. /\ rest \in Seq(Nat)
        /\ Len(rest) = IF n + 1 <= l THEN l - (n + 1) + 1 ELSE 0
        /\ \A i \in 1 .. l - (n + 1) + 1 : rest[i] = bytes[n + 1 + i - 1]
    BY <1>1, <1>2, <2>1, SubSeqProperties
  <2> HIDE DEF rest
  <2> QED
    BY <1>2, <2>2
<1> HIDE DEF first, rest
<1>5. PICK m \in Nat : m = Len(d)
  BY LenProperties
<1>6. /\ d2 \in Seq(Nat) /\ Len(d2) = m + n
      /\ \A i \in 1 .. m : d2[i] = d[i]
      /\ \A i \in m + 1 .. m + n : d2[i] = first[i - m]
  <2>1. /\ d2 \in Seq(Nat) /\ Len(d2) = Len(d) + Len(first)
        /\ \A i \in 1 .. Len(d) : d2[i] = d[i]
        /\ \A i \in Len(d) + 1 .. Len(d) + Len(first) : d2[i] = first[i - Len(d)]
    <3>1. d \in Seq(Nat) /\ first \in Seq(Nat)
      BY <1>3
    <3> QED
      BY <3>1, ConcatIs
  <2> HIDE DEF d2
  <2> QED
    BY <1>3, <1>5, <2>1
<1> HIDE DEF d2
<1>7. \A i \in 1 .. n : d2[m + i] = bytes[i]
  <2>1. ASSUME NEW i \in 1 .. n PROVE d2[m + i] = bytes[i]
    <3>1. m + i \in m + 1 .. m + n /\ (m + i) - m = i
      BY <1>2
    <3> QED
      BY <1>3, <1>6, <3>1
  <2> QED
    BY <2>1
<1>8. Gives(bytes, d, d2, rest)
  BY <1>1, <1>4, <1>5, <1>6, <1>7 DEF Gives
<1> QED
  BY <1>4, <1>8 DEF first, rest, d2

LEMMA WriteResultIs ==
  ASSUME NEW a \in IoType, peer \in PeerType, NEW c \in Conns, NEW s \in Sides,
         NEW w \in WriteType, CanWrite(a, c, s)
  PROVE  LET e == WriteResult(a, c, s, w)
             b == Written(a, c, s, w)
         IN /\ e \in Writes(c, s) /\ e.last = w.last
            /\ WriteFits(a, b, c, s, w.bytes, e)
            /\ b \in IoType /\ b = [a EXCEPT !.delivered = b.delivered]
            /\ OthersSockets(c, a, b)
<1> DEFINE e == WriteResult(a, c, s, w)
           b == Written(a, c, s, w)
           n == Fits(a, c, s, w)
<1>1. /\ w.bytes \in Seq(Nat) /\ w.last \in BOOLEAN
      /\ a.delivered[c][s] \in Seq(Nat) /\ Len(a.delivered[c][s]) \in Nat
      /\ peer[c][s].received \in Nat
  BY LenProperties DEF WriteType, IoType, PeerType
<1>2. PICK l \in Nat : l = Len(w.bytes)
  BY <1>1, LenProperties
<1>0. PICK last \in BOOLEAN : last = w.last
  BY <1>1
<1>3. CASE peer[c][s].ended = "reset"
  <2>1. e = Completion("send", c, s, "error", <<>>, last) /\ b = a
    BY <1>0, <1>3 DEF WriteResult, Written
  <2>2. /\ e \in Writes(c, s) /\ e.handler = "send" /\ e.err = "error" /\ e.bytes = <<>>
        /\ e.last = w.last
    BY <1>0, <2>1, FailedSendIs
  <2> HIDE DEF e, b
  <2>3. WriteFits(a, b, c, s, w.bytes, e)
    BY <1>3, <2>1, <2>2 DEF WriteFits
  <2>4. b = [a EXCEPT !.delivered = b.delivered] /\ OthersSockets(c, a, b)
    BY <2>1 DEF IoType, OthersSockets
  <2> QED
    BY <2>1, <2>2, <2>3, <2>4 DEF e, b
<1>4. CASE peer[c][s].ended # "reset"
  <2>1. n \in 0 .. l
    <3>1. RoomFor(a, c, s) > 0
      BY <1>4 DEF CanWrite
    <3>2. RoomFor(a, c, s) \in Int
      <4>1. PICK k \in Nat, m \in Nat, r \in Nat :
              k = Capacity /\ m = Len(a.delivered[c][s]) /\ r = peer[c][s].received
        BY <1>1, ConstantsAssumption
      <4>2. RoomFor(a, c, s) = k - (m - r)
        BY <4>1 DEF RoomFor
      <4> QED
        BY <4>2
    <3> HIDE DEF n
    <3>3. n = IF RoomFor(a, c, s) <= l THEN RoomFor(a, c, s) ELSE l
      BY <1>2 DEF n, Fits, Least
    <3> QED
      BY <3>1, <3>2, <3>3
  <2> DEFINE d2 == a.delivered[c][s] \o SubSeq(w.bytes, 1, n)
             rest == SubSeq(w.bytes, n + 1, Len(w.bytes))
  <2>2. b = [a EXCEPT !.delivered = [a.delivered EXCEPT ![c] = [@ EXCEPT ![s] = d2]]]
    BY <1>4 DEF Written
  <2>3. IF n = Len(w.bytes) THEN e = Completion("send", c, s, "none", <<>>, last)
        ELSE e = Completion("more", c, s, "none", rest, last)
    BY <1>0, <1>4 DEF WriteResult
  <2> HIDE DEF n, e, b
  <2>4. rest \in Seq(Nat) /\ Gives(w.bytes, a.delivered[c][s], d2, rest)
    BY <1>1, <1>2, <2>1, GivesIs
  <2>5. n = Len(w.bytes) => rest = <<>>
    <3>1. ASSUME n = Len(w.bytes) PROVE rest = <<>>
      <4>1. rest \in Seq(Nat) /\ Len(rest) = 0
        BY <1>2, <2>1, <2>4, <3>1 DEF Gives
      <4> QED
        BY <4>1, EmptySeq
    <3> QED
      BY <3>1
  <2> HIDE DEF d2, rest
  <2>6. d2 \in Seq(Nat)
    BY <2>4 DEF Gives
  <2>7. /\ e \in Writes(c, s) /\ e.err = "none" /\ e.last = w.last /\ e.bytes = rest
        /\ e.handler = "send" => e.bytes = <<>>
    <3>1. CASE n = Len(w.bytes)
      <4>1. e = Completion("send", c, s, "none", <<>>, last)
        BY <2>3, <3>1
      <4>2. e \in Writes(c, s) /\ e.err = "none" /\ e.last = last /\ e.bytes = <<>>
        BY <4>1, FailedSendIs
      <4> QED
        BY <1>0, <2>5, <3>1, <4>2
    <3>2. CASE n # Len(w.bytes)
      <4>1. PICK h \in {"send", "more"}, err \in {"none", "error"} : h = "more" /\ err = "none"
        OBVIOUS
      <4>2. e = Completion(h, c, s, err, rest, last)
        BY <2>3, <3>2, <4>1
      <4>3. e \in Writes(c, s) /\ e.handler = h /\ e.err = err /\ e.last = last /\ e.bytes = rest
        BY <2>4, <4>2, SendIs
      <4> QED
        BY <1>0, <4>1, <4>3
    <3> QED
      BY <3>1, <3>2
  <2>8. /\ b.delivered = [a.delivered EXCEPT ![c] = [@ EXCEPT ![s] = d2]]
        /\ b = [a EXCEPT !.delivered = b.delivered] /\ b \in IoType
    <3> DEFINE ds == [a.delivered EXCEPT ![c] = [@ EXCEPT ![s] = d2]]
    <3>1. ds \in [Conns -> [Sides -> Seq(Nat)]]
      BY <2>6 DEF IoType
    <3>2. b = [a EXCEPT !.delivered = ds]
      BY <2>2
    <3> HIDE DEF ds
    <3>3. b \in IoType /\ b.delivered = ds
      BY <3>1, <3>2 DEF IoType
    <3> QED
      BY <3>2, <3>3 DEF ds
  <2>9. WriteFits(a, b, c, s, w.bytes, e)
    BY <2>4, <2>7, <2>8 DEF WriteFits
  <2>10. OthersSockets(c, a, b)
    BY <2>8 DEF OthersSockets, IoType
  <2> QED
    BY <2>7, <2>8, <2>9, <2>10 DEF e, b
<1> QED
  BY <1>3, <1>4

(* What a start of a write leaves alone.                                   *)
WriteKeeps(a, b) ==
  /\ b.accepting = a.accepting /\ b.fresh = a.fresh /\ b.connecting = a.connecting
  /\ b.open = a.open /\ b.reading = a.reading /\ b.taken = a.taken

WriteWaits(a, b, c, s, bytes, last) ==
  /\ <<c, s>> \in a.open
  /\ b.writes = [a.writes EXCEPT ![c][s] = Append(a.writes[c][s], [bytes |-> bytes, last |-> last])]
  /\ b.delivered = a.delivered /\ Completed(b) = Completed(a)

WriteCompletes(a, b, c, s, bytes, last, e) ==
  /\ e \in Writes(c, s) /\ e.last = last /\ Posts(a, b, e) /\ b.writes = a.writes
  /\ IF <<c, s>> \in a.open THEN WriteFits(a, b, c, s, bytes, e)
     ELSE e.handler = "send" /\ e.err = "error" /\ e.bytes = <<>> /\ b.delivered = a.delivered

LEMMA StartWriteIs ==
  ASSUME NEW a \in IoType, a.done = <<>>, peer \in PeerType, NEW c \in Conns, NEW s \in Sides,
         NEW bytes \in Seq(Nat), NEW last \in BOOLEAN
  PROVE  LET b == StartWrite(a, c, s, bytes, last)
         IN /\ b \in IoType /\ b.done = <<>> /\ Others(c, a, b) /\ WriteKeeps(a, b)
            /\ \/ WriteWaits(a, b, c, s, bytes, last)
               \/ \E e \in CompletionType : WriteCompletes(a, b, c, s, bytes, last, e)
<1> DEFINE b == StartWrite(a, c, s, bytes, last)
           w == [bytes |-> bytes, last |-> last]
<1>0. w \in WriteType /\ w.bytes = bytes /\ w.last = last
  BY DEF WriteType
<1>1. CASE <<c, s>> \notin a.open
  <2> DEFINE e == Completion("send", c, s, "error", <<>>, last)
  <2>1. b = Post(a, e)
    BY <1>1 DEF StartWrite
  <2>2. /\ e \in CompletionType /\ e \in Writes(c, s) /\ e.handler = "send" /\ e.err = "error"
        /\ e.bytes = <<>> /\ e.c = c /\ e.last = last
    BY FailedSendIs
  <2> HIDE DEF e
  <2>3. b \in IoType /\ b.done = <<>> /\ Posts(a, b, e) /\ OthersPending(c, a, b)
        /\ b = [a EXCEPT !.queue = Append(a.queue, e)]
    BY <2>1, <2>2, PostIs
  <2> HIDE DEF b
  <2>4. /\ WriteKeeps(a, b) /\ OthersSockets(c, a, b)
        /\ b.writes = a.writes /\ b.delivered = a.delivered
    BY <2>3 DEF WriteKeeps, OthersSockets, IoType
  <2> QED
    BY <1>1, <2>2, <2>3, <2>4 DEF Others, WriteCompletes, b
<1>2. CASE <<c, s>> \in a.open /\ a.writes[c][s] = <<>> /\ CanWrite(a, c, s)
  <2> DEFINE e == WriteResult(a, c, s, w)
             t == Written(a, c, s, w)
  <2>1. b = Post(t, e)
    BY <1>2 DEF StartWrite
  <2>2. /\ e \in Writes(c, s) /\ e.last = last /\ WriteFits(a, t, c, s, bytes, e)
        /\ t \in IoType /\ t = [a EXCEPT !.delivered = t.delivered] /\ OthersSockets(c, a, t)
    <3> HIDE DEF w
    <3> QED
      BY <1>0, <1>2, WriteResultIs
  <2> HIDE DEF e, t
  <2>3. e \in CompletionType /\ e.c = c
    BY <2>2 DEF Writes, Of
  <2>4. t.queue = a.queue /\ t.done = <<>>
    BY <2>2 DEF IoType
  <2>5. Completed(t) = Completed(a)
    BY <2>4 DEF Completed
  <2>6. b \in IoType /\ b.done = <<>> /\ Posts(t, b, e) /\ OthersPending(c, t, b)
        /\ b = [t EXCEPT !.queue = Append(t.queue, e)]
    BY <2>1, <2>2, <2>3, <2>4, PostIs
  <2>7. Posts(a, b, e) /\ OthersPending(c, a, b)
    BY <2>5, <2>6 DEF Posts, OthersPending, Pending
  <2> HIDE DEF b
  <2>8. /\ WriteKeeps(a, b) /\ OthersSockets(c, t, b)
        /\ b.writes = a.writes /\ b.delivered = t.delivered
    BY <2>2, <2>6 DEF WriteKeeps, OthersSockets, IoType
  <2>9. OthersSockets(c, a, b)
    BY <2>2, <2>8 DEF OthersSockets
  <2>10. WriteFits(a, b, c, s, bytes, e)
    BY <2>2, <2>8 DEF WriteFits
  <2> QED
    BY <1>2, <2>2, <2>3, <2>6, <2>7, <2>8, <2>9, <2>10 DEF Others, WriteCompletes, b
<1>3. CASE <<c, s>> \in a.open /\ ~(a.writes[c][s] = <<>> /\ CanWrite(a, c, s))
  <2> DEFINE ws == [a.writes EXCEPT ![c][s] = Append(a.writes[c][s], w)]
  <2>1. b = [a EXCEPT !.writes = ws]
    BY <1>3 DEF StartWrite
  <2>2. ws \in [Conns -> [Sides -> Seq(WriteType)]]
    <3>1. Append(a.writes[c][s], w) \in Seq(WriteType)
      BY <1>0 DEF IoType
    <3> QED
      BY <3>1 DEF IoType
  <2>3. \A k \in Conns \ {c} : \A t \in Sides : ws[k][t] = a.writes[k][t]
    BY DEF IoType
  <2>4. ws = [a.writes EXCEPT ![c][s] = Append(a.writes[c][s], [bytes |-> bytes, last |-> last])]
    OBVIOUS
  <2> HIDE DEF ws, b
  <2>5. b \in IoType /\ b.queue = a.queue /\ b.done = a.done /\ b.writes = ws
    BY <2>1, <2>2 DEF IoType
  <2>6. Completed(b) = Completed(a)
    BY <2>5 DEF Completed
  <2>7. WriteKeeps(a, b) /\ OthersSockets(c, a, b) /\ b.delivered = a.delivered
    BY <2>1, <2>3 DEF WriteKeeps, OthersSockets, IoType
  <2>8. OthersPending(c, a, b)
    BY <2>6 DEF OthersPending, Pending
  <2> QED
    BY <1>3, <2>4, <2>5, <2>6, <2>7, <2>8 DEF Others, WriteWaits, b
<1> QED
  BY <1>1, <1>2, <1>3

-----------------------------------------------------------------------------
(* A close, and what is freed under a write.                               *)

CloseKeeps(a, b, c, s) ==
  /\ b.done = a.done /\ b.accepting = a.accepting /\ b.fresh = a.fresh /\ b.connecting = a.connecting
  /\ b.taken = a.taken /\ b.delivered = a.delivered
  /\ b.open = a.open \ {<<c, s>>} /\ b.reading = a.reading \ {<<c, s>>}
  /\ b.writes = [a.writes EXCEPT ![c][s] = <<>>]

Failing(c, s) == {e \in Reads(c, s) \cup Writes(c, s) :
                    e.err = "error" /\ e.bytes = <<>> /\ e.handler # "more"}

LEMMA CloseIs ==
  ASSUME NEW a \in IoType, a.done = <<>>, NEW c \in Conns, NEW s \in Sides
  PROVE  LET b == Close(a, c, s)
         IN /\ b \in IoType /\ Others(c, a, b) /\ CloseKeeps(a, b, c, s)
            /\ Pending(a) \subseteq Pending(b)
            /\ \A e \in Pending(b) : e \in Pending(a) \/ e \in Failing(c, s)
            /\ <<c, s>> \in a.reading => IsPending(b, Reads(c, s))
<1> DEFINE b == Close(a, c, s)
           old == a.writes[c][s]
           ws == [i \in DOMAIN old |-> Completion("send", c, s, "error", <<>>, old[i].last)]
           recv == Received(c, s, "error", <<>>)
           rs == IF <<c, s>> \in a.reading THEN <<recv>> ELSE <<>>
           q == (a.queue \o rs) \o ws
           ow == [a.writes EXCEPT ![c][s] = <<>>]
<1>1. b = [a EXCEPT !.queue = q, !.open = a.open \ {<<c, s>>}, !.reading = a.reading \ {<<c, s>>},
                    !.writes = ow]
  BY DEF Close, Received
<1>2. recv \in Failing(c, s) /\ recv \in Reads(c, s) /\ recv \in CompletionType
  <2>1. /\ recv \in Reads(c, s) /\ recv \in CompletionType
        /\ recv.err = "error" /\ recv.bytes = <<>>
    BY FailedRecvIs
  <2> HIDE DEF recv
  <2> QED
    BY <2>1 DEF Failing, Reads
<1> HIDE DEF recv
<1>3. rs \in Seq(CompletionType) /\ ToSet(rs) = IF <<c, s>> \in a.reading THEN {recv} ELSE {}
  <2>1. <<>> \in Seq(CompletionType) /\ DOMAIN <<>> = {}
    OBVIOUS
  <2>2. <<recv>> \in Seq(CompletionType) /\ DOMAIN <<recv>> = {1} /\ <<recv>>[1] = recv
    BY <1>2
  <2> QED
    BY <2>1, <2>2 DEF ToSet
<1>4. ws \in Seq(CompletionType) /\ ToSet(ws) \subseteq Failing(c, s)
  <2>1. ASSUME NEW x \in WriteType
        PROVE  Completion("send", c, s, "error", <<>>, x.last) \in Failing(c, s) \cap CompletionType
    <3>1. PICK last \in BOOLEAN : last = x.last
      BY <2>1 DEF WriteType
    <3>2. PICK e : e = Completion("send", c, s, "error", <<>>, last)
      OBVIOUS
    <3>3. /\ e \in Writes(c, s) /\ e \in CompletionType /\ e.handler = "send"
          /\ e.err = "error" /\ e.bytes = <<>>
      BY <3>2, FailedSendIs
    <3>4. e \in Failing(c, s)
      BY <3>3 DEF Failing
    <3> QED
      BY <3>1, <3>2, <3>3, <3>4
  <2>2. old \in Seq(WriteType)
    BY DEF IoType
  <2> HIDE DEF old
  <2>3. PICK n \in Nat : DOMAIN old = 1 .. n /\ \A i \in 1 .. n : old[i] \in WriteType
    BY <2>2, LenProperties
  <2>4. \A i \in 1 .. n : ws[i] \in Failing(c, s) \cap CompletionType
    BY <2>1, <2>3
  <2>5. ws \in [1 .. n -> CompletionType]
    BY <2>1, <2>3
  <2> HIDE DEF ws
  <2> QED
    BY <2>4, <2>5, SeqDef DEF ToSet
<1>5. a.queue \in Seq(CompletionType)
  BY DEF IoType
<1> HIDE DEF ws, rs
<1>6. /\ q \in Seq(CompletionType)
      /\ ToSet(q) = (ToSet(a.queue) \cup ToSet(rs)) \cup ToSet(ws)
      /\ \A S : AtMostOne(S, a.queue) /\ ToSet(rs) \cap S = {} /\ ToSet(ws) \cap S = {} => AtMostOne(S, q)
  <2> DEFINE qr == a.queue \o rs
  <2>1. /\ qr \in Seq(CompletionType) /\ ToSet(qr) = ToSet(a.queue) \cup ToSet(rs)
        /\ \A S : AtMostOne(S, a.queue) /\ ToSet(rs) \cap S = {} => AtMostOne(S, qr)
    BY <1>3, <1>5, ConcatKeeps
  <2> HIDE DEF qr
  <2>2. /\ qr \o ws \in Seq(CompletionType) /\ ToSet(qr \o ws) = ToSet(qr) \cup ToSet(ws)
        /\ \A S : AtMostOne(S, qr) /\ ToSet(ws) \cap S = {} => AtMostOne(S, qr \o ws)
    BY <1>4, <2>1, ConcatKeeps
  <2>3. q = qr \o ws
    BY DEF qr
  <2> QED
    BY <2>1, <2>2, <2>3
<1>7. ow \in [Conns -> [Sides -> Seq(WriteType)]] /\ \A k \in Conns \ {c} : \A t \in Sides : ow[k][t] = a.writes[k][t]
  <2>1. <<>> \in Seq(WriteType)
    OBVIOUS
  <2> QED
    BY <2>1 DEF IoType
<1> HIDE DEF q, b, ow
<1>8. /\ b \in IoType /\ b.queue = q /\ b.done = <<>> /\ b.writes = ow
      /\ b.open = a.open \ {<<c, s>>} /\ b.reading = a.reading \ {<<c, s>>}
  BY <1>1, <1>6, <1>7 DEF IoType
<1>9. CloseKeeps(a, b, c, s) /\ OthersSockets(c, a, b)
  <2>1. /\ b.accepting = a.accepting /\ b.fresh = a.fresh /\ b.connecting = a.connecting
        /\ b.taken = a.taken /\ b.delivered = a.delivered
    BY <1>1 DEF IoType
  <2> QED
    BY <1>7, <1>8, <2>1 DEF CloseKeeps, OthersSockets, ow
<1>10. Completed(a) = a.queue /\ Completed(b) = q
  BY <1>8, QueueType
<1>11. /\ Pending(a) \subseteq Pending(b)
       /\ \A e \in Pending(b) : e \in Pending(a) \/ e \in Failing(c, s)
       /\ <<c, s>> \in a.reading => IsPending(b, Reads(c, s))
  BY <1>2, <1>3, <1>4, <1>6, <1>10 DEF Pending, IsPending
<1>12. OthersPending(c, a, b)
  <2>1. \A e \in Failing(c, s) : e.c = c
    BY DEF Failing, Reads, Writes, Of
  <2>2. \A e \in CompletionType : e.c # c => (e \in Pending(a) <=> e \in Pending(b))
    BY <1>11, <2>1
  <2>3. ASSUME NEW S, \A e \in S : e.c # c, AtMostOne(S, Completed(a)) PROVE AtMostOne(S, Completed(b))
    <3>1. ToSet(rs) \cap S = {} /\ ToSet(ws) \cap S = {}
      BY <1>2, <1>3, <1>4, <2>1, <2>3
    <3> QED
      BY <1>6, <1>10, <2>3, <3>1
  <2> QED
    BY <2>2, <2>3 DEF OthersPending
<1> QED
  BY <1>8, <1>9, <1>11, <1>12 DEF Others, b

(* Up to the bytes. *)
Alike(e, f) == /\ e.handler = f.handler /\ e.c = f.c /\ e.s = f.s
               /\ e.err = f.err /\ (e.last <=> f.last)

FreedKeeps(a, b, c, s) ==
  /\ b.done = a.done /\ b.accepting = a.accepting /\ b.fresh = a.fresh /\ b.connecting = a.connecting
  /\ b.taken = a.taken /\ b.delivered = a.delivered /\ b.open = a.open /\ b.reading = a.reading
  /\ DOMAIN b.writes[c][s] = DOMAIN a.writes[c][s]
  /\ \A i \in DOMAIN a.writes[c][s] :
       /\ b.writes[c][s][i].last <=> a.writes[c][s][i].last
       /\ \A j \in DOMAIN b.writes[c][s][i].bytes : b.writes[c][s][i].bytes[j] = 0
  /\ \A t \in Sides \ {s} : b.writes[c][t] = a.writes[c][t]

(* What pends in b is what pends in a, the bytes of the "more"s zero.      *)
FreedPending(a, b, c, s) ==
  /\ \A e \in Pending(a) : e \in Pending(b) \/ \E f \in Pending(b) :
        Alike(e, f) /\ e \in Writes(c, s) /\ f \in Writes(c, s)
  /\ \A f \in Pending(b) : f \in Pending(a) \/ \E e \in Pending(a) :
        /\ Alike(e, f) /\ e \in Writes(c, s) /\ f \in Writes(c, s) /\ f.handler = "more"
        /\ \A i \in DOMAIN f.bytes : f.bytes[i] = 0
  /\ \A S \in SUBSET CompletionType :
       /\ \A e, f \in CompletionType : Alike(e, f) => (e \in S <=> f \in S)
       /\ AtMostOne(S, Completed(a))
       => AtMostOne(S, Completed(b))
  /\ \A S : S \cap Writes(c, s) = {} /\ AtMostOne(S, Completed(a)) => AtMostOne(S, Completed(b))

LEMMA LostIs ==
  /\ \A w \in WriteType : /\ Lost(w) \in WriteType /\ (Lost(w).last <=> w.last)
                          /\ \A j \in DOMAIN Lost(w).bytes : Lost(w).bytes[j] = 0
  /\ \A e \in CompletionType : /\ Lost(e) \in CompletionType /\ Alike(e, Lost(e))
                               /\ \A j \in DOMAIN Lost(e).bytes : Lost(e).bytes[j] = 0
<1>1. ASSUME NEW q \in Seq(Nat)
      PROVE  /\ [i \in DOMAIN q |-> 0] \in Seq(Nat)
             /\ \A j \in DOMAIN [i \in DOMAIN q |-> 0] : [i \in DOMAIN q |-> 0][j] = 0
  <2>1. PICK n \in Nat : DOMAIN q = 1 .. n
    BY LenProperties
  <2>2. [i \in DOMAIN q |-> 0] \in [1 .. n -> Nat]
    BY <2>1
  <2> QED
    BY <2>2, SeqDef
<1>2. ASSUME NEW w \in WriteType
      PROVE  /\ Lost(w) \in WriteType /\ (Lost(w).last <=> w.last)
             /\ \A j \in DOMAIN Lost(w).bytes : Lost(w).bytes[j] = 0
  <2> DEFINE z == [i \in DOMAIN w.bytes |-> 0]
  <2>1. z \in Seq(Nat) /\ \A j \in DOMAIN z : z[j] = 0
    BY <1>1 DEF WriteType
  <2>2. Lost(w) = [w EXCEPT !.bytes = z]
    BY DEF Lost
  <2> HIDE DEF z
  <2>3. Lost(w).bytes = z
    BY <2>2 DEF WriteType
  <2> QED
    BY <2>1, <2>2, <2>3 DEF WriteType
<1>3. ASSUME NEW e \in CompletionType
      PROVE  /\ Lost(e) \in CompletionType /\ Alike(e, Lost(e))
             /\ \A j \in DOMAIN Lost(e).bytes : Lost(e).bytes[j] = 0
  <2> DEFINE z == [i \in DOMAIN e.bytes |-> 0]
  <2>1. z \in Seq(Nat) /\ \A j \in DOMAIN z : z[j] = 0
    BY <1>1 DEF CompletionType
  <2>2. Lost(e) = [e EXCEPT !.bytes = z]
    BY DEF Lost
  <2> HIDE DEF z
  <2>3. Lost(e).bytes = z
    BY <2>2 DEF CompletionType
  <2> QED
    BY <2>1, <2>2, <2>3 DEF CompletionType, Alike
<1> QED
  BY <1>2, <1>3

LEMMA FreedIs ==
  ASSUME NEW a \in IoType, a.done = <<>>, NEW c \in Conns, NEW s \in Sides
  PROVE  LET b == Freed(a, c, s)
         IN /\ b \in IoType /\ Others(c, a, b) /\ FreedKeeps(a, b, c, s) /\ FreedPending(a, b, c, s)
<1> DEFINE b == Freed(a, c, s)
           g(e) == IF e.c = c /\ e.s = s /\ e.handler = "more" THEN Lost(e) ELSE e
           q == [i \in DOMAIN a.queue |-> g(a.queue[i])]
           w == [i \in DOMAIN a.writes[c][s] |-> Lost(a.writes[c][s][i])]
           ws == [a.writes EXCEPT ![c][s] = w]
<1>1. b = [a EXCEPT !.writes = ws, !.queue = q]
  BY DEF Freed
<1>2. PICK n \in Nat : DOMAIN a.queue = 1 .. n /\ \A i \in 1 .. n : a.queue[i] \in CompletionType
  <2>1. a.queue \in Seq(CompletionType)
    BY DEF IoType
  <2> QED
    BY <2>1, LenProperties
<1>3. PICK m \in Nat : DOMAIN a.writes[c][s] = 1 .. m /\ \A i \in 1 .. m : a.writes[c][s][i] \in WriteType
  <2>1. a.writes[c][s] \in Seq(WriteType)
    BY DEF IoType
  <2> QED
    BY <2>1, LenProperties
<1>4. \A e \in CompletionType : g(e) \in CompletionType /\ Alike(e, g(e))
  BY LostIs DEF Alike
<1>5. /\ q \in Seq(CompletionType) /\ DOMAIN q = 1 .. n /\ \A i \in 1 .. n : q[i] = g(a.queue[i])
  <2> HIDE DEF g
  <2>1. q \in [1 .. n -> CompletionType]
    BY <1>2, <1>4
  <2> QED
    BY <1>2, <2>1, SeqDef
<1>6. /\ w \in Seq(WriteType) /\ DOMAIN w = 1 .. m /\ \A i \in 1 .. m : w[i] = Lost(a.writes[c][s][i])
  <2>1. w \in [1 .. m -> WriteType]
    BY <1>3, LostIs
  <2> QED
    BY <1>3, <2>1, SeqDef
<1> HIDE DEF q, w
<1>7. ws \in [Conns -> [Sides -> Seq(WriteType)]]
  BY <1>6 DEF IoType
<1>8. /\ ws[c][s] = w /\ \A t \in Sides \ {s} : ws[c][t] = a.writes[c][t]
      /\ \A k \in Conns \ {c} : \A t \in Sides : ws[k][t] = a.writes[k][t]
  BY DEF IoType
<1> HIDE DEF ws, b
<1>9. /\ b \in IoType /\ b.queue = q /\ b.done = <<>> /\ b.writes = ws
      /\ b.accepting = a.accepting /\ b.fresh = a.fresh /\ b.connecting = a.connecting
      /\ b.taken = a.taken /\ b.delivered = a.delivered /\ b.open = a.open /\ b.reading = a.reading
  BY <1>1, <1>5, <1>7 DEF IoType
<1>10. FreedKeeps(a, b, c, s)
  <2>1. \A i \in 1 .. m : /\ w[i].last <=> a.writes[c][s][i].last
                          /\ \A j \in DOMAIN w[i].bytes : w[i].bytes[j] = 0
    BY <1>3, <1>6, LostIs
  <2> QED
    BY <1>3, <1>6, <1>8, <1>9, <2>1 DEF FreedKeeps
<1>11. Completed(a) = a.queue /\ Completed(b) = q
  BY <1>9, QueueType
<1>12. \A e \in CompletionType : g(e) = e \/
         /\ Alike(e, g(e)) /\ e \in Writes(c, s) /\ g(e) \in Writes(c, s) /\ g(e).handler = "more"
         /\ \A i \in DOMAIN g(e).bytes : g(e).bytes[i] = 0
  <2> SUFFICES ASSUME NEW e \in CompletionType, e.c = c, e.s = s, e.handler = "more"
               PROVE  /\ Alike(e, Lost(e)) /\ e \in Writes(c, s) /\ Lost(e) \in Writes(c, s)
                      /\ Lost(e).handler = "more"
                      /\ \A i \in DOMAIN Lost(e).bytes : Lost(e).bytes[i] = 0
    OBVIOUS
  <2> QED
    BY LostIs DEF Alike, Writes, Of
<1>13. \A e \in CompletionType : /\ \A f \in CompletionType : g(e) = f => Alike(e, f)
                                 /\ g(e).c = e.c
  BY <1>4 DEF Alike
<1> HIDE DEF g
<1>14. FreedPending(a, b, c, s)
  <2>1. ASSUME NEW e \in Pending(a) PROVE e \in Pending(b) \/ \E f \in Pending(b) :
           Alike(e, f) /\ e \in Writes(c, s) /\ f \in Writes(c, s)
    <3>1. PICK i \in 1 .. n : e = a.queue[i]
      BY <1>2, <1>11, <2>1 DEF Pending, ToSet
    <3>2. g(e) \in Pending(b) /\ e \in CompletionType
      BY <1>2, <1>5, <1>11, <3>1 DEF Pending, ToSet
    <3> QED
      BY <1>12, <3>2
  <2>2. ASSUME NEW f \in Pending(b) PROVE f \in Pending(a) \/ \E e \in Pending(a) :
           /\ Alike(e, f) /\ e \in Writes(c, s) /\ f \in Writes(c, s) /\ f.handler = "more"
           /\ \A i \in DOMAIN f.bytes : f.bytes[i] = 0
    <3>1. PICK i \in 1 .. n : f = q[i]
      BY <1>5, <1>11, <2>2 DEF Pending, ToSet
    <3>2. f = g(a.queue[i]) /\ a.queue[i] \in Pending(a) /\ a.queue[i] \in CompletionType
      BY <1>2, <1>5, <1>11, <3>1 DEF Pending, ToSet
    <3> QED
      BY <1>12, <3>2
  <2>3. ASSUME NEW S \in SUBSET CompletionType,
               \A e, f \in CompletionType : Alike(e, f) => (e \in S <=> f \in S),
               AtMostOne(S, Completed(a))
        PROVE  AtMostOne(S, Completed(b))
    <3>1. \A i \in 1 .. n : q[i] \in S => a.queue[i] \in S
      BY <1>2, <1>4, <1>5, <2>3
    <3> QED
      BY <1>2, <1>5, <1>11, <2>3, <3>1 DEF AtMostOne
  <2>4. ASSUME NEW S, S \cap Writes(c, s) = {}, AtMostOne(S, Completed(a)) PROVE AtMostOne(S, Completed(b))
    <3>1. \A i \in 1 .. n : q[i] \in S => a.queue[i] = q[i]
      BY <1>2, <1>5, <1>12, <2>4
    <3> QED
      BY <1>2, <1>5, <1>11, <2>4, <3>1 DEF AtMostOne
  <2> QED
    BY <2>1, <2>2, <2>3, <2>4 DEF FreedPending
<1>15. Others(c, a, b)
  <2>1. OthersSockets(c, a, b)
    BY <1>8, <1>9 DEF OthersSockets
  <2>2. ASSUME NEW e \in CompletionType, e.c # c PROVE e \in Pending(a) <=> e \in Pending(b)
    BY <1>14, <2>2 DEF FreedPending, Writes, Of
  <2>3. ASSUME NEW S, \A e \in S : e.c # c, AtMostOne(S, Completed(a)) PROVE AtMostOne(S, Completed(b))
    <3>1. \A i \in 1 .. n : q[i] \in S => a.queue[i] = q[i]
      BY <1>2, <1>5, <1>12, <1>13, <2>3 DEF Writes, Of
    <3> QED
      BY <1>2, <1>5, <1>11, <2>3, <3>1 DEF AtMostOne
  <2> QED
    BY <2>1, <2>2, <2>3 DEF Others, OthersPending
<1> QED
  BY <1>9, <1>10, <1>14, <1>15 DEF b

-----------------------------------------------------------------------------
(* What each operation does to a direction: a completion is taken to be    *)
(* handled, a read is started, a write is.                                 *)

SameSockets(a, b) ==
  /\ b.open = a.open /\ b.reading = a.reading /\ b.writes = a.writes
  /\ b.taken = a.taken /\ b.delivered = a.delivered

LEMMA TakeOtherDir ==
  ASSUME NEW a, NEW b, NEW e, Takes(a, b, e), SameSockets(a, b),
         NEW c, NEW s \in Sides, e \notin Dir(c, s)
  PROVE  SameDir(a, b, c, s)
BY DEF Takes, SameSockets, SameDir

LEMMA TakeTask ==
  ASSUME NEW a, NEW b, NEW e, Takes(a, b, e), SameSockets(a, b),
         NEW c, NEW s \in Sides, OneTask(a, c, s)
  PROVE  IF e \in Tasks(c, s) THEN NoTask(b, c, s) ELSE OneTask(b, c, s)
<1>1. /\ NonePending(a, Tasks(c, s)) => NonePending(b, Tasks(c, s)) /\ e \notin Tasks(c, s)
      /\ AtMostOne(Tasks(c, s), Completed(a)) => AtMostOne(Tasks(c, s), Completed(b))
      /\ AtMostOne(Tasks(c, s), Completed(a)) /\ e \in Tasks(c, s) => NonePending(b, Tasks(c, s))
      /\ e \notin Tasks(c, s) /\ IsPending(a, Tasks(c, s)) => IsPending(b, Tasks(c, s))
  BY DEF Takes, NonePending, IsPending
<1> QED
  BY <1>1 DEF OneTask, NoTask, SameSockets

LEMMA TakeEnds ==
  ASSUME NEW a, NEW b, NEW e, Takes(a, b, e), SameSockets(a, b), NEW c, NEW s \in Sides, NEW p
  PROVE  /\ EndsInv(a, p, c, s) => EndsInv(b, p, c, s)
         /\ \A buf : BytesInv(a, p, c, s, buf) => BytesInv(b, p, c, s, buf)
         /\ InOrder(a, c, Other(s)) => InOrder(b, c, Other(s))
BY DEF EndsInv, BytesInv, InOrder, Takes, SameSockets

LEMMA InBytesFrom ==
  ASSUME NEW s \in Sides, NEW bytes \in Seq(Nat), \A i \in 1 .. Len(bytes) : bytes[i] <= MaxSent[s]
  PROVE  bytes \in BytesFrom(s)
<1>1. MaxSent[s] \in Nat
  BY ConstantsAssumption DEF Sides
<1>2. PICK n \in Nat : n = Len(bytes) /\ DOMAIN bytes = 1 .. n /\ bytes \in [1 .. n -> Nat]
  BY LenProperties
<1>3. PICK M : M = 0 .. MaxSent[s]
  OBVIOUS
<1>4. bytes \in [1 .. n -> M]
  BY <1>1, <1>2, <1>3
<1>5. bytes \in Seq(M)
  BY <1>4, SeqDef
<1> QED
  BY <1>3, <1>5 DEF BytesFrom

LEMMA BytesAre ==
  ASSUME NEW s \in Sides, NEW bytes \in BytesFrom(s)
  PROVE  /\ bytes \in Seq(Nat) /\ Len(bytes) \in Nat /\ DOMAIN bytes = 1 .. Len(bytes)
         /\ \A i \in 1 .. Len(bytes) : bytes[i] \in Nat /\ bytes[i] <= MaxSent[s]
<1>1. MaxSent[s] \in Nat
  BY ConstantsAssumption DEF Sides
<1>2. PICK n \in Nat : n = Len(bytes) /\ DOMAIN bytes = 1 .. n /\ bytes \in [1 .. n -> 0 .. MaxSent[s]]
  BY LenProperties DEF BytesFrom
<1>3. bytes \in [1 .. n -> Nat]
  BY <1>1, <1>2
<1>4. bytes \in Seq(Nat)
  BY <1>3, SeqDef
<1> QED
  BY <1>1, <1>2, <1>4

ReadStep(a, b, c, s) ==
  /\ ReadKeeps(a, b)
  /\ ReadWaits(a, b, c, s) \/ \E e \in CompletionType : ReadCompletes(a, b, c, s, e)

LEMMA DirsApart ==
  ASSUME NEW c, NEW s \in Sides
  PROVE  /\ Reads(c, s) \subseteq Dir(c, s) /\ Writes(c, Other(s)) \subseteq Dir(c, s)
         /\ Reads(c, s) \cap Dir(c, Other(s)) = {}
         /\ Writes(c, Other(s)) \cap Dir(c, Other(s)) = {}
         /\ Reads(c, s) \cap Writes(c, Other(s)) = {}
         /\ Reads(c, s) \subseteq Tasks(c, s) /\ Tasks(c, s) \subseteq Dir(c, s)
BY OtherIs DEF Dir, Reads, Writes, Tasks

LEMMA ReadStepOtherDir ==
  ASSUME NEW a \in IoType, NEW b, NEW c \in Conns, NEW s \in Sides, ReadStep(a, b, c, s)
  PROVE  SameDir(a, b, c, Other(s))
<1> DEFINE t == Other(s)
<1>1. t \in Sides /\ t # s /\ Other(t) = s
  BY OtherIs
<1>2. ReadKeeps(a, b)
  BY DEF ReadStep
<1>3. CASE ReadWaits(a, b, c, s)
  <2>1. <<c, t>> # <<c, s>>
    BY <1>1
  <2> QED
    BY <1>2, <1>3, <2>1 DEF ReadWaits, ReadKeeps, SameDir, Pending
<1>4. ASSUME NEW e, ReadCompletes(a, b, c, s, e) PROVE SameDir(a, b, c, t)
  <2>1. e \in Reads(c, s) /\ Posts(a, b, e) /\ b.reading = a.reading
    BY <1>4 DEF ReadCompletes
  <2>2. e \notin Dir(c, t)
    BY <2>1, DirsApart
  <2>3. b.taken[c][t] = a.taken[c][t]
    BY <1>1, <1>4 DEF ReadCompletes, IoType
  <2> QED
    BY <1>2, <2>1, <2>2, <2>3 DEF Posts, ReadKeeps, SameDir
<1> QED
  BY <1>3, <1>4 DEF ReadStep

LEMMA ReadStepTask ==
  ASSUME NEW a \in IoType, NEW b, NEW c \in Conns, NEW s \in Sides, ReadStep(a, b, c, s), NoTask(a, c, s)
  PROVE  OneTask(b, c, s)
<1>1. ReadKeeps(a, b)
  BY DEF ReadStep
<1>2. CASE ReadWaits(a, b, c, s)
  BY <1>1, <1>2 DEF ReadWaits, ReadKeeps, NoTask, OneTask, NonePending, Pending
<1>3. ASSUME NEW e, ReadCompletes(a, b, c, s, e) PROVE OneTask(b, c, s)
  <2>1. e \in Tasks(c, s) /\ Posts(a, b, e) /\ b.reading = a.reading /\ b.writes = a.writes
    BY <1>1, <1>3 DEF ReadCompletes, ReadKeeps, Tasks
  <2>2. Pending(a) \cap Tasks(c, s) = {}
    BY DEF NoTask, NonePending
  <2>3. AtMostOne(Tasks(c, s), Completed(a))
    <3>1. \A i \in DOMAIN Completed(a) : Completed(a)[i] \notin Tasks(c, s)
      BY <2>2 DEF Pending, ToSet
    <3> QED
      BY <3>1 DEF AtMostOne
  <2>4. IsPending(b, Tasks(c, s)) /\ AtMostOne(Tasks(c, s), Completed(b))
    BY <2>1, <2>2, <2>3 DEF Posts, IsPending
  <2> QED
    BY <2>1, <2>4 DEF NoTask, OneTask
<1> QED
  BY <1>2, <1>3 DEF ReadStep

LEMMA ReadStepBytes ==
  ASSUME NEW a \in IoType, NEW b, NEW c \in Conns, NEW s \in Sides, ReadStep(a, b, c, s), peer \in PeerType,
         NEW buf, BytesInv(a, peer[c], c, s, buf)
  PROVE  BytesInv(b, peer[c], c, s, buf)
<1>1. ReadKeeps(a, b)
  BY DEF ReadStep
<1>2. CASE ReadWaits(a, b, c, s)
  BY <1>1, <1>2 DEF ReadWaits, ReadKeeps, BytesInv, Pending
<1>3. ASSUME NEW e, ReadCompletes(a, b, c, s, e) PROVE BytesInv(b, peer[c], c, s, buf)
  <2>1. /\ e \in Reads(c, s) /\ e.bytes \in Seq(Nat) /\ Posts(a, b, e)
        /\ b.taken = [a.taken EXCEPT ![c][s] = a.taken[c][s] + Len(e.bytes)]
    BY <1>3 DEF ReadCompletes, Reads, Of, CompletionType
  <2>2. PICK k \in Nat, m \in Nat, n \in Nat, l \in Nat :
           k = a.taken[c][s] /\ m = peer[c][s].sent /\ n = MaxSent[s] /\ l = Len(e.bytes)
    <3>1. a.taken[c][s] \in Nat /\ peer[c][s].sent \in Nat
      BY DEF IoType, PeerType
    <3>2. MaxSent[s] \in Nat /\ Len(e.bytes) \in Nat
      BY <2>1, ConstantsAssumption, LenProperties DEF Sides
    <3> QED
      BY <3>1, <3>2
  <2>3. b.taken[c][s] = k + l
    BY <2>1, <2>2 DEF IoType
  <2>4. k <= m /\ m <= n
    BY <2>2 DEF BytesInv
  <2>5. k + l <= m /\ \A i \in 1 .. l : e.bytes[i] <= n
    <3>1. CASE <<c, s>> \in a.open
      <4>1. k + l <= m /\ \A i \in 1 .. l : e.bytes[i] = k + i
        BY <1>3, <2>1, <2>2, <3>1, LenProperties DEF ReadCompletes, ReadFits
      <4> QED
        BY <2>4, <4>1
    <3>2. CASE <<c, s>> \notin a.open
      <4>1. l = 0
        BY <1>3, <2>2, <3>2, NoBytes DEF ReadCompletes
      <4> QED
        BY <2>4, <4>1
    <3> QED
      BY <3>1, <3>2
  <2>6. e.bytes \in BytesFrom(s)
    BY <2>1, <2>2, <2>5, InBytesFrom
  <2>7. \A f \in Pending(b) : f \in Dir(c, s) => f.bytes \in BytesFrom(s)
    BY <2>1, <2>6 DEF Posts, BytesInv
  <2> QED
    BY <1>1, <2>2, <2>3, <2>5, <2>7 DEF ReadKeeps, BytesInv
<1> QED
  BY <1>2, <1>3 DEF ReadStep

LEMMA ReadStepEnds ==
  ASSUME NEW a \in IoType, NEW b, NEW c \in Conns, NEW s \in Sides, ReadStep(a, b, c, s), peer \in PeerType,
         <<c, s>> \in a.open, NoTask(a, c, s), EndsInv(a, peer[c], c, s)
  PROVE  EndsInv(b, peer[c], c, s)
<1>1. ReadKeeps(a, b)
  BY DEF ReadStep
<1>2. CASE ReadWaits(a, b, c, s)
  BY <1>1, <1>2 DEF ReadWaits, ReadKeeps, EndsInv, Pending
<1>3. ASSUME NEW e, ReadCompletes(a, b, c, s, e) PROVE EndsInv(b, peer[c], c, s)
  <2>1. /\ e \in Reads(c, s) /\ e \notin Writes(c, Other(s)) /\ Posts(a, b, e)
        /\ e.bytes \in Seq(Nat) /\ ReadFits(a, c, s, e)
    BY <1>3, DirsApart DEF ReadCompletes, Reads, Of, CompletionType
  <2>2. e.err = "eof" => b.taken[c][s] = peer[c][s].sent
    <3>1. ASSUME e.err = "eof" PROVE b.taken[c][s] = a.taken[c][s]
      <4>1. Len(e.bytes) = 0
        BY <2>1, <3>1, NoBytes DEF ReadFits
      <4>2. b.taken[c][s] = a.taken[c][s] + Len(e.bytes) /\ a.taken[c][s] \in Nat
        BY <1>3 DEF ReadCompletes, IoType
      <4> QED
        BY <4>1, <4>2
    <3> QED
      BY <2>1, <3>1 DEF ReadFits
  <2>3. \A f \in Pending(b) : f \in Reads(c, s) => f = e
    BY <2>1, DirsApart DEF Posts, NoTask, NonePending
  <2>4. \A f \in Pending(b) : f \in Writes(c, Other(s)) => f \in Pending(a)
    BY <2>1 DEF Posts
  <2> QED
    BY <1>1, <2>1, <2>2, <2>3, <2>4 DEF ReadFits, ReadKeeps, EndsInv
<1> QED
  BY <1>2, <1>3 DEF ReadStep

LEMMA ReadStepFlow ==
  ASSUME NEW a \in IoType, NEW b, NEW c \in Conns, NEW s \in Sides, ReadStep(a, b, c, s), peer \in PeerType,
         <<c, s>> \in a.open, NoTask(a, c, s), NEW buf, FlowInv(a, c, s, buf)
  PROVE  FlowInv(b, c, s, buf)
<1> DEFINE t == Other(s)
<1>1. ReadKeeps(a, b)
  BY DEF ReadStep
<1>2. NonePending(a, Reads(c, s))
  BY DirsApart DEF NoTask, NonePending
<1>3. ASSUME NEW bytes, Continues(a, c, s, bytes) PROVE Continues(b, c, s, bytes)
  <2> DEFINE n == Len(a.delivered[c][t]) + Len(bytes)
  <2>1. a.taken[c][s] = n /\ n \in Nat
    BY <1>2, <1>3 DEF Continues, HandledTo, IoType
  <2>2. HandledTo(b, c, s, n)
    <3> HIDE DEF n
    <3>1. CASE ReadWaits(a, b, c, s)
      BY <1>2, <2>1, <3>1 DEF ReadWaits, HandledTo, NonePending, Pending
    <3>2. ASSUME NEW e, ReadCompletes(a, b, c, s, e) PROVE HandledTo(b, c, s, n)
      <4>1. e \in Reads(c, s) /\ Posts(a, b, e) /\ ReadFits(a, c, s, e)
        BY <3>2 DEF ReadCompletes
      <4>2. b.taken[c][s] = n + Len(e.bytes)
        BY <2>1, <3>2 DEF ReadCompletes, IoType
      <4>3. \A f \in Pending(b) : f \in Reads(c, s) => f = e
        BY <1>2, <4>1 DEF Posts, NonePending
      <4>4. ~NonePending(b, Reads(c, s))
        BY <4>1 DEF Posts, NonePending
      <4> QED
        BY <2>1, <4>1, <4>2, <4>3, <4>4 DEF HandledTo, ReadFits
    <3> QED
      BY <3>1, <3>2 DEF ReadStep
  <2> QED
    BY <1>1, <1>3, <2>2 DEF Continues, ReadKeeps
<1>4. /\ \A e \in Writes(c, t) : e \in Pending(a) <=> e \in Pending(b)
      /\ AtMostOne(Writes(c, t), Completed(a)) => AtMostOne(Writes(c, t), Completed(b))
  <2>1. CASE ReadWaits(a, b, c, s)
    BY <2>1 DEF ReadWaits, Pending
  <2>2. ASSUME NEW e, ReadCompletes(a, b, c, s, e) PROVE <1>4!1 /\ <1>4!2
    <3>1. Posts(a, b, e) /\ e \notin Writes(c, t)
      BY <2>2, DirsApart DEF ReadCompletes
    <3> QED
      BY <3>1 DEF Posts
  <2> QED
    BY <2>1, <2>2 DEF ReadStep
<1>5. NonePending(a, Writes(c, t)) <=> NonePending(b, Writes(c, t))
  BY <1>4 DEF NonePending
<1>6. b.writes = a.writes
  BY <1>1 DEF ReadKeeps
<1> QED
  BY <1>3, <1>4, <1>5, <1>6 DEF FlowInv, NotWriting
WriteStep(a, b, c, s, bytes, last) ==
  /\ WriteKeeps(a, b)
  /\ \/ WriteWaits(a, b, c, s, bytes, last)
     \/ \E e \in CompletionType : WriteCompletes(a, b, c, s, bytes, last, e)

LEMMA AppendLast ==
  ASSUME NEW q \in Seq(WriteType), NEW bytes \in Seq(Nat), NEW last \in BOOLEAN
  PROVE  LET w == [bytes |-> bytes, last |-> last]
             r == Append(q, w)
         IN /\ r # <<>> /\ Len(r) = Len(q) + 1
            /\ NoneLast(q) /\ ~last => NoneLast(r)
            /\ NoneLast(q) /\ last => OneLast(r)
            /\ OneLast(q) /\ ~last => OneLast(r)
            /\ \A i \in DOMAIN r : (i \in DOMAIN q /\ r[i] = q[i]) \/ (r[i].bytes = bytes /\ r[i].last = last)
<1> DEFINE w == [bytes |-> bytes, last |-> last]
           r == Append(q, w)
<1>1. w \in WriteType /\ w.bytes = bytes /\ w.last = last /\ (w.last <=> last)
  BY DEF WriteType
<1> HIDE DEF w
<1>2. PICK n \in Nat : n = Len(q) /\ DOMAIN q = 1 .. n
  BY LenProperties
<1>3. /\ r \in Seq(WriteType) /\ Len(r) = n + 1 /\ DOMAIN r = 1 .. n + 1
      /\ \A i \in 1 .. n : r[i] = q[i]
      /\ r[n + 1] = w
  BY <1>1, <1>2, AppendProperties, LenProperties
<1>4. r # <<>>
  <2>1. Len(r) # 0
    BY <1>3
  <2> HIDE DEF r
  <2> QED
    BY <2>1
<1> HIDE DEF r
<1>5. NoneLast(q) /\ ~last => NoneLast(r)
  BY <1>1, <1>2, <1>3 DEF NoneLast
<1>6. NoneLast(q) /\ last => OneLast(r)
  <2>1. ASSUME NoneLast(q), last PROVE OneLast(r)
    <3>1. n + 1 \in DOMAIN r
      BY <1>3
    <3>3. r[n + 1].last
      BY <1>1, <1>3, <2>1
    <3>2. \A j \in DOMAIN r : r[j].last => j = n + 1
      BY <1>2, <1>3, <2>1 DEF NoneLast
    <3> QED
      BY <3>1, <3>2, <3>3 DEF OneLast
  <2> QED
    BY <2>1
<1>7. OneLast(q) /\ ~last => OneLast(r)
  <2>1. ASSUME OneLast(q), ~last PROVE OneLast(r)
    <3>1. PICK i \in 1 .. n : q[i].last /\ \A j \in 1 .. n : q[j].last => j = i
      BY <1>2, <2>1 DEF OneLast
    <3>2. i \in DOMAIN r /\ r[i].last
      BY <1>3, <3>1
    <3>3. ~r[n + 1].last
      BY <1>1, <1>3, <2>1
    <3>4. \A j \in DOMAIN r : r[j].last => j = i
      BY <1>3, <3>1, <3>3
    <3> QED
      BY <3>2, <3>4 DEF OneLast
  <2> QED
    BY <2>1
<1>8. \A i \in DOMAIN r : (i \in DOMAIN q /\ r[i] = q[i]) \/ (r[i].bytes = bytes /\ r[i].last = last)
  BY <1>1, <1>2, <1>3
<1> QED
  BY <1>2, <1>3, <1>4, <1>5, <1>6, <1>7, <1>8 DEF r, w

LEMMA WaitsIs ==
  ASSUME NEW a \in IoType, NEW b, NEW c \in Conns, NEW s \in Sides,
         NEW bytes \in Seq(Nat), NEW last \in BOOLEAN, WriteWaits(a, b, c, s, bytes, last)
  PROVE  /\ b.writes[c][s] = Append(a.writes[c][s], [bytes |-> bytes, last |-> last])
         /\ b.delivered = a.delivered /\ Completed(b) = Completed(a)
BY OtherIs DEF WriteWaits, IoType

LEMMA WriteStepOtherDir ==
  ASSUME NEW a \in IoType, NEW b, NEW c \in Conns, NEW s \in Sides,
         NEW bytes \in Seq(Nat), NEW last \in BOOLEAN, WriteStep(a, b, c, Other(s), bytes, last)
  PROVE  SameDir(a, b, c, Other(s))
<1> DEFINE t == Other(s)
<1>1. t \in Sides /\ t # s /\ Other(t) = s
  BY OtherIs
<1>2. WriteKeeps(a, b)
  BY DEF WriteStep
<1>3. CASE WriteWaits(a, b, c, t, bytes, last)
  <2>1. b.writes[c][s] = a.writes[c][s] /\ b.delivered = a.delivered /\ Completed(b) = Completed(a)
    <3>1. /\ b.writes[c][Other(t)] = a.writes[c][Other(t)]
          /\ b.delivered = a.delivered /\ Completed(b) = Completed(a)
      BY <1>1, <1>3, OtherIs DEF WriteWaits, IoType
    <3> QED
      BY <1>1, <3>1
  <2> QED
    BY <1>1, <1>2, <2>1 DEF WriteKeeps, SameDir, Pending
<1>4. ASSUME NEW e, WriteCompletes(a, b, c, t, bytes, last, e) PROVE SameDir(a, b, c, t)
  <2>1. e \in Writes(c, t) /\ Posts(a, b, e) /\ b.writes = a.writes
    BY <1>4 DEF WriteCompletes
  <2>2. e \notin Dir(c, t)
    BY <2>1, DirsApart
  <2>3. b.delivered[c][s] = a.delivered[c][s]
    <3> HIDE DEF t
    <3>1. \/ b.delivered = a.delivered
          \/ \E d2 : b.delivered = [a.delivered EXCEPT ![c] = [@ EXCEPT ![t] = d2]]
      <4>1. e.err = "none" \/ e.err # "none"
        OBVIOUS
      <4> QED
        BY <1>4, <4>1 DEF WriteCompletes, WriteFits
    <3> QED
      BY <1>1, <3>1 DEF IoType
  <2> QED
    BY <1>1, <1>2, <2>1, <2>2, <2>3 DEF Posts, WriteKeeps, SameDir
<1> QED
  BY <1>3, <1>4 DEF WriteStep

LEMMA WriteStepTask ==
  ASSUME NEW a \in IoType, NEW b, NEW c \in Conns, NEW s \in Sides,
         NEW bytes \in Seq(Nat), NEW last \in BOOLEAN, WriteStep(a, b, c, Other(s), bytes, last)
  PROVE  /\ NoTask(a, c, s) /\ last => OneTask(b, c, s)
         /\ NoTask(a, c, s) /\ ~last => NoTask(b, c, s)
         /\ OneTask(a, c, s) /\ ~last => OneTask(b, c, s)
<1> DEFINE t == Other(s)
<1>1. t \in Sides /\ b.reading = a.reading
  BY OtherIs DEF WriteStep, WriteKeeps
<1>2. CASE WriteWaits(a, b, c, t, bytes, last)
  <2>1. /\ b.writes[c][t] = Append(a.writes[c][t], [bytes |-> bytes, last |-> last])
        /\ Completed(b) = Completed(a) /\ Pending(b) = Pending(a)
    BY <1>1, <1>2, WaitsIs DEF Pending
  <2>2. /\ NoneLast(a.writes[c][t]) /\ ~last => NoneLast(b.writes[c][t])
        /\ NoneLast(a.writes[c][t]) /\ last => OneLast(b.writes[c][t])
        /\ OneLast(a.writes[c][t]) /\ ~last => OneLast(b.writes[c][t])
    <3>1. a.writes[c][t] \in Seq(WriteType)
      BY <1>1 DEF IoType
    <3> QED
      BY <2>1, <3>1, AppendLast
  <2> QED
    BY <1>1, <2>1, <2>2 DEF NoTask, OneTask, NonePending, IsPending
<1>3. ASSUME NEW e, WriteCompletes(a, b, c, t, bytes, last, e)
      PROVE  /\ NoTask(a, c, s) /\ last => OneTask(b, c, s)
             /\ NoTask(a, c, s) /\ ~last => NoTask(b, c, s)
             /\ OneTask(a, c, s) /\ ~last => OneTask(b, c, s)
  <2>1. e \in Writes(c, t) /\ e.last = last /\ Posts(a, b, e) /\ b.writes = a.writes
    BY <1>3 DEF WriteCompletes
  <2>2. (last => e \in Tasks(c, s)) /\ (~last => e \notin Tasks(c, s))
    BY <2>1, DirsApart DEF Tasks
  <2>3. ~last => /\ NonePending(a, Tasks(c, s)) => NonePending(b, Tasks(c, s))
                 /\ IsPending(a, Tasks(c, s)) => IsPending(b, Tasks(c, s))
                 /\ AtMostOne(Tasks(c, s), Completed(a)) => AtMostOne(Tasks(c, s), Completed(b))
    BY <2>1, <2>2 DEF Posts, NonePending, IsPending
  <2>4. last /\ NonePending(a, Tasks(c, s)) =>
           IsPending(b, Tasks(c, s)) /\ AtMostOne(Tasks(c, s), Completed(b))
    <3> SUFFICES ASSUME last, NonePending(a, Tasks(c, s))
                 PROVE  IsPending(b, Tasks(c, s)) /\ AtMostOne(Tasks(c, s), Completed(b))
      OBVIOUS
    <3>1. Pending(a) \cap Tasks(c, s) = {}
      BY DEF NonePending
    <3>2. AtMostOne(Tasks(c, s), Completed(a))
      BY <3>1 DEF AtMostOne, Pending, ToSet
    <3> QED
      BY <2>1, <2>2, <3>1, <3>2 DEF Posts, IsPending
  <2> QED
    BY <1>1, <2>1, <2>3, <2>4 DEF NoTask, OneTask
<1> QED
  BY <1>2, <1>3 DEF WriteStep

LEMMA WriteStepEnds ==
  ASSUME NEW a \in IoType, NEW b, NEW c \in Conns, NEW s \in Sides,
         NEW bytes \in Seq(Nat), NEW last \in BOOLEAN, WriteStep(a, b, c, Other(s), bytes, last),
         <<c, Other(s)>> \in a.open, EndsInv(a, peer[c], c, s), last => peer[c][s].ended # "no"
  PROVE  EndsInv(b, peer[c], c, s)
<1> DEFINE t == Other(s)
<1>1. t \in Sides /\ b.taken = a.taken
  BY OtherIs DEF WriteStep, WriteKeeps
<1>2. CASE WriteWaits(a, b, c, t, bytes, last)
  <2>1. /\ b.writes[c][t] = Append(a.writes[c][t], [bytes |-> bytes, last |-> last])
        /\ Pending(b) = Pending(a)
    BY <1>1, <1>2, WaitsIs DEF Pending
  <2>2. \A i \in DOMAIN b.writes[c][t] : b.writes[c][t][i].last => peer[c][s].ended # "no"
    <3>1. a.writes[c][t] \in Seq(WriteType)
      BY <1>1 DEF IoType
    <3>2. \A i \in DOMAIN b.writes[c][t] :
            \/ i \in DOMAIN a.writes[c][t] /\ b.writes[c][t][i] = a.writes[c][t][i]
            \/ b.writes[c][t][i].last = last
      BY <2>1, <3>1, AppendLast
    <3> QED
      BY <3>2 DEF EndsInv
  <2> QED
    BY <1>1, <2>1, <2>2 DEF EndsInv
<1>3. ASSUME NEW e, WriteCompletes(a, b, c, t, bytes, last, e) PROVE EndsInv(b, peer[c], c, s)
  <2>1. /\ e \in Writes(c, t) /\ e.last = last /\ Posts(a, b, e) /\ b.writes = a.writes
        /\ WriteFits(a, b, c, t, bytes, e) /\ e \notin Reads(c, s)
    BY <1>3, DirsApart DEF WriteCompletes
  <2> QED
    BY <1>1, <2>1 DEF Posts, WriteFits, EndsInv
<1> QED
  BY <1>2, <1>3 DEF WriteStep

LEMMA GivesBytes ==
  ASSUME NEW s \in Sides, NEW bytes \in BytesFrom(s), NEW d \in BytesFrom(s), NEW d2, NEW rest \in Seq(Nat),
         Gives(bytes, d, d2, rest)
  PROVE  /\ d2 \in BytesFrom(s) /\ rest \in BytesFrom(s) /\ d2 \in Seq(Nat)
         /\ Len(d) \in Nat /\ Len(d2) \in Nat /\ Len(d) <= Len(d2)
<1>1. /\ \A i \in 1 .. Len(d) : d[i] <= MaxSent[s]
      /\ \A i \in 1 .. Len(bytes) : bytes[i] <= MaxSent[s]
  BY BytesAre
<1>2. PICK l \in Nat, m \in Nat : l = Len(bytes) /\ m = Len(d)
  BY BytesAre
<1>3. PICK n \in 0 .. l : /\ d2 \in Seq(Nat) /\ Len(d2) = m + n
                          /\ \A i \in 1 .. m : d2[i] = d[i]
                          /\ \A i \in 1 .. n : d2[m + i] = bytes[i]
                          /\ Len(rest) = l - n
                          /\ \A i \in 1 .. l - n : rest[i] = bytes[n + i]
  BY <1>2 DEF Gives
<1>4. \A i \in 1 .. m + n : d2[i] <= MaxSent[s]
  <2>1. ASSUME NEW i \in 1 .. m + n, i > m PROVE d2[i] = bytes[i - m] /\ i - m \in 1 .. l
    <3>1. i - m \in 1 .. n /\ m + (i - m) = i
      BY <2>1
    <3> QED
      BY <1>3, <3>1
  <2>2. \A i \in 1 .. m + n : i \in 1 .. m \/ i > m
    OBVIOUS
  <2> QED
    BY <1>1, <1>2, <1>3, <2>1, <2>2
<1>5. \A i \in 1 .. l - n : rest[i] <= MaxSent[s]
  <2>1. \A i \in 1 .. l - n : n + i \in 1 .. l
    OBVIOUS
  <2> QED
    BY <1>1, <1>2, <1>3, <2>1
<1> QED
  BY <1>2, <1>3, <1>4, <1>5, InBytesFrom

LEMMA GivesFlow ==
  ASSUME NEW bytes \in Seq(Nat), NEW d \in Seq(Nat), NEW d2, NEW rest \in Seq(Nat),
         Gives(bytes, d, d2, rest), \A i \in DOMAIN bytes : bytes[i] = Len(d) + i
  PROVE  /\ (\A i \in DOMAIN d : d[i] = i) => \A i \in DOMAIN d2 : d2[i] = i
         /\ \A i \in DOMAIN rest : rest[i] = Len(d2) + i
         /\ Len(d2) + Len(rest) = Len(d) + Len(bytes)
<1>1. PICK l \in Nat, m \in Nat : /\ l = Len(bytes) /\ m = Len(d)
                                  /\ DOMAIN bytes = 1 .. l /\ DOMAIN d = 1 .. m
  BY LenProperties
<1>2. PICK n \in 0 .. l : /\ d2 \in Seq(Nat) /\ Len(d2) = m + n
                          /\ \A i \in 1 .. m : d2[i] = d[i]
                          /\ \A i \in 1 .. n : d2[m + i] = bytes[i]
                          /\ Len(rest) = l - n
                          /\ \A i \in 1 .. l - n : rest[i] = bytes[n + i]
  BY <1>1 DEF Gives
<1>3. DOMAIN d2 = 1 .. m + n /\ DOMAIN rest = 1 .. l - n
  BY <1>2, LenProperties
<1>4. \A i \in 1 .. m + n : i \in 1 .. m \/ d2[i] = i
  <2>1. ASSUME NEW i \in 1 .. m + n, i > m PROVE d2[i] = i
    <3>1. i - m \in 1 .. n /\ m + (i - m) = i /\ i - m \in 1 .. l
      BY <2>1
    <3> QED
      BY <1>1, <1>2, <3>1
  <2>2. \A i \in 1 .. m + n : i \in 1 .. m \/ i > m
    OBVIOUS
  <2> QED
    BY <2>1, <2>2
<1>5. \A i \in 1 .. l - n : rest[i] = (m + n) + i
  <2>1. ASSUME NEW i \in 1 .. l - n PROVE rest[i] = (m + n) + i
    <3>1. n + i \in 1 .. l
      OBVIOUS
    <3>2. bytes[n + i] = m + (n + i)
      BY <1>1, <3>1
    <3> QED
      BY <1>2, <3>2
  <2> QED
    BY <2>1
<1> QED
  BY <1>1, <1>2, <1>3, <1>4, <1>5

LEMMA WriteStepBytes ==
  ASSUME NEW a \in IoType, NEW b, NEW c \in Conns, NEW s \in Sides,
         NEW bytes \in Seq(Nat), NEW last \in BOOLEAN, WriteStep(a, b, c, Other(s), bytes, last),
         bytes \in BytesFrom(s), peer \in PeerType, NEW buf, BytesInv(a, peer[c], c, s, buf)
  PROVE  BytesInv(b, peer[c], c, s, buf)
<1> DEFINE t == Other(s)
<1>1. t \in Sides /\ b.taken = a.taken
  BY OtherIs DEF WriteStep, WriteKeeps
<1>2. CASE WriteWaits(a, b, c, t, bytes, last)
  <2>1. /\ b.writes[c][t] = Append(a.writes[c][t], [bytes |-> bytes, last |-> last])
        /\ Pending(b) = Pending(a) /\ b.delivered = a.delivered
    BY <1>1, <1>2 DEF WriteWaits, IoType, Pending
  <2>2. \A i \in DOMAIN b.writes[c][t] : b.writes[c][t][i].bytes \in BytesFrom(s)
    <3>1. a.writes[c][t] \in Seq(WriteType) /\ bytes \in Seq(Nat)
      BY <1>1, BytesAre DEF IoType
    <3>2. \A i \in DOMAIN b.writes[c][t] :
            \/ i \in DOMAIN a.writes[c][t] /\ b.writes[c][t][i] = a.writes[c][t][i]
            \/ b.writes[c][t][i].bytes = bytes
      BY <2>1, <3>1, AppendLast
    <3> QED
      BY <3>2 DEF BytesInv
  <2> QED
    BY <1>1, <2>1, <2>2 DEF BytesInv
<1>3. ASSUME NEW e, WriteCompletes(a, b, c, t, bytes, last, e) PROVE BytesInv(b, peer[c], c, s, buf)
  <2>1. e \in Writes(c, t) /\ e.bytes \in Seq(Nat) /\ Posts(a, b, e) /\ b.writes = a.writes
    BY <1>3 DEF WriteCompletes, Writes, Of, CompletionType
  <2>2. e.bytes \in BytesFrom(s) /\ b.delivered[c][t] \in BytesFrom(s)
        /\ peer[c][t].received <= Len(b.delivered[c][t])
    <3>1. CASE e.bytes = <<>> /\ b.delivered = a.delivered
      <4>1. <<>> \in BytesFrom(s)
        BY DEF BytesFrom
      <4> QED
        BY <3>1, <4>1 DEF BytesInv
    <3>2. ASSUME NEW d2, Gives(bytes, a.delivered[c][t], d2, e.bytes),
                 b.delivered = [a.delivered EXCEPT ![c] = [@ EXCEPT ![t] = d2]]
          PROVE  <2>2
      <4>1. b.delivered[c][t] = d2
        BY <1>1, <3>2 DEF IoType
      <4>2. PICK r \in Nat : r = peer[c][t].received
        BY <1>1 DEF PeerType
      <4>3. a.delivered[c][t] \in BytesFrom(s) /\ r <= Len(a.delivered[c][t])
        BY <4>2 DEF BytesInv
      <4>4. /\ d2 \in BytesFrom(s) /\ e.bytes \in BytesFrom(s)
            /\ Len(a.delivered[c][t]) \in Nat /\ Len(d2) \in Nat /\ Len(a.delivered[c][t]) <= Len(d2)
        BY <2>1, <3>2, <4>3, GivesBytes
      <4> QED
        BY <4>1, <4>2, <4>3, <4>4
    <3>3. \/ e.bytes = <<>> /\ b.delivered = a.delivered
          \/ \E d2 : /\ Gives(bytes, a.delivered[c][t], d2, e.bytes)
                     /\ b.delivered = [a.delivered EXCEPT ![c] = [@ EXCEPT ![t] = d2]]
      BY <1>3 DEF WriteCompletes, WriteFits
    <3> QED
      BY <3>1, <3>2, <3>3
  <2> QED
    BY <1>1, <2>1, <2>2 DEF Posts, BytesInv
<1> QED
  BY <1>2, <1>3 DEF WriteStep

LEMMA WriteStepFlow ==
  ASSUME NEW a \in IoType, NEW b, NEW c \in Conns, NEW s \in Sides,
         NEW bytes \in Seq(Nat), NEW last \in BOOLEAN, WriteStep(a, b, c, Other(s), bytes, last),
         <<c, Other(s)>> \in a.open, ~last, NotWriting(a, c, Other(s)), Continues(a, c, s, bytes)
  PROVE  /\ \A buf : FlowInv(b, c, s, buf)
         /\ InOrder(a, c, Other(s)) => InOrder(b, c, Other(s))
<1> DEFINE t == Other(s)
           d == a.delivered[c][t]
<1>1. t \in Sides /\ b.taken = a.taken /\ d \in Seq(Nat)
  BY OtherIs DEF WriteStep, WriteKeeps, IoType
<1>2. a.writes[c][t] = <<>> /\ NonePending(a, Writes(c, t)) /\ AtMostOne(Writes(c, t), Completed(a))
  BY DEF NotWriting, NonePending, AtMostOne, Pending, ToSet
<1>3. CASE WriteWaits(a, b, c, t, bytes, last)
  <2> DEFINE q == b.writes[c][t]
  <2>1. /\ q = Append(<<>>, [bytes |-> bytes, last |-> last])
        /\ Completed(b) = Completed(a) /\ Pending(b) = Pending(a) /\ b.delivered = a.delivered
    BY <1>1, <1>2, <1>3 DEF WriteWaits, IoType, Pending
  <2>2. q # <<>> /\ Len(q) = 1 /\ \A i \in DOMAIN q : q[i].bytes = bytes /\ ~q[i].last
    <3>1. <<>> \in Seq(WriteType) /\ Len(<<>>) = 0 /\ DOMAIN <<>> = {}
      OBVIOUS
    <3> HIDE DEF q
    <3>2. q # <<>> /\ Len(q) = Len(<<>>) + 1
          /\ \A i \in DOMAIN q : i \in DOMAIN <<>> \/ (q[i].bytes = bytes /\ q[i].last = last)
      BY <2>1, <3>1, AppendLast
    <3> QED
      BY <3>1, <3>2
  <2>3. Continues(b, c, s, bytes)
    BY <1>1, <2>1 DEF Continues, HandledTo, NonePending
  <2>4. AtMostOne(Writes(c, t), Completed(b)) /\ NonePending(b, Writes(c, t))
    BY <1>2, <2>1 DEF NonePending
  <2>5. InOrder(a, c, t) => InOrder(b, c, t)
    BY <2>1 DEF InOrder
  <2> QED
    BY <2>2, <2>3, <2>4, <2>5 DEF FlowInv, NotWriting, NonePending
<1>4. ASSUME NEW e, WriteCompletes(a, b, c, t, bytes, last, e)
      PROVE  /\ \A buf : FlowInv(b, c, s, buf)
             /\ InOrder(a, c, t) => InOrder(b, c, t)
  <2>1. /\ e \in Writes(c, t) /\ ~e.last /\ Posts(a, b, e) /\ b.writes = a.writes
        /\ e.bytes \in Seq(Nat) /\ WriteFits(a, b, c, t, bytes, e) /\ e \notin Reads(c, s)
    BY <1>4, DirsApart DEF WriteCompletes, Writes, Of, CompletionType
  <2>2. /\ AtMostOne(Writes(c, t), Completed(b)) /\ ~NonePending(b, Writes(c, t))
        /\ \A f \in Pending(b) : f \in Writes(c, t) => f = e
    BY <1>2, <2>1 DEF Posts, NonePending
  <2>3. \A f \in Reads(c, s) : f \in Pending(a) <=> f \in Pending(b)
    BY <2>1 DEF Posts
  <2>4. /\ e.err = "none" => Continues(b, c, s, e.bytes)
        /\ InOrder(a, c, t) => InOrder(b, c, t)
    <3>1. CASE e.err # "none"
      <4>1. b.delivered = a.delivered
        BY <2>1, <3>1 DEF WriteFits
      <4> QED
        BY <3>1, <4>1 DEF InOrder
    <3>2. CASE e.err = "none"
      <4>1. PICK d2 : /\ Gives(bytes, d, d2, e.bytes)
                      /\ b.delivered = [a.delivered EXCEPT ![c] = [@ EXCEPT ![t] = d2]]
        BY <2>1, <3>2 DEF WriteFits
      <4>2. b.delivered[c][t] = d2
        BY <1>1, <4>1 DEF IoType
      <4>3. \A i \in DOMAIN bytes : bytes[i] = Len(d) + i
        BY DEF Continues
      <4>4. /\ (\A i \in DOMAIN d : d[i] = i) => \A i \in DOMAIN d2 : d2[i] = i
            /\ \A i \in DOMAIN e.bytes : e.bytes[i] = Len(d2) + i
            /\ Len(d2) + Len(e.bytes) = Len(d) + Len(bytes)
        <5>1. PICK x \in Seq(Nat), rest \in Seq(Nat) : x = d /\ rest = e.bytes
          BY <1>1, <2>1
        <5>2. Gives(bytes, x, d2, rest) /\ \A i \in DOMAIN bytes : bytes[i] = Len(x) + i
          BY <4>1, <4>3, <5>1
        <5>3. /\ (\A i \in DOMAIN x : x[i] = i) => \A i \in DOMAIN d2 : d2[i] = i
              /\ \A i \in DOMAIN rest : rest[i] = Len(d2) + i
              /\ Len(d2) + Len(rest) = Len(x) + Len(bytes)
          BY <5>2, GivesFlow
        <5> QED
          BY <5>1, <5>3
      <4>5. HandledTo(b, c, s, Len(d) + Len(bytes))
        <5>1. HandledTo(a, c, s, Len(d) + Len(bytes))
          BY DEF Continues
        <5> QED
          BY <1>1, <2>3, <5>1 DEF HandledTo, NonePending
      <4> QED
        BY <4>2, <4>4, <4>5 DEF InOrder, Continues
    <3> QED
      BY <3>1, <3>2
  <2> QED
    BY <1>2, <2>1, <2>2, <2>4 DEF FlowInv, NotWriting
<1> QED
  BY <1>3, <1>4 DEF WriteStep

-----------------------------------------------------------------------------
(* Freed memory: nothing when nothing is written, else only bytes.         *)

LEMMA FreedNothing ==
  ASSUME NEW a \in IoType, a.done = <<>>, NEW c \in Conns, NEW s \in Sides, NotWriting(a, c, s)
  PROVE  Freed(a, c, s) = a
<1> DEFINE q == [i \in DOMAIN a.queue |-> IF a.queue[i].c = c /\ a.queue[i].s = s /\ a.queue[i].handler = "more"
                                          THEN Lost(a.queue[i]) ELSE a.queue[i]]
           w == [i \in DOMAIN a.writes[c][s] |-> Lost(a.writes[c][s][i])]
<1>1. Freed(a, c, s) = [a EXCEPT !.writes = [a.writes EXCEPT ![c][s] = w], !.queue = q]
  BY DEF Freed
<1>2. PICK n \in Nat : /\ DOMAIN a.queue = 1 .. n /\ \A i \in 1 .. n : a.queue[i] \in CompletionType
                       /\ a.queue = [i \in 1 .. n |-> a.queue[i]]
  <2>1. a.queue \in Seq(CompletionType)
    BY DEF IoType
  <2> QED
    BY <2>1, LenProperties
<1>3. \A i \in 1 .. n : a.queue[i] \notin Writes(c, s)
  <2>1. Completed(a) = a.queue
    BY QueueType
  <2> QED
    BY <1>2, <2>1 DEF NotWriting, NonePending, Pending, ToSet
<1>4. \A i \in 1 .. n : ~(a.queue[i].c = c /\ a.queue[i].s = s /\ a.queue[i].handler = "more")
  BY <1>2, <1>3 DEF Writes, Of
<1>5. q = a.queue
  BY <1>2, <1>4
<1>6. w = a.writes[c][s]
  <2>1. a.writes[c][s] = <<>> /\ DOMAIN a.writes[c][s] = {}
    BY NoBytes DEF NotWriting
  <2>2. w = [i \in {} |-> 0] /\ <<>> = [i \in {} |-> 0]
    BY <2>1
  <2> QED
    BY <2>1, <2>2
<1> HIDE DEF q, w
<1>7. [a.writes EXCEPT ![c][s] = w] = a.writes
  BY <1>6 DEF IoType
<1>8. Freed(a, c, s) = [a EXCEPT !.writes = a.writes, !.queue = a.queue]
  BY <1>1, <1>5, <1>7
<1>9. [a EXCEPT !.writes = a.writes, !.queue = a.queue] = a
  BY DEF IoType
<1> QED
  BY <1>8, <1>9

LEMMA FreedDir ==
  ASSUME NEW a \in IoType, a.done = <<>>, NEW c \in Conns, NEW s \in Sides
  PROVE  LET b == Freed(a, c, Other(s))
         IN /\ SameDir(a, b, c, Other(s))
            /\ NoTask(a, c, s) => NoTask(b, c, s)
            /\ OneTask(a, c, s) => OneTask(b, c, s)
            /\ \A p : EndsInv(a, p, c, s) => EndsInv(b, p, c, s)
            /\ \A p, buf : BytesInv(a, p, c, s, buf) => BytesInv(b, p, c, s, buf)
            /\ InOrder(a, c, Other(s)) => InOrder(b, c, Other(s))
<1> DEFINE t == Other(s)
           b == Freed(a, c, t)
<1>1. t \in Sides /\ t # s /\ Other(t) = s
  BY OtherIs
<1>2. b \in IoType /\ FreedKeeps(a, b, c, t) /\ FreedPending(a, b, c, t)
  BY <1>1, FreedIs
<1>0. Pending(a) \subseteq CompletionType /\ Pending(b) \subseteq CompletionType
  BY <1>2, QueueType
<1> HIDE DEF b
<1>3. /\ b.reading = a.reading /\ b.taken = a.taken /\ b.delivered = a.delivered
      /\ b.writes[c][s] = a.writes[c][s]
      /\ DOMAIN b.writes[c][t] = DOMAIN a.writes[c][t]
      /\ \A i \in DOMAIN a.writes[c][t] :
           /\ b.writes[c][t][i].last <=> a.writes[c][t][i].last
           /\ \A j \in DOMAIN b.writes[c][t][i].bytes : b.writes[c][t][i].bytes[j] = 0
  BY <1>1, <1>2 DEF FreedKeeps
<1>4. Dir(c, t) \cap Writes(c, t) = {} /\ Reads(c, s) \cap Writes(c, t) = {}
  BY DirsApart
<1>5. \A e : e \notin Writes(c, t) => (e \in Pending(a) <=> e \in Pending(b))
  BY <1>2 DEF FreedPending
<1>6. SameDir(a, b, c, t)
  <2>1. \A e \in Dir(c, t) : e \in Pending(a) <=> e \in Pending(b)
    BY <1>4, <1>5
  <2>2. \A S \in SUBSET Dir(c, t) : S \cap Writes(c, t) = {}
    BY <1>4
  <2>3. \A S \in SUBSET Dir(c, t) : AtMostOne(S, Completed(a)) => AtMostOne(S, Completed(b))
    BY <1>2, <2>2 DEF FreedPending
  <2> QED
    BY <1>1, <1>3, <2>1, <2>3 DEF SameDir
<1>7. \A e, f \in CompletionType : Alike(e, f) =>
         /\ e \in Tasks(c, s) <=> f \in Tasks(c, s)
         /\ e \in Writes(c, t) <=> f \in Writes(c, t)
  BY DEF Alike, Tasks, Reads, Writes, Of
<1>8. /\ \A e \in Pending(a) : \E f \in Pending(b) : Alike(e, f)
      /\ \A f \in Pending(b) : \E e \in Pending(a) : Alike(e, f)
  BY <1>2 DEF FreedPending, Alike
<1>9. /\ NonePending(a, Tasks(c, s)) => NonePending(b, Tasks(c, s))
      /\ IsPending(a, Tasks(c, s)) => IsPending(b, Tasks(c, s))
  BY <1>0, <1>7, <1>8 DEF NonePending, IsPending
<1>10. AtMostOne(Tasks(c, s), Completed(a)) => AtMostOne(Tasks(c, s), Completed(b))
  <2>1. Tasks(c, s) \in SUBSET CompletionType
    BY DEF Tasks, Reads, Writes, Of
  <2> QED
    BY <1>2, <1>7, <2>1 DEF FreedPending
<1>11. /\ NoneLast(a.writes[c][t]) => NoneLast(b.writes[c][t])
       /\ OneLast(a.writes[c][t]) => OneLast(b.writes[c][t])
  BY <1>3 DEF NoneLast, OneLast
<1>12. (NoTask(a, c, s) => NoTask(b, c, s)) /\ (OneTask(a, c, s) => OneTask(b, c, s))
  BY <1>3, <1>9, <1>10, <1>11 DEF NoTask, OneTask
<1>13. ASSUME NEW p, EndsInv(a, p, c, s) PROVE EndsInv(b, p, c, s)
  <2>1. \A e \in Pending(b) : e \in Reads(c, s) => e \in Pending(a)
    BY <1>4, <1>5
  <2>2. ASSUME NEW f \in Pending(b), f \in Writes(c, t)
        PROVE  /\ f.err # "none" => p[t].ended = "reset" /\ f.handler = "send"
               /\ f.last => p[s].ended # "no"
               /\ f.handler = "send" => f.bytes = <<>>
    <3>1. CASE f \in Pending(a)
      BY <1>13, <2>2, <3>1 DEF EndsInv
    <3>2. ASSUME NEW e \in Pending(a), Alike(e, f), e \in Writes(c, t), f.handler = "more" PROVE <2>2!3
      BY <1>13, <2>2, <3>2 DEF EndsInv, Alike
    <3> QED
      BY <1>2, <3>1, <3>2 DEF FreedPending
  <2> QED
    BY <1>3, <1>13, <2>1, <2>2 DEF EndsInv
<1>14. ASSUME NEW p, NEW buf, BytesInv(a, p, c, s, buf) PROVE BytesInv(b, p, c, s, buf)
  <2>1. ASSUME NEW bytes \in Seq(Nat), \A i \in DOMAIN bytes : bytes[i] = 0 PROVE bytes \in BytesFrom(s)
    <3>1. MaxSent[s] \in Nat
      BY ConstantsAssumption DEF Sides
    <3>2. \A i \in 1 .. Len(bytes) : bytes[i] <= MaxSent[s]
      BY <2>1, <3>1, LenProperties
    <3> QED
      BY <3>2, InBytesFrom
  <2>2. \A i \in DOMAIN b.writes[c][t] : b.writes[c][t][i].bytes \in BytesFrom(s)
    <3>1. ASSUME NEW i \in DOMAIN b.writes[c][t] PROVE b.writes[c][t][i].bytes \in Seq(Nat)
      <4>1. b.writes[c][t] \in Seq(WriteType)
        BY <1>1, <1>2 DEF IoType
      <4>2. b.writes[c][t][i] \in WriteType
        BY <4>1, LenProperties
      <4> QED
        BY <4>2 DEF WriteType
    <3> QED
      BY <1>3, <2>1, <3>1
  <2>3. \A f \in Pending(b) : f \in Dir(c, s) => f.bytes \in BytesFrom(s)
    <3>1. ASSUME NEW f \in Pending(b), f \in Dir(c, s) PROVE f.bytes \in BytesFrom(s)
      <4>1. CASE f \in Pending(a)
        BY <1>14, <3>1, <4>1 DEF BytesInv
      <4>2. CASE \A i \in DOMAIN f.bytes : f.bytes[i] = 0
        <5>1. f.bytes \in Seq(Nat)
          BY <1>0, <3>1 DEF CompletionType
        <5> QED
          BY <2>1, <4>2, <5>1
      <4> QED
        BY <1>2, <4>1, <4>2 DEF FreedPending
    <3> QED
      BY <3>1
  <2> QED
    BY <1>3, <1>14, <2>2, <2>3 DEF BytesInv
<1>15. InOrder(a, c, t) => InOrder(b, c, t)
  BY <1>3 DEF InOrder
<1> QED
  BY <1>6, <1>12, <1>13, <1>14, <1>15 DEF b

-----------------------------------------------------------------------------
(* After its start a client is settled: it runs or is closed.              *)

Settled(a, c) ==
  /\ ~Starting(a, c)
  /\ <<c, "server">> \in a.open <=> <<c, "client">> \in a.open
  /\ \A s \in Sides : <<c, s>> \notin a.open => <<c, s>> \notin a.reading /\ a.writes[c][s] = <<>>

LEMMA SettledIs ==
  ASSUME NEW a, NEW c \in Conns
  PROVE  /\ Settled(a, c) => PhaseInv(a, c) /\ \A p, buf, has : StartInv(a, p, c, buf, has)
         /\ PhaseInv(a, c) /\ ~Starting(a, c) => Settled(a, c)
         /\ Settled(a, c) => \A s \in Sides : <<c, s>> \in a.open <=> Running(a, c)
         /\ Settled(a, c) => (Closed(a, c) <=> ~Running(a, c))
<1>1. ASSUME Settled(a, c) PROVE PhaseInv(a, c) /\ \A p, buf, has : StartInv(a, p, c, buf, has)
  <2>1. ~Accepting(a, c) /\ ~Connecting(a, c) /\ c \notin a.fresh /\ c \notin a.connecting
    BY <1>1 DEF Settled, Starting
  <2>2. \A e \in Pending(a) : e \notin Starts(c, "accept") /\ e \notin Starts(c, "connect")
    BY <2>1 DEF Accepting, Connecting, IsPending
  <2> QED
    BY <1>1, <2>1, <2>2 DEF Settled, PhaseInv, StartInv
<1>2. PhaseInv(a, c) /\ ~Starting(a, c) => Settled(a, c)
  BY DEF Settled, PhaseInv, Starting
<1>3. Settled(a, c) => \A s \in Sides : <<c, s>> \in a.open <=> Running(a, c)
  BY DEF Settled, Running, Sides
<1>4. Settled(a, c) => (Closed(a, c) <=> ~Running(a, c))
  BY DEF Settled, Closed, Running
<1> QED
  BY <1>1, <1>2, <1>3, <1>4

(* A step that starts nothing and keeps the sockets open. *)
LEMMA SettledKept ==
  ASSUME NEW a, NEW b, NEW c \in Conns, Settled(a, c),
         b.fresh = a.fresh, b.connecting = a.connecting, b.open = a.open,
         \A e \in Pending(b) : e \in Pending(a) \/ e.handler \notin {"accept", "connect"},
         \A s \in Sides : <<c, s>> \notin a.open => <<c, s>> \notin b.reading /\ b.writes[c][s] = <<>>
  PROVE  Settled(b, c) /\ (Running(b, c) <=> Running(a, c))
<1>1. ~Starting(b, c)
  BY DEF Settled, Starting, Accepting, Connecting, IsPending, Starts
<1> QED
  BY <1>1 DEF Settled, Running

LEMMA QueuedIs ==
  ASSUME io \in IoType, NEW c \in Conns, NEW s \in Sides, NEW H
  PROVE  Queued(c, s, H) # {} <=> \E e \in Pending(io) : e.c = c /\ e.s = s /\ e.handler \in H
BY DEF Queued, Pending, ToSet

LEMMA WritingIs ==
  ASSUME io \in IoType, NEW c \in Conns, NEW s \in Sides
  PROVE  ~IsWriting(c, s) <=> NotWriting(io, c, s)
<1>1. Pending(io) \subseteq CompletionType
  BY QueueType
<1>2. Queued(c, s, {"send", "more"}) # {} <=> ~NonePending(io, Writes(c, s))
  BY <1>1, QueuedIs DEF NonePending, Writes, Of
<1> QED
  BY <1>2 DEF IsWriting, NotWriting

(* The state of a client in which its handler h is called for side s.      *)
Handling(c, s, h) ==
  /\ TypesInv /\ Performing(io) /\ ClientInv(c) /\ c \in Conns /\ s \in Sides
  /\ Calls(h, c, s)

LEMMA CalledIs ==
  ASSUME NEW c, NEW s, NEW h, h # "ready", Handling(c, s, h)
  PROVE  /\ c \in Conns /\ s \in Sides /\ io.done = <<>> /\ io \in IoType /\ peer \in PeerType
         /\ Popped \in IoType /\ Popped.done = <<>>
         /\ Called \in CompletionType /\ Called.handler = h /\ Called.c = c /\ Called.s = s
         /\ Called \in Pending(io) /\ Takes(io, Popped, Called)
         /\ SameSockets(io, Popped) /\ Popped.fresh = io.fresh
         /\ Popped.connecting = io.connecting /\ Popped.accepting = io.accepting
         /\ Others(c, io, Popped)
<1>1. io \in IoType /\ peer \in PeerType /\ c \in Conns /\ s \in Sides
  BY DEF Handling, TypesInv
<1>2. io.queue # <<>> /\ io.queue[1].handler = h /\ io.queue[1].c = c /\ io.queue[1].s = s
  BY DEF Handling, Calls
<1>3. io.done = <<>>
  BY <1>2 DEF Handling, Performing
<1>4. /\ Popped \in IoType /\ Popped.done = <<>> /\ Called \in CompletionType
      /\ Called \in Pending(io) /\ Takes(io, Popped, Called)
      /\ OthersPending(Called.c, io, Popped)
      /\ Popped = [io EXCEPT !.queue = Tail(io.queue)]
  BY <1>1, <1>2, <1>3, PoppedIs
<1>5. Called.handler = h /\ Called.c = c /\ Called.s = s
  BY <1>2 DEF Called
<1>6. /\ SameSockets(io, Popped) /\ Popped.fresh = io.fresh
      /\ Popped.connecting = io.connecting /\ Popped.accepting = io.accepting
  BY <1>1, <1>4 DEF SameSockets, IoType
<1>7. OthersSockets(c, io, Popped)
  BY <1>6 DEF SameSockets, OthersSockets
<1> QED
  BY <1>1, <1>3, <1>4, <1>5, <1>6, <1>7 DEF Others

(* The handlers of reads and writes are called for settled clients.        *)
LEMMA HandlingIs ==
  ASSUME NEW c, NEW s, NEW h \in {"recv", "send", "more", "ready"}, Handling(c, s, h)
  PROVE  /\ Settled(io, c) /\ Called \in Of(c) /\ Called \in Pending(io)
         /\ Called.handler = h /\ Called.s = s
<1>1. io \in IoType /\ io.queue # <<>>
  BY DEF Handling, TypesInv, Calls
<1>2. Called \in Pending(io) /\ Called \in CompletionType
  <2>1. io.queue \in Seq(CompletionType) /\ io.done \in Seq(CompletionType)
    BY <1>1 DEF IoType
  <2>2. ToSet(io.queue) \subseteq Pending(io)
    BY <2>1, ConcatKeeps DEF Pending, Completed
  <2>3. Called \in ToSet(io.queue)
    BY <1>1, <2>1, TailKeeps DEF Called
  <2> QED
    BY <1>1, <2>2, <2>3, QueueType
<1>3. Called.handler = h /\ Called.c = c /\ Called.s = s
  BY DEF Handling, Calls, Called
<1>4. Called \in Of(c)
  BY <1>2, <1>3 DEF Of
<1>5. PhaseInv(io, c) /\ c \in Conns
  BY DEF Handling, ClientInv, ConnInv
<1>6. ~Starting(io, c)
  <2>1. c \notin io.fresh /\ c \notin io.connecting
    BY <1>2, <1>4, <1>5 DEF PhaseInv, NonePending
  <2>2. ASSUME NEW e \in Pending(io), e \in Of(c), e.handler \in {"accept", "connect"} PROVE FALSE
    <3>1. AtMostOne(Of(c), Completed(io))
      BY <1>5, <2>2 DEF PhaseInv, Accepting, Connecting, IsPending, Starts
    <3>2. e = Called
      BY <1>2, <1>4, <2>2, <3>1 DEF AtMostOne, Pending, ToSet
    <3> QED
      BY <1>3, <2>2, <3>2
  <2> QED
    BY <2>1, <2>2 DEF Starting, Accepting, Connecting, IsPending, Starts
<1> QED
  BY <1>2, <1>3, <1>4, <1>5, <1>6, SettledIs

LEMMA SettledTake ==
  ASSUME NEW a, NEW b, NEW e, NEW c \in Conns, Settled(a, c), Takes(a, b, e), SameSockets(a, b),
         b.fresh = a.fresh, b.connecting = a.connecting
  PROVE  Settled(b, c) /\ (Running(b, c) <=> Running(a, c))
<1>1. /\ b.open = a.open
      /\ \A f \in Pending(b) : f \in Pending(a)
      /\ \A s \in Sides : <<c, s>> \notin a.open => <<c, s>> \notin b.reading /\ b.writes[c][s] = <<>>
  BY DEF Takes, SameSockets, Settled
<1> QED
  BY <1>1, SettledKept

LEMMA SettledRead ==
  ASSUME NEW a, NEW b, NEW c \in Conns, NEW s \in Sides, Settled(a, c), ReadStep(a, b, c, s)
  PROVE  Settled(b, c) /\ (Running(b, c) <=> Running(a, c))
<1>1. b.fresh = a.fresh /\ b.connecting = a.connecting /\ b.open = a.open /\ b.writes = a.writes
  BY DEF ReadStep, ReadKeeps
<1>2. \A f \in Pending(b) : f \in Pending(a) \/ f.handler \notin {"accept", "connect"}
  BY DEF ReadStep, ReadWaits, ReadCompletes, Posts, Reads, Pending
<1>3. b.reading = a.reading \/ (b.reading = a.reading \cup {<<c, s>>} /\ <<c, s>> \in a.open)
  BY DEF ReadStep, ReadWaits, ReadCompletes
<1>4. \A t \in Sides : <<c, t>> \notin a.open => <<c, t>> \notin b.reading /\ b.writes[c][t] = <<>>
  BY <1>1, <1>3 DEF Settled
<1> QED
  BY <1>1, <1>2, <1>4, SettledKept

LEMMA SettledWrite ==
  ASSUME NEW a \in IoType, NEW b, NEW c \in Conns, NEW s \in Sides, NEW bytes \in Seq(Nat),
         NEW last \in BOOLEAN, Settled(a, c), WriteStep(a, b, c, s, bytes, last)
  PROVE  Settled(b, c) /\ (Running(b, c) <=> Running(a, c))
<1>1. b.fresh = a.fresh /\ b.connecting = a.connecting /\ b.open = a.open /\ b.reading = a.reading
  BY DEF WriteStep, WriteKeeps
<1>2. \A f \in Pending(b) : f \in Pending(a) \/ f.handler \notin {"accept", "connect"}
  BY DEF WriteStep, WriteWaits, WriteCompletes, Posts, Writes, Pending
<1>3. \A t \in Sides : <<c, t>> \notin a.open => b.writes[c][t] = a.writes[c][t]
  <2>1. CASE WriteWaits(a, b, c, s, bytes, last)
    <3>1. \A t \in Sides : t # s => b.writes[c][t] = a.writes[c][t]
      BY <2>1 DEF WriteWaits, IoType
    <3> QED
      BY <2>1, <3>1 DEF WriteWaits
  <2>2. CASE b.writes = a.writes
    BY <2>2
  <2> QED
    BY <2>1, <2>2 DEF WriteStep, WriteCompletes
<1>4. \A t \in Sides : <<c, t>> \notin a.open => <<c, t>> \notin b.reading /\ b.writes[c][t] = <<>>
  BY <1>1, <1>3 DEF Settled
<1> QED
  BY <1>1, <1>2, <1>4, SettledKept

LEMMA SettledFreed ==
  ASSUME NEW a \in IoType, a.done = <<>>, NEW c \in Conns, NEW s \in Sides, Settled(a, c)
  PROVE  LET b == Freed(a, c, s) IN Settled(b, c) /\ (Running(b, c) <=> Running(a, c))
<1> DEFINE b == Freed(a, c, s)
<1>1. b \in IoType /\ FreedKeeps(a, b, c, s) /\ FreedPending(a, b, c, s)
  BY FreedIs
<1> HIDE DEF b
<1>2. b.fresh = a.fresh /\ b.connecting = a.connecting /\ b.open = a.open /\ b.reading = a.reading
  BY <1>1 DEF FreedKeeps
<1>3. \A f \in Pending(b) : f \in Pending(a) \/ f.handler \notin {"accept", "connect"}
  BY <1>1 DEF FreedPending, Writes
<1>4. ASSUME NEW t \in Sides, a.writes[c][t] = <<>> PROVE b.writes[c][t] = <<>>
  <2>1. CASE t = s
    <3>1. DOMAIN b.writes[c][s] = {}
      BY <1>1, <1>4, <2>1, NoBytes DEF FreedKeeps
    <3>2. b.writes[c][s] \in Seq(WriteType)
      BY <1>1 DEF IoType
    <3>3. Len(b.writes[c][s]) = 0
      <4>1. PICK n \in Nat : n = Len(b.writes[c][s]) /\ DOMAIN b.writes[c][s] = 1 .. n
        BY <3>2, LenProperties
      <4>2. n = 0 \/ 1 \in 1 .. n
        OBVIOUS
      <4> QED
        BY <3>1, <4>1, <4>2
    <3> QED
      BY <2>1, <3>2, <3>3, EmptySeq
  <2>2. CASE t # s
    BY <1>1, <1>4, <2>2 DEF FreedKeeps
  <2> QED
    BY <2>1, <2>2
<1>5. \A t \in Sides : <<c, t>> \notin a.open => <<c, t>> \notin b.reading /\ b.writes[c][t] = <<>>
  BY <1>2, <1>4 DEF Settled
<1>6. Settled(b, c) /\ (Running(b, c) <=> Running(a, c))
  BY <1>2, <1>3, <1>5, SettledKept
<1> QED
  BY <1>6 DEF b

LEMMA EntryIs ==
  ASSUME TypesInv, NEW c
  PROVE  Entry(c) \in Buffers
<1>1. ClientBuffer \in Buffers
  BY NoBytes DEF ClientBuffer, Buffers
<1> QED
  BY <1>1 DEF TypesInv, Entry

LEMMA InsertIs ==
  ASSUME TypesInv, NEW c \in Conns, NEW b \in Buffers, clients_' = Insert(c, b)
  PROVE  /\ DOMAIN clients_' \subseteq Conns /\ \A k \in DOMAIN clients_' : clients_'[k] \in Buffers
         /\ c \in DOMAIN clients_' /\ Entry(c)' = b
         /\ \A k \in Conns \ {c} : /\ Entry(k)' = Entry(k)
                                   /\ k \in DOMAIN clients_' <=> k \in DOMAIN clients_
<1>1. /\ DOMAIN clients_' = DOMAIN clients_ \cup {c}
      /\ clients_'[c] = b
      /\ \A k \in DOMAIN clients_ \ {c} : clients_'[k] = clients_[k]
  BY DEF Insert
<1> QED
  BY <1>1 DEF TypesInv, Entry

LEMMA EraseIs ==
  ASSUME TypesInv, NEW c \in Conns, clients_' = Erase(c)
  PROVE  /\ DOMAIN clients_' \subseteq Conns /\ \A k \in DOMAIN clients_' : clients_'[k] \in Buffers
         /\ c \notin DOMAIN clients_' /\ Entry(c)' = ClientBuffer
         /\ \A k \in Conns \ {c} : /\ Entry(k)' = Entry(k)
                                   /\ k \in DOMAIN clients_' <=> k \in DOMAIN clients_
<1>1. /\ DOMAIN clients_' = DOMAIN clients_ \ {c}
      /\ \A k \in DOMAIN clients_ \ {c} : clients_'[k] = clients_[k]
  BY DEF Erase
<1> QED
  BY <1>1 DEF TypesInv, Entry

(* A step of c keeps the invariant when it does for c.                     *)
LEMMA StepIs ==
  ASSUME IInv, NEW c \in Conns, TypesInv', Performing(io'), Others(c, io, io'),
         \A k \in Conns \ {c} : /\ peer'[k] = peer[k] /\ Overlaps(k)' = Overlaps(k)
                                /\ Entry(k)' = Entry(k)
                                /\ k \in DOMAIN clients_' <=> k \in DOMAIN clients_,
         ConnInv(io', peer'[c], c, Overlaps(c)', Entry(c)', c \in DOMAIN clients_')
  PROVE  IInv'
<1>1. ASSUME NEW k \in Conns \ {c} PROVE ClientInv(k)'
  <2>1. ConnInv(io, peer[k], k, Overlaps(k), Entry(k), k \in DOMAIN clients_)
    BY DEF IInv, ClientInv
  <2>2. ConnInv(io', peer[k], k, Overlaps(k), Entry(k), k \in DOMAIN clients_)
    BY <2>1, OthersKeep
  <2>3. peer'[k] = peer[k] /\ Overlaps(k)' = Overlaps(k) /\ Entry(k)' = Entry(k)
        /\ (k \in DOMAIN clients_') = (k \in DOMAIN clients_)
    OBVIOUS
  <2> QED
    BY <2>2, <2>3 DEF ClientInv
<1>2. ClientInv(c)'
  BY DEF ClientInv
<1>3. \A k \in Conns : ClientInv(k)'
  BY <1>1, <1>2
<1> QED
  BY <1>3 DEF IInv

-----------------------------------------------------------------------------
(* recvMessageHandler_ when it relays.                                     *)

LEMMA FlushIs ==
  ASSUME NEW c, NEW s, Handling(c, s, "recv")
  PROVE  flushTempBuf(Entry(c)[s], Called) \in BytesFrom(s)
<1>1. Called \in Pending(io) /\ Called \in Dir(c, s)
  <2>1. Called \in Reads(c, s) /\ Called \in Pending(io)
    BY CalledIs, HandlingIs DEF Reads
  <2> QED
    BY <2>1, CalledIs, DirsApart
<1>2. BytesInv(io, peer[c], c, s, Entry(c)[s])
  BY CalledIs DEF Handling, ClientInv, ConnInv, DirInv
<1>3. Entry(c)[s] \in BytesFrom(s) /\ Called.bytes \in BytesFrom(s)
  BY <1>1, <1>2 DEF BytesInv
<1> QED
  BY <1>3, ConcatKeeps DEF flushTempBuf, BytesFrom

(* The called read is taken: its direction has no task, and the bytes read *)
(* follow those delivered when nothing is being written.                   *)
LEMMA RecvTaken ==
  ASSUME NEW c, NEW s, Handling(c, s, "recv"), Running(io, c)
  PROVE  /\ NoTask(Popped, c, s) /\ EndsInv(Popped, peer[c], c, s)
         /\ s \notin Overlaps(c) /\ NotWriting(io, c, Other(s)) =>
              /\ Entry(c)[s] = <<>> /\ NotWriting(Popped, c, Other(s))
              /\ Continues(Popped, c, s, Called.bytes)
<1>1. /\ c \in Conns /\ s \in Sides /\ Takes(io, Popped, Called) /\ SameSockets(io, Popped)
      /\ Called \in Reads(c, s) /\ Called \in Pending(io)
  BY CalledIs, HandlingIs DEF Reads
<1>2. DirInv(io, peer[c], c, s, Overlaps(c), Entry(c))
  BY <1>1 DEF Handling, ClientInv, ConnInv
<1>3. OneTask(io, c, s) /\ EndsInv(io, peer[c], c, s)
  BY <1>2 DEF DirInv
<1>4. NoTask(Popped, c, s)
  <2>1. Called \in Tasks(c, s)
    BY <1>1, DirsApart
  <2> QED
    BY <1>1, <1>3, <2>1, TakeTask
<1>5. EndsInv(Popped, peer[c], c, s)
  BY <1>1, <1>3, TakeEnds
<1>6. ASSUME s \notin Overlaps(c), NotWriting(io, c, Other(s))
      PROVE  /\ Entry(c)[s] = <<>> /\ NotWriting(Popped, c, Other(s))
             /\ Continues(Popped, c, s, Called.bytes)
  <2>1. Entry(c)[s] = <<>> /\ Continues(io, c, s, <<>>)
    BY <1>2, <1>6 DEF DirInv, FlowInv
  <2>2. NotWriting(Popped, c, Other(s))
    BY <1>1, <1>6 DEF NotWriting, NonePending, Takes, SameSockets
  <2> DEFINE d == Len(io.delivered[c][Other(s)])
  <2>3. d \in Nat /\ d + Len(<<>>) = d
    BY <1>1, CalledIs, OtherIs, LenProperties DEF IoType
  <2>4. io.taken[c][s] = d + Len(Called.bytes) /\ \A i \in DOMAIN Called.bytes : Called.bytes[i] = d + i
    BY <1>1, <2>1, <2>3 DEF Continues, HandledTo
  <2>5. NonePending(Popped, Reads(c, s))
    BY <1>1, <1>4, DirsApart DEF NoTask, NonePending
  <2>6. Popped.taken = io.taken /\ Popped.delivered = io.delivered
    BY <1>1 DEF SameSockets
  <2>7. HandledTo(Popped, c, s, d + Len(Called.bytes))
    BY <2>4, <2>5, <2>6 DEF HandledTo, NonePending
  <2> QED
    BY <2>1, <2>2, <2>4, <2>6, <2>7 DEF Continues
<1> QED
  BY <1>4, <1>5, <1>6

LEMMA SameDirTransitive ==
  ASSUME NEW a, NEW b, NEW d, NEW c, NEW s, SameDir(a, b, c, s), SameDir(b, d, c, s)
  PROVE  SameDir(a, d, c, s)
BY DEF SameDir

(* The direction that a step of the other leaves alone.                    *)
LEMMA OtherDirKept ==
  ASSUME NEW a, NEW b, NEW c, NEW s \in Sides, NEW p, NEW ov, NEW buf, NEW ov2, NEW buf2,
         SameDir(a, b, c, s), Running(b, c) => Running(a, c), DirInv(a, p, c, s, ov, buf),
         buf2[s] = buf[s], s \notin ov2 => s \notin ov
  PROVE  DirInv(b, p, c, s, ov2, buf2)
BY SameDirKeeps DEF DirInv

(* In a that was popped, and freed if there was a write, bytes are written *)
(* for s and the next read is started.                                     *)
LEMMA RelayDir ==
  ASSUME NEW c \in Conns, NEW s \in Sides, NEW a \in IoType, a.done = <<>>, peer \in PeerType,
         Running(a, c), Settled(a, c), NoTask(a, c, s), EndsInv(a, peer[c], c, s),
         NEW bytes \in Seq(Nat), bytes \in BytesFrom(s), NEW buf, BytesInv(a, peer[c], c, s, buf),
         NEW last \in BOOLEAN, last => peer[c][s].ended # "no",
         NEW flows \in BOOLEAN,
         flows => /\ ~last /\ InOrder(a, c, Other(s)) /\ NotWriting(a, c, Other(s))
                  /\ Continues(a, c, s, bytes),
         NEW w \in IoType, w.done = <<>>, WriteStep(a, w, c, Other(s), bytes, last),
         NEW r, IF last THEN r = w ELSE ReadStep(w, r, c, s)
  PROVE  /\ OneTask(r, c, s) /\ EndsInv(r, peer[c], c, s)
         /\ BytesInv(r, peer[c], c, s, bytes)
         /\ flows => FlowInv(r, c, s, bytes) /\ InOrder(r, c, Other(s))
<1>1. /\ <<c, Other(s)>> \in a.open /\ <<c, s>> \in a.open /\ w.open = a.open
      /\ bytes \in Seq(Nat)
  BY SettledIs, OtherIs, BytesAre DEF WriteStep, WriteKeeps
<1>2. /\ last => OneTask(w, c, s)
      /\ ~last => NoTask(w, c, s)
  BY <1>1, WriteStepTask
<1>3. EndsInv(w, peer[c], c, s)
  BY <1>1, WriteStepEnds
<1>4. BytesInv(a, peer[c], c, s, bytes)
  BY DEF BytesInv
<1>5. BytesInv(w, peer[c], c, s, bytes)
  BY <1>1, <1>4, WriteStepBytes
<1>6. flows => FlowInv(w, c, s, bytes) /\ InOrder(w, c, Other(s))
  BY <1>1, WriteStepFlow
<1>7. CASE last
  BY <1>2, <1>3, <1>5, <1>6, <1>7
<1>8. CASE ~last
  <2>1. ReadStep(w, r, c, s) /\ r.delivered = w.delivered
    BY <1>8 DEF ReadStep, ReadKeeps
  <2>2. OneTask(r, c, s)
    BY <1>2, <1>8, <2>1, ReadStepTask
  <2>3. EndsInv(r, peer[c], c, s)
    BY <1>1, <1>2, <1>3, <1>8, <2>1, ReadStepEnds
  <2>4. BytesInv(r, peer[c], c, s, bytes)
    BY <1>5, <2>1, ReadStepBytes
  <2>5. flows => FlowInv(r, c, s, bytes)
    BY <1>1, <1>2, <1>6, <1>8, <2>1, ReadStepFlow
  <2>6. InOrder(w, c, Other(s)) => InOrder(r, c, Other(s))
    BY <2>1 DEF InOrder
  <2> QED
    BY <1>6, <2>2, <2>3, <2>4, <2>5, <2>6
<1> QED
  BY <1>7, <1>8

(* What the relay hands over to io_service: a, the record it starts from,  *)
(* w after the write and r after the read.                                 *)
Relays(c, s, a, w, r, buf, last) ==
  /\ Handling(c, s, "recv")
  /\ buf = flushTempBuf(Entry(c)[s], Called)
  /\ Called.err # "error" /\ ~(Called.err = "eof" /\ buf = <<>>)
  /\ (last <=> Called.err = "eof")
  /\ a = Popped \/ (a = Freed(Popped, c, Other(s)))
  /\ w = StartWrite(a, c, Other(s), buf, last)
  /\ r = IF last THEN w ELSE StartRead(w, c, s)

LEMMA RelaySteps ==
  ASSUME NEW c, NEW s, NEW a, NEW w, NEW r, NEW buf, NEW last \in BOOLEAN, Relays(c, s, a, w, r, buf, last)
  PROVE  /\ buf \in BytesFrom(s) /\ buf \in Seq(Nat)
         /\ a \in IoType /\ a.done = <<>> /\ Settled(a, c) /\ (Running(a, c) <=> Running(io, c))
         /\ BytesInv(a, peer[c], c, s, Entry(c)[s])
         /\ w \in IoType /\ w.done = <<>> /\ WriteStep(a, w, c, Other(s), buf, last)
         /\ r \in IoType /\ r.done = <<>> /\ (IF last THEN r = w ELSE ReadStep(w, r, c, s))
         /\ Others(c, io, r) /\ SameDir(io, r, c, Other(s))
         /\ Settled(r, c) /\ (Running(r, c) <=> Running(io, c))
<1> DEFINE t == Other(s)
<1>1. /\ Handling(c, s, "recv") /\ c \in Conns /\ s \in Sides /\ t \in Sides /\ peer \in PeerType
      /\ io \in IoType /\ Popped \in IoType /\ Popped.done = <<>>
      /\ Takes(io, Popped, Called) /\ SameSockets(io, Popped) /\ Others(c, io, Popped)
      /\ Popped.fresh = io.fresh /\ Popped.connecting = io.connecting
      /\ Called \in Reads(c, s) /\ Settled(io, c)
  BY CalledIs, HandlingIs, OtherIs DEF Relays, Reads
<1>2. buf \in BytesFrom(s) /\ buf \in Seq(Nat)
  BY <1>1, FlushIs, BytesAre DEF Relays
<1>3. BytesInv(io, peer[c], c, s, Entry(c)[s])
  BY <1>1 DEF Handling, ClientInv, ConnInv, DirInv
<1>4. /\ BytesInv(Popped, peer[c], c, s, Entry(c)[s])
      /\ Settled(Popped, c) /\ (Running(Popped, c) <=> Running(io, c))
      /\ SameDir(io, Popped, c, t)
  <2>1. Called \notin Dir(c, t)
    BY <1>1, DirsApart
  <2> QED
    BY <1>1, <1>3, <2>1, TakeEnds, SettledTake, TakeOtherDir
<1>5. /\ a \in IoType /\ a.done = <<>> /\ Settled(a, c) /\ (Running(a, c) <=> Running(io, c))
      /\ BytesInv(a, peer[c], c, s, Entry(c)[s])
      /\ Others(c, io, a) /\ SameDir(io, a, c, t)
  <2>1. CASE a = Popped
    BY <1>1, <1>4, <2>1
  <2>2. CASE a = Freed(Popped, c, t)
    <3>1. a \in IoType /\ Others(c, Popped, a) /\ a.done = <<>>
      BY <1>1, <2>2, FreedIs DEF FreedKeeps
    <3>2. Settled(a, c) /\ (Running(a, c) <=> Running(io, c))
      BY <1>1, <1>4, <2>2, SettledFreed
    <3>3. BytesInv(a, peer[c], c, s, Entry(c)[s]) /\ SameDir(Popped, a, c, t)
      BY <1>1, <1>4, <2>2, FreedDir
    <3> QED
      BY <1>1, <1>4, <3>1, <3>2, <3>3, OthersTransitive, SameDirTransitive
  <2> QED
    BY <2>1, <2>2 DEF Relays
<1>6. /\ w \in IoType /\ w.done = <<>> /\ WriteStep(a, w, c, t, buf, last) /\ Others(c, a, w)
  <2>1. /\ w \in IoType /\ w.done = <<>> /\ Others(c, a, w) /\ WriteKeeps(a, w)
        /\ \/ WriteWaits(a, w, c, t, buf, last)
           \/ \E e \in CompletionType : WriteCompletes(a, w, c, t, buf, last, e)
    BY <1>1, <1>2, <1>5, StartWriteIs DEF Relays
  <2> QED
    BY <1>5, <2>1 DEF WriteStep, WriteKeeps
<1>7. Settled(w, c) /\ (Running(w, c) <=> Running(io, c)) /\ SameDir(a, w, c, t) /\ w.taken = a.taken
  <2>1. Settled(w, c) /\ (Running(w, c) <=> Running(a, c))
    BY <1>1, <1>2, <1>5, <1>6, SettledWrite
  <2>2. SameDir(a, w, c, t)
    BY <1>1, <1>2, <1>5, <1>6, WriteStepOtherDir
  <2> QED
    BY <1>5, <1>6, <2>1, <2>2 DEF WriteStep, WriteKeeps
<1>8. CASE last
  <2>1. r = w
    BY <1>8 DEF Relays
  <2> QED
    BY <1>1, <1>2, <1>5, <1>6, <1>7, <1>8, <2>1, OthersTransitive, SameDirTransitive
<1>9. CASE ~last
  <2>1. r = StartRead(w, c, s)
    BY <1>9 DEF Relays
  <2>2. w.taken[c][s] <= peer[c][s].sent
    BY <1>5, <1>7 DEF BytesInv
  <2>3. /\ r \in IoType /\ r.done = <<>> /\ Others(c, w, r) /\ ReadStep(w, r, c, s)
    BY <1>1, <1>6, <2>1, <2>2, StartReadIs DEF ReadStep
  <2>4. r.done = <<>> /\ Settled(r, c) /\ (Running(r, c) <=> Running(w, c)) /\ SameDir(w, r, c, t)
    BY <1>1, <1>6, <1>7, <2>3, SettledRead, ReadStepOtherDir DEF ReadStep, ReadKeeps
  <2>5. Others(c, io, r) /\ SameDir(io, r, c, t)
    BY <1>5, <1>6, <1>7, <2>3, <2>4, OthersTransitive, SameDirTransitive
  <2> QED
    BY <1>1, <1>2, <1>5, <1>6, <1>7, <1>9, <2>3, <2>4, <2>5
<1> QED
  BY <1>8, <1>9

LEMMA RelayConn ==
  ASSUME NEW c, NEW s, NEW a, NEW w, NEW r, NEW buf, NEW last \in BOOLEAN, Relays(c, s, a, w, r, buf, last),
         NEW ov, ov = IF IsWriting(c, Other(s)) THEN Overlaps(c) \cup {s} ELSE Overlaps(c),
         NEW buf2, buf2 = [Entry(c) EXCEPT ![s] = buf]
  PROVE  ConnInv(r, peer[c], c, ov, buf2, TRUE)
<1> DEFINE t == Other(s)
           p == peer[c]
<1>1. /\ Handling(c, s, "recv") /\ c \in Conns /\ s \in Sides /\ t \in Sides /\ t # s /\ Other(t) = s
      /\ peer \in PeerType /\ io \in IoType /\ Popped \in IoType /\ Popped.done = <<>>
      /\ Takes(io, Popped, Called) /\ SameSockets(io, Popped)
      /\ Called \in Reads(c, s) /\ Called \in Pending(io) /\ Settled(io, c)
  BY CalledIs, HandlingIs, OtherIs DEF Relays, Reads
<1>2. /\ buf \in BytesFrom(s) /\ buf \in Seq(Nat)
      /\ a \in IoType /\ a.done = <<>> /\ Settled(a, c) /\ (Running(a, c) <=> Running(io, c))
      /\ BytesInv(a, p, c, s, Entry(c)[s])
      /\ w \in IoType /\ w.done = <<>> /\ WriteStep(a, w, c, t, buf, last)
      /\ r \in IoType /\ r.done = <<>> /\ (IF last THEN r = w ELSE ReadStep(w, r, c, s))
      /\ SameDir(io, r, c, t)
      /\ Settled(r, c) /\ (Running(r, c) <=> Running(io, c))
  BY RelaySteps
<1>3. buf2[s] = buf /\ buf2[t] = Entry(c)[t]
  <2>1. Entry(c) \in Buffers
    BY <1>1, EntryIs DEF Handling
  <2> QED
    BY <1>1, <2>1 DEF Buffers
<1>4. /\ s \notin ov => s \notin Overlaps(c) /\ NotWriting(io, c, t)
      /\ t \notin ov => t \notin Overlaps(c)
  BY <1>1, WritingIs
<1>5. PhaseInv(r, c) /\ StartInv(r, p, c, buf2, TRUE)
  BY <1>1, <1>2, SettledIs
<1>6. \A u \in Sides : DirInv(io, p, c, u, Overlaps(c), Entry(c))
  BY <1>1 DEF Handling, ClientInv, ConnInv
<1>7. DirInv(r, p, c, t, ov, buf2)
  <2>1. DirInv(io, p, c, t, Overlaps(c), Entry(c))
    BY <1>1, <1>6
  <2> QED
    BY <1>1, <1>2, <1>3, <1>4, <2>1, OtherDirKept
<1>8. s \notin ov => a = Popped
  <2>1. ASSUME s \notin ov PROVE NotWriting(Popped, c, t)
    BY <1>1, <1>4, <2>1 DEF NotWriting, NonePending, Takes, SameSockets
  <2> QED
    BY <1>1, <2>1, FreedNothing DEF Relays
<1>9. DirInv(r, p, c, s, ov, buf2)
  <2>1. CASE Running(io, c)
    <3>1. /\ NoTask(Popped, c, s) /\ EndsInv(Popped, p, c, s)
          /\ s \notin ov => /\ Entry(c)[s] = <<>> /\ NotWriting(Popped, c, t)
                            /\ Continues(Popped, c, s, Called.bytes)
      BY <1>1, <1>4, <2>1, RecvTaken
    <3>2. NoTask(a, c, s) /\ EndsInv(a, p, c, s)
      <4>1. CASE a = Popped
        BY <3>1, <4>1
      <4>2. CASE a = Freed(Popped, c, t)
        BY <1>1, <3>1, <4>2, FreedDir
      <4> QED
        BY <4>1, <4>2 DEF Relays
    <3>3. (last => p[s].ended # "no") /\ (last => Called.bytes = <<>>)
      <4>1. EndsInv(io, p, c, s)
        BY <1>1, <1>6, <2>1 DEF DirInv
      <4> QED
        BY <1>1, <4>1 DEF EndsInv, Relays
    <3>4. ASSUME s \notin ov
          PROVE  ~last /\ InOrder(a, c, t) /\ NotWriting(a, c, t) /\ Continues(a, c, s, buf)
      <4>1. buf = Called.bytes
        <5>1. Called.bytes \in Seq(Nat)
          BY <1>1 DEF Reads, Of, CompletionType
        <5> QED
          BY <3>1, <3>4, <5>1, ConcatEmptySeq DEF Relays, flushTempBuf
      <4>2. ~last
        BY <3>3, <4>1 DEF Relays
      <4>3. InOrder(Popped, c, t)
        <5>1. InOrder(io, c, t)
          BY <1>1, <1>4, <1>6, <3>4 DEF DirInv
        <5> QED
          BY <1>1, <5>1, TakeEnds
      <4> QED
        BY <1>8, <3>1, <3>4, <4>1, <4>2, <4>3
    <3>5. PICK flows \in BOOLEAN : flows <=> s \notin ov
      BY (s \notin ov) \in BOOLEAN
    <3>6. /\ OneTask(r, c, s) /\ EndsInv(r, p, c, s)
          /\ BytesInv(r, p, c, s, buf)
          /\ flows => FlowInv(r, c, s, buf) /\ InOrder(r, c, t)
      <4>1. /\ c \in Conns /\ s \in Sides /\ a \in IoType /\ a.done = <<>> /\ peer \in PeerType
            /\ Running(a, c) /\ Settled(a, c) /\ NoTask(a, c, s) /\ EndsInv(a, peer[c], c, s)
            /\ buf \in Seq(Nat) /\ buf \in BytesFrom(s) /\ BytesInv(a, peer[c], c, s, Entry(c)[s])
            /\ last => peer[c][s].ended # "no"
        BY <1>1, <1>2, <2>1, <3>2, <3>3
      <4>2. flows => /\ ~last /\ InOrder(a, c, Other(s)) /\ NotWriting(a, c, Other(s))
                     /\ Continues(a, c, s, buf)
        BY <3>4, <3>5
      <4>3. /\ w \in IoType /\ w.done = <<>> /\ WriteStep(a, w, c, Other(s), buf, last)
            /\ IF last THEN r = w ELSE ReadStep(w, r, c, s)
        BY <1>2
      <4>4. /\ OneTask(r, c, s) /\ EndsInv(r, peer[c], c, s)
            /\ BytesInv(r, peer[c], c, s, buf)
            /\ flows => FlowInv(r, c, s, buf) /\ InOrder(r, c, Other(s))
        BY <4>1, <4>2, <4>3, RelayDir
      <4> QED
        BY <4>4
    <3> QED
      BY <1>3, <3>5, <3>6 DEF DirInv
  <2>2. CASE ~Running(io, c)
    <3>1. BytesInv(a, p, c, s, buf)
      BY <1>2 DEF BytesInv
    <3>2. BytesInv(w, p, c, s, buf)
      BY <1>1, <1>2, <3>1, WriteStepBytes
    <3>3. BytesInv(r, p, c, s, buf)
      BY <1>1, <1>2, <3>2, ReadStepBytes
    <3>4. s \notin ov => InOrder(r, c, t)
      <4>1. ASSUME s \notin ov PROVE r.delivered = io.delivered
        <5>1. <<c, t>> \notin a.open
          BY <1>1, <1>2, <2>2, SettledIs
        <5>2. w.delivered = a.delivered
          BY <1>2, <5>1 DEF WriteStep, WriteWaits, WriteCompletes
        <5>3. r.delivered = w.delivered
          BY <1>2 DEF ReadStep, ReadKeeps
        <5> QED
          BY <1>1, <1>8, <4>1, <5>2, <5>3 DEF SameSockets
      <4>2. s \notin ov => InOrder(io, c, t)
        BY <1>1, <1>4, <1>6 DEF DirInv
      <4> QED
        BY <4>1, <4>2 DEF InOrder
    <3> QED
      BY <1>2, <1>3, <2>2, <3>3, <3>4 DEF DirInv
  <2> QED
    BY <2>1, <2>2
<1>10. ClosedInv(r, p, c, ov, TRUE)
  <2> SUFFICES ASSUME Closed(r, c) PROVE ClosedInv(r, p, c, ov, TRUE)
    BY DEF ClosedInv
  <2>1. ~Running(io, c) /\ Closed(io, c)
    BY <1>1, <1>2, SettledIs
  <2>2. ClosedInv(io, p, c, Overlaps(c), c \in DOMAIN clients_)
    BY <1>1 DEF Handling, ClientInv, ConnInv
  <2>3. \A u \in Sides : <<c, u>> \notin a.open
    BY <1>1, <1>2, <2>1, SettledIs
  <2>4. PICK e \in CompletionType : WriteCompletes(a, w, c, t, buf, last, e)
    BY <1>1, <1>2, <2>3 DEF WriteStep, WriteWaits
  <2>5. /\ e \in Writes(c, t) /\ e.handler = "send" /\ e.err = "error"
        /\ Pending(w) = Pending(a) \cup {e} /\ w.delivered = a.delivered
    BY <1>1, <2>3, <2>4 DEF WriteCompletes, Posts
  <2>6. Erasing(e) /\ e \in Of(c) /\ e \in Pending(r)
    <3>1. Pending(w) \subseteq Pending(r)
      BY <1>2 DEF ReadStep, ReadWaits, ReadCompletes, Posts, Pending
    <3> QED
      BY <2>5, <3>1 DEF Erasing, Writes
  <2>7. ASSUME s \notin ov, NEW f \in Pending(r), f \in Writes(c, t) PROVE Erasing(f)
    <3>1. f \in Pending(w)
      <4>1. CASE last
        BY <1>2, <2>7, <4>1
      <4>2. CASE ~last
        <5>1. ReadStep(w, r, c, s)
          BY <1>2, <4>2
        <5>2. f \notin Reads(c, s)
          BY <1>1, <2>7, DirsApart
        <5> QED
          BY <2>7, <5>1, <5>2 DEF ReadStep, ReadWaits, ReadCompletes, Posts, Pending
      <4> QED
        BY <4>1, <4>2
    <3>2. f \notin Pending(a)
      <4>1. NonePending(io, Writes(c, t))
        BY <1>4, <2>7 DEF NotWriting
      <4> QED
        BY <1>1, <1>8, <2>7, <4>1 DEF Takes, NonePending
    <3> QED
      BY <2>5, <2>6, <3>1, <3>2
  <2>8. ASSUME t \notin ov, NEW f \in Pending(r), f \in Writes(c, s)
        PROVE  Erasing(f) \/ IsPending(r, Reads(c, t))
    <3>1. f \in Dir(c, t) /\ Reads(c, t) \subseteq Dir(c, t)
      BY <1>1, <2>8, DirsApart
    <3>2. f \in Pending(io)
      BY <1>2, <2>8, <3>1 DEF SameDir
    <3>3. Erasing(f) \/ IsPending(io, Reads(c, t))
      BY <1>1, <1>4, <2>1, <2>2, <2>8, <3>2 DEF ClosedInv
    <3> QED
      BY <1>2, <3>1, <3>3 DEF SameDir, IsPending
  <2>9. "server" \notin ov /\ p["server"].ended = "eof" /\ p["client"].ended = "no" =>
          Len(r.delivered[c]["client"]) = p["server"].sent
    <3>1. "server" \notin ov => "server" \notin Overlaps(c)
      OBVIOUS
    <3>2. r.delivered = a.delivered
      BY <1>2, <2>5 DEF ReadStep, ReadKeeps
    <3>3. a.delivered = Popped.delivered /\ Popped.delivered = io.delivered
      BY <1>1, FreedIs DEF Relays, FreedKeeps, SameSockets
    <3> QED
      BY <2>1, <2>2, <3>1, <3>2, <3>3 DEF ClosedInv
  <2>10. \A u \in Sides : u = s \/ u = t
    BY <1>1 DEF Sides
  <2> QED
    BY <1>1, <2>6, <2>7, <2>8, <2>9, <2>10 DEF ClosedInv
<1> QED
  BY <1>1, <1>5, <1>7, <1>9, <1>10 DEF ConnInv, Sides

-----------------------------------------------------------------------------
(* terminateClientServerConnection_.                                       *)

TerminateKeeps(a, b, c) ==
  /\ b.done = a.done /\ b.accepting = a.accepting /\ b.fresh = a.fresh /\ b.connecting = a.connecting
  /\ b.taken = a.taken /\ b.delivered = a.delivered
  /\ \A s \in Sides : <<c, s>> \notin b.open /\ <<c, s>> \notin b.reading /\ b.writes[c][s] = <<>>

LEMMA TerminateIs ==
  ASSUME NEW a \in IoType, a.done = <<>>, NEW c \in Conns
  PROVE  LET b == Close(Close(a, c, "server"), c, "client")
         IN /\ b \in IoType /\ Others(c, a, b) /\ TerminateKeeps(a, b, c)
            /\ Pending(a) \subseteq Pending(b)
            /\ \A e \in Pending(b) : e \in Pending(a) \/ \E s \in Sides : e \in Failing(c, s)
            /\ \A s \in Sides : <<c, s>> \in a.reading => IsPending(b, Reads(c, s))
<1>1. PICK s \in Sides, t \in Sides : s = "server" /\ t = "client"
  BY DEF Sides
<1> DEFINE m == Close(a, c, s)
           b == Close(m, c, t)
<1>2. /\ m \in IoType /\ Others(c, a, m) /\ CloseKeeps(a, m, c, s)
      /\ Pending(a) \subseteq Pending(m)
      /\ \A e \in Pending(m) : e \in Pending(a) \/ e \in Failing(c, s)
      /\ <<c, s>> \in a.reading => IsPending(m, Reads(c, s))
  BY CloseIs
<1>3. m.done = <<>>
  BY <1>2 DEF CloseKeeps
<1> HIDE DEF m
<1>4. /\ b \in IoType /\ Others(c, m, b) /\ CloseKeeps(m, b, c, t)
      /\ Pending(m) \subseteq Pending(b)
      /\ \A e \in Pending(b) : e \in Pending(m) \/ e \in Failing(c, t)
      /\ <<c, t>> \in m.reading => IsPending(b, Reads(c, t))
  BY <1>2, <1>3, CloseIs
<1> HIDE DEF b
<1>5. TerminateKeeps(a, b, c)
  <2>1. a.writes \in [Conns -> [Sides -> Seq(WriteType)]]
    BY DEF IoType
  <2>2. \A u \in Sides : u = s \/ u = t
    BY <1>1 DEF Sides
  <2>3. b.writes[c][s] = <<>> /\ b.writes[c][t] = <<>>
    BY <1>1, <1>2, <1>4, <2>1 DEF CloseKeeps
  <2> QED
    BY <1>2, <1>4, <2>2, <2>3 DEF CloseKeeps, TerminateKeeps
<1>6. ASSUME NEW u \in Sides, <<c, u>> \in a.reading PROVE IsPending(b, Reads(c, u))
  <2>1. CASE u = s
    BY <1>2, <1>4, <1>6, <2>1 DEF IsPending
  <2>2. CASE u = t
    <3>1. <<c, t>> \in m.reading
      BY <1>1, <1>2, <1>6, <2>2 DEF CloseKeeps
    <3> QED
      BY <1>4, <2>2, <3>1
  <2> QED
    BY <1>1, <2>1, <2>2 DEF Sides
<1>7. Others(c, a, b)
  BY <1>2, <1>4, OthersTransitive
<1>8. b = Close(Close(a, c, "server"), c, "client")
  BY <1>1 DEF b, m
<1>9. \A e \in Pending(b) : e \in Pending(a) \/ \E u \in Sides : e \in Failing(c, u)
  BY <1>2, <1>4
<1> QED
  BY <1>2, <1>4, <1>5, <1>6, <1>7, <1>8, <1>9

(* What is said of a, from which the connection of c is terminated.        *)
Terminable(a, p, c, ov) ==
  /\ ~Starting(a, c)
  /\ \A s \in Sides : (\E buf : BytesInv(a, p, c, s, buf)) /\ (s \notin ov => InOrder(a, c, Other(s)))
  /\ \A s \in Sides : s \notin ov =>
       \A e \in Pending(a) : e \in Writes(c, Other(s)) =>
         Erasing(e) \/ IsPending(a, Reads(c, s)) \/ <<c, s>> \in a.reading
  /\ "server" \notin ov /\ p["server"].ended = "eof" /\ p["client"].ended = "no" =>
       Len(a.delivered[c]["client"]) = p["server"].sent

LEMMA TerminateConn ==
  ASSUME NEW a \in IoType, a.done = <<>>, NEW c \in Conns, NEW p, NEW ov, Terminable(a, p, c, ov),
         NEW b, b = Close(Close(a, c, "server"), c, "client")
  PROVE  ConnInv(b, p, c, ov, ClientBuffer, FALSE)
<1>1. /\ b \in IoType /\ TerminateKeeps(a, b, c)
      /\ Pending(a) \subseteq Pending(b)
      /\ \A e \in Pending(b) : e \in Pending(a) \/ \E s \in Sides : e \in Failing(c, s)
      /\ \A s \in Sides : <<c, s>> \in a.reading => IsPending(b, Reads(c, s))
  BY TerminateIs
<1>2. \A s \in Sides : \A e \in Failing(c, s) :
        e.err = "error" /\ e.bytes = <<>> /\ e.handler \in {"recv", "send"} /\ Erasing(e)
  BY DEF Failing, Reads, Writes, Erasing
<1>3. Settled(b, c) /\ ~Running(b, c)
  <2>1. ~Starting(b, c)
    BY <1>1, <1>2 DEF Terminable, Starting, TerminateKeeps, Accepting, Connecting, IsPending, Starts
  <2>2. "server" \in Sides
    BY DEF Sides
  <2> QED
    BY <1>1, <2>1, <2>2 DEF Settled, TerminateKeeps, Running, Sides
<1>4. ASSUME NEW s \in Sides PROVE DirInv(b, p, c, s, ov, ClientBuffer)
  <2>1. PICK buf : BytesInv(a, p, c, s, buf)
    BY DEF Terminable
  <2>2. <<>> \in BytesFrom(s) /\ DOMAIN <<>> = {}
    BY DEF BytesFrom
  <2>3. ClientBuffer[s] = <<>> /\ Other(s) \in Sides
    BY OtherIs DEF ClientBuffer
  <2>4. b.taken = a.taken /\ b.delivered = a.delivered /\ b.writes[c][Other(s)] = <<>>
    BY <1>1, <2>3 DEF TerminateKeeps
  <2>5. \A e \in Pending(b) : e \in Dir(c, s) => e.bytes \in BytesFrom(s)
    BY <1>1, <1>2, <2>1, <2>2 DEF BytesInv
  <2>6. BytesInv(b, p, c, s, <<>>)
    BY <2>1, <2>2, <2>4, <2>5 DEF BytesInv
  <2>7. s \notin ov => InOrder(b, c, Other(s))
    BY <2>4 DEF Terminable, InOrder
  <2> QED
    BY <1>3, <2>3, <2>6, <2>7 DEF DirInv
<1>5. ClosedInv(b, p, c, ov, FALSE)
  <2>1. ASSUME NEW s \in Sides, s \notin ov, NEW e \in Pending(b), e \in Writes(c, Other(s))
        PROVE  Erasing(e) \/ IsPending(b, Reads(c, s))
    BY <1>1, <1>2, <2>1 DEF Terminable, IsPending
  <2>2. b.delivered = a.delivered
    BY <1>1 DEF TerminateKeeps
  <2> QED
    BY <2>1, <2>2 DEF ClosedInv, Terminable
<1> QED
  BY <1>3, <1>4, <1>5, SettledIs DEF ConnInv

LEMMA RecvTerminates ==
  ASSUME NEW c, NEW s, Handling(c, s, "recv"),
         Called.err = "error" \/ (Called.err = "eof" /\ flushTempBuf(Entry(c)[s], Called) = <<>>),
         NEW ov, ov = IF IsWriting(c, Other(s)) THEN Overlaps(c) \cup {s} ELSE Overlaps(c)
  PROVE  Terminable(Popped, peer[c], c, ov)
<1> DEFINE t == Other(s)
           p == peer[c]
<1>1. /\ c \in Conns /\ s \in Sides /\ t \in Sides /\ t # s /\ Other(t) = s
      /\ peer \in PeerType /\ io \in IoType /\ Popped \in IoType /\ Popped.done = <<>>
      /\ Takes(io, Popped, Called) /\ SameSockets(io, Popped)
      /\ Popped.fresh = io.fresh /\ Popped.connecting = io.connecting
      /\ Called \in Reads(c, s) /\ Called \in Pending(io) /\ Settled(io, c)
  BY CalledIs, HandlingIs, OtherIs DEF Reads
<1>2. /\ \A u \in Sides : DirInv(io, p, c, u, Overlaps(c), Entry(c))
      /\ ClosedInv(io, p, c, Overlaps(c), c \in DOMAIN clients_)
  BY <1>1 DEF Handling, ClientInv, ConnInv
<1>3. /\ Overlaps(c) \subseteq ov
      /\ s \notin ov => NotWriting(io, c, t)
  BY <1>1, WritingIs
<1>4. ~Starting(Popped, c)
  BY <1>1, SettledTake DEF Settled
<1>5. ASSUME NEW u \in Sides
      PROVE  BytesInv(Popped, p, c, u, Entry(c)[u]) /\ (u \notin ov => InOrder(Popped, c, Other(u)))
  BY <1>1, <1>2, <1>3, TakeEnds DEF DirInv
<1>6. ASSUME NEW u \in Sides, u \notin ov, NEW e \in Pending(Popped), e \in Writes(c, Other(u))
      PROVE  Erasing(e) \/ IsPending(Popped, Reads(c, u)) \/ <<c, u>> \in Popped.reading
  <2>1. e \in Pending(io) /\ u \notin Overlaps(c)
    BY <1>1, <1>3, <1>6 DEF Takes
  <2>2. CASE u = s
    BY <1>3, <1>6, <2>1, <2>2 DEF NotWriting, NonePending
  <2>3. CASE u = t
    <3>1. Called \notin Reads(c, t)
      BY <1>1, DirsApart
    <3>2. CASE Running(io, c)
      <4>1. OneTask(io, c, t) /\ FlowInv(io, c, t, Entry(c)[t])
        BY <1>1, <1>2, <2>1, <2>3, <3>2 DEF DirInv
      <4>2. \A f \in Pending(io) : f \in Writes(c, Other(t)) => ~f.last
        BY <4>1 DEF FlowInv
      <4>3. \A i \in DOMAIN io.writes[c][Other(t)] : ~io.writes[c][Other(t)][i].last
        BY <4>1 DEF FlowInv
      <4>4. <<c, t>> \in io.reading \/ IsPending(io, Reads(c, t))
        BY <4>1, <4>2, <4>3 DEF OneTask, OneLast, IsPending, Tasks
      <4> QED
        BY <1>1, <2>3, <3>1, <4>4 DEF IsPending, Takes, SameSockets
    <3>3. CASE ~Running(io, c)
      <4>1. Closed(io, c)
        BY <1>1, <3>3, SettledIs
      <4>2. Erasing(e) \/ IsPending(io, Reads(c, t))
        BY <1>1, <1>2, <1>6, <2>1, <2>3, <4>1 DEF ClosedInv
      <4> QED
        BY <1>1, <2>3, <3>1, <4>2 DEF IsPending, Takes
    <3> QED
      BY <3>2, <3>3
  <2> QED
    BY <1>1, <2>2, <2>3 DEF Sides
<1>7. ASSUME "server" \notin ov, p["server"].ended = "eof", p["client"].ended = "no"
      PROVE  Len(Popped.delivered[c]["client"]) = p["server"].sent
  <2>1. Popped.delivered = io.delivered /\ "server" \notin Overlaps(c)
    BY <1>1, <1>3, <1>7 DEF SameSockets
  <2>2. CASE Running(io, c)
    <3>1. EndsInv(io, p, c, s)
      BY <1>1, <1>2, <2>2 DEF DirInv
    <3>2. Called.err # "error"
      BY <1>1, <1>7, <3>1 DEF EndsInv, Sides
    <3>3. Called.err = "eof" /\ p[s].ended # "no" /\ io.taken[c][s] = p[s].sent /\ Called.bytes = <<>>
      BY <1>1, <3>1, <3>2 DEF EndsInv
    <3>4. s = "server" /\ t = "client"
      BY <1>1, <1>7, <3>3 DEF Sides
    <3>5. NotWriting(io, c, t) /\ FlowInv(io, c, s, Entry(c)[s])
      BY <1>1, <1>2, <1>3, <1>7, <2>1, <2>2, <3>4 DEF DirInv
    <3>6. HandledTo(io, c, s, Len(io.delivered[c][t]) + Len(<<>>))
      BY <3>5 DEF FlowInv, Continues
    <3>7. Len(io.delivered[c][t]) \in Nat /\ Len(<<>>) = 0
      BY <1>1, LenProperties DEF IoType
    <3>8. io.taken[c][s] = Len(io.delivered[c][t])
      <4>1. PICK n \in Nat : n = Len(io.delivered[c][t])
        BY <3>7
      <4>2. n + Len(<<>>) = n /\ Len(Called.bytes) = 0
        BY <3>3, <3>7
      <4>3. HandledTo(io, c, s, n)
        BY <3>6, <4>1, <4>2
      <4>4. io.taken[c][s] = n + 0
        BY <1>1, <4>2, <4>3 DEF HandledTo
      <4> QED
        BY <4>1, <4>4
    <3> QED
      BY <2>1, <3>3, <3>4, <3>8
  <2>3. CASE ~Running(io, c)
    <3>1. Closed(io, c)
      BY <1>1, <2>3, SettledIs
    <3> QED
      BY <1>2, <1>7, <2>1, <3>1 DEF ClosedInv
  <2> QED
    BY <2>2, <2>3
<1> QED
  BY <1>4, <1>5, <1>6, <1>7 DEF Terminable

LEMMA OverlapsIs ==
  ASSUME NEW c \in Conns, NEW s \in Sides, NEW yes \in BOOLEAN,
         overlapped' = IF yes THEN overlapped \cup {<<c, s>>} ELSE overlapped,
         overlapped \in SUBSET (Conns \X Sides)
  PROVE  /\ overlapped' \in SUBSET (Conns \X Sides)
         /\ Overlaps(c)' = IF yes THEN Overlaps(c) \cup {s} ELSE Overlaps(c)
         /\ \A k \in Conns \ {c} : Overlaps(k)' = Overlaps(k)
BY DEF Overlaps

LEMMA RecvKeeps ==
  ASSUME IInv, NEW c \in Conns, NEW s \in Sides, recvMessageHandler_(c, s)
  PROVE  IInv'
<1> DEFINE t == Other(s)
           p == peer[c]
           ov == IF IsWriting(c, t) THEN Overlaps(c) \cup {s} ELSE Overlaps(c)
           buf == flushTempBuf(Entry(c)[s], Called)
<1>1. /\ TypesInv /\ Handling(c, s, "recv") /\ peer' = peer /\ t \in Sides
  BY OtherIs DEF IInv, Handling, recvMessageHandler_
<1>2. /\ overlapped' \in SUBSET (Conns \X Sides) /\ Overlaps(c)' = ov
      /\ \A k \in Conns \ {c} : Overlaps(k)' = Overlaps(k)
  <2>1. PICK yes \in BOOLEAN : yes <=> IsWriting(c, t)
    BY IsWriting(c, t) \in BOOLEAN DEF IsWriting
  <2>2. overlapped' = IF yes THEN overlapped \cup {<<c, s>>} ELSE overlapped
    BY <2>1 DEF recvMessageHandler_
  <2> QED
    BY <1>1, <2>1, <2>2, OverlapsIs DEF TypesInv
<1>3. CASE Called.err = "error" \/ (Called.err = "eof" /\ buf = <<>>)
  <2>1. io' = Close(Close(Popped, c, "server"), c, "client") /\ clients_' = Erase(c)
    BY <1>3 DEF recvMessageHandler_, terminateClientServerConnection_
  <2>2. Terminable(Popped, p, c, ov)
    BY <1>1, <1>3, RecvTerminates
  <2>3. Popped \in IoType /\ Popped.done = <<>> /\ Others(c, io, Popped)
    BY <1>1, CalledIs
  <2>4. ConnInv(io', p, c, ov, ClientBuffer, FALSE)
    BY <2>1, <2>2, <2>3, TerminateConn
  <2>5. io' \in IoType /\ Others(c, io, io') /\ Performing(io')
    BY <2>1, <2>3, TerminateIs, OthersTransitive DEF TerminateKeeps, Performing
  <2>6. /\ DOMAIN clients_' \subseteq Conns /\ \A k \in DOMAIN clients_' : clients_'[k] \in Buffers
        /\ c \notin DOMAIN clients_' /\ Entry(c)' = ClientBuffer
        /\ \A k \in Conns \ {c} : /\ Entry(k)' = Entry(k)
                                  /\ k \in DOMAIN clients_' <=> k \in DOMAIN clients_
    BY <1>1, <2>1, EraseIs
  <2>7. TypesInv'
    BY <1>1, <1>2, <2>5, <2>6 DEF TypesInv
  <2>8. ConnInv(io', peer'[c], c, Overlaps(c)', Entry(c)', c \in DOMAIN clients_')
    <3>1. (c \in DOMAIN clients_') = FALSE
      BY <2>6
    <3> QED
      BY <1>1, <1>2, <2>4, <2>6, <3>1
  <2> QED
    BY <1>1, <1>2, <2>5, <2>6, <2>7, <2>8, StepIs
<1>4. CASE ~(Called.err = "error" \/ (Called.err = "eof" /\ buf = <<>>))
  <2>1. PICK last \in BOOLEAN : last <=> Called.err = "eof"
    BY (Called.err = "eof") \in BOOLEAN
  <2>2. PICK a \in {Popped, Freed(Popped, c, t)} :
          /\ io' = NextRead(StartWrite(a, c, t, buf, last), c, s, last)
          /\ clients_' = Insert(c, [Entry(c) EXCEPT ![s] = buf])
    <3>1. IsLast(Called) = last
      BY <2>1 DEF IsLast
    <3> QED
      BY <1>4, <3>1 DEF recvMessageHandler_, MaybeFreed
  <2> DEFINE w == StartWrite(a, c, t, buf, last)
             r == IF last THEN w ELSE StartRead(w, c, s)
             buf2 == [Entry(c) EXCEPT ![s] = buf]
  <2>3. io' = r /\ Relays(c, s, a, w, r, buf, last)
    BY <1>1, <1>4, <2>1, <2>2 DEF NextRead, Relays
  <2>4. ConnInv(r, p, c, ov, buf2, TRUE)
    <3>1. Relays(c, s, a, w, r, buf, last)
      BY <2>3
    <3> HIDE DEF w, r, buf
    <3> QED
      BY <3>1, RelayConn
  <2>5. /\ buf \in Seq(Nat) /\ r \in IoType /\ r.done = <<>> /\ Others(c, io, r)
    BY <2>3, RelaySteps
  <2> HIDE DEF w, r, buf
  <2>6. buf2 \in Buffers
    BY <1>1, <2>5, EntryIs DEF Buffers
  <2>7. /\ DOMAIN clients_' \subseteq Conns /\ \A k \in DOMAIN clients_' : clients_'[k] \in Buffers
        /\ c \in DOMAIN clients_' /\ Entry(c)' = buf2
        /\ \A k \in Conns \ {c} : /\ Entry(k)' = Entry(k)
                                  /\ k \in DOMAIN clients_' <=> k \in DOMAIN clients_
    BY <1>1, <2>2, <2>6, InsertIs
  <2>8. TypesInv' /\ Performing(io')
    BY <1>1, <1>2, <2>3, <2>5, <2>7 DEF TypesInv, Performing
  <2>9. ConnInv(io', peer'[c], c, Overlaps(c)', Entry(c)', c \in DOMAIN clients_')
    <3>1. (c \in DOMAIN clients_') = TRUE
      BY <2>7
    <3> QED
      BY <1>1, <1>2, <2>3, <2>4, <2>7, <3>1
  <2> QED
    BY <1>1, <1>2, <2>3, <2>5, <2>7, <2>8, <2>9, StepIs
<1> QED
  BY <1>3, <1>4

-----------------------------------------------------------------------------
(* sendMessageHandler_: the write of what came from s has ended.           *)

LEMMA SendTaken ==
  ASSUME NEW c, NEW s \in Sides, Handling(c, Other(s), "send")
  PROVE  LET t == Other(s)
             p == peer[c]
         IN /\ c \in Conns /\ t \in Sides /\ t # s /\ Other(t) = s
            /\ peer \in PeerType /\ io \in IoType /\ Popped \in IoType /\ Popped.done = <<>>
            /\ Takes(io, Popped, Called) /\ SameSockets(io, Popped) /\ Others(c, io, Popped)
            /\ Called \in Writes(c, t) /\ Called \in Pending(io)
            /\ Settled(io, c) /\ Settled(Popped, c) /\ (Running(Popped, c) <=> Running(io, c))
            /\ SameDir(io, Popped, c, t)
            /\ \A u \in Sides : DirInv(io, p, c, u, Overlaps(c), Entry(c))
            /\ ClosedInv(io, p, c, Overlaps(c), c \in DOMAIN clients_)
            /\ \A u \in Sides : Called \notin Reads(c, u)
<1> DEFINE t == Other(s)
           p == peer[c]
<1>1. /\ c \in Conns /\ t \in Sides /\ t # s /\ Other(t) = s
      /\ peer \in PeerType /\ io \in IoType /\ Popped \in IoType /\ Popped.done = <<>>
      /\ Takes(io, Popped, Called) /\ SameSockets(io, Popped) /\ Others(c, io, Popped)
      /\ Popped.fresh = io.fresh /\ Popped.connecting = io.connecting
      /\ Called \in Writes(c, t) /\ Called \in Pending(io) /\ Settled(io, c)
  BY CalledIs, HandlingIs, OtherIs DEF Writes
<1>2. Settled(Popped, c) /\ (Running(Popped, c) <=> Running(io, c))
  BY <1>1, SettledTake
<1>3. SameDir(io, Popped, c, t)
  <2>1. Called \notin Dir(c, t)
    BY <1>1, DirsApart
  <2> QED
    BY <1>1, <2>1, TakeOtherDir
<1>4. /\ \A u \in Sides : DirInv(io, p, c, u, Overlaps(c), Entry(c))
      /\ ClosedInv(io, p, c, Overlaps(c), c \in DOMAIN clients_)
  BY <1>1 DEF Handling, ClientInv, ConnInv
<1>5. \A u \in Sides : Called \notin Reads(c, u)
  BY <1>1 DEF Reads, Writes
<1> QED
  BY <1>1, <1>2, <1>3, <1>4, <1>5

LEMMA SendTerminates ==
  ASSUME NEW c, NEW s \in Sides, Handling(c, Other(s), "send"), Called.err # "none" \/ Called.last
  PROVE  Terminable(Popped, peer[c], c, Overlaps(c))
<1> DEFINE t == Other(s)
           p == peer[c]
           ov == Overlaps(c)
<1>1. /\ c \in Conns /\ t \in Sides /\ t # s /\ Other(t) = s
      /\ peer \in PeerType /\ io \in IoType /\ Popped \in IoType /\ Popped.done = <<>>
      /\ Takes(io, Popped, Called) /\ SameSockets(io, Popped)
      /\ Called \in Writes(c, t) /\ Called \in Pending(io) /\ Settled(io, c) /\ Settled(Popped, c)
      /\ \A u \in Sides : DirInv(io, p, c, u, ov, Entry(c))
      /\ ClosedInv(io, p, c, ov, c \in DOMAIN clients_)
      /\ \A u \in Sides : Called \notin Reads(c, u)
  BY SendTaken
<1>2. ASSUME NEW u \in Sides
      PROVE  BytesInv(Popped, p, c, u, Entry(c)[u]) /\ (u \notin ov => InOrder(Popped, c, Other(u)))
  BY <1>1, TakeEnds DEF DirInv
<1>3. ASSUME NEW u \in Sides, u \notin ov, NEW e \in Pending(Popped), e \in Writes(c, Other(u))
      PROVE  Erasing(e) \/ IsPending(Popped, Reads(c, u)) \/ <<c, u>> \in Popped.reading
  <2>1. e \in Pending(io)
    BY <1>1 DEF Takes
  <2>2. CASE Running(io, c)
    <3>1. OneTask(io, c, u) /\ FlowInv(io, c, u, Entry(c)[u])
      BY <1>1, <1>3, <2>2 DEF DirInv
    <3>2. \A f \in Pending(io) : f \in Writes(c, Other(u)) => ~f.last
      BY <3>1 DEF FlowInv
    <3>3. \A i \in DOMAIN io.writes[c][Other(u)] : ~io.writes[c][Other(u)][i].last
      BY <3>1 DEF FlowInv
    <3>4. <<c, u>> \in io.reading \/ IsPending(io, Reads(c, u))
      BY <3>1, <3>2, <3>3 DEF OneTask, OneLast, IsPending, Tasks
    <3> QED
      BY <1>1, <3>4 DEF IsPending, Takes, SameSockets
  <2>3. CASE ~Running(io, c)
    <3>1. Closed(io, c)
      BY <1>1, <2>3, SettledIs
    <3>2. Erasing(e) \/ IsPending(io, Reads(c, u))
      BY <1>1, <1>3, <2>1, <3>1 DEF ClosedInv
    <3> QED
      BY <1>1, <3>2 DEF IsPending, Takes
  <2> QED
    BY <2>2, <2>3
<1>4. ASSUME "server" \notin ov, p["server"].ended = "eof", p["client"].ended = "no"
      PROVE  Len(Popped.delivered[c]["client"]) = p["server"].sent
  <2>1. CASE Running(io, c)
    <3>1. EndsInv(io, p, c, s) /\ (s \notin ov => FlowInv(io, c, s, Entry(c)[s]))
      BY <1>1, <2>1 DEF DirInv
    <3>2. Called.err = "none"
      BY <1>1, <1>4, <3>1 DEF EndsInv, Sides
    <3>3. s = "server"
      BY <1>1, <1>4, <3>1, <3>2 DEF EndsInv, Sides
    <3>4. ~Called.last
      BY <1>1, <1>4, <3>1, <3>3 DEF FlowInv
    <3> QED
      BY <3>2, <3>4
  <2>2. CASE ~Running(io, c)
    <3>1. Closed(io, c)
      BY <1>1, <2>2, SettledIs
    <3> QED
      BY <1>1, <1>4, <3>1 DEF ClosedInv, SameSockets
  <2> QED
    BY <2>1, <2>2
<1> QED
  BY <1>1, <1>2, <1>3, <1>4 DEF Terminable, Settled

LEMMA SentConn ==
  ASSUME NEW c, NEW s \in Sides, Handling(c, Other(s), "send"), Called.err = "none", ~Called.last,
         NEW a, a \in MaybeFreed(Popped, c, Other(s)),
         NEW buf, buf = [Entry(c) EXCEPT ![s] = <<>>]
  PROVE  ConnInv(a, peer[c], c, Overlaps(c), buf, TRUE) /\ a \in IoType /\ a.done = <<>> /\ Others(c, io, a)
<1> DEFINE t == Other(s)
           p == peer[c]
           ov == Overlaps(c)
<1>1. /\ c \in Conns /\ t \in Sides /\ t # s /\ Other(t) = s
      /\ peer \in PeerType /\ io \in IoType /\ Popped \in IoType /\ Popped.done = <<>>
      /\ Takes(io, Popped, Called) /\ SameSockets(io, Popped) /\ Others(c, io, Popped)
      /\ Called \in Writes(c, t) /\ Called \in Pending(io)
      /\ Settled(io, c) /\ Settled(Popped, c) /\ (Running(Popped, c) <=> Running(io, c))
      /\ SameDir(io, Popped, c, t)
      /\ \A u \in Sides : DirInv(io, p, c, u, ov, Entry(c))
      /\ ClosedInv(io, p, c, ov, c \in DOMAIN clients_)
      /\ \A u \in Sides : Called \notin Reads(c, u)
  BY SendTaken
<1>2. a = Popped \/ a = Freed(Popped, c, t)
  BY DEF MaybeFreed
<1>3. /\ a \in IoType /\ a.done = <<>> /\ Others(c, io, a)
      /\ a.delivered = io.delivered
      /\ Settled(a, c) /\ (Running(a, c) <=> Running(io, c))
      /\ SameDir(io, a, c, t)
  <2>1. CASE a = Popped
    BY <1>1, <2>1 DEF SameSockets
  <2>2. CASE a = Freed(Popped, c, t)
    <3>1. a \in IoType /\ Others(c, Popped, a) /\ FreedKeeps(Popped, a, c, t)
      BY <1>1, <2>2, FreedIs
    <3>2. Settled(a, c) /\ (Running(a, c) <=> Running(Popped, c)) /\ SameDir(Popped, a, c, t)
      BY <1>1, <2>2, SettledFreed, FreedDir
    <3> QED
      BY <1>1, <3>1, <3>2, OthersTransitive, SameDirTransitive DEF FreedKeeps, SameSockets
  <2> QED
    BY <1>2, <2>1, <2>2
<1>4. /\ \A e \in Pending(Popped) : (\E u \in Sides : e \in Reads(c, u)) => e \in Pending(a)
      /\ \A e \in Pending(a) : \A u \in Sides : e \in Writes(c, u) => Erasing(e) \/ e \in Pending(Popped)
  <2>1. CASE a = Popped
    BY <2>1
  <2>2. CASE a = Freed(Popped, c, t)
    <3>1. FreedPending(Popped, a, c, t)
      BY <1>1, <2>2, FreedIs
    <3>2. \A e : \A u \in Sides : ~(e \in Reads(c, u) /\ e \in Writes(c, t))
      BY DEF Reads, Writes
    <3>3. \A e \in Pending(a) : e \in Pending(Popped) \/ Erasing(e)
      BY <3>1 DEF FreedPending, Erasing
    <3> QED
      BY <3>1, <3>2, <3>3 DEF FreedPending
  <2> QED
    BY <1>2, <2>1, <2>2
<1>5. buf[s] = <<>> /\ buf[t] = Entry(c)[t]
  <2>1. Entry(c) \in Buffers
    BY EntryIs DEF Handling
  <2> QED
    BY <1>1, <2>1 DEF Buffers
<1>6. PhaseInv(a, c) /\ StartInv(a, p, c, buf, TRUE)
  BY <1>1, <1>3, SettledIs
<1>7. DirInv(a, p, c, t, ov, buf)
  BY <1>1, <1>3, <1>5, OtherDirKept
<1>8. /\ BytesInv(Popped, p, c, s, Entry(c)[s])
      /\ s \notin ov => InOrder(Popped, c, t)
      /\ Running(io, c) => OneTask(Popped, c, s) /\ EndsInv(Popped, p, c, s)
  <2>1. ~(Called \in Tasks(c, s))
    BY <1>1 DEF Tasks
  <2> QED
    BY <1>1, <2>1, TakeEnds, TakeTask DEF DirInv
<1>9. /\ BytesInv(a, p, c, s, <<>>)
      /\ s \notin ov => InOrder(a, c, t)
      /\ Running(io, c) => OneTask(a, c, s) /\ EndsInv(a, p, c, s)
  <2>1. /\ BytesInv(a, p, c, s, Entry(c)[s])
        /\ s \notin ov => InOrder(a, c, t)
        /\ Running(io, c) => OneTask(a, c, s) /\ EndsInv(a, p, c, s)
    <3>1. CASE a = Popped
      BY <1>8, <3>1
    <3>2. CASE a = Freed(Popped, c, t)
      BY <1>1, <1>8, <3>2, FreedDir
    <3> QED
      BY <1>2, <3>1, <3>2
  <2>2. <<>> \in BytesFrom(s)
    BY DEF BytesFrom
  <2> QED
    BY <2>1, <2>2 DEF BytesInv
<1>10. ASSUME Running(io, c), s \notin ov PROVE FlowInv(a, c, s, <<>>)
  <2>1. FlowInv(io, c, s, Entry(c)[s]) /\ EndsInv(io, p, c, s)
    BY <1>1, <1>10 DEF DirInv
  <2>2. io.writes[c][t] = <<>>
    BY <1>1, <2>1 DEF FlowInv, NonePending
  <2>3. AtMostOne(Writes(c, t), Completed(Popped)) /\ NonePending(Popped, Writes(c, t))
    BY <1>1, <2>1 DEF FlowInv, Takes, NonePending
  <2>4. Popped.writes = io.writes /\ Popped.delivered = io.delivered /\ Popped.taken = io.taken
    BY <1>1 DEF SameSockets
  <2>5. NotWriting(Popped, c, t)
    BY <2>2, <2>3, <2>4 DEF NotWriting
  <2>6. a = Popped
    BY <1>1, <1>2, <2>5, FreedNothing
  <2>7. Called.handler = "send"
    BY DEF Handling, Calls, Called
  <2>8. Continues(io, c, s, <<>>)
    BY <1>1, <2>1, <2>7 DEF FlowInv, EndsInv
  <2>9. Continues(Popped, c, s, <<>>)
    <3>1. \A e \in Pending(io) : e \in Reads(c, s) => e \in Pending(Popped)
      BY <1>1 DEF Takes
    <3>2. Pending(Popped) \subseteq Pending(io)
      BY <1>1 DEF Takes
    <3> QED
      BY <2>4, <2>8, <3>1, <3>2 DEF Continues, HandledTo, NonePending
  <2>10. FlowInv(Popped, c, s, <<>>)
    BY <2>2, <2>3, <2>4, <2>9, NoBytes DEF FlowInv, NonePending
  <2> QED
    BY <2>6, <2>10
<1>11. DirInv(a, p, c, s, ov, buf)
  BY <1>3, <1>5, <1>9, <1>10 DEF DirInv
<1>12. ASSUME Closed(a, c) PROVE ClosedInv(a, p, c, ov, TRUE)
  <2>1. Closed(io, c)
    BY <1>1, <1>3, <1>12, SettledIs
  <2>2. \A u \in Sides : IsPending(io, Reads(c, u)) => IsPending(a, Reads(c, u))
    BY <1>1, <1>4 DEF IsPending, Takes
  <2>3. ASSUME NEW u \in Sides, u \notin ov, NEW e \in Pending(a), e \in Writes(c, Other(u))
        PROVE  Erasing(e) \/ IsPending(a, Reads(c, u))
    <3>1. Erasing(e) \/ e \in Pending(io)
      BY <1>1, <1>4, <2>3, OtherIs DEF Takes
    <3> QED
      BY <1>1, <2>1, <2>2, <2>3, <3>1 DEF ClosedInv
  <2>4. ASSUME ov = {} PROVE \E e \in Pending(a) : e \in Of(c) /\ Erasing(e)
    <3>1. ~Erasing(Called)
      BY DEF Erasing, Handling, Calls, Called
    <3>2. IsPending(io, Reads(c, s))
      BY <1>1, <2>1, <2>4, <3>1 DEF ClosedInv
    <3> QED
      BY <2>2, <3>2 DEF IsPending, Reads, Erasing
  <2> QED
    BY <1>1, <1>3, <2>1, <2>3, <2>4 DEF ClosedInv
<1>13. ClosedInv(a, p, c, ov, TRUE)
  BY <1>12 DEF ClosedInv
<1> QED
  BY <1>1, <1>3, <1>6, <1>7, <1>11, <1>13 DEF ConnInv, Sides

LEMMA SendKeeps ==
  ASSUME IInv, NEW c \in Conns, NEW s \in Sides, sendMessageHandler_(c, s)
  PROVE  IInv'
<1> DEFINE t == Other(s)
           p == peer[c]
           ov == Overlaps(c)
<1>1. /\ TypesInv /\ Handling(c, t, "send") /\ peer' = peer /\ overlapped' = overlapped
  BY OtherIs DEF IInv, Handling, sendMessageHandler_
<1>2. /\ \A k \in Conns : Overlaps(k)' = Overlaps(k)
      /\ overlapped' \in SUBSET (Conns \X Sides)
  BY <1>1 DEF Overlaps, TypesInv
<1>3. CASE Called.err # "none" \/ Called.last
  <2>1. io' = Close(Close(Popped, c, "server"), c, "client") /\ clients_' = Erase(c)
    BY <1>3 DEF sendMessageHandler_, terminateClientServerConnection_
  <2>2. Terminable(Popped, p, c, ov)
    BY <1>1, <1>3, SendTerminates
  <2>3. Popped \in IoType /\ Popped.done = <<>> /\ Others(c, io, Popped)
    BY <1>1, SendTaken
  <2>4. ConnInv(io', p, c, ov, ClientBuffer, FALSE)
    BY <2>1, <2>2, <2>3, TerminateConn
  <2>5. io' \in IoType /\ Others(c, io, io') /\ Performing(io')
    BY <2>1, <2>3, TerminateIs, OthersTransitive DEF TerminateKeeps, Performing
  <2>6. /\ DOMAIN clients_' \subseteq Conns /\ \A k \in DOMAIN clients_' : clients_'[k] \in Buffers
        /\ c \notin DOMAIN clients_' /\ Entry(c)' = ClientBuffer
        /\ \A k \in Conns \ {c} : /\ Entry(k)' = Entry(k)
                                  /\ k \in DOMAIN clients_' <=> k \in DOMAIN clients_
    BY <1>1, <2>1, EraseIs
  <2>7. TypesInv'
    BY <1>1, <1>2, <2>5, <2>6 DEF TypesInv
  <2>8. ConnInv(io', peer'[c], c, Overlaps(c)', Entry(c)', c \in DOMAIN clients_')
    <3>1. (c \in DOMAIN clients_') = FALSE
      BY <2>6
    <3> QED
      BY <1>1, <1>2, <2>4, <2>6, <3>1
  <2> QED
    BY <1>1, <1>2, <2>5, <2>6, <2>7, <2>8, StepIs
<1>4. CASE ~(Called.err # "none" \/ Called.last)
  <2> DEFINE buf == [Entry(c) EXCEPT ![s] = <<>>]
  <2>1. io' \in MaybeFreed(Popped, c, t) /\ clients_' = Insert(c, buf)
    BY <1>4 DEF sendMessageHandler_, Sent
  <2>2. ConnInv(io', p, c, ov, buf, TRUE) /\ io' \in IoType /\ io'.done = <<>> /\ Others(c, io, io')
    BY <1>1, <1>4, <2>1, SentConn
  <2>3. buf \in Buffers
    BY <1>1, EntryIs, NoBytes DEF Buffers
  <2>4. /\ DOMAIN clients_' \subseteq Conns /\ \A k \in DOMAIN clients_' : clients_'[k] \in Buffers
        /\ c \in DOMAIN clients_' /\ Entry(c)' = buf
        /\ \A k \in Conns \ {c} : /\ Entry(k)' = Entry(k)
                                  /\ k \in DOMAIN clients_' <=> k \in DOMAIN clients_
    BY <1>1, <2>1, <2>3, InsertIs
  <2>5. TypesInv' /\ Performing(io')
    BY <1>1, <1>2, <2>2, <2>4 DEF TypesInv, Performing
  <2>6. ConnInv(io', peer'[c], c, Overlaps(c)', Entry(c)', c \in DOMAIN clients_')
    <3>1. (c \in DOMAIN clients_') = TRUE
      BY <2>4
    <3> QED
      BY <1>1, <1>2, <2>2, <2>4, <3>1
  <2> QED
    BY <1>1, <1>2, <2>2, <2>4, <2>5, <2>6, StepIs
<1> QED
  BY <1>3, <1>4

-----------------------------------------------------------------------------
(* The io_service's own steps change nothing but io.                       *)

LEMMA IoStepIs ==
  ASSUME IInv, NEW c \in Conns, UNCHANGED <<clients_, peer, overlapped>>,
         io' \in IoType, Performing(io'), Others(c, io, io'),
         ConnInv(io', peer[c], c, Overlaps(c), Entry(c), c \in DOMAIN clients_)
  PROVE  IInv'
<1>1. TypesInv'
  BY DEF IInv, TypesInv
<1>2. \A k \in Conns : /\ peer'[k] = peer[k] /\ Overlaps(k)' = Overlaps(k) /\ Entry(k)' = Entry(k)
                       /\ (k \in DOMAIN clients_)' = (k \in DOMAIN clients_)
  BY DEF Overlaps, Entry
<1>3. ConnInv(io', peer'[c], c, Overlaps(c)', Entry(c)', c \in DOMAIN clients_')
  <2>1. (c \in DOMAIN clients_') = (c \in DOMAIN clients_)
    BY <1>2
  <2>2. peer'[c] = peer[c] /\ Overlaps(c)' = Overlaps(c) /\ Entry(c)' = Entry(c)
    BY <1>2
  <2> QED
    BY <2>1, <2>2
<1> QED
  BY <1>1, <1>2, <1>3, StepIs

(* WriteMore: what is left of a write is written.                          *)

LEMMA MoreConn ==
  ASSUME NEW c, NEW s \in Sides, Handling(c, Other(s), "more"),
         NEW b, b = StartWrite(Popped, c, Other(s), Called.bytes, Called.last)
  PROVE  /\ ConnInv(b, peer[c], c, Overlaps(c), Entry(c), c \in DOMAIN clients_)
         /\ b \in IoType /\ b.done = <<>> /\ Others(c, io, b)
<1> DEFINE t == Other(s)
           p == peer[c]
           ov == Overlaps(c)
           has == c \in DOMAIN clients_
<1>1. /\ c \in Conns /\ t \in Sides /\ t # s /\ Other(t) = s
      /\ peer \in PeerType /\ io \in IoType /\ Popped \in IoType /\ Popped.done = <<>>
      /\ Takes(io, Popped, Called) /\ SameSockets(io, Popped) /\ Others(c, io, Popped)
      /\ Popped.fresh = io.fresh /\ Popped.connecting = io.connecting
      /\ Called \in Writes(c, t) /\ Called \in Pending(io) /\ Settled(io, c)
      /\ Called.handler = "more"
  BY CalledIs, HandlingIs, OtherIs DEF Writes
<1>2. Settled(Popped, c) /\ (Running(Popped, c) <=> Running(io, c))
  BY <1>1, SettledTake
<1>3. SameDir(io, Popped, c, t)
  <2>1. Called \notin Dir(c, t)
    BY <1>1, DirsApart
  <2> QED
    BY <1>1, <2>1, TakeOtherDir
<1>4. /\ \A u \in Sides : DirInv(io, p, c, u, ov, Entry(c))
      /\ ClosedInv(io, p, c, ov, has)
  BY <1>1 DEF Handling, ClientInv, ConnInv
<1>5. \A u \in Sides : Called \notin Reads(c, u)
  BY <1>1 DEF Reads, Writes
<1>6. PICK bytes \in Seq(Nat), last \in BOOLEAN : bytes = Called.bytes /\ last = Called.last
  BY <1>1 DEF Writes, Of, CompletionType
<1>7. /\ b \in IoType /\ b.done = <<>> /\ Others(c, Popped, b) /\ WriteKeeps(Popped, b)
      /\ WriteStep(Popped, b, c, t, bytes, last)
  <2>1. b = StartWrite(Popped, c, t, bytes, last)
    BY <1>6
  <2>2. /\ b \in IoType /\ b.done = <<>> /\ Others(c, Popped, b) /\ WriteKeeps(Popped, b)
        /\ \/ WriteWaits(Popped, b, c, t, bytes, last)
           \/ \E e \in CompletionType : WriteCompletes(Popped, b, c, t, bytes, last, e)
    BY <1>1, <2>1, StartWriteIs
  <2> QED
    BY <1>1, <2>2 DEF WriteStep, WriteKeeps
<1>8. /\ Settled(b, c) /\ (Running(b, c) <=> Running(io, c))
      /\ SameDir(io, b, c, t) /\ Others(c, io, b)
  <2>1. Settled(b, c) /\ (Running(b, c) <=> Running(Popped, c))
    BY <1>1, <1>2, <1>7, SettledWrite
  <2>2. SameDir(Popped, b, c, t)
    BY <1>1, <1>7, WriteStepOtherDir
  <2> QED
    BY <1>1, <1>2, <1>3, <1>7, <2>1, <2>2, SameDirTransitive, OthersTransitive
<1>9. PhaseInv(b, c) /\ StartInv(b, p, c, Entry(c), has)
  BY <1>1, <1>8, SettledIs
<1>10. DirInv(b, p, c, t, ov, Entry(c))
  BY <1>1, <1>4, <1>8, OtherDirKept
<1>11. BytesInv(b, p, c, s, Entry(c)[s])
  <2>1. BytesInv(io, p, c, s, Entry(c)[s])
    BY <1>4 DEF DirInv
  <2>2. bytes \in BytesFrom(s)
    BY <1>1, <1>6, <2>1, DirsApart DEF BytesInv
  <2>3. BytesInv(Popped, p, c, s, Entry(c)[s])
    BY <1>1, <2>1, TakeEnds
  <2>4. PICK buf : buf = Entry(c)[s]
    OBVIOUS
  <2>5. /\ Popped \in IoType /\ c \in Conns /\ s \in Sides /\ peer \in PeerType
        /\ WriteStep(Popped, b, c, Other(s), bytes, last) /\ BytesInv(Popped, peer[c], c, s, buf)
    BY <1>1, <1>7, <2>3, <2>4
  <2>6. BytesInv(b, peer[c], c, s, buf)
    BY <2>2, <2>5, WriteStepBytes
  <2> QED
    BY <2>4, <2>6
<1>12. s \notin ov => InOrder(Popped, c, t)
  BY <1>1, <1>4, TakeEnds DEF DirInv
<1>13. CASE Running(io, c)
  <2>1. OneTask(io, c, s) /\ EndsInv(io, p, c, s)
    BY <1>4, <1>13 DEF DirInv
  <2>2. <<c, t>> \in Popped.open
    BY <1>1, <1>2, <1>13, SettledIs
  <2>3. OneTask(b, c, s)
    <3>1. CASE last
      <4>1. Called \in Tasks(c, s)
        BY <1>1, <1>6, <3>1 DEF Tasks
      <4>2. NoTask(Popped, c, s)
        BY <1>1, <2>1, <4>1, TakeTask
      <4> QED
        BY <1>1, <1>7, <3>1, <4>2, WriteStepTask
    <3>2. CASE ~last
      <4>1. Called \notin Tasks(c, s)
        BY <1>5, <1>6, <3>2 DEF Tasks
      <4>2. OneTask(Popped, c, s)
        BY <1>1, <2>1, <4>1, TakeTask
      <4> QED
        BY <1>1, <1>7, <3>2, <4>2, WriteStepTask
    <3> QED
      BY <3>1, <3>2
  <2>4. EndsInv(b, p, c, s)
    <3>1. last => p[s].ended # "no"
      BY <1>1, <1>6, <2>1 DEF EndsInv
    <3>2. EndsInv(Popped, p, c, s)
      BY <1>1, <2>1, TakeEnds
    <3> QED
      BY <1>1, <1>7, <2>2, <3>1, <3>2, WriteStepEnds
  <2>5. ASSUME s \notin ov PROVE FlowInv(b, c, s, Entry(c)[s]) /\ InOrder(b, c, t)
    <3>1. FlowInv(io, c, s, Entry(c)[s])
      BY <1>4, <1>13, <2>5 DEF DirInv
    <3>2. ~last /\ Continues(io, c, s, bytes)
      BY <1>1, <1>6, <2>1, <3>1 DEF FlowInv, EndsInv
    <3>3. NotWriting(Popped, c, t)
      <4>1. io.writes[c][t] = <<>>
        BY <1>1, <3>1 DEF FlowInv, NonePending
      <4>2. NonePending(Popped, Writes(c, t))
        BY <1>1, <3>1 DEF FlowInv, Takes, NonePending
      <4> QED
        BY <1>1, <4>1, <4>2 DEF NotWriting, SameSockets
    <3>4. Continues(Popped, c, s, bytes)
      <4>1. \A e \in Pending(io) : e \in Reads(c, s) => e \in Pending(Popped)
        BY <1>1, <1>5 DEF Takes
      <4>2. Pending(Popped) \subseteq Pending(io)
        BY <1>1 DEF Takes
      <4> QED
        BY <1>1, <3>2, <4>1, <4>2 DEF Continues, HandledTo, NonePending, SameSockets
    <3> QED
      BY <1>1, <1>7, <1>12, <2>2, <2>5, <3>2, <3>3, <3>4, WriteStepFlow
  <2> QED
    BY <1>8, <1>9, <1>10, <1>11, <1>13, <2>3, <2>4, <2>5, <1>1, <1>7
       DEF ConnInv, DirInv, ClosedInv, Closed, Running, Sides
<1>14. CASE ~Running(io, c)
  <2>1. Closed(io, c) /\ <<c, t>> \notin Popped.open
    BY <1>1, <1>2, <1>14, SettledIs
  <2>2. PICK e \in CompletionType : WriteCompletes(Popped, b, c, t, bytes, last, e)
    BY <1>7, <2>1 DEF WriteStep, WriteWaits
  <2>3. /\ e \in Writes(c, t) /\ e.handler = "send" /\ e.err = "error"
        /\ Pending(b) = Pending(Popped) \cup {e} /\ b.delivered = Popped.delivered
    BY <2>1, <2>2 DEF WriteCompletes, Posts
  <2>4. Erasing(e) /\ e \in Of(c)
    BY <2>3 DEF Erasing, Writes
  <2>5. s \notin ov => InOrder(b, c, t)
    BY <1>12, <2>3 DEF InOrder
  <2>6. DirInv(b, p, c, s, ov, Entry(c))
    BY <1>8, <1>11, <1>14, <2>5 DEF DirInv
  <2>7. ASSUME NEW u \in Sides, u \notin ov, NEW f \in Pending(b), f \in Writes(c, Other(u))
        PROVE  Erasing(f) \/ IsPending(b, Reads(c, u))
    <3>1. f = e \/ f \in Pending(io)
      BY <1>1, <2>3, <2>7 DEF Takes
    <3>2. CASE f \in Pending(io)
      <4>1. Erasing(f) \/ IsPending(io, Reads(c, u))
        BY <1>4, <2>1, <2>7, <3>2 DEF ClosedInv
      <4> QED
        BY <1>1, <1>5, <2>3, <4>1 DEF IsPending, Takes
    <3> QED
      BY <2>4, <3>1, <3>2
  <2>8. b.delivered = io.delivered
    BY <1>1, <2>3 DEF SameSockets
  <2>9. ClosedInv(b, p, c, ov, has)
    BY <1>4, <2>1, <2>3, <2>4, <2>7, <2>8 DEF ClosedInv
  <2> QED
    BY <1>1, <1>7, <1>8, <1>9, <1>10, <2>6, <2>9 DEF ConnInv, Sides
<1> QED
  BY <1>13, <1>14

LEMMA MoreKeeps ==
  ASSUME IInv, NEW c \in Conns, NEW s \in Sides, WriteMore(c, s)
  PROVE  IInv'
<1>1. PICK u \in Sides : s = Other(u)
  BY OtherIs
<1>2. Handling(c, Other(u), "more")
  BY <1>1 DEF IInv, Handling, WriteMore
<1>3. io' = StartWrite(Popped, c, Other(u), Called.bytes, Called.last) /\ UNCHANGED <<clients_, peer, overlapped>>
  BY <1>1 DEF WriteMore
<1>4. /\ ConnInv(io', peer[c], c, Overlaps(c), Entry(c), c \in DOMAIN clients_)
      /\ io' \in IoType /\ io'.done = <<>> /\ Others(c, io, io')
  BY <1>2, <1>3, MoreConn
<1>5. Performing(io')
  BY <1>4 DEF Performing
<1> QED
  BY <1>3, <1>4, <1>5, IoStepIs

-----------------------------------------------------------------------------
(* PerformWrite: a write that waited is tried.                             *)

LEMMA TailLast ==
  ASSUME NEW q \in Seq(WriteType), q # <<>>
  PROVE  /\ Head(q) \in WriteType /\ Tail(q) \in Seq(WriteType) /\ 1 \in DOMAIN q /\ Head(q) = q[1]
         /\ \A i \in DOMAIN Tail(q) : i + 1 \in DOMAIN q /\ Tail(q)[i] = q[i + 1]
         /\ NoneLast(q) => ~Head(q).last /\ NoneLast(Tail(q))
         /\ OneLast(q) /\ Head(q).last => NoneLast(Tail(q))
         /\ OneLast(q) /\ ~Head(q).last => OneLast(Tail(q))
         /\ Len(q) = 1 => Tail(q) = <<>>
<1>1. PICK n \in Nat \ {0} : n = Len(q)
  BY EmptySeq
<1>2. /\ Head(q) = q[1] /\ Head(q) \in WriteType /\ Tail(q) \in Seq(WriteType) /\ Len(Tail(q)) = n - 1
      /\ \A i \in 1 .. n - 1 : Tail(q)[i] = q[i + 1]
      /\ DOMAIN q = 1 .. n /\ DOMAIN Tail(q) = 1 .. n - 1
  BY <1>1, HeadTailProperties, LenProperties
<1> DEFINE r == Tail(q)
           w == Head(q)
<1> HIDE DEF r, w
<1>3. /\ \A i \in 1 .. n - 1 : r[i] = q[i + 1] /\ i + 1 \in 1 .. n /\ i + 1 # 1
      /\ \A i \in 1 .. n : i = 1 \/ (i - 1 \in 1 .. n - 1 /\ q[i] = r[i - 1])
      /\ 1 \in 1 .. n /\ DOMAIN r = 1 .. n - 1 /\ DOMAIN q = 1 .. n /\ w = q[1]
  BY <1>2 DEF r, w
<1>4. NoneLast(q) => ~w.last /\ NoneLast(r)
  BY <1>3 DEF NoneLast
<1>5. OneLast(q) /\ w.last => NoneLast(r)
  BY <1>3 DEF OneLast, NoneLast
<1>6. OneLast(q) /\ ~w.last => OneLast(r)
  <2> SUFFICES ASSUME OneLast(q), ~w.last PROVE OneLast(r)
    OBVIOUS
  <2>1. PICK i \in 1 .. n : q[i].last /\ \A j \in 1 .. n : q[j].last => j = i
    BY <1>3 DEF OneLast
  <2>2. i - 1 \in 1 .. n - 1 /\ q[i] = r[i - 1]
    BY <1>3, <2>1
  <2>3. ASSUME NEW j \in 1 .. n - 1, r[j].last PROVE j = i - 1
    <3>1. j + 1 = i
      BY <1>3, <2>1, <2>3
    <3> QED
      BY <3>1
  <2> QED
    BY <1>3, <2>1, <2>2, <2>3 DEF OneLast
<1>7. n = 1 => r = <<>>
  BY <1>2, EmptySeq DEF r
<1> QED
  BY <1>1, <1>2, <1>3, <1>4, <1>5, <1>6, <1>7 DEF r, w

(* The io record without the first write of c towards s.                   *)
WithoutWrite(c, s) == [io EXCEPT !.writes = [io.writes EXCEPT ![c][s] = Tail(io.writes[c][s])]]

LEMMA WithoutWriteIs ==
  ASSUME NEW c \in Conns, NEW s \in Sides, TypesInv, Settled(io, c), io.writes[c][Other(s)] # <<>>
  PROVE  LET a == WithoutWrite(c, Other(s))
             w == Head(io.writes[c][Other(s)])
         IN /\ a \in IoType /\ w \in WriteType /\ Completed(a) = Completed(io) /\ Running(io, c)
            /\ a.done = io.done /\ a.queue = io.queue
            /\ a.delivered = io.delivered /\ a.reading = io.reading /\ a.taken = io.taken /\ a.open = io.open
            /\ a.fresh = io.fresh /\ a.connecting = io.connecting /\ a.accepting = io.accepting
            /\ a.writes = [io.writes EXCEPT ![c][Other(s)] = Tail(io.writes[c][Other(s)])]
            /\ Settled(a, c) /\ Running(a, c) /\ SameDir(io, a, c, Other(s)) /\ Others(c, io, a)
            /\ OneTask(io, c, s) => IF w.last THEN NoTask(a, c, s) ELSE OneTask(a, c, s)
            /\ \A p : EndsInv(io, p, c, s) => EndsInv(a, p, c, s) /\ (w.last => p[s].ended # "no")
            /\ \A p, buf : BytesInv(io, p, c, s, buf) => BytesInv(a, p, c, s, buf) /\ w.bytes \in BytesFrom(s)
            /\ \A buf : FlowInv(io, c, s, buf) =>
                 ~w.last /\ NotWriting(a, c, Other(s)) /\ Continues(a, c, s, w.bytes)
            /\ InOrder(io, c, Other(s)) => InOrder(a, c, Other(s))
<1> DEFINE t == Other(s)
           q == io.writes[c][t]
           a == WithoutWrite(c, t)
           w == Head(q)
<1>1. /\ io \in IoType /\ t \in Sides /\ t # s /\ Other(t) = s /\ q \in Seq(WriteType) /\ q # <<>>
  BY OtherIs DEF TypesInv, IoType
<1>2. /\ w \in WriteType /\ Tail(q) \in Seq(WriteType) /\ 1 \in DOMAIN q /\ w = q[1]
      /\ \A i \in DOMAIN Tail(q) : i + 1 \in DOMAIN q /\ Tail(q)[i] = q[i + 1]
      /\ NoneLast(q) => ~w.last /\ NoneLast(Tail(q))
      /\ OneLast(q) /\ w.last => NoneLast(Tail(q))
      /\ OneLast(q) /\ ~w.last => OneLast(Tail(q))
      /\ Len(q) = 1 => Tail(q) = <<>>
  <2> HIDE DEF q
  <2> QED
    BY <1>1, TailLast
<1> DEFINE ws == [io.writes EXCEPT ![c][t] = Tail(q)]
<1>3. /\ ws \in [Conns -> [Sides -> Seq(WriteType)]] /\ ws[c][t] = Tail(q) /\ ws[c][s] = io.writes[c][s]
      /\ \A k \in Conns \ {c} : ws[k] = io.writes[k]
  BY <1>1, <1>2 DEF IoType
<1>4. a = [io EXCEPT !.writes = ws]
  BY DEF WithoutWrite
<1> HIDE DEF ws
<1>5. /\ a \in IoType /\ a.writes = ws /\ a.done = io.done /\ a.queue = io.queue
      /\ a.delivered = io.delivered /\ a.reading = io.reading /\ a.taken = io.taken /\ a.open = io.open
      /\ a.fresh = io.fresh /\ a.connecting = io.connecting /\ a.accepting = io.accepting
  BY <1>1, <1>3, <1>4 DEF IoType
<1> HIDE DEF a
<1>6. Completed(a) = Completed(io) /\ Pending(a) = Pending(io)
  BY <1>5 DEF Completed, Pending
<1>7. <<c, t>> \in io.open /\ Running(io, c)
  BY <1>1, SettledIs DEF Settled
<1>8. Settled(a, c) /\ Running(a, c)
  <2>1. \A u \in Sides : <<c, u>> \in io.open
    BY <1>7, SettledIs
  <2> QED
    BY <1>5, <1>6, <1>7, <2>1, SettledKept
<1>9. SameDir(io, a, c, t) /\ Others(c, io, a)
  BY <1>1, <1>3, <1>5, <1>6 DEF SameDir, Others, OthersPending, OthersSockets
<1>10. OneTask(io, c, s) => IF w.last THEN NoTask(a, c, s) ELSE OneTask(a, c, s)
  <2> HIDE DEF w
  <2> QED
    BY <1>2, <1>3, <1>5, <1>6 DEF OneTask, NoTask, NonePending, IsPending
<1>0. a.writes[c][t] = Tail(q)
  BY <1>3, <1>5
<1>11. ASSUME NEW p, EndsInv(io, p, c, s) PROVE EndsInv(a, p, c, s) /\ (w.last => p[s].ended # "no")
  <2>1. \A i \in DOMAIN q : q[i].last => p[s].ended # "no"
    BY <1>11 DEF EndsInv
  <2>2. \A i \in DOMAIN a.writes[c][t] : a.writes[c][t][i].last => p[s].ended # "no"
    <3> HIDE DEF w, q
    <3> QED
      BY <1>2, <1>0, <2>1
  <2>3. EndsInv(a, p, c, s)
    BY <1>5, <1>6, <1>11, <2>2 DEF EndsInv
  <2> HIDE DEF w
  <2> QED
    BY <1>2, <2>1, <2>3
<1>12. ASSUME NEW p, NEW buf, BytesInv(io, p, c, s, buf)
       PROVE  BytesInv(a, p, c, s, buf) /\ w.bytes \in BytesFrom(s)
  <2>1. \A i \in DOMAIN q : q[i].bytes \in BytesFrom(s)
    BY <1>12 DEF BytesInv
  <2>2. \A i \in DOMAIN a.writes[c][t] : a.writes[c][t][i].bytes \in BytesFrom(s)
    <3> HIDE DEF w, q
    <3> QED
      BY <1>2, <1>0, <2>1
  <2>3. BytesInv(a, p, c, s, buf)
    BY <1>5, <1>6, <1>12, <2>2 DEF BytesInv
  <2> HIDE DEF w
  <2> QED
    BY <1>2, <2>1, <2>3
<1>13. ASSUME NEW buf, FlowInv(io, c, s, buf)
       PROVE  ~w.last /\ NotWriting(a, c, t) /\ Continues(a, c, s, w.bytes)
  <2> HIDE DEF w
  <2>1. Len(q) = 1 /\ NonePending(io, Writes(c, t)) /\ ~w.last /\ Continues(io, c, s, w.bytes)
    BY <1>1, <1>2, <1>13 DEF FlowInv
  <2>2. a.writes[c][t] = <<>>
    BY <1>2, <1>3, <1>5, <2>1
  <2>3. Continues(a, c, s, w.bytes)
    BY <1>5, <1>6, <2>1 DEF NonePending, Continues, HandledTo
  <2> QED
    BY <1>6, <2>1, <2>2, <2>3 DEF NotWriting, NonePending
<1>14. InOrder(io, c, t) => InOrder(a, c, t)
  BY <1>5 DEF InOrder
<1>15. a.writes = [io.writes EXCEPT ![c][t] = Tail(q)]
  BY <1>5 DEF ws
<1> QED
  BY <1>2, <1>5, <1>6, <1>7, <1>8, <1>9, <1>10, <1>11, <1>12, <1>13, <1>14, <1>15 DEF a

LEMMA AppendConcat ==
  ASSUME NEW T, NEW q \in Seq(T), NEW d \in Seq(T), NEW e \in T
  PROVE  q \o Append(d, e) = Append(q \o d, e)
<1>0. <<e>> \in Seq(T)
  OBVIOUS
<1>1. PICK r \in Seq(T) : r = <<e>>
  BY <1>0
<1>2. Append(d, e) = d \o r /\ q \o d \in Seq(T)
  BY <1>1, AppendIsConcat, ConcatProperties
<1>3. Append(q \o d, e) = (q \o d) \o r
  BY <1>1, <1>2, AppendIsConcat
<1>4. (q \o d) \o r = q \o (d \o r)
  BY ConcatAssociative
<1> QED
  BY <1>2, <1>3, <1>4

LEMMA DoneIs ==
  ASSUME NEW a \in IoType, NEW b \in IoType, NEW e \in CompletionType,
         b.queue = a.queue, b.done = Append(a.done, e)
  PROVE  Posts(a, b, e) /\ OthersPending(e.c, a, b)
<1>1. /\ a.queue \in Seq(CompletionType) /\ a.done \in Seq(CompletionType)
      /\ Completed(a) \in Seq(CompletionType)
  BY QueueType DEF IoType
<1>2. Completed(b) = Append(Completed(a), e)
  <2>1. PICK q \in Seq(CompletionType), d \in Seq(CompletionType) : q = a.queue /\ d = a.done
    BY <1>1
  <2>2. q \o Append(d, e) = Append(q \o d, e)
    BY AppendConcat
  <2> QED
    BY <2>1, <2>2 DEF Completed
<1>3. Posts(a, b, e)
  BY <1>1, <1>2, AppendKeeps DEF Posts, Pending
<1> QED
  BY <1>3 DEF Posts, OthersPending

(* What PerformWrite does, step by step: a is without the write w, d has   *)
(* the bytes delivered, e tells of it.                                     *)
WritePerformed(c, s, w, a, d, e, b) ==
  /\ w = Head(io.writes[c][s]) /\ a = WithoutWrite(c, s)
  /\ d = Written(io, c, s, w) /\ e = WriteResult(io, c, s, w)
  /\ b = [d EXCEPT !.writes = a.writes, !.done = Append(d.done, e)]

LEMMA PerformedWriteIs ==
  ASSUME NEW c \in Conns, NEW s \in Sides, TypesInv, Settled(io, c), io.writes[c][Other(s)] # <<>>,
         CanWrite(io, c, Other(s)), NEW w, NEW a, NEW d, NEW e, NEW b,
         WritePerformed(c, Other(s), w, a, d, e, b)
  PROVE  /\ b \in IoType /\ b.queue = io.queue /\ Others(c, io, b)
         /\ WriteStep(a, b, c, Other(s), w.bytes, w.last)
<1> DEFINE t == Other(s)
<1>0. /\ w = Head(io.writes[c][t]) /\ a = WithoutWrite(c, t)
      /\ d = Written(io, c, t, w) /\ e = WriteResult(io, c, t, w)
  BY DEF WritePerformed
<1>1. /\ io \in IoType /\ peer \in PeerType /\ t \in Sides /\ w \in WriteType
      /\ a \in IoType /\ Completed(a) = Completed(io) /\ Running(io, c)
      /\ a.done = io.done /\ a.queue = io.queue
      /\ a.delivered = io.delivered /\ a.reading = io.reading /\ a.taken = io.taken /\ a.open = io.open
      /\ a.fresh = io.fresh /\ a.connecting = io.connecting /\ a.accepting = io.accepting
      /\ Others(c, io, a)
  BY <1>0, WithoutWriteIs, OtherIs DEF TypesInv
<1>2. /\ e \in Writes(c, t) /\ e.last = w.last /\ WriteFits(io, d, c, t, w.bytes, e)
      /\ d \in IoType /\ d = [io EXCEPT !.delivered = d.delivered] /\ OthersSockets(c, io, d)
  BY <1>0, <1>1, WriteResultIs
<1>3. e \in CompletionType /\ e.c = c
  BY <1>2 DEF Writes, Of
<1>4. b = [d EXCEPT !.writes = a.writes, !.done = Append(d.done, e)]
  BY DEF WritePerformed
<1>5. /\ b \in IoType /\ b.queue = a.queue /\ b.done = Append(a.done, e)
      /\ b.writes = a.writes /\ b.delivered = d.delivered
      /\ WriteKeeps(a, b)
  <2>1. /\ d.queue = io.queue /\ d.done = io.done /\ d.accepting = io.accepting /\ d.fresh = io.fresh
        /\ d.connecting = io.connecting /\ d.open = io.open /\ d.reading = io.reading /\ d.taken = io.taken
    BY <1>1, <1>2 DEF IoType
  <2>2. Append(d.done, e) \in Seq(CompletionType) /\ a.writes \in [Conns -> [Sides -> Seq(WriteType)]]
    <3>1. d.done \in Seq(CompletionType) /\ a.writes \in [Conns -> [Sides -> Seq(WriteType)]]
      BY <1>1, <1>2 DEF IoType
    <3> QED
      BY <1>3, <3>1
  <2>3. /\ b \in IoType /\ b.queue = d.queue /\ b.done = Append(d.done, e)
        /\ b.writes = a.writes /\ b.delivered = d.delivered
        /\ b.accepting = d.accepting /\ b.fresh = d.fresh
        /\ b.connecting = d.connecting /\ b.open = d.open /\ b.reading = d.reading /\ b.taken = d.taken
    BY <1>2, <1>4, <2>2 DEF IoType
  <2> QED
    BY <1>1, <2>1, <2>3 DEF WriteKeeps
<1>6. Posts(a, b, e) /\ OthersPending(c, a, b)
  BY <1>1, <1>3, <1>5, DoneIs
<1>7. <<c, t>> \in a.open
  BY <1>1, SettledIs
<1>8. WriteFits(a, b, c, t, w.bytes, e)
  <2>1. a.delivered = io.delivered /\ b.delivered = d.delivered
    BY <1>1, <1>5
  <2> QED
    BY <1>2, <2>1 DEF WriteFits
<1>9. WriteStep(a, b, c, t, w.bytes, w.last)
  BY <1>2, <1>3, <1>5, <1>6, <1>7, <1>8 DEF WriteStep, WriteCompletes
<1>10. OthersSockets(c, a, b)
  <2>1. \A k \in Conns \ {c} : \A u \in Sides : d.delivered[k][u] = io.delivered[k][u]
    BY <1>2 DEF OthersSockets
  <2> QED
    BY <1>1, <1>5, <2>1 DEF OthersSockets, WriteKeeps
<1>11. Others(c, io, b)
  <2>1. Others(c, a, b)
    BY <1>6, <1>10 DEF Others
  <2> QED
    BY <1>1, <2>1, OthersTransitive
<1> QED
  BY <1>1, <1>5, <1>9, <1>11

LEMMA PerformWriteKeeps ==
  ASSUME IInv, NEW c \in Conns, NEW s \in Sides, PerformWrite(c, Other(s))
  PROVE  IInv'
<1> DEFINE t == Other(s)
           p == peer[c]
           ov == Overlaps(c)
           has == c \in DOMAIN clients_
           a == WithoutWrite(c, t)
           b == io'
<1>1. /\ TypesInv /\ Performing(io) /\ Handling(c, t, "ready") /\ io \in IoType /\ peer \in PeerType
      /\ t \in Sides /\ t # s /\ Other(t) = s
      /\ io.queue # <<>> /\ io.queue[1].handler = "ready"
      /\ io.writes[c][t] # <<>> /\ CanWrite(io, c, t) /\ UNCHANGED <<clients_, peer, overlapped>>
  BY OtherIs DEF IInv, TypesInv, Handling, PerformWrite, Calls
<1>2. PICK w : /\ w = Head(io.writes[c][t])
               /\ io' = [Written(io, c, t, w) EXCEPT
                          !.writes[c][t] = Tail(@), !.done = Append(@, WriteResult(io, c, t, w))]
  BY DEF PerformWrite
<1>3. Settled(io, c)
  BY <1>1, HandlingIs
<1>4. /\ b \in IoType /\ b.queue = io.queue /\ Others(c, io, b)
      /\ WriteStep(a, b, c, t, w.bytes, w.last)
  <2> DEFINE d == Written(io, c, t, w)
             e == WriteResult(io, c, t, w)
  <2>1. d \in IoType /\ d.writes = io.writes
    <3>1. w \in WriteType
      BY <1>1, <1>2, <1>3, WithoutWriteIs
    <3>2. d \in IoType /\ d = [io EXCEPT !.delivered = d.delivered]
      BY <1>1, <3>1, WriteResultIs
    <3> HIDE DEF d
    <3> QED
      BY <1>1, <3>2 DEF IoType
  <2>2. a.writes = [io.writes EXCEPT ![c][t] = Tail(io.writes[c][t])]
    BY <1>1, <1>3, WithoutWriteIs
  <2>3. b = [d EXCEPT !.writes = [io.writes EXCEPT ![c][t] = Tail(io.writes[c][t])],
                      !.done = Append(d.done, e)]
    BY <1>2, <2>1
  <2>4. WritePerformed(c, t, w, a, d, e, b)
    BY <1>2, <2>2, <2>3 DEF WritePerformed
  <2> HIDE DEF a, b, d, e
  <2> QED
    BY <1>1, <1>3, <2>4, PerformedWriteIs
<1>5. /\ w \in WriteType /\ a \in IoType /\ Running(io, c) /\ a.open = io.open
      /\ Settled(a, c) /\ Running(a, c) /\ SameDir(io, a, c, t)
      /\ OneTask(io, c, s) => IF w.last THEN NoTask(a, c, s) ELSE OneTask(a, c, s)
      /\ EndsInv(io, p, c, s) => EndsInv(a, p, c, s) /\ (w.last => p[s].ended # "no")
      /\ \A buf : BytesInv(io, p, c, s, buf) => BytesInv(a, p, c, s, buf) /\ w.bytes \in BytesFrom(s)
      /\ \A buf : FlowInv(io, c, s, buf) =>
           ~w.last /\ NotWriting(a, c, t) /\ Continues(a, c, s, w.bytes)
      /\ InOrder(io, c, t) => InOrder(a, c, t)
  <2>1. /\ c \in Conns /\ s \in Sides /\ TypesInv /\ Settled(io, c) /\ io.writes[c][Other(s)] # <<>>
        /\ w = Head(io.writes[c][Other(s)])
    BY <1>1, <1>2, <1>3
  <2> HIDE DEF p
  <2> QED
    BY <2>1, WithoutWriteIs
<1>6. PICK bytes \in Seq(Nat), last \in BOOLEAN : bytes = w.bytes /\ last = w.last
  BY <1>5 DEF WriteType
<1>7. WriteStep(a, b, c, t, bytes, last)
  BY <1>4, <1>6
<1> HIDE DEF a, b
<1>8. /\ Settled(b, c) /\ Running(b, c) /\ SameDir(io, b, c, t)
  BY <1>1, <1>5, <1>7, SettledWrite, WriteStepOtherDir, SameDirTransitive
<1>9. \A u \in Sides : DirInv(io, p, c, u, ov, Entry(c))
  BY <1>1 DEF Handling, ClientInv, ConnInv
<1>10. OneTask(io, c, s) /\ EndsInv(io, p, c, s) /\ BytesInv(io, p, c, s, Entry(c)[s])
  BY <1>5, <1>9 DEF DirInv
<1>11. DirInv(b, p, c, t, ov, Entry(c))
  BY <1>1, <1>5, <1>8, <1>9, OtherDirKept
<1>12. OneTask(b, c, s)
  <2>1. IF last THEN NoTask(a, c, s) ELSE OneTask(a, c, s)
    BY <1>5, <1>6, <1>10
  <2> QED
    BY <1>5, <1>7, <2>1, WriteStepTask
<1>13. <<c, t>> \in a.open
  BY <1>1, <1>5, SettledIs
<1>14. EndsInv(b, p, c, s)
  <2>1. EndsInv(a, peer[c], c, s) /\ (last => peer[c][s].ended # "no")
    BY <1>5, <1>6, <1>10
  <2> QED
    BY <1>5, <1>7, <1>13, <2>1, WriteStepEnds
<1>15. BytesInv(b, p, c, s, Entry(c)[s])
  <2>1. PICK buf : buf = Entry(c)[s]
    OBVIOUS
  <2>2. BytesInv(a, peer[c], c, s, buf) /\ bytes \in BytesFrom(s)
    BY <1>5, <1>6, <1>10, <2>1
  <2>3. BytesInv(b, peer[c], c, s, buf)
    BY <1>1, <1>5, <1>7, <2>2, WriteStepBytes
  <2> QED
    BY <2>1, <2>3
<1>16. ASSUME s \notin ov PROVE FlowInv(b, c, s, Entry(c)[s]) /\ InOrder(b, c, t)
  <2>1. FlowInv(io, c, s, Entry(c)[s]) /\ InOrder(io, c, t)
    BY <1>5, <1>9, <1>16 DEF DirInv
  <2>2. ~last /\ NotWriting(a, c, Other(s)) /\ Continues(a, c, s, bytes) /\ InOrder(a, c, Other(s))
    BY <1>5, <1>6, <2>1
  <2> QED
    BY <1>5, <1>7, <1>13, <2>2, WriteStepFlow
<1>17. DirInv(b, p, c, s, ov, Entry(c))
  BY <1>12, <1>14, <1>15, <1>16 DEF DirInv
<1>18. PhaseInv(b, c) /\ StartInv(b, p, c, Entry(c), has) /\ ClosedInv(b, p, c, ov, has)
  BY <1>8, SettledIs DEF ClosedInv
<1>19. ConnInv(b, p, c, ov, Entry(c), has)
  BY <1>1, <1>11, <1>17, <1>18 DEF ConnInv, Sides
<1>20. b \in IoType /\ Performing(b) /\ Others(c, io, b)
  BY <1>1, <1>4 DEF Performing
<1> QED
  BY <1>1, <1>19, <1>20, IoStepIs DEF b

-----------------------------------------------------------------------------
(* PerformRead: the read that waited is tried, and the handlers called.    *)

LEMMA SameConn ==
  ASSUME NEW a, NEW b, NEW c \in Conns, Settled(a, c), Settled(b, c), Running(b, c) <=> Running(a, c),
         \A s \in Sides : SameDir(a, b, c, s), Pending(a) \subseteq CompletionType,
         NEW p, NEW ov, NEW buf, NEW has, ConnInv(a, p, c, ov, buf, has)
  PROVE  ConnInv(b, p, c, ov, buf, has)
<1>1. \A s \in Sides : DirInv(b, p, c, s, ov, buf)
  <2>1. ASSUME NEW s \in Sides PROVE DirInv(b, p, c, s, ov, buf)
    <3>1. DirInv(a, p, c, s, ov, buf) /\ SameDir(a, b, c, s)
      BY DEF ConnInv
    <3> QED
      BY <3>1, OtherDirKept
  <2> QED
    BY <2>1
<1>2. ASSUME Closed(b, c) PROVE ClosedInv(b, p, c, ov, has)
  <2>1. Closed(a, c) /\ ClosedInv(a, p, c, ov, has)
    BY <1>2, SettledIs DEF ConnInv
  <2>2. \A s \in Sides : \A e \in Dir(c, s) : e \in Pending(a) <=> e \in Pending(b)
    BY DEF SameDir
  <2>3. ASSUME NEW s \in Sides, s \notin ov, NEW e \in Pending(b), e \in Writes(c, Other(s))
        PROVE  Erasing(e) \/ IsPending(b, Reads(c, s))
    <3>1. e \in Pending(a)
      BY <2>2, <2>3, DirsApart
    <3>2. Erasing(e) \/ IsPending(a, Reads(c, s))
      BY <2>1, <2>3, <3>1 DEF ClosedInv
    <3> QED
      BY <2>2, <3>2, DirsApart DEF IsPending
  <2>4. ASSUME ov = {}, has PROVE \E e \in Pending(b) : e \in Of(c) /\ Erasing(e)
    <3>1. PICK e \in Pending(a) : e \in Of(c) /\ Erasing(e)
      BY <2>1, <2>4 DEF ClosedInv
    <3>2. e.s \in Sides /\ e.handler \in {"recv", "send", "more"}
      BY <3>1 DEF Of, CompletionType, Erasing
    <3>3. \E s \in Sides : e \in Dir(c, s)
      BY <3>1, <3>2, OtherIs DEF Dir, Reads, Writes
    <3> QED
      BY <2>2, <3>1, <3>3
  <2>5. \A s \in Sides : b.delivered[c][s] = a.delivered[c][s]
    BY OtherIs DEF SameDir
  <2>6. b.delivered[c]["client"] = a.delivered[c]["client"]
    BY <2>5 DEF Sides
  <2> QED
    BY <2>1, <2>3, <2>4, <2>6 DEF ClosedInv
<1>3. ClosedInv(b, p, c, ov, has)
  BY <1>2 DEF ClosedInv
<1> QED
  BY <1>1, <1>3, SettledIs DEF ConnInv

(* The steps of the read, as those of the write.                           *)
WithoutRead(c, s) == [io EXCEPT !.reading = io.reading \ {<<c, s>>}]

ReadPerformed(c, s, a, d, e, b) ==
  /\ a = WithoutRead(c, s) /\ d = Taken(io, c, s) /\ e = ReadResult(io, c, s)
  /\ b = [d EXCEPT !.reading = a.reading, !.done = Append(d.done, e)]

LEMMA PerformedReadIs ==
  ASSUME NEW c \in Conns, NEW s \in Sides, TypesInv, Settled(io, c), <<c, s>> \in io.reading, CanRead(io, c, s),
         io.taken[c][s] <= peer[c][s].sent, NEW a, NEW d, NEW e, NEW b, ReadPerformed(c, s, a, d, e, b)
  PROVE  /\ a \in IoType /\ Completed(a) = Completed(io) /\ <<c, s>> \in a.open
         /\ a.fresh = io.fresh /\ a.connecting = io.connecting /\ a.open = io.open
         /\ a.reading = io.reading \ {<<c, s>>}
         /\ a.writes = io.writes /\ a.taken = io.taken /\ a.delivered = io.delivered
         /\ b \in IoType /\ b.queue = io.queue /\ b.done # <<>> /\ Others(c, io, b) /\ ReadStep(a, b, c, s)
<1>0. /\ a = WithoutRead(c, s) /\ d = Taken(io, c, s) /\ e = ReadResult(io, c, s)
  BY DEF ReadPerformed
<1>1. io \in IoType /\ peer \in PeerType
  BY DEF TypesInv
<1>2. /\ a \in IoType /\ a.done = io.done /\ a.queue = io.queue
      /\ a.fresh = io.fresh /\ a.connecting = io.connecting /\ a.accepting = io.accepting /\ a.open = io.open
      /\ a.reading = io.reading \ {<<c, s>>}
      /\ a.writes = io.writes /\ a.taken = io.taken /\ a.delivered = io.delivered
  <2>1. a = [io EXCEPT !.reading = io.reading \ {<<c, s>>}]
    BY <1>0 DEF WithoutRead
  <2> QED
    BY <1>1, <2>1 DEF IoType
<1>3. /\ e \in Reads(c, s) /\ ReadFits(io, c, s, e) /\ ~e.last
      /\ d = [io EXCEPT !.taken = [@ EXCEPT ![c][s] = io.taken[c][s] + Len(e.bytes)]]
  BY <1>0, <1>1, ReadResultIs
<1>4. e \in CompletionType /\ e.c = c /\ Len(e.bytes) \in Nat
  BY <1>3, LenProperties DEF Reads, Of, CompletionType
<1>5. <<c, s>> \in io.open
  BY DEF Settled
<1>6. /\ d \in IoType /\ d.queue = io.queue /\ d.done = io.done /\ d.accepting = io.accepting
      /\ d.fresh = io.fresh /\ d.connecting = io.connecting /\ d.open = io.open
      /\ d.reading = io.reading /\ d.writes = io.writes /\ d.delivered = io.delivered
      /\ d.taken = [io.taken EXCEPT ![c][s] = io.taken[c][s] + Len(e.bytes)]
  <2>1. io.taken[c][s] + Len(e.bytes) \in Nat
    BY <1>1, <1>4 DEF IoType
  <2> QED
    BY <1>1, <1>3, <2>1 DEF IoType
<1>7. b = [d EXCEPT !.reading = a.reading, !.done = Append(d.done, e)]
  BY DEF ReadPerformed
<1>8. /\ b \in IoType /\ b.queue = a.queue /\ b.done = Append(a.done, e) /\ b.reading = a.reading
      /\ b.taken = d.taken /\ ReadKeeps(a, b)
  <2>1. Append(d.done, e) \in Seq(CompletionType) /\ a.reading \in SUBSET (Conns \X Sides)
    <3>1. d.done \in Seq(CompletionType) /\ a.reading \in SUBSET (Conns \X Sides)
      BY <1>2, <1>6 DEF IoType
    <3> QED
      BY <1>4, <3>1
  <2>2. /\ b \in IoType /\ b.queue = d.queue /\ b.done = Append(d.done, e) /\ b.reading = a.reading
        /\ b.writes = d.writes /\ b.delivered = d.delivered
        /\ b.accepting = d.accepting /\ b.fresh = d.fresh
        /\ b.connecting = d.connecting /\ b.open = d.open /\ b.taken = d.taken
    BY <1>6, <1>7, <2>1 DEF IoType
  <2> QED
    BY <1>2, <1>6, <2>2 DEF ReadKeeps
<1>9. Posts(a, b, e) /\ OthersPending(c, a, b)
  BY <1>2, <1>4, <1>8, DoneIs
<1>10. ReadStep(a, b, c, s)
  <2>1. ReadFits(a, c, s, e)
    BY <1>2, <1>3 DEF ReadFits
  <2>2. b.taken = [a.taken EXCEPT ![c][s] = @ + Len(e.bytes)]
    BY <1>2, <1>6, <1>8
  <2> QED
    BY <1>2, <1>3, <1>4, <1>5, <1>8, <1>9, <2>1, <2>2 DEF ReadStep, ReadCompletes
<1>11. Others(c, io, b)
  <2>1. Completed(a) = Completed(io)
    BY <1>2 DEF Completed
  <2>2. OthersPending(c, io, b)
    BY <1>9, <2>1 DEF OthersPending, Pending
  <2>3. OthersSockets(c, io, b)
    <3>1. \A k \in Conns \ {c} : b.taken[k] = io.taken[k]
      BY <1>1, <1>6, <1>8 DEF IoType
    <3> QED
      BY <1>2, <1>6, <1>8, <3>1 DEF OthersSockets, ReadKeeps
  <2> QED
    BY <2>2, <2>3 DEF Others
<1>12. b.done # <<>>
  <2>1. a.done \in Seq(CompletionType)
    BY <1>2 DEF IoType
  <2> QED
    BY <1>4, <1>8, <2>1, AppendProperties
<1> QED
  BY <1>2, <1>5, <1>8, <1>10, <1>11, <1>12 DEF Completed

LEMMA WithoutReadIs ==
  ASSUME NEW a, NEW c \in Conns, NEW s \in Sides, <<c, s>> \in io.reading,
         Completed(a) = Completed(io), a.open = io.open,
         a.reading = io.reading \ {<<c, s>>}, a.writes = io.writes, a.taken = io.taken, a.delivered = io.delivered
  PROVE  /\ SameDir(io, a, c, Other(s))
         /\ OneTask(io, c, s) => NoTask(a, c, s)
         /\ \A p : EndsInv(io, p, c, s) => EndsInv(a, p, c, s)
         /\ \A p, buf : BytesInv(io, p, c, s, buf) => BytesInv(a, p, c, s, buf)
         /\ \A buf : FlowInv(io, c, s, buf) => FlowInv(a, c, s, buf)
         /\ InOrder(io, c, Other(s)) => InOrder(a, c, Other(s))
<1>1. Pending(a) = Pending(io)
  BY DEF Pending
<1>2. SameDir(io, a, c, Other(s))
  BY <1>1, OtherIs DEF SameDir
<1>3. OneTask(io, c, s) => NoTask(a, c, s)
  BY <1>1 DEF OneTask, NoTask, NonePending
<1>4. \A p : EndsInv(io, p, c, s) => EndsInv(a, p, c, s)
  BY <1>1 DEF EndsInv
<1>5. \A p, buf : BytesInv(io, p, c, s, buf) => BytesInv(a, p, c, s, buf)
  BY <1>1 DEF BytesInv
<1>6. \A bytes : Continues(io, c, s, bytes) => Continues(a, c, s, bytes)
  BY <1>1 DEF Continues, HandledTo, NonePending
<1>7. \A buf : FlowInv(io, c, s, buf) => FlowInv(a, c, s, buf)
  BY <1>1, <1>6 DEF FlowInv, NonePending, NotWriting
<1> QED
  BY <1>2, <1>3, <1>4, <1>5, <1>7 DEF InOrder

LEMMA PerformedReadConn ==
  ASSUME NEW c, NEW s, Handling(c, s, "ready"), <<c, s>> \in io.reading, CanRead(io, c, s),
         NEW a, NEW d, NEW e, NEW b, ReadPerformed(c, s, a, d, e, b)
  PROVE  /\ ConnInv(b, peer[c], c, Overlaps(c), Entry(c), c \in DOMAIN clients_)
         /\ b \in IoType /\ b.queue = io.queue /\ b.done # <<>> /\ Others(c, io, b)
         /\ Settled(b, c)
<1> DEFINE t == Other(s)
           p == peer[c]
           ov == Overlaps(c)
           has == c \in DOMAIN clients_
<1>1. /\ c \in Conns /\ s \in Sides /\ t \in Sides /\ t # s /\ Other(t) = s /\ TypesInv /\ Settled(io, c)
      /\ peer \in PeerType
      /\ \A u \in Sides : DirInv(io, p, c, u, ov, Entry(c))
  BY HandlingIs, OtherIs DEF Handling, TypesInv, ClientInv, ConnInv
<1>2. /\ BytesInv(io, p, c, s, Entry(c)[s]) /\ (s \notin ov => InOrder(io, c, t))
      /\ io.taken[c][s] <= peer[c][s].sent
  BY <1>1 DEF DirInv, BytesInv
<1>3. /\ a \in IoType /\ Completed(a) = Completed(io) /\ <<c, s>> \in a.open
      /\ a.fresh = io.fresh /\ a.connecting = io.connecting /\ a.open = io.open
      /\ a.reading = io.reading \ {<<c, s>>}
      /\ a.writes = io.writes /\ a.taken = io.taken /\ a.delivered = io.delivered
      /\ b \in IoType /\ b.queue = io.queue /\ b.done # <<>> /\ Others(c, io, b) /\ ReadStep(a, b, c, s)
  BY <1>1, <1>2, PerformedReadIs
<1>4. Running(io, c)
  BY <1>1, <1>3, SettledIs
<1>5. OneTask(io, c, s) /\ EndsInv(io, p, c, s) /\ (s \notin ov => FlowInv(io, c, s, Entry(c)[s]))
  BY <1>1, <1>4 DEF DirInv
<1>6. /\ SameDir(io, a, c, t)
      /\ OneTask(io, c, s) => NoTask(a, c, s)
      /\ \A q : EndsInv(io, q, c, s) => EndsInv(a, q, c, s)
      /\ \A q, buf : BytesInv(io, q, c, s, buf) => BytesInv(a, q, c, s, buf)
      /\ \A buf : FlowInv(io, c, s, buf) => FlowInv(a, c, s, buf)
      /\ InOrder(io, c, t) => InOrder(a, c, t)
  BY <1>1, <1>3, WithoutReadIs
<1>7. Settled(a, c) /\ Running(a, c)
  <2>1. /\ \A e2 \in Pending(a) : e2 \in Pending(io) \/ e2.handler \notin {"accept", "connect"}
        /\ \A u \in Sides : <<c, u>> \notin io.open => <<c, u>> \notin a.reading /\ a.writes[c][u] = <<>>
    BY <1>1, <1>3 DEF Settled, Pending
  <2> QED
    BY <1>1, <1>3, <1>4, <2>1, SettledKept
<1>8. Settled(b, c) /\ Running(b, c) /\ SameDir(io, b, c, t)
  BY <1>1, <1>3, <1>6, <1>7, SettledRead, ReadStepOtherDir, SameDirTransitive
<1>9. DirInv(b, p, c, t, ov, Entry(c))
  BY <1>1, <1>4, <1>8, OtherDirKept
<1>10. DirInv(b, p, c, s, ov, Entry(c))
  <2>1. PICK buf : buf = Entry(c)[s]
    OBVIOUS
  <2>2. /\ NoTask(a, c, s) /\ EndsInv(a, peer[c], c, s) /\ BytesInv(a, peer[c], c, s, buf)
        /\ s \notin ov => FlowInv(a, c, s, buf) /\ InOrder(a, c, t)
    BY <1>2, <1>5, <1>6, <2>1
  <2>3. OneTask(b, c, s)
    BY <1>1, <1>3, <2>2, ReadStepTask
  <2>4. EndsInv(b, peer[c], c, s)
    BY <1>1, <1>3, <2>2, ReadStepEnds
  <2>5. BytesInv(b, peer[c], c, s, buf)
    BY <1>1, <1>3, <2>2, ReadStepBytes
  <2>6. s \notin ov => FlowInv(b, c, s, buf)
    BY <1>1, <1>3, <2>2, ReadStepFlow
  <2>7. s \notin ov => InOrder(b, c, t)
    BY <1>3, <2>2 DEF ReadStep, ReadKeeps, InOrder
  <2> QED
    BY <2>1, <2>3, <2>4, <2>5, <2>6, <2>7 DEF DirInv
<1>11. PhaseInv(b, c) /\ StartInv(b, p, c, Entry(c), has) /\ ClosedInv(b, p, c, ov, has)
  BY <1>1, <1>8, SettledIs DEF ClosedInv
<1>12. ConnInv(b, p, c, ov, Entry(c), has)
  BY <1>1, <1>9, <1>10, <1>11 DEF ConnInv, Sides
<1> QED
  BY <1>3, <1>8, <1>12

(* The completions that were gathered are moved to the queue.              *)
LEMMA MovedIs ==
  ASSUME NEW a \in IoType, a.queue # <<>>,
         NEW b, b = [a EXCEPT !.done = <<>>,
                              !.queue = IF a.done = <<>> THEN Tail(a.queue)
                                        ELSE <<Head(a.done)>> \o Tail(a.queue) \o Tail(a.done)]
  PROVE  /\ b \in IoType /\ b.done = <<>> /\ Takes(a, b, a.queue[1]) /\ SameSockets(a, b)
         /\ b.fresh = a.fresh /\ b.connecting = a.connecting
         /\ a.queue[1] \in CompletionType /\ OthersPending(a.queue[1].c, a, b)
<1> DEFINE r == IF a.done = <<>> THEN Tail(a.queue)
                ELSE <<Head(a.done)>> \o Tail(a.queue) \o Tail(a.done)
<1>1. a.queue \in Seq(CompletionType) /\ a.done \in Seq(CompletionType)
  BY DEF IoType
<1>2. a.queue[1] \in CompletionType
  BY <1>1, TailKeeps
<1>3. /\ r \in Seq(CompletionType) /\ ToSet(Completed(a)) = ToSet(r) \cup {a.queue[1]}
      /\ \A S : AtMostOne(S, Completed(a)) => AtMostOne(S, r)
      /\ \A S : AtMostOne(S, Completed(a)) /\ a.queue[1] \in S => ToSet(r) \cap S = {}
  <2>1. CASE a.done = <<>>
    <3>1. Completed(a) = a.queue
      BY <2>1, QueueType
    <3>2. r = Tail(a.queue)
      BY <2>1
    <3> HIDE DEF r
    <3> QED
      BY <1>1, <3>1, <3>2, TailKeeps
  <2>2. CASE a.done # <<>>
    <3>1. PICK q \in Seq(CompletionType), d \in Seq(CompletionType) : q = a.queue /\ d = a.done
      BY <1>1
    <3>2. q # <<>> /\ d # <<>>
      BY <2>2, <3>1
    <3>3. LET x == <<Head(d)>> \o Tail(q) \o Tail(d)
          IN /\ x \in Seq(CompletionType) /\ ToSet(q \o d) = ToSet(x) \cup {q[1]}
             /\ \A S : AtMostOne(S, q \o d) => AtMostOne(S, x) /\ (q[1] \in S => ToSet(x) \cap S = {})
      BY <3>2, MoveKeeps
    <3>4. r = <<Head(d)>> \o Tail(q) \o Tail(d) /\ Completed(a) = q \o d
      BY <2>2, <3>1 DEF Completed
    <3> HIDE DEF r
    <3>5. /\ r \in Seq(CompletionType) /\ ToSet(Completed(a)) = ToSet(r) \cup {a.queue[1]}
          /\ \A S : AtMostOne(S, Completed(a)) => AtMostOne(S, r) /\ (a.queue[1] \in S => ToSet(r) \cap S = {})
      BY <3>1, <3>3, <3>4
    <3> QED
      BY <3>5
  <2> QED
    BY <2>1, <2>2
<1> HIDE DEF r
<1>4. b = [a EXCEPT !.done = <<>>, !.queue = r]
  BY DEF r
<1>5. <<>> \in Seq(CompletionType)
  OBVIOUS
<1>6. b \in IoType /\ b.done = <<>> /\ b.queue = r /\ SameSockets(a, b) /\ b.fresh = a.fresh /\ b.connecting = a.connecting
  BY <1>3, <1>4, <1>5 DEF IoType, SameSockets
<1>7. Completed(b) = r
  BY <1>6, QueueType
<1>8. Takes(a, b, a.queue[1])
  BY <1>3, <1>7 DEF Takes, Pending
<1>9. OthersPending(a.queue[1].c, a, b)
  BY <1>8 DEF Takes, OthersPending
<1> QED
  BY <1>2, <1>6, <1>8, <1>9

LEMMA PerformReadKeeps ==
  ASSUME IInv, NEW c \in Conns, NEW s \in Sides, PerformRead(c, s)
  PROVE  IInv'
<1> DEFINE p == peer[c]
           ov == Overlaps(c)
           has == c \in DOMAIN clients_
           reads == <<c, s>> \in io.reading /\ CanRead(io, c, s)
           b == io'
<1>1. /\ Handling(c, s, "ready") /\ io \in IoType /\ UNCHANGED <<clients_, peer, overlapped>>
      /\ io.queue # <<>> /\ io.queue[1] = Called
  BY DEF IInv, TypesInv, Handling, PerformRead, Calls, Called
<1>2. /\ Settled(io, c) /\ Called \in Of(c) /\ Called.handler = "ready"
  BY <1>1, HandlingIs

(* The read is performed, if it can be. *)
<1>3. PICK a : /\ ConnInv(a, p, c, ov, Entry(c), has)
               /\ a \in IoType /\ a.queue = io.queue /\ Others(c, io, a) /\ Settled(a, c)
               /\ b = [a EXCEPT !.done = <<>>,
                                !.queue = IF a.done = <<>> THEN Tail(a.queue)
                                          ELSE <<Head(a.done)>> \o Tail(a.queue) \o Tail(a.done)]
  <2>1. CASE reads
    <3> DEFINE w == WithoutRead(c, s)
               d == Taken(io, c, s)
               e == ReadResult(io, c, s)
               a == [d EXCEPT !.reading = w.reading, !.done = Append(d.done, e)]
    <3>1. ReadPerformed(c, s, w, d, e, a)
      BY DEF ReadPerformed
    <3>2. d.queue = io.queue /\ d.done = io.done /\ w.reading = io.reading \ {<<c, s>>}
      BY <1>1 DEF Taken, WithoutRead, IoType
    <3>3. b = [[d EXCEPT !.reading = @ \ {<<c, s>>}] EXCEPT
                 !.done = <<>>,
                 !.queue = IF Append(io.done, e) = <<>> THEN Tail(@)
                           ELSE <<Head(Append(io.done, e))>> \o Tail(@) \o Tail(Append(io.done, e))]
      BY <2>1 DEF PerformRead
    <3>4. d.reading = io.reading
      BY <1>1 DEF Taken, IoType
    <3> HIDE DEF w, e
    <3>5. a.done = Append(io.done, e) /\ a.queue = io.queue
      BY <1>1, <3>2 DEF Taken, IoType
    <3>6. b = [a EXCEPT !.done = <<>>,
                        !.queue = IF a.done = <<>> THEN Tail(a.queue)
                                  ELSE <<Head(a.done)>> \o Tail(a.queue) \o Tail(a.done)]
      BY <3>2, <3>3, <3>4, <3>5
    <3> HIDE DEF a, b, d
    <3>7. /\ ConnInv(a, p, c, ov, Entry(c), has) /\ a \in IoType /\ a.queue = io.queue
          /\ Others(c, io, a) /\ Settled(a, c)
      BY <1>1, <2>1, <3>1, PerformedReadConn
    <3> QED
      BY <3>6, <3>7
  <2>2. CASE ~reads
    <3>1. b = [io EXCEPT !.done = <<>>,
                         !.queue = IF io.done = <<>> THEN Tail(io.queue)
                                   ELSE <<Head(io.done)>> \o Tail(io.queue) \o Tail(io.done)]
      BY <2>2 DEF PerformRead
    <3>2. ConnInv(io, p, c, ov, Entry(c), has)
      BY <1>1 DEF Handling, ClientInv
    <3>3. Others(c, io, io)
      BY DEF Others, OthersPending, OthersSockets
    <3> HIDE DEF b
    <3> QED
      BY <1>1, <1>2, <3>1, <3>2, <3>3
  <2> QED
    BY <2>1, <2>2
<1> HIDE DEF b

(* What completed is queued. *)
<1>4. /\ b \in IoType /\ b.done = <<>> /\ Takes(a, b, Called) /\ SameSockets(a, b)
      /\ b.fresh = a.fresh /\ b.connecting = a.connecting /\ OthersPending(c, a, b)
  <2>1. /\ a \in IoType /\ a.queue # <<>> /\ a.queue[1] = Called /\ Called.c = c
        /\ b = [a EXCEPT !.done = <<>>,
                         !.queue = IF a.done = <<>> THEN Tail(a.queue)
                                   ELSE <<Head(a.done)>> \o Tail(a.queue) \o Tail(a.done)]
    BY <1>1, <1>2, <1>3 DEF Of
  <2>2. /\ b \in IoType /\ b.done = <<>> /\ Takes(a, b, a.queue[1]) /\ SameSockets(a, b)
        /\ b.fresh = a.fresh /\ b.connecting = a.connecting /\ OthersPending(a.queue[1].c, a, b)
    BY ONLY <2>1, MovedIs
  <2> QED
    BY <2>1, <2>2
<1>5. \A t \in Sides : SameDir(a, b, c, t)
  <2>1. \A t \in Sides : Called \notin Dir(c, t)
    BY <1>2 DEF Dir, Reads, Writes
  <2> QED
    BY <1>4, <2>1, TakeOtherDir
<1>6. Settled(b, c) /\ (Running(b, c) <=> Running(a, c))
  BY <1>3, <1>4, SettledTake
<1>7. Pending(a) \subseteq CompletionType
  BY <1>3, QueueType
<1>8. ConnInv(b, p, c, ov, Entry(c), has)
  BY <1>3, <1>5, <1>6, <1>7, SameConn
<1>9. Others(c, io, b)
  <2>1. Others(c, a, b)
    BY <1>4 DEF Others, OthersSockets, SameSockets
  <2> QED
    BY <1>3, <2>1, OthersTransitive
<1> QED
  BY <1>1, <1>4, <1>8, <1>9, IoStepIs DEF b, Performing

-----------------------------------------------------------------------------
(* The reactor: a completion is put behind the others.                     *)

LEMMA SocketReadyKeeps ==
  ASSUME IInv, NEW c \in Conns, NEW s \in Sides, SocketReady(c, s)
  PROVE  IInv'
<1> DEFINE e == Completion("ready", c, s, "none", <<>>, FALSE)
           b == io'
<1>1. /\ io \in IoType /\ io.done = <<>> /\ UNCHANGED <<clients_, peer, overlapped>>
      /\ <<c, s>> \in io.reading \/ io.writes[c][s] # <<>>
      /\ b = Post(io, e)
      /\ ConnInv(io, peer[c], c, Overlaps(c), Entry(c), c \in DOMAIN clients_)
  BY DEF IInv, TypesInv, ClientInv, SocketReady
<1>2. e \in CompletionType /\ e.handler = "ready" /\ e.c = c
  <2>1. <<>> \in Seq(Nat)
    BY NoBytes
  <2> QED
    BY <2>1 DEF Completion, CompletionType
<1> HIDE DEF e
<1>3. Settled(io, c)
  <2>1. PhaseInv(io, c)
    BY <1>1 DEF ConnInv
  <2>2. ~Starting(io, c)
    BY <1>1, <2>1 DEF PhaseInv, Untouched
  <2> QED
    BY <2>1, <2>2, SettledIs
<1>4. /\ b \in IoType /\ b.done = <<>> /\ Posts(io, b, e) /\ OthersPending(c, io, b)
      /\ b = [io EXCEPT !.queue = Append(io.queue, e)]
  <2>1. Post(io, e) = b
    BY <1>1
  <2> HIDE DEF b
  <2> QED
    BY <1>1, <1>2, <2>1, PostIs
<1> HIDE DEF b
<1>5. SameSockets(io, b) /\ b.fresh = io.fresh /\ b.connecting = io.connecting
  BY <1>1, <1>4 DEF SameSockets, IoType
<1>6. ASSUME NEW t \in Sides PROVE SameDir(io, b, c, t)
  <2>1. e \notin Dir(c, t)
    BY <1>2 DEF Dir, Reads, Writes
  <2> QED
    BY <1>4, <1>5, <2>1 DEF Posts, SameSockets, SameDir
<1>7. Settled(b, c) /\ (Running(b, c) <=> Running(io, c))
  <2>1. /\ \A f \in Pending(b) : f \in Pending(io) \/ f.handler \notin {"accept", "connect"}
        /\ \A t \in Sides : <<c, t>> \notin io.open => <<c, t>> \notin b.reading /\ b.writes[c][t] = <<>>
    BY <1>2, <1>3, <1>4, <1>5 DEF Posts, SameSockets, Settled
  <2> QED
    BY <1>3, <1>5, <2>1, SettledKept DEF SameSockets
<1>8. ConnInv(b, peer[c], c, Overlaps(c), Entry(c), c \in DOMAIN clients_)
  <2>1. Pending(io) \subseteq CompletionType
    BY <1>1, QueueType
  <2> QED
    BY <1>1, <1>3, <1>6, <1>7, <2>1, SameConn
<1>9. Others(c, io, b)
  BY <1>4, <1>5 DEF Others, OthersSockets, SameSockets
<1> QED
  BY <1>1, <1>4, <1>8, <1>9, IoStepIs DEF b, Performing

(* A client that starts has one completion.                                *)
LEMMA FirstPosted ==
  ASSUME NEW a, NEW b, NEW c \in Conns, NEW e \in CompletionType, e.c = c, e.handler \in {"accept", "connect"},
         NonePending(a, Of(c)), Posts(a, b, e), b.reading = a.reading, b.writes = a.writes,
         b.taken = a.taken, b.delivered = a.delivered
  PROVE  /\ AtMostOne(Of(c), Completed(b)) /\ \A f \in Pending(b) : f \in Of(c) <=> f = e
         /\ e \in Pending(b) /\ e \in Starts(c, e.handler)
         /\ Accepting(b, c) <=> e.handler = "accept"
         /\ Connecting(b, c) <=> e.handler = "connect"
         /\ \A s \in Sides : SameDir(a, b, c, s) /\ (Untouched(a, c, s) => Untouched(b, c, s))
<1>1. e \in Of(c) /\ Pending(a) \cap Of(c) = {} /\ Pending(b) = Pending(a) \cup {e}
  BY DEF Of, NonePending, Posts
<1>2. AtMostOne(Of(c), Completed(a))
  <2>1. \A i \in DOMAIN Completed(a) : Completed(a)[i] \notin Of(c)
    BY <1>1 DEF Pending, ToSet
  <2> QED
    BY <2>1 DEF AtMostOne
<1>3. AtMostOne(Of(c), Completed(b))
  BY <1>1, <1>2 DEF Posts
<1>4. \A f \in Pending(b) : f \in Of(c) <=> f = e
  BY <1>1
<1>5. /\ Accepting(b, c) <=> e.handler = "accept"
      /\ Connecting(b, c) <=> e.handler = "connect"
  BY <1>1, <1>4 DEF Accepting, Connecting, IsPending, Starts
<1>6. ASSUME NEW s \in Sides PROVE SameDir(a, b, c, s) /\ (Untouched(a, c, s) => Untouched(b, c, s))
  <2>1. e \notin Dir(c, s)
    BY DEF Dir, Reads, Writes
  <2> QED
    BY <2>1 DEF Posts, SameDir, Untouched
<1> QED
  BY <1>1, <1>3, <1>4, <1>5, <1>6 DEF Starts

LEMMA AcceptReadyKeeps ==
  ASSUME IInv, NEW c \in Conns, AcceptReady(c)
  PROVE  IInv'
<1> DEFINE b == io'
           p == peer[c]
           buf == Entry(c)
           has == c \in DOMAIN clients_
<1>1. PICK err \in {"none", "error"} :
        b = [Post(io, Completion("accept", c, "client", err, <<>>, FALSE)) EXCEPT
               !.accepting = FALSE, !.fresh = @ \ {c}, !.open = @ \cup {<<c, "client">>}]
  BY DEF AcceptReady
<1>2. /\ io \in IoType /\ io.done = <<>> /\ c \in io.fresh /\ UNCHANGED <<clients_, peer, overlapped>>
      /\ ConnInv(io, p, c, Overlaps(c), buf, has)
  BY DEF IInv, TypesInv, ClientInv, AcceptReady
<1> DEFINE e == Completion("accept", c, "client", err, <<>>, FALSE)
           m == Post(io, e)
<1>3. e \in CompletionType /\ e.handler = "accept" /\ e.c = c /\ e.s = "client"
  <2>1. <<>> \in Seq(Nat)
    BY NoBytes
  <2> QED
    BY <2>1 DEF Completion, CompletionType, Sides
<1>4. b = [m EXCEPT !.accepting = FALSE, !.fresh = @ \ {c}, !.open = @ \cup {<<c, "client">>}]
  BY <1>1
<1> HIDE DEF e, b
<1>5. /\ m \in IoType /\ m.done = <<>> /\ Posts(io, m, e) /\ OthersPending(c, io, m)
      /\ m = [io EXCEPT !.queue = Append(io.queue, e)]
  BY <1>2, <1>3, PostIs
<1> HIDE DEF m
<1>6. /\ m.fresh = io.fresh /\ m.open = io.open /\ m.connecting = io.connecting
      /\ m.reading = io.reading /\ m.writes = io.writes
      /\ m.taken = io.taken /\ m.delivered = io.delivered
  BY <1>2, <1>5 DEF IoType
<1>7. /\ b \in IoType /\ b.done = <<>> /\ Completed(b) = Completed(m)
      /\ b.fresh = io.fresh \ {c} /\ b.open = io.open \cup {<<c, "client">>} /\ b.connecting = io.connecting
      /\ b.reading = io.reading /\ b.writes = io.writes
      /\ b.taken = io.taken /\ b.delivered = io.delivered
  <2>1. <<c, "client">> \in Conns \X Sides
    BY DEF Sides
  <2>2. m.fresh \ {c} \in SUBSET Conns /\ m.open \cup {<<c, "client">>} \in SUBSET (Conns \X Sides)
    BY <1>5, <2>1 DEF IoType
  <2>3. /\ b \in IoType /\ b.done = m.done /\ b.queue = m.queue
        /\ b.fresh = m.fresh \ {c} /\ b.open = m.open \cup {<<c, "client">>} /\ b.connecting = m.connecting
        /\ b.reading = m.reading /\ b.writes = m.writes
        /\ b.taken = m.taken /\ b.delivered = m.delivered
    BY <1>4, <1>5, <2>2 DEF IoType
  <2> QED
    BY <1>5, <1>6, <2>3 DEF Completed
<1>8. Posts(io, b, e) /\ OthersPending(c, io, b)
  BY <1>5, <1>7 DEF Posts, OthersPending, Pending
<1>9. PhaseInv(io, c) /\ StartInv(io, p, c, buf, has) /\ \A s \in Sides : DirInv(io, p, c, s, Overlaps(c), buf)
  BY <1>2 DEF ConnInv
<1>10. /\ NonePending(io, Of(c)) /\ c \notin io.connecting /\ <<c, "client">> \notin io.open
       /\ <<c, "server">> \notin io.open /\ Starting(io, c) /\ \A s \in Sides : Untouched(io, c, s)
  BY <1>2, <1>9 DEF PhaseInv, Starting
<1>11. /\ AtMostOne(Of(c), Completed(b)) /\ \A f \in Pending(b) : f \in Of(c) <=> f = e
       /\ Accepting(b, c) /\ ~Connecting(b, c)
       /\ \A s \in Sides : SameDir(io, b, c, s) /\ Untouched(b, c, s)
  <2>1. /\ e \in CompletionType /\ e.c = c /\ e.handler \in {"accept", "connect"}
        /\ NonePending(io, Of(c)) /\ Posts(io, b, e) /\ b.reading = io.reading /\ b.writes = io.writes
        /\ b.taken = io.taken /\ b.delivered = io.delivered
    BY <1>3, <1>7, <1>8, <1>10
  <2>2. /\ AtMostOne(Of(c), Completed(b)) /\ \A f \in Pending(b) : f \in Of(c) <=> f = e
        /\ Accepting(b, c) <=> e.handler = "accept"
        /\ Connecting(b, c) <=> e.handler = "connect"
        /\ \A s \in Sides : SameDir(io, b, c, s) /\ (Untouched(io, c, s) => Untouched(b, c, s))
    BY <2>1, FirstPosted
  <2> QED
    BY <1>3, <1>10, <2>2
<1>12. Starting(b, c) /\ c \notin b.fresh /\ c \notin b.connecting
       /\ <<c, "server">> \notin b.open /\ <<c, "client">> \in b.open
  BY <1>7, <1>10, <1>11 DEF Starting
<1>13. PhaseInv(b, c)
  <2>1. \A f \in Pending(b) : /\ f \in Starts(c, "accept") => f.s = "client"
                              /\ f \in Starts(c, "connect") => f.s = "server"
    BY <1>3, <1>11 DEF Starts
  <2> QED
    BY <1>11, <1>12, <2>1 DEF PhaseInv, Untouched
<1>14. StartInv(b, p, c, buf, has)
  BY <1>9, <1>10 DEF StartInv
<1>15. ClosedInv(b, p, c, Overlaps(c), has)
  BY <1>12 DEF ClosedInv, Closed
<1>16. \A s \in Sides : DirInv(b, p, c, s, Overlaps(c), buf)
  <2>1. ~Running(b, c)
    BY <1>12 DEF Running
  <2> QED
    BY <1>9, <1>11, <2>1, OtherDirKept
<1>17. ConnInv(b, p, c, Overlaps(c), buf, has)
  BY <1>13, <1>14, <1>15, <1>16 DEF ConnInv
<1>18. Others(c, io, b)
  BY <1>7, <1>8 DEF Others, OthersSockets
<1> QED
  BY <1>2, <1>7, <1>17, <1>18, IoStepIs DEF b, Performing

LEMMA ConnectReadyKeeps ==
  ASSUME IInv, NEW c \in Conns, ConnectReady(c)
  PROVE  IInv'
<1> DEFINE b == io'
           p == peer[c]
           buf == Entry(c)
           has == c \in DOMAIN clients_
<1>1. PICK err \in {"none", "error"} :
        b = [Post(io, Completion("connect", c, "server", err, <<>>, FALSE)) EXCEPT
               !.connecting = @ \ {c}]
  BY DEF ConnectReady
<1>2. /\ io \in IoType /\ io.done = <<>> /\ c \in io.connecting /\ UNCHANGED <<clients_, peer, overlapped>>
      /\ ConnInv(io, p, c, Overlaps(c), buf, has)
  BY DEF IInv, TypesInv, ClientInv, ConnectReady
<1> DEFINE e == Completion("connect", c, "server", err, <<>>, FALSE)
           m == Post(io, e)
<1>3. e \in CompletionType /\ e.handler = "connect" /\ e.c = c /\ e.s = "server"
  <2>1. <<>> \in Seq(Nat)
    BY NoBytes
  <2> QED
    BY <2>1 DEF Completion, CompletionType, Sides
<1>4. b = [m EXCEPT !.connecting = @ \ {c}]
  BY <1>1
<1> HIDE DEF e, b
<1>5. /\ m \in IoType /\ m.done = <<>> /\ Posts(io, m, e) /\ OthersPending(c, io, m)
      /\ m = [io EXCEPT !.queue = Append(io.queue, e)]
  BY <1>2, <1>3, PostIs
<1> HIDE DEF m
<1>6. /\ m.fresh = io.fresh /\ m.open = io.open /\ m.connecting = io.connecting
      /\ m.reading = io.reading /\ m.writes = io.writes
      /\ m.taken = io.taken /\ m.delivered = io.delivered
  BY <1>2, <1>5 DEF IoType
<1>7. /\ b \in IoType /\ b.done = <<>> /\ Completed(b) = Completed(m)
      /\ b.fresh = io.fresh /\ b.open = io.open /\ b.connecting = io.connecting \ {c}
      /\ b.reading = io.reading /\ b.writes = io.writes
      /\ b.taken = io.taken /\ b.delivered = io.delivered
  <2>1. m.connecting \ {c} \in SUBSET Conns
    BY <1>5 DEF IoType
  <2>2. /\ b \in IoType /\ b.done = m.done /\ b.queue = m.queue
        /\ b.fresh = m.fresh /\ b.open = m.open /\ b.connecting = m.connecting \ {c}
        /\ b.reading = m.reading /\ b.writes = m.writes
        /\ b.taken = m.taken /\ b.delivered = m.delivered
    BY <1>4, <1>5, <2>1 DEF IoType
  <2> QED
    BY <1>5, <1>6, <2>2 DEF Completed
<1>8. Posts(io, b, e) /\ OthersPending(c, io, b)
  BY <1>5, <1>7 DEF Posts, OthersPending, Pending
<1>9. PhaseInv(io, c) /\ StartInv(io, p, c, buf, has) /\ \A s \in Sides : DirInv(io, p, c, s, Overlaps(c), buf)
  BY <1>2 DEF ConnInv
<1>10. /\ NonePending(io, Of(c)) /\ c \notin io.fresh /\ <<c, "client">> \in io.open
       /\ <<c, "server">> \in io.open /\ Starting(io, c) /\ \A s \in Sides : Untouched(io, c, s)
  BY <1>2, <1>9 DEF PhaseInv, Starting
<1>11. /\ AtMostOne(Of(c), Completed(b)) /\ \A f \in Pending(b) : f \in Of(c) <=> f = e
       /\ ~Accepting(b, c) /\ Connecting(b, c)
       /\ \A s \in Sides : SameDir(io, b, c, s) /\ Untouched(b, c, s)
  <2>1. /\ e \in CompletionType /\ e.c = c /\ e.handler \in {"accept", "connect"}
        /\ NonePending(io, Of(c)) /\ Posts(io, b, e) /\ b.reading = io.reading /\ b.writes = io.writes
        /\ b.taken = io.taken /\ b.delivered = io.delivered
    BY <1>3, <1>7, <1>8, <1>10
  <2>2. /\ AtMostOne(Of(c), Completed(b)) /\ \A f \in Pending(b) : f \in Of(c) <=> f = e
        /\ Accepting(b, c) <=> e.handler = "accept"
        /\ Connecting(b, c) <=> e.handler = "connect"
        /\ \A s \in Sides : SameDir(io, b, c, s) /\ (Untouched(io, c, s) => Untouched(b, c, s))
    BY <2>1, FirstPosted
  <2> QED
    BY <1>3, <1>10, <2>2
<1>12. Starting(b, c) /\ c \notin b.fresh /\ c \notin b.connecting
       /\ <<c, "server">> \in b.open /\ <<c, "client">> \in b.open
  BY <1>7, <1>10, <1>11 DEF Starting
<1>13. PhaseInv(b, c)
  <2>1. \A f \in Pending(b) : /\ f \in Starts(c, "accept") => f.s = "client"
                              /\ f \in Starts(c, "connect") => f.s = "server"
    BY <1>3, <1>11 DEF Starts
  <2> QED
    BY <1>11, <1>12, <2>1 DEF PhaseInv, Untouched
<1>14. StartInv(b, p, c, buf, has)
  BY <1>9, <1>10, <1>12 DEF StartInv
<1>15. ClosedInv(b, p, c, Overlaps(c), has)
  BY <1>12 DEF ClosedInv, Closed
<1>16. \A s \in Sides : DirInv(b, p, c, s, Overlaps(c), buf)
  <2>1. ~Running(b, c)
    BY <1>12 DEF Running
  <2> QED
    BY <1>9, <1>11, <2>1, OtherDirKept
<1>17. ConnInv(b, p, c, Overlaps(c), buf, has)
  BY <1>13, <1>14, <1>15, <1>16 DEF ConnInv
<1>18. Others(c, io, b)
  BY <1>7, <1>8 DEF Others, OthersSockets
<1> QED
  BY <1>2, <1>7, <1>17, <1>18, IoStepIs DEF b, Performing

-----------------------------------------------------------------------------
(* The handlers of a start: what is called is all that is pending.         *)

LEMMA StartTaken ==
  ASSUME NEW c, NEW s, NEW h \in {"accept", "connect"}, Handling(c, s, h)
  PROVE  /\ PhaseInv(io, c) /\ StartInv(io, peer[c], c, Entry(c), c \in DOMAIN clients_) /\ Starting(io, c)
         /\ Accepting(io, c) <=> h = "accept"
         /\ Connecting(io, c) <=> h = "connect"
         /\ NonePending(Popped, Of(c)) /\ ~Starting(Popped, c)
         /\ \A t \in Sides : /\ Untouched(Popped, c, t)
                             /\ BytesInv(Popped, peer[c], c, t, Entry(c)[t])
                             /\ t \notin Overlaps(c) => InOrder(Popped, c, Other(t))
<1>1. /\ c \in Conns /\ s \in Sides /\ io \in IoType
      /\ Called \in CompletionType /\ Called.handler = h /\ Called.c = c
      /\ Called \in Pending(io) /\ Takes(io, Popped, Called)
      /\ SameSockets(io, Popped) /\ Popped.fresh = io.fresh /\ Popped.connecting = io.connecting
  BY CalledIs
<1>2. /\ PhaseInv(io, c) /\ StartInv(io, peer[c], c, Entry(c), c \in DOMAIN clients_)
      /\ \A t \in Sides : DirInv(io, peer[c], c, t, Overlaps(c), Entry(c))
  BY DEF Handling, ClientInv, ConnInv
<1>3. Called \in Of(c) /\ Called \in Starts(c, h)
  BY <1>1 DEF Of, Starts
<1>4. Accepting(io, c) \/ Connecting(io, c)
  BY <1>1, <1>3 DEF Accepting, Connecting, IsPending
<1>5. AtMostOne(Of(c), Completed(io)) /\ c \notin io.fresh /\ c \notin io.connecting
  BY <1>2, <1>4 DEF PhaseInv
<1>6. NonePending(Popped, Of(c))
  BY <1>1, <1>3, <1>5 DEF Takes, NonePending
<1>7. ~Starting(Popped, c)
  BY <1>1, <1>5, <1>6 DEF Starting, Accepting, Connecting, IsPending, NonePending, Starts
<1>8. /\ Accepting(io, c) <=> h = "accept"
      /\ Connecting(io, c) <=> h = "connect"
  <2>1. \A e \in Pending(io) : e \in Of(c) => e = Called
    BY <1>1, <1>3, <1>6 DEF Takes, NonePending
  <2> QED
    BY <1>1, <1>4, <2>1 DEF Accepting, Connecting, IsPending, Starts
<1>9. Starting(io, c)
  BY <1>4 DEF Starting
<1>10. ASSUME NEW t \in Sides
       PROVE  /\ Untouched(Popped, c, t)
              /\ BytesInv(Popped, peer[c], c, t, Entry(c)[t])
              /\ t \notin Overlaps(c) => InOrder(Popped, c, Other(t))
  <2>1. Untouched(Popped, c, t)
    BY <1>1, <1>2, <1>9 DEF PhaseInv, SameSockets, Untouched
  <2>2. DirInv(io, peer[c], c, t, Overlaps(c), Entry(c))
    BY <1>2
  <2>3. /\ BytesInv(Popped, peer[c], c, t, Entry(c)[t])
        /\ t \notin Overlaps(c) => InOrder(Popped, c, Other(t))
    BY <1>1, <2>2, TakeEnds DEF DirInv
  <2> QED
    BY <2>1, <2>3
<1> QED
  BY <1>2, <1>6, <1>7, <1>8, <1>9, <1>10

(* Closing a socket that was never opened changes nothing. *)
LEMMA CloseNothing ==
  ASSUME NEW a \in IoType, NEW c \in Conns, NEW s \in Sides, <<c, s>> \notin a.open,
         <<c, s>> \notin a.reading, a.writes[c][s] = <<>>
  PROVE  Close(a, c, s) = a
<1> DEFINE old == a.writes[c][s]
           ws == [i \in DOMAIN old |-> Completion("send", c, s, "error", <<>>, old[i].last)]
           b == Close(a, c, s)
<1>1. ws = <<>>
  <2>1. DOMAIN old = {}
    BY NoBytes
  <2>2. ws = [i \in {} |-> 0] /\ <<>> = [i \in {} |-> 0]
    BY <2>1
  <2> QED
    BY <2>2
<1>2. b = [a EXCEPT !.queue = @ \o <<>> \o ws, !.open = @ \ {<<c, s>>}, !.reading = @ \ {<<c, s>>},
                    !.writes[c][s] = <<>>]
  BY DEF Close
<1> HIDE DEF ws, b
<1>3. (a.queue \o <<>>) \o ws = a.queue
  <2>1. a.queue \in Seq(CompletionType)
    BY DEF IoType
  <2> QED
    BY <1>1, <2>1, ConcatEmptySeq
<1>4. a.open \ {<<c, s>>} = a.open /\ a.reading \ {<<c, s>>} = a.reading
  OBVIOUS
<1>5. [a.writes EXCEPT ![c][s] = <<>>] = a.writes
  BY DEF IoType
<1>6. b = [a EXCEPT !.queue = a.queue, !.open = a.open, !.reading = a.reading, !.writes = a.writes]
  BY <1>2, <1>3, <1>4, <1>5
<1>7. [a EXCEPT !.queue = a.queue, !.open = a.open, !.reading = a.reading, !.writes = a.writes] = a
  BY DEF IoType
<1> QED
  BY <1>6, <1>7 DEF b

LEMMA StartTerminable ==
  ASSUME NEW c, NEW s, NEW h \in {"accept", "connect"}, Handling(c, s, h)
  PROVE  Terminable(Popped, peer[c], c, Overlaps(c))
<1>1. /\ StartInv(io, peer[c], c, Entry(c), c \in DOMAIN clients_) /\ Starting(io, c)
      /\ NonePending(Popped, Of(c)) /\ ~Starting(Popped, c)
      /\ \A t \in Sides : /\ BytesInv(Popped, peer[c], c, t, Entry(c)[t])
                          /\ t \notin Overlaps(c) => InOrder(Popped, c, Other(t))
  BY StartTaken
<1>2. peer[c]["server"].ended = "no"
  BY <1>1 DEF StartInv
<1>3. \A t \in Sides : NonePending(Popped, Writes(c, Other(t)))
  BY <1>1 DEF NonePending, Writes
<1> QED
  BY <1>1, <1>2, <1>3 DEF Terminable, NonePending

(* A handler that terminates the connection. *)
LEMMA TerminateStep ==
  ASSUME IInv, NEW c, NEW s, NEW h, h # "ready", Handling(c, s, h), Terminable(Popped, peer[c], c, Overlaps(c)),
         io' = Close(Close(Popped, c, "server"), c, "client"), clients_' = Erase(c), UNCHANGED <<peer, overlapped>>
  PROVE  IInv'
<1>1. Popped \in IoType /\ Popped.done = <<>> /\ Others(c, io, Popped) /\ c \in Conns /\ TypesInv
  BY CalledIs DEF IInv
<1>2. ConnInv(io', peer[c], c, Overlaps(c), ClientBuffer, FALSE)
  BY <1>1, TerminateConn
<1>3. io' \in IoType /\ Others(c, io, io') /\ Performing(io')
  BY <1>1, TerminateIs, OthersTransitive DEF TerminateKeeps, Performing
<1>4. /\ DOMAIN clients_' \subseteq Conns /\ \A k \in DOMAIN clients_' : clients_'[k] \in Buffers
      /\ c \notin DOMAIN clients_' /\ Entry(c)' = ClientBuffer
      /\ \A k \in Conns \ {c} : /\ Entry(k)' = Entry(k)
                                /\ k \in DOMAIN clients_' <=> k \in DOMAIN clients_
  BY <1>1, EraseIs
<1>5. \A k \in Conns : peer'[k] = peer[k] /\ Overlaps(k)' = Overlaps(k)
  BY DEF Overlaps
<1>6. TypesInv'
  BY <1>1, <1>3, <1>4 DEF TypesInv
<1>7. ConnInv(io', peer'[c], c, Overlaps(c)', Entry(c)', c \in DOMAIN clients_')
  <2>1. (c \in DOMAIN clients_') = FALSE /\ peer'[c] = peer[c] /\ Overlaps(c)' = Overlaps(c)
    BY <1>1, <1>4, <1>5
  <2> QED
    BY <1>2, <1>4, <2>1
<1> QED
  BY <1>1, <1>3, <1>4, <1>5, <1>6, <1>7, StepIs

LEMMA AcceptKeeps ==
  ASSUME IInv, NEW c \in Conns, acceptClientHandler_(c)
  PROVE  IInv'
<1> DEFINE p == peer[c]
           ov == Overlaps(c)
           b == io'
<1>1. PICK s \in Sides, h \in {"accept", "connect"} : s = "client" /\ h = "accept"
  BY DEF Sides
<1>2. /\ Handling(c, s, h) /\ h # "ready" /\ TypesInv /\ UNCHANGED <<peer, overlapped>>
  BY <1>1 DEF IInv, Handling, acceptClientHandler_
<1>3. /\ PhaseInv(io, c) /\ StartInv(io, peer[c], c, Entry(c), c \in DOMAIN clients_)
      /\ Starting(io, c) /\ Accepting(io, c)
      /\ NonePending(Popped, Of(c)) /\ ~Starting(Popped, c)
      /\ \A t \in Sides : /\ Untouched(Popped, c, t)
                          /\ BytesInv(Popped, peer[c], c, t, Entry(c)[t])
                          /\ t \notin Overlaps(c) => InOrder(Popped, c, Other(t))
  BY <1>1, <1>2, StartTaken
<1>4. /\ Popped \in IoType /\ Popped.done = <<>> /\ SameSockets(io, Popped) /\ Popped.fresh = io.fresh
      /\ Popped.connecting = io.connecting /\ Others(c, io, Popped)
  BY <1>2, CalledIs
<1>5. /\ <<c, "client">> \in Popped.open /\ <<c, "server">> \notin Popped.open
      /\ c \notin Popped.fresh /\ c \notin Popped.connecting
  BY <1>3, <1>4 DEF PhaseInv, SameSockets
<1>6. CASE Called.err # "none"
  <2>1. io' = Close(Popped, c, "client") /\ clients_' = Erase(c)
    BY <1>6 DEF acceptClientHandler_
  <2>2. Close(Popped, c, "server") = Popped
    <3>1. PICK t \in Sides : t = "server"
      BY DEF Sides
    <3>2. <<c, t>> \notin Popped.open /\ <<c, t>> \notin Popped.reading /\ Popped.writes[c][t] = <<>>
      BY <1>3, <1>5, <3>1 DEF Untouched
    <3>3. Close(Popped, c, t) = Popped
      BY <1>4, <3>2, CloseNothing
    <3> QED
      BY <3>1, <3>3
  <2>3. io' = Close(Close(Popped, c, "server"), c, "client")
    BY <2>1, <2>2
  <2>4. Terminable(Popped, peer[c], c, Overlaps(c))
    BY <1>2, StartTerminable
  <2> QED
    BY <1>2, <2>1, <2>3, <2>4, TerminateStep
<1>7. CASE Called.err = "none"
  <2>1. /\ b = [Popped EXCEPT !.connecting = @ \cup {c}, !.open = @ \cup {<<c, "server">>}, !.accepting = TRUE]
        /\ clients_' = Insert(c, ClientBuffer)
    BY <1>7 DEF acceptClientHandler_
  <2> HIDE DEF b
  <2>2. /\ b \in IoType /\ b.done = <<>> /\ Completed(b) = Completed(Popped)
        /\ b.fresh = Popped.fresh /\ b.connecting = Popped.connecting \cup {c}
        /\ b.open = Popped.open \cup {<<c, "server">>} /\ b.reading = Popped.reading
        /\ b.writes = Popped.writes /\ b.taken = Popped.taken /\ b.delivered = Popped.delivered
    <3>1. Popped.connecting \cup {c} \in SUBSET Conns /\ Popped.open \cup {<<c, "server">>} \in SUBSET (Conns \X Sides)
      BY <1>4 DEF IoType, Sides
    <3>2. PICK a \in IoType : a = Popped
      BY <1>4
    <3>3. /\ b \in IoType /\ b.done = a.done /\ b.queue = a.queue
          /\ b.fresh = a.fresh /\ b.connecting = a.connecting \cup {c}
          /\ b.open = a.open \cup {<<c, "server">>} /\ b.reading = a.reading
          /\ b.writes = a.writes /\ b.taken = a.taken /\ b.delivered = a.delivered
      BY <2>1, <3>1, <3>2 DEF IoType
    <3> QED
      BY <1>4, <3>2, <3>3 DEF Completed
  <2>3. NonePending(b, Of(c)) /\ \A t \in Sides : Untouched(b, c, t)
    BY <1>3, <2>2 DEF NonePending, Pending, Untouched
  <2>4. ~Accepting(b, c) /\ ~Connecting(b, c) /\ Starting(b, c) /\ ~Running(b, c) /\ ~Closed(b, c)
    BY <2>2, <2>3 DEF Accepting, Connecting, IsPending, NonePending, Starts, Starting, Running, Closed
  <2>5. PhaseInv(b, c)
    <3>1. \A f \in Pending(b) : f \notin Starts(c, "accept") /\ f \notin Starts(c, "connect")
      BY <2>3 DEF NonePending, Starts
    <3> QED
      BY <1>5, <2>2, <2>3, <2>4, <3>1 DEF PhaseInv, Untouched
  <2>6. Entry(c) = ClientBuffer /\ StartInv(b, p, c, ClientBuffer, TRUE)
    BY <1>3, <2>2 DEF StartInv
  <2>7. ASSUME NEW t \in Sides PROVE DirInv(b, p, c, t, ov, ClientBuffer)
    <3>1. BytesInv(Popped, p, c, t, ClientBuffer[t])
      BY <1>3, <2>6
    <3>2. BytesInv(b, p, c, t, ClientBuffer[t])
      BY <2>2, <3>1 DEF BytesInv, Pending
    <3>3. t \notin ov => InOrder(b, c, Other(t))
      BY <1>3, <2>2 DEF InOrder
    <3> QED
      BY <2>4, <3>2, <3>3 DEF DirInv
  <2>8. ConnInv(b, p, c, ov, ClientBuffer, TRUE)
    BY <2>4, <2>5, <2>6, <2>7 DEF ConnInv, ClosedInv
  <2>9. Others(c, io, b)
    <3>1. Others(c, Popped, b)
      BY <2>2 DEF Others, OthersPending, OthersSockets, Pending
    <3> QED
      BY <1>4, <3>1, OthersTransitive
  <2>10. /\ DOMAIN clients_' \subseteq Conns /\ \A k \in DOMAIN clients_' : clients_'[k] \in Buffers
         /\ c \in DOMAIN clients_' /\ Entry(c)' = ClientBuffer
         /\ \A k \in Conns \ {c} : /\ Entry(k)' = Entry(k)
                                   /\ k \in DOMAIN clients_' <=> k \in DOMAIN clients_
    <3>1. PICK buf \in Buffers : buf = ClientBuffer
      BY NoBytes DEF ClientBuffer, Buffers
    <3>2. clients_' = Insert(c, buf)
      BY <2>1, <3>1
    <3> QED
      BY <1>2, <3>1, <3>2, InsertIs
  <2>11. \A k \in Conns : peer'[k] = peer[k] /\ Overlaps(k)' = Overlaps(k)
    BY <1>2 DEF Overlaps
  <2>12. TypesInv' /\ Performing(io')
    BY <1>2, <2>2, <2>10 DEF b, TypesInv, Performing
  <2>13. ConnInv(io', peer'[c], c, Overlaps(c)', Entry(c)', c \in DOMAIN clients_')
    <3>1. (c \in DOMAIN clients_') = TRUE /\ peer'[c] = peer[c] /\ Overlaps(c)' = Overlaps(c)
      BY <2>10, <2>11
    <3> QED
      BY <2>8, <2>10, <3>1 DEF b
  <2> QED
    BY <2>9, <2>10, <2>11, <2>12, <2>13, StepIs DEF b
<1> QED
  BY <1>6, <1>7

LEMMA ReadDir ==
  ASSUME NEW a \in IoType, a.done = <<>>, peer \in PeerType, NEW c \in Conns, NEW s \in Sides,
         Settled(a, c), Running(a, c), NoTask(a, c, s), EndsInv(a, peer[c], c, s),
         NEW ov, NEW buf, BytesInv(a, peer[c], c, s, buf[s]),
         s \notin ov => FlowInv(a, c, s, buf[s]) /\ InOrder(a, c, Other(s)),
         NEW b, b = StartRead(a, c, s)
  PROVE  /\ b \in IoType /\ b.done = <<>> /\ Others(c, a, b)
         /\ Settled(b, c) /\ Running(b, c) /\ SameDir(a, b, c, Other(s))
         /\ DirInv(b, peer[c], c, s, ov, buf)
<1>1. a.taken[c][s] <= peer[c][s].sent
  BY DEF BytesInv
<1>2. b \in IoType /\ b.done = <<>> /\ Others(c, a, b) /\ ReadStep(a, b, c, s)
  BY <1>1, StartReadIs DEF ReadStep
<1>3. Settled(b, c) /\ Running(b, c) /\ SameDir(a, b, c, Other(s))
  BY <1>2, SettledRead, ReadStepOtherDir
<1>4. <<c, s>> \in a.open
  BY SettledIs
<1>5. PICK x : x = buf[s]
  OBVIOUS
<1>6. BytesInv(a, peer[c], c, s, x) /\ (s \notin ov => FlowInv(a, c, s, x))
  BY <1>5
<1>7. OneTask(b, c, s)
  BY <1>2, ReadStepTask
<1>8. EndsInv(b, peer[c], c, s)
  BY <1>2, <1>4, <1>6, ReadStepEnds
<1>9. BytesInv(b, peer[c], c, s, x)
  BY <1>2, <1>4, <1>6, ReadStepBytes
<1>10. s \notin ov => FlowInv(b, c, s, x)
  BY <1>2, <1>4, <1>6, ReadStepFlow
<1>11. s \notin ov => InOrder(b, c, Other(s))
  BY <1>2 DEF ReadStep, ReadKeeps, InOrder
<1> QED
  BY <1>2, <1>3, <1>5, <1>7, <1>8, <1>9, <1>10, <1>11 DEF DirInv

(* Of a client of which nothing has been read or written.                  *)
LEMMA UntouchedDir ==
  ASSUME NEW a, NEW c \in Conns, NEW s \in Sides, NEW p, NonePending(a, Of(c)),
         \A t \in Sides : Untouched(a, c, t)
  PROVE  NoTask(a, c, s) /\ EndsInv(a, p, c, s) /\ FlowInv(a, c, s, <<>>) /\ InOrder(a, c, Other(s))
<1>1. /\ Untouched(a, c, s) /\ Untouched(a, c, Other(s))
      /\ NonePending(a, Reads(c, s)) /\ NonePending(a, Writes(c, Other(s))) /\ NonePending(a, Tasks(c, s))
  BY OtherIs DEF NonePending, Reads, Writes, Tasks
<1>2. AtMostOne(Writes(c, Other(s)), Completed(a))
  BY <1>1 DEF NonePending, Pending, ToSet, AtMostOne
<1>3. Continues(a, c, s, <<>>)
  BY <1>1, NoBytes DEF Continues, HandledTo, Untouched, NonePending
<1>4. FlowInv(a, c, s, <<>>)
  BY <1>1, <1>2, <1>3, NoBytes DEF FlowInv, Untouched, NonePending
<1>5. NoTask(a, c, s) /\ EndsInv(a, p, c, s) /\ InOrder(a, c, Other(s))
  BY <1>1, NoBytes DEF NoTask, NoneLast, EndsInv, InOrder, Untouched, NonePending
<1> QED
  BY <1>4, <1>5

LEMMA ConnectKeeps ==
  ASSUME IInv, NEW c \in Conns, connectToServerHandler_(c)
  PROVE  IInv'
<1> DEFINE p == peer[c]
           ov == Overlaps(c)
           buf == Entry(c)
           has == c \in DOMAIN clients_
<1>1. PICK s \in Sides, t \in Sides, h \in {"accept", "connect"} : s = "server" /\ t = "client" /\ h = "connect"
  BY DEF Sides
<1>2. /\ Handling(c, s, h) /\ h # "ready" /\ TypesInv /\ UNCHANGED <<peer, overlapped>>
      /\ Other(s) = t /\ Other(t) = s /\ \A u \in Sides : u = s \/ u = t
  BY <1>1 DEF IInv, Handling, connectToServerHandler_, Other, Sides
<1>3. /\ PhaseInv(io, c) /\ StartInv(io, p, c, buf, has)
      /\ Starting(io, c) /\ Connecting(io, c)
      /\ NonePending(Popped, Of(c)) /\ ~Starting(Popped, c)
      /\ \A u \in Sides : /\ Untouched(Popped, c, u)
                          /\ BytesInv(Popped, p, c, u, buf[u])
                          /\ u \notin ov => InOrder(Popped, c, Other(u))
  BY <1>1, <1>2, StartTaken
<1>4. /\ Popped \in IoType /\ Popped.done = <<>> /\ SameSockets(io, Popped)
      /\ Others(c, io, Popped) /\ peer \in PeerType
  BY <1>2, CalledIs
<1>5. CASE Called.err # "none"
  <2>1. io' = Close(Close(Popped, c, "server"), c, "client") /\ clients_' = Erase(c)
    BY <1>5 DEF connectToServerHandler_, terminateClientServerConnection_
  <2>2. Terminable(Popped, peer[c], c, Overlaps(c))
    BY <1>2, StartTerminable
  <2> QED
    BY <1>2, <2>1, <2>2, TerminateStep
<1>6. CASE Called.err = "none"
  <2> DEFINE m == StartRead(Popped, c, t)
             b == StartRead(m, c, s)
  <2>1. io' = b /\ clients_' = clients_
    BY <1>1, <1>6 DEF connectToServerHandler_
  <2>2. Settled(Popped, c) /\ Running(Popped, c)
    <3>1. <<c, s>> \in Popped.open /\ <<c, t>> \in Popped.open
      BY <1>1, <1>3, <1>4 DEF PhaseInv, SameSockets
    <3> QED
      BY <1>1, <1>2, <1>3, <3>1 DEF Settled, Running
  <2>3. ASSUME NEW u \in Sides
        PROVE  /\ NoTask(Popped, c, u) /\ EndsInv(Popped, p, c, u) /\ BytesInv(Popped, p, c, u, buf[u])
               /\ FlowInv(Popped, c, u, buf[u]) /\ InOrder(Popped, c, Other(u))
    <3>1. NoTask(Popped, c, u) /\ EndsInv(Popped, p, c, u) /\ FlowInv(Popped, c, u, <<>>)
          /\ InOrder(Popped, c, Other(u))
      BY <1>3, UntouchedDir
    <3>2. buf[u] = <<>>
      BY <1>3 DEF StartInv, ClientBuffer
    <3> QED
      BY <1>3, <3>1, <3>2
  <2>4. /\ m \in IoType /\ m.done = <<>> /\ Others(c, Popped, m)
        /\ Settled(m, c) /\ Running(m, c) /\ SameDir(Popped, m, c, s)
        /\ DirInv(m, p, c, t, ov, buf)
    <3>1. PICK o, x : o = ov /\ x = buf
      OBVIOUS
    <3>2. /\ NoTask(Popped, c, t) /\ EndsInv(Popped, peer[c], c, t) /\ BytesInv(Popped, peer[c], c, t, x[t])
          /\ t \notin o => FlowInv(Popped, c, t, x[t]) /\ InOrder(Popped, c, Other(t))
      BY <2>3, <3>1
    <3> HIDE DEF m, ov, buf
    <3>3. m = StartRead(Popped, c, t)
      BY DEF m
    <3>4. /\ m \in IoType /\ m.done = <<>> /\ Others(c, Popped, m)
          /\ Settled(m, c) /\ Running(m, c) /\ SameDir(Popped, m, c, Other(t))
          /\ DirInv(m, peer[c], c, t, o, x)
      BY <1>4, <2>2, <3>2, <3>3, ReadDir
    <3> QED
      BY <1>2, <3>1, <3>4
  <2> HIDE DEF m
  <2>5. /\ NoTask(m, c, s) /\ EndsInv(m, p, c, s) /\ BytesInv(m, p, c, s, buf[s])
        /\ FlowInv(m, c, s, buf[s]) /\ InOrder(m, c, t)
    BY <1>2, <2>3, <2>4, SameDirKeeps
  <2>6. /\ b \in IoType /\ b.done = <<>> /\ Others(c, m, b)
        /\ Settled(b, c) /\ Running(b, c) /\ SameDir(m, b, c, t)
        /\ DirInv(b, p, c, s, ov, buf)
    <3>1. PICK o, x : o = ov /\ x = buf
      OBVIOUS
    <3>2. /\ NoTask(m, c, s) /\ EndsInv(m, peer[c], c, s) /\ BytesInv(m, peer[c], c, s, x[s])
          /\ s \notin o => FlowInv(m, c, s, x[s]) /\ InOrder(m, c, Other(s))
      BY <1>2, <2>5, <3>1
    <3> HIDE DEF b, ov, buf
    <3>3. b = StartRead(m, c, s)
      BY DEF b
    <3>4. /\ b \in IoType /\ b.done = <<>> /\ Others(c, m, b)
          /\ Settled(b, c) /\ Running(b, c) /\ SameDir(m, b, c, Other(s))
          /\ DirInv(b, peer[c], c, s, o, x)
      BY <1>4, <2>4, <3>2, <3>3, ReadDir
    <3> QED
      BY <1>2, <3>1, <3>4
  <2> HIDE DEF b
  <2>7. DirInv(b, p, c, t, ov, buf)
    BY <2>4, <2>6, OtherDirKept
  <2>8. PhaseInv(b, c) /\ StartInv(b, p, c, buf, has) /\ ClosedInv(b, p, c, ov, has)
    BY <2>6, SettledIs DEF ClosedInv
  <2>9. ConnInv(b, p, c, ov, buf, has)
    BY <1>2, <2>6, <2>7, <2>8 DEF ConnInv
  <2>10. Others(c, io, b)
    BY <1>4, <2>4, <2>6, OthersTransitive
  <2> QED
    BY <1>2, <2>1, <2>6, <2>9, <2>10, IoStepIs DEF Performing
<1> QED
  BY <1>5, <1>6

-----------------------------------------------------------------------------
(* The peers.                                                              *)

(* From p to q the peer at side s goes on: it sends no more once it has    *)
(* ended, and receives what was delivered.                                 *)
GoesOn(p, q, c, s) ==
  /\ q[Other(s)] = p[Other(s)]
  /\ q[s].sent \in Nat /\ p[s].sent <= q[s].sent /\ q[s].sent <= MaxSent[s]
  /\ p[s].ended # "no" => q[s].ended # "no" /\ q[s].sent = p[s].sent
  /\ p[s].ended = "reset" => q[s].ended = "reset"
  /\ q[s].received <= Len(io.delivered[c][s])

PeerEnd == [sent : Nat, received : Nat, ended : {"no", "eof", "reset"}]

MayBecome(old, new, c, s) ==
  /\ new \in PeerEnd /\ old.sent <= new.sent /\ new.sent <= MaxSent[s]
  /\ old.ended # "no" => new.ended # "no" /\ new.sent = old.sent
  /\ old.ended = "reset" => new.ended = "reset"
  /\ new.received <= Len(io.delivered[c][s])

LEMMA PeerConn ==
  ASSUME io \in IoType, NEW c \in Conns, NEW s \in Sides, <<c, s>> \in io.open, s = "server" => ~Starting(io, c),
         NEW p, p["client"].sent \in Nat, p["server"].sent \in Nat,
         NEW q, GoesOn(p, q, c, s),
         NEW ov, NEW buf, NEW has, ConnInv(io, p, c, ov, buf, has)
  PROVE  ConnInv(io, q, c, ov, buf, has)
<1>1. /\ PhaseInv(io, c) /\ StartInv(io, p, c, buf, has) /\ ClosedInv(io, p, c, ov, has)
      /\ \A u \in Sides : DirInv(io, p, c, u, ov, buf)
  BY DEF ConnInv
<1>2. StartInv(io, q, c, buf, has)
  <2>1. s # "server" => q["server"] = p["server"]
    BY DEF GoesOn, Other, Sides
  <2> QED
    BY <1>1, <2>1 DEF StartInv
<1>3. ~Closed(io, c)
  BY <1>1 DEF Closed, PhaseInv, Starting, Sides
<1>4. ASSUME NEW u \in Sides PROVE DirInv(io, q, c, u, ov, buf)
  <2>1. u = s \/ u = Other(s)
    BY DEF Sides, Other
  <2>2. /\ Other(u) \in Sides
        /\ Other(u) = s \/ Other(u) = Other(s)
        /\ p[u].sent \in Nat
    BY <2>1, OtherIs DEF Sides
  <2>3. /\ q[u].sent \in Nat /\ p[u].sent <= q[u].sent
        /\ p[u].ended # "no" => q[u].ended # "no" /\ q[u].sent = p[u].sent
        /\ p[u].ended = "reset" => q[u].ended = "reset"
        /\ p[Other(u)].ended = "reset" => q[Other(u)].ended = "reset"
    BY <2>1, <2>2, OtherIs DEF GoesOn
  <2>4. DirInv(io, p, c, u, ov, buf)
    BY <1>1
  <2>5. EndsInv(io, p, c, u) => EndsInv(io, q, c, u)
    BY <2>3 DEF EndsInv
  <2>6. BytesInv(io, q, c, u, buf[u])
    <3>1. BytesInv(io, p, c, u, buf[u])
      BY <2>4 DEF DirInv
    <3>2. q[u].sent <= MaxSent[u]
      BY <2>1, <3>1 DEF GoesOn, BytesInv
    <3>3. io.taken[c][u] <= q[u].sent
      <4>1. io.taken[c][u] \in Nat /\ io.taken[c][u] <= p[u].sent
        BY <3>1 DEF BytesInv, IoType
      <4> QED
        BY <2>2, <2>3, <4>1
    <3>4. q[Other(u)].received <= Len(io.delivered[c][Other(u)])
      BY <2>1, <3>1, OtherIs DEF GoesOn, BytesInv
    <3> QED
      BY <3>1, <3>2, <3>3, <3>4 DEF BytesInv
  <2> QED
    BY <2>4, <2>5, <2>6 DEF DirInv
<1>5. ClosedInv(io, q, c, ov, has)
  BY <1>3 DEF ClosedInv
<1> QED
  BY <1>1, <1>2, <1>4, <1>5 DEF ConnInv

LEMMA ConnectedIs ==
  ASSUME io \in IoType, NEW c \in Conns, NEW s \in Sides, PhaseInv(io, c), Connected(c, s)
  PROVE  <<c, s>> \in io.open /\ (s = "server" => Running(io, c))
<1>1. <<c, s>> \in io.open
  BY DEF Connected
<1>2. ASSUME s = "server" PROVE Running(io, c)
  <2>1. c \notin io.connecting /\ Queued(c, s, {"connect"}) = {}
    BY <1>2 DEF Connected
  <2>2. ~Connecting(io, c)
    <3>1. \A e \in Pending(io) : ~(e.c = c /\ e.s = s /\ e.handler = "connect")
      BY <2>1, QueuedIs
    <3> QED
      BY <1>2, <3>1 DEF Connecting, IsPending, Starts, Of, PhaseInv
  <2>3. c \notin io.fresh /\ ~Accepting(io, c)
    BY <1>1, <1>2 DEF PhaseInv
  <2> QED
    BY <1>1, <1>2, <2>1, <2>2, <2>3 DEF Running, Starting
<1> QED
  BY <1>1, <1>2

LEMMA PeerKeeps ==
  ASSUME IInv, NEW c \in Conns, NEW s \in Sides, Peer(c, s)
  PROVE  IInv'
<1> DEFINE p == peer[c]
           q == peer'[c]
           old == peer[c][s]
<1>1. /\ TypesInv /\ io \in IoType /\ peer \in PeerType /\ UNCHANGED <<clients_, io, overlapped>> /\ Connected(c, s)
      /\ ConnInv(io, p, c, Overlaps(c), Entry(c), c \in DOMAIN clients_)
  BY DEF IInv, TypesInv, ClientInv, Peer, PeerSends, PeerReceives, PeerEnds
<1>2. /\ <<c, s>> \in io.open /\ (s = "server" => ~Starting(io, c))
  BY <1>1, ConnectedIs DEF ConnInv, Running
<1>3. /\ old \in PeerEnd
      /\ old.sent <= MaxSent[s] /\ old.received <= Len(io.delivered[c][s])
      /\ Len(io.delivered[c][s]) \in Nat /\ MaxSent[s] \in Nat
  <2>1. BytesInv(io, p, c, s, Entry(c)[s]) /\ BytesInv(io, p, c, Other(s), Entry(c)[Other(s)])
    BY <1>1, OtherIs DEF ConnInv, DirInv
  <2>2. io.delivered[c][s] \in Seq(Nat)
    BY <1>1 DEF IoType
  <2> QED
    BY <1>1, <2>1, <2>2, OtherIs, LenProperties, ConstantsAssumption DEF BytesInv, PeerType, PeerEnd, Sides
<1>4. PICK new : peer' = [peer EXCEPT ![c][s] = new] /\ MayBecome(old, new, c, s)
  <2>1. CASE PeerSends(c, s)
    <3> DEFINE new == [old EXCEPT !.sent = @ + 1]
    <3>1. peer' = [peer EXCEPT ![c][s] = new] /\ old.ended = "no" /\ old.sent < MaxSent[s]
      BY <2>1 DEF PeerSends
    <3>2. /\ new \in PeerEnd /\ new.sent = old.sent + 1 /\ new.received = old.received
      BY <1>3 DEF PeerEnd
    <3> HIDE DEF new
    <3>3. MayBecome(old, new, c, s)
      BY <1>3, <3>1, <3>2 DEF MayBecome, PeerEnd
    <3> QED
      BY <3>1, <3>3
  <2>2. CASE PeerReceives(c, s)
    <3> DEFINE new == [old EXCEPT !.received = @ + 1]
    <3>1. peer' = [peer EXCEPT ![c][s] = new] /\ old.received < Len(io.delivered[c][s])
      BY <2>2 DEF PeerReceives
    <3>2. /\ new \in PeerEnd /\ new.sent = old.sent
          /\ new.received = old.received + 1 /\ new.ended = old.ended
      BY <1>3 DEF PeerEnd
    <3> HIDE DEF new, old
    <3>4. new.received <= Len(io.delivered[c][s]) /\ old.sent \in Nat
      <4>1. PICK n \in Nat : n = Len(io.delivered[c][s])
        BY <1>3
      <4>2. PICK m \in Nat : m = old.received
        BY <1>3 DEF PeerEnd
      <4>3. m < n
        BY <3>1, <4>1, <4>2 DEF old
      <4>4. m + 1 <= n
        BY <4>3
      <4> QED
        BY <1>3, <3>2, <4>1, <4>2, <4>4 DEF PeerEnd
    <3>3. MayBecome(old, new, c, s)
      BY <1>3, <3>2, <3>4 DEF MayBecome
    <3> QED
      BY <3>1, <3>3
  <2>3. ASSUME NEW how \in {"eof", "reset"}, PeerEnds(c, s, how)
        PROVE  \E new : peer' = [peer EXCEPT ![c][s] = new] /\ MayBecome(old, new, c, s)
    <3> DEFINE new == [old EXCEPT !.ended = how]
    <3>1. peer' = [peer EXCEPT ![c][s] = new] /\ old.ended # "reset"
      BY <2>3 DEF PeerEnds
    <3>2. /\ new \in PeerEnd /\ new.sent = old.sent /\ new.received = old.received /\ new.ended = how
      BY <1>3 DEF PeerEnd
    <3> HIDE DEF new
    <3>3. MayBecome(old, new, c, s)
      BY <1>3, <3>1, <3>2 DEF MayBecome, PeerEnd
    <3> QED
      BY <3>1, <3>3
  <2> QED
    BY <2>1, <2>2, <2>3 DEF Peer
<1>5. peer' \in PeerType /\ q[s] = new /\ q[Other(s)] = p[Other(s)] /\ \A k \in Conns \ {c} : peer'[k] = peer[k]
  BY <1>1, <1>4, OtherIs DEF PeerType, PeerEnd, MayBecome
<1>6. GoesOn(p, q, c, s)
  BY <1>4, <1>5 DEF GoesOn, MayBecome, PeerEnd
<1>7. ConnInv(io, q, c, Overlaps(c), Entry(c), c \in DOMAIN clients_)
  <2>1. p["client"].sent \in Nat /\ p["server"].sent \in Nat
    BY <1>1 DEF PeerType, Sides
  <2> HIDE DEF p, q
  <2> QED
    BY <1>1, <1>2, <1>6, <2>1, PeerConn
<1>8. TypesInv' /\ Performing(io')
  BY <1>1, <1>5 DEF IInv, TypesInv
<1>9. \A k \in Conns : /\ Overlaps(k)' = Overlaps(k) /\ Entry(k)' = Entry(k) /\ DOMAIN clients_' = DOMAIN clients_
  BY <1>1 DEF Overlaps, Entry
<1>10. ConnInv(io', peer'[c], c, Overlaps(c)', Entry(c)', c \in DOMAIN clients_')
  <2>1. (c \in DOMAIN clients_') = (c \in DOMAIN clients_) /\ io' = io /\ Overlaps(c)' = Overlaps(c) /\ Entry(c)' = Entry(c)
    BY <1>1, <1>9
  <2> QED
    BY <1>7, <2>1
<1>11. Others(c, io, io')
  BY <1>1 DEF Others, OthersPending, OthersSockets
<1> QED
  BY <1>5, <1>8, <1>9, <1>10, <1>11, StepIs

-----------------------------------------------------------------------------
(* The invariant holds at the start and in every step.                     *)

LEMMA InitKeeps ==
  ASSUME Init
  PROVE  IInv
<1>1. io \in IoType /\ peer \in PeerType /\ overlapped = {} /\ DOMAIN clients_ = {}
  <2>1. io.queue = <<>> /\ io.done = <<>> /\ <<>> \in Seq(CompletionType)
    BY DEF Init
  <2>2. /\ io.writes = [c \in Conns |-> [s \in Sides |-> <<>>]]
        /\ io.delivered = [c \in Conns |-> [s \in Sides |-> <<>>]]
        /\ <<>> \in Seq(WriteType) /\ <<>> \in Seq(Nat)
    BY NoBytes DEF Init
  <2>3. io.writes \in [Conns -> [Sides -> Seq(WriteType)]] /\ io.delivered \in [Conns -> [Sides -> Seq(Nat)]]
    BY <2>2
  <2>4. io.taken \in [Conns -> [Sides -> Nat]] /\ io.open = {} /\ io.reading = {}
        /\ io.fresh = Conns /\ io.connecting = {} /\ io.accepting = TRUE
    BY DEF Init
  <2>5. io = [queue |-> io.queue, done |-> io.done, accepting |-> io.accepting,
              fresh |-> io.fresh, connecting |-> io.connecting,
              open |-> io.open, reading |-> io.reading, writes |-> io.writes,
              taken |-> io.taken, delivered |-> io.delivered]
    BY DEF Init
  <2>6. io \in IoType
    BY <2>1, <2>3, <2>4, <2>5 DEF IoType
  <2> QED
    BY <2>6 DEF Init, PeerType
<1>2. Completed(io) = <<>> /\ Pending(io) = {}
  <2>1. io.done = <<>> /\ io.queue = <<>>
    BY DEF Init
  <2>2. Completed(io) = <<>>
    BY <1>1, <2>1, QueueType
  <2> QED
    BY <2>2, NoBytes DEF Pending, ToSet
<1>3. ASSUME NEW c \in Conns PROVE ClientInv(c)
  <2> DEFINE p == peer[c]
  <2>1. /\ c \in io.fresh /\ c \notin io.connecting /\ io.open = {} /\ io.reading = {}
        /\ \A s \in Sides : /\ io.writes[c][s] = <<>> /\ io.taken[c][s] = 0 /\ io.delivered[c][s] = <<>>
                            /\ p[s] = [sent |-> 0, received |-> 0, ended |-> "no"]
    BY DEF Init
  <2>2. Starting(io, c) /\ ~Running(io, c) /\ ~Closed(io, c) /\ ~Accepting(io, c) /\ ~Connecting(io, c)
    BY <1>2, <2>1 DEF Starting, Running, Closed, Accepting, Connecting, IsPending
  <2>3. PhaseInv(io, c)
    BY <1>2, <2>1, <2>2 DEF PhaseInv, NonePending, Untouched
  <2>4. c \notin DOMAIN clients_ /\ Entry(c) = ClientBuffer
    BY <1>1 DEF Entry
  <2>5. StartInv(io, p, c, Entry(c), c \in DOMAIN clients_)
    BY <2>1, <2>4 DEF StartInv, Sides
  <2>6. ClosedInv(io, p, c, Overlaps(c), c \in DOMAIN clients_)
    BY <2>2 DEF ClosedInv
  <2>7. ASSUME NEW s \in Sides PROVE DirInv(io, p, c, s, Overlaps(c), Entry(c))
    <3>1. <<>> \in BytesFrom(s) /\ DOMAIN <<>> = {} /\ Len(<<>>) = 0 /\ MaxSent[s] \in Nat
      BY NoBytes, ConstantsAssumption DEF BytesFrom, Sides
    <3>2. Entry(c)[s] = <<>>
      BY <2>4 DEF ClientBuffer
    <3>3. BytesInv(io, p, c, s, Entry(c)[s])
      BY <1>2, <2>1, <3>1, <3>2, OtherIs DEF BytesInv
    <3>4. InOrder(io, c, Other(s))
      BY <2>1, <3>1, OtherIs DEF InOrder
    <3> QED
      BY <2>2, <3>3, <3>4 DEF DirInv
  <2> QED
    BY <2>3, <2>5, <2>6, <2>7 DEF ClientInv, ConnInv
<1>4. Performing(io)
  BY DEF Init, Performing
<1> QED
  BY <1>1, <1>3, <1>4 DEF IInv, TypesInv

LEMMA StepKeeps ==
  ASSUME IInv, [Next]_vars
  PROVE  IInv'
<1>1. ASSUME NEW c \in Conns, Handler(c) PROVE IInv'
  <2>1. CASE acceptClientHandler_(c)
    BY <1>1, <2>1, AcceptKeeps
  <2>2. CASE connectToServerHandler_(c)
    BY <1>1, <2>2, ConnectKeeps
  <2>3. ASSUME NEW s \in Sides, recvMessageHandler_(c, s) PROVE IInv'
    BY <1>1, <2>3, RecvKeeps
  <2>4. ASSUME NEW s \in Sides, sendMessageHandler_(c, s) PROVE IInv'
    BY <1>1, <2>4, SendKeeps
  <2>5. ASSUME NEW s \in Sides, WriteMore(c, s) PROVE IInv'
    <3>1. PICK t \in Sides : s = Other(t)
      BY OtherIs
    <3> QED
      BY <1>1, <2>5, <3>1, MoreKeeps
  <2>6. ASSUME NEW s \in Sides, PerformWrite(c, s) PROVE IInv'
    <3>1. PICK t \in Sides : s = Other(t)
      BY OtherIs
    <3> QED
      BY <1>1, <2>6, <3>1, PerformWriteKeeps
  <2>7. ASSUME NEW s \in Sides, PerformRead(c, s) PROVE IInv'
    BY <1>1, <2>7, PerformReadKeeps
  <2> QED
    BY <1>1, <2>1, <2>2, <2>3, <2>4, <2>5, <2>6, <2>7 DEF Handler
<1>2. ASSUME NEW c \in Conns, Reactor(c) PROVE IInv'
  BY <1>2, AcceptReadyKeeps, ConnectReadyKeeps, SocketReadyKeeps DEF Reactor
<1>3. ASSUME NEW c \in Conns, NEW s \in Sides, Peer(c, s) PROVE IInv'
  BY <1>3, PeerKeeps
<1>4. CASE UNCHANGED vars
  <2>1. \A c \in Conns : /\ Overlaps(c)' = Overlaps(c) /\ Entry(c)' = Entry(c)
                         /\ (c \in DOMAIN clients_') = (c \in DOMAIN clients_) /\ peer'[c] = peer[c]
    BY <1>4 DEF vars, Overlaps, Entry
  <2>2. io' = io /\ TypesInv' /\ Performing(io')
    BY <1>4 DEF vars, IInv, TypesInv
  <2>3. ASSUME NEW c \in Conns PROVE ClientInv(c)'
    <3>1. ConnInv(io, peer[c], c, Overlaps(c), Entry(c), c \in DOMAIN clients_)
      BY DEF IInv, ClientInv
    <3>2. ConnInv(io', peer'[c], c, Overlaps(c)', Entry(c)', c \in DOMAIN clients_')
      BY <2>1, <2>2, <3>1
    <3> QED
      BY <3>2 DEF ClientInv
  <2> QED
    BY <2>2, <2>3 DEF IInv
<1> QED
  BY <1>1, <1>2, <1>3, <1>4 DEF Next

(* Through every interleaving of the handlers, the io_service and the      *)
(* peers the invariant IInv holds.                                         *)
THEOREM Invariance == Spec => []IInv
<1>1. Init => IInv
  BY InitKeeps
<1>2. IInv /\ [Next]_vars => IInv'
  BY StepKeeps
<1> QED
  BY <1>1, <1>2, PTL DEF Spec

(* The variables keep their types, and no more is read or received than    *)
(* was sent: no handler meets a completion of a socket that is closed in a *)
(* way the program does not expect.                                        *)
THEOREM TypeCorrect == Spec => []TypeOK
<1>1. ASSUME IInv PROVE TypeOK
  <2>1. /\ io \in IoType /\ peer \in PeerType /\ overlapped \in SUBSET (Conns \X Sides)
        /\ DOMAIN clients_ \subseteq Conns
    BY <1>1 DEF IInv, TypesInv
  <2>2. ASSUME NEW c \in Conns, NEW s \in Sides
        PROVE  /\ BytesInv(io, peer[c], c, s, Entry(c)[s])
               /\ <<c, s>> \notin io.open => <<c, s>> \notin io.reading
    BY <1>1, <2>2 DEF IInv, ClientInv, ConnInv, DirInv, PhaseInv
  <2>3. ASSUME NEW c \in DOMAIN clients_, NEW s \in Sides PROVE clients_[c][s] \in BytesFrom(s)
    <3>1. c \in Conns /\ Entry(c) = clients_[c]
      BY <2>1 DEF Entry
    <3> QED
      BY <2>2, <3>1 DEF BytesInv
  <2>4. io.reading \subseteq io.open
    BY <2>1, <2>2 DEF IoType
  <2>5. ASSUME NEW c \in Conns, NEW s \in Sides
        PROVE  /\ peer[c][s].sent \in 0 .. MaxSent[s] /\ peer[c][s].ended \in {"no", "eof", "reset"}
               /\ io.delivered[c][s] \in BytesFrom(Other(s))
               /\ io.taken[c][s] \in 0 .. peer[c][s].sent
               /\ peer[c][s].received \in 0 .. Len(io.delivered[c][s])
    <3>1. BytesInv(io, peer[c], c, s, Entry(c)[s]) /\ BytesInv(io, peer[c], c, Other(s), Entry(c)[Other(s)])
      BY <2>2, OtherIs
    <3>2. /\ peer[c][s].sent \in Nat /\ peer[c][s].received \in Nat /\ peer[c][s].ended \in {"no", "eof", "reset"}
          /\ io.taken[c][s] \in Nat /\ io.delivered[c][s] \in Seq(Nat) /\ MaxSent[s] \in Nat
      BY <2>1, ConstantsAssumption DEF PeerType, IoType, Sides
    <3>3. Len(io.delivered[c][s]) \in Nat
      BY <3>2, LenProperties
    <3> QED
      BY <3>1, <3>2, <3>3, OtherIs DEF BytesInv
  <2> QED
    BY <2>1, <2>3, <2>4, <2>5 DEF TypeOK, IoType, WriteType
<1> QED
  BY <1>1, Invariance, PTL

(* In a direction none of whose reads was handled during a write, what is  *)
(* delivered is what was sent, in order, byte for byte: recvMessageHandler_ *)
(* and sendMessageHandler_ share one buffer without a count of what is     *)
(* sent, and this is when it is enough.                                    *)
THEOREM InOrderHolds == Spec => []RelaysInOrder
<1>1. ASSUME IInv PROVE RelaysInOrder
  <2>1. ASSUME NEW c \in Conns, NEW s \in Sides, <<c, s>> \notin overlapped PROVE InOrder(io, c, Other(s))
    <3>1. DirInv(io, peer[c], c, s, Overlaps(c), Entry(c)) /\ s \notin Overlaps(c)
      BY <1>1, <2>1 DEF IInv, ClientInv, ConnInv, Overlaps
    <3> QED
      BY <3>1 DEF DirInv
  <2> QED
    BY <2>1 DEF RelaysInOrder, InOrder
<1> QED
  BY <1>1, Invariance, PTL

(* Nothing is pending for a finished client: it is closed.                 *)
LEMMA FinishedIs ==
  ASSUME IInv, NEW c \in Conns, Finished(c)
  PROVE  /\ Closed(io, c) /\ \A s \in Sides : <<c, s>> \notin io.open
         /\ \A e \in Pending(io) : e \notin Of(c)
<1>1. ConnInv(io, peer[c], c, Overlaps(c), Entry(c), c \in DOMAIN clients_) /\ io \in IoType
  BY DEF IInv, TypesInv, ClientInv
<1>2. \A e \in Pending(io) : e.c # c
  BY DEF Finished, Pending, ToSet
<1>3. \A e \in Pending(io) : e \notin Of(c)
  BY <1>2 DEF Of
<1>4. ~Starting(io, c)
  BY <1>2 DEF Finished, Starting, Accepting, Connecting, IsPending, Starts, Of
<1>5. PhaseInv(io, c)
  BY <1>1 DEF ConnInv
<1>6. Settled(io, c)
  BY <1>4, <1>5, SettledIs
<1>7. ~Running(io, c)
  <2>1. PICK s \in Sides : TRUE
    BY DEF Sides
  <2>2. ~OneTask(io, c, s)
    <3>1. <<c, s>> \notin io.reading /\ io.writes[c][Other(s)] = <<>>
      BY OtherIs DEF Finished
    <3>2. ~IsPending(io, Tasks(c, s)) /\ ~OneLast(io.writes[c][Other(s)])
      BY <1>3, <3>1, NoBytes DEF IsPending, OneLast, Tasks, Reads, Writes
    <3> QED
      BY <3>1, <3>2 DEF OneTask
  <2>3. DirInv(io, peer[c], c, s, Overlaps(c), Entry(c))
    BY <1>1 DEF ConnInv
  <2> QED
    BY <2>2, <2>3 DEF DirInv
<1> QED
  BY <1>3, <1>6, <1>7, SettledIs

(* terminateClientServerConnection_ leaves no entry and no open socket for *)
(* a client nothing is under way for, though handlers that run after it    *)
(* may make the entry again; unless a read overlapped a write.             *)
THEOREM NoEntryHolds == Spec => []NoEntryLeft
<1>1. ASSUME IInv PROVE NoEntryLeft
  <2>1. ASSUME NEW c \in Conns, Finished(c), {<<c, s>> : s \in Sides} \cap overlapped = {}
        PROVE  c \notin DOMAIN clients_
    <3>1. Closed(io, c) /\ \A e \in Pending(io) : e \notin Of(c)
      BY <1>1, <2>1, FinishedIs
    <3>2. Overlaps(c) = {}
      BY <2>1 DEF Overlaps
    <3>3. ClosedInv(io, peer[c], c, Overlaps(c), c \in DOMAIN clients_)
      BY <1>1 DEF IInv, ClientInv, ConnInv
    <3> QED
      BY <3>1, <3>2, <3>3 DEF ClosedInv
  <2> QED
    BY <1>1, <2>1, FinishedIs DEF NoEntryLeft
<1> QED
  BY <1>1, Invariance, PTL

(* A server that answers and closes is heard to the end by a client that   *)
(* keeps its own side open: the end of the server's bytes closes both      *)
(* sockets only after the last of them was delivered.                      *)
THEOREM WholeReplyHolds == Spec => []WholeReply
<1>1. ASSUME IInv PROVE WholeReply
  <2>1. ASSUME NEW c \in Conns, Finished(c), <<c, "server">> \notin overlapped,
               peer[c]["server"].ended = "eof", peer[c]["client"].ended = "no"
        PROVE  Len(io.delivered[c]["client"]) = peer[c]["server"].sent
    <3>1. Closed(io, c)
      BY <1>1, <2>1, FinishedIs
    <3>2. "server" \notin Overlaps(c)
      BY <2>1 DEF Overlaps
    <3>3. ClosedInv(io, peer[c], c, Overlaps(c), c \in DOMAIN clients_)
      BY <1>1 DEF IInv, ClientInv, ConnInv
    <3> QED
      BY <2>1, <3>1, <3>2, <3>3 DEF ClosedInv
  <2> QED
    BY <2>1 DEF WholeReply
<1> QED
  BY <1>1, Invariance, PTL

LEMMA NoneOrOne ==
  /\ Cardinality({}) = 0
  /\ \A x : Cardinality({x}) = 1
BY FS_EmptySet, FS_Singleton

(* The counts of a direction that has one task.                            *)
LEMMA TasksCounted ==
  ASSUME io \in IoType, NEW c \in Conns, NEW s \in Sides, OneTask(io, c, s)
  PROVE  LET waits == IF <<c, s>> \in io.reading THEN 1 ELSE 0
             recvs == Cardinality(Queued(c, s, {"recv"}))
             lasts == Cardinality(WaitingLast(c, Other(s)))
             sends == Cardinality(LastWrites(c, Other(s)))
         IN waits + recvs + lasts + sends = 1
<1> DEFINE q == Completed(io)
           w == io.writes[c][Other(s)]
           R == Queued(c, s, {"recv"})
           L == LastWrites(c, Other(s))
           W == WaitingLast(c, Other(s))
<1>1. \A i \in DOMAIN q : q[i] \in CompletionType /\ q[i] \in Pending(io)
  BY QueueType DEF Pending, ToSet
<1>2. /\ \A i : i \in R <=> i \in DOMAIN q /\ q[i] \in Reads(c, s)
      /\ \A i : i \in L <=> i \in DOMAIN q /\ q[i] \in Writes(c, Other(s)) /\ q[i].last
      /\ \A i : i \in W <=> i \in DOMAIN w /\ w[i].last
  BY <1>1 DEF Queued, LastWrites, WaitingLast, Reads, Writes, Of
<1>3. NonePending(io, Tasks(c, s)) => R = {} /\ L = {}
  BY <1>1, <1>2 DEF NonePending, Tasks
<1>4. NoneLast(w) => W = {}
  BY <1>2 DEF NoneLast
<1>5. CASE <<c, s>> \in io.reading /\ NonePending(io, Tasks(c, s)) /\ NoneLast(w)
  BY <1>3, <1>4, <1>5, NoneOrOne
<1>6. CASE /\ <<c, s>> \notin io.reading /\ NoneLast(w)
           /\ IsPending(io, Tasks(c, s)) /\ AtMostOne(Tasks(c, s), Completed(io))
  <2>1. PICK i \in DOMAIN q : q[i] \in Tasks(c, s)
    BY <1>6 DEF IsPending, Pending, ToSet
  <2>2. \A j \in DOMAIN q : q[j] \in Tasks(c, s) => j = i
    BY <1>6, <2>1 DEF AtMostOne
  <2>3. (\A j \in R : j = i) /\ (\A j \in L : j = i)
    BY <1>2, <2>2 DEF Tasks
  <2>4. i \in R \/ i \in L
    BY <1>2, <2>1 DEF Tasks
  <2>5. ~(i \in R /\ i \in L)
    BY <1>2, DirsApart
  <2> HIDE DEF R, L, W, w, q
  <2>6. (R = {i} /\ L = {}) \/ (R = {} /\ L = {i})
    BY <2>3, <2>4, <2>5
  <2>7. W = {}
    BY <1>4, <1>6
  <2>8. Cardinality({i}) = 1 /\ Cardinality({}) = 0
    BY NoneOrOne
  <2>9. /\ (Cardinality(R) = 1 /\ Cardinality(L) = 0) \/ (Cardinality(R) = 0 /\ Cardinality(L) = 1)
        /\ Cardinality(W) = 0
    <3>1. CASE R = {i} /\ L = {}
      BY <2>7, <2>8, <3>1
    <3>2. CASE R = {} /\ L = {i}
      BY <2>7, <2>8, <3>2
    <3> QED
      BY <2>6, <3>1, <3>2
  <2> QED
    BY <1>6, <2>9 DEF R, L, W
<1>7. CASE <<c, s>> \notin io.reading /\ NonePending(io, Tasks(c, s)) /\ OneLast(w)
  <2>1. PICK i \in DOMAIN w : w[i].last /\ \A j \in DOMAIN w : w[j].last => j = i
    BY <1>7 DEF OneLast
  <2>2. W = {i}
    BY <1>2, <2>1
  <2>3. Cardinality({i}) = 1 /\ Cardinality({}) = 0
    BY NoneOrOne
  <2> HIDE DEF R, L, W
  <2>4. Cardinality(R) = 0 /\ Cardinality(L) = 0 /\ Cardinality(W) = 1
    BY <1>3, <1>7, <2>2, <2>3
  <2> QED
    BY <1>7, <2>4 DEF R, L, W
<1> QED
  BY <1>5, <1>6, <1>7 DEF OneTask

(* A connection in use has in each direction one read or one last write    *)
(* under way, whatever the handlers and the peers do: never two reads into *)
(* one temp buffer, and never nothing to wake it.                          *)
THEOREM OneTaskHolds == Spec => []OneTaskPerDirection
<1>1. ASSUME IInv PROVE OneTaskPerDirection
  <2>1. ASSUME NEW c \in Conns, Connected(c, "server"), NEW s \in Sides PROVE OneTask(io, c, s)
    <3>1. /\ ConnInv(io, peer[c], c, Overlaps(c), Entry(c), c \in DOMAIN clients_) /\ io \in IoType
      BY <1>1 DEF IInv, TypesInv, ClientInv
    <3>2. PICK t \in Sides : t = "server"
      BY DEF Sides
    <3>3. Running(io, c)
      BY <2>1, <3>1, <3>2, ConnectedIs DEF ConnInv
    <3> QED
      BY <3>1, <3>3 DEF ConnInv, DirInv
  <2>2. io \in IoType
    BY <1>1 DEF IInv, TypesInv
  <2> QED
    BY <2>1, <2>2, TasksCounted DEF OneTaskPerDirection
<1> QED
  BY <1>1, Invariance, PTL
=============================================================================
