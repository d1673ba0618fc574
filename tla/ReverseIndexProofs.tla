------------------------- MODULE ReverseIndexProofs -------------------------
(***************************************************************************)
(* Theorems about ReverseIndex, for any input file and any length of runs. *)
(*                                                                         *)
(* First the order of pairs and what sorting gives; then the runs, the     *)
(* cursors in the heap and what has been merged; then the index.           *)
(***************************************************************************)
EXTENDS ReverseIndex, SequenceTheorems, FunctionTheorems, FiniteSetTheorems, WellFoundedInduction, TLAPS

-----------------------------------------------------------------------------
(* Numbers and pairs. *)

(* A set of numbers has a least one. *)
LEMMA LeastNumber ==
  ASSUME NEW T \in SUBSET Nat, T # {}
  PROVE  \E x \in T : \A y \in T : x <= y
<1> DEFINE R == {ss \in Nat \X Nat : ss[1] < ss[2]}
<1>1. IsWellFoundedOn(R, Nat)
  BY NatLessThanWellFounded DEF OpToRel
<1>2. \A x, y \in Nat : x < y => <<x, y>> \in R
  OBVIOUS
<1> HIDE DEF R
<1>3. PICK x \in T : \A y \in T : ~(<<y, x>> \in R)
  BY <1>1, WFMin
<1>4. ASSUME NEW y \in T
      PROVE  x <= y
  <2>1. x \in Nat /\ y \in Nat /\ ~(y < x)
    BY <1>2, <1>3
  <2> QED
    BY <2>1
<1> QED
  BY <1>4

Pair == Nat \X Nat

(* PairLess is a total order. *)
LEMMA PairOrder ==
  ASSUME NEW a \in Pair, NEW b \in Pair
  PROVE  /\ ~PairLess(a, a)
         /\ PairLess(a, b) => ~PairLess(b, a)
         /\ ~PairLess(a, b) /\ ~PairLess(b, a) => a = b
         /\ \A c \in Pair : /\ ~PairLess(b, a) /\ ~PairLess(c, b) => ~PairLess(c, a)
                            /\ PairLess(a, b) /\ ~PairLess(c, b) => PairLess(a, c)
BY DEF Pair, PairLess

-----------------------------------------------------------------------------
(* Sorting. *)

(* h numbers the elements of S with 1 .. n. *)
Numbering(h, n, S) ==
  /\ h \in [1 .. n -> S]
  /\ \A i, j \in 1 .. n : h[i] = h[j] => i = j
  /\ \A x \in S : \E i \in 1 .. n : h[i] = x

Permutation(f, n) == Numbering(f, n, 1 .. n)

LEMMA BijectionNumbers ==
  ASSUME NEW f, NEW n
  PROVE  f \in Bijection(1 .. n, 1 .. n) <=> Permutation(f, n)
<1>1. ASSUME f \in Bijection(1 .. n, 1 .. n)
      PROVE  Permutation(f, n)
  <2>1. f \in [1 .. n -> 1 .. n] /\ \A i, j \in 1 .. n : f[i] = f[j] => i = j
    BY <1>1, Zenon DEF Bijection, Injection, IsInjective
  <2>2. \A k \in 1 .. n : \E i \in 1 .. n : f[i] = k
    BY <1>1, Zenon DEF Bijection, Surjection
  <2> QED
    BY <2>1, <2>2, Zenon DEF Permutation, Numbering
<1>2. ASSUME Permutation(f, n)
      PROVE  f \in Bijection(1 .. n, 1 .. n)
  <2>1. /\ f \in [1 .. n -> 1 .. n]
        /\ \A i, j \in 1 .. n : f[i] = f[j] => i = j
        /\ \A k \in 1 .. n : \E i \in 1 .. n : f[i] = k
    BY <1>2 DEF Permutation, Numbering
  <2> QED
    BY <2>1, Zenon DEF Bijection, Injection, Surjection, IsInjective
<1> QED
  BY <1>1, <1>2

(* A numbering counts. *)
LEMMA NumberingCounts ==
  ASSUME NEW n \in Nat, NEW S, NEW h, Numbering(h, n, S)
  PROVE  IsFiniteSet(S) /\ Cardinality(S) = n
<1>1. h \in Bijection(1 .. n, S)
  BY Zenon DEF Numbering, Bijection, Injection, Surjection, IsInjective
<1>2. IsFiniteSet(1 .. n) /\ Cardinality(1 .. n) = n
  BY FS_Interval
<1> QED
  BY <1>1, <1>2, FS_Bijection DEF ExistsBijection

LEMMA NumberingComposed ==
  ASSUME NEW n, NEW S, NEW f, Permutation(f, n), NEW h, Numbering(h, n, S)
  PROVE  Numbering([i \in 1 .. n |-> h[f[i]]], n, S)
<1> DEFINE q == [i \in 1 .. n |-> h[f[i]]]
<1>1. \A i \in 1 .. n : f[i] \in 1 .. n /\ q[i] = h[f[i]] /\ q[i] \in S
  BY Zenon DEF Permutation, Numbering
<1>2. q \in [1 .. n -> S]
  BY <1>1
<1> HIDE DEF q
<1>3. ASSUME NEW i \in 1 .. n, NEW j \in 1 .. n, q[i] = q[j]
      PROVE  i = j
  <2>1. f[i] = f[j]
    BY <1>1, <1>3 DEF Numbering
  <2> QED
    BY <2>1 DEF Permutation, Numbering
<1>4. ASSUME NEW x \in S
      PROVE  \E i \in 1 .. n : q[i] = x
  <2>1. PICK k \in 1 .. n : h[k] = x
    BY DEF Numbering
  <2>2. PICK i \in 1 .. n : f[i] = k
    BY DEF Permutation, Numbering
  <2> QED
    BY <1>1, <2>1, <2>2
<1>5. Numbering(q, n, S)
  BY <1>2, <1>3, <1>4, Zenon DEF Numbering
<1> QED
  BY <1>5 DEF q

Sortable(n) ==
  \A s \in [1 .. n -> Pair] : \E f : Permutation(f, n) /\ InOrder([i \in 1 .. n |-> s[f[i]]])

(* One more element is put before the first that is greater. *)
LEMMA SortableNext ==
  ASSUME NEW n \in Nat, Sortable(n)
  PROVE  Sortable(n + 1)
<1> SUFFICES ASSUME NEW s \in [1 .. n + 1 -> Pair]
             PROVE  \E f : Permutation(f, n + 1) /\ InOrder([i \in 1 .. n + 1 |-> s[f[i]]])
  BY DEF Sortable
<1>1. PICK g : Permutation(g, n) /\ InOrder([i \in 1 .. n |-> [x \in 1 .. n |-> s[x]][g[i]]])
  <2>1. [x \in 1 .. n |-> s[x]] \in [1 .. n -> Pair]
    OBVIOUS
  <2> QED
    BY <2>1 DEF Sortable
<1>2. /\ g \in [1 .. n -> 1 .. n]
      /\ \A i, j \in 1 .. n : g[i] = g[j] => i = j
      /\ \A k \in 1 .. n : \E i \in 1 .. n : g[i] = k
  BY <1>1 DEF Permutation, Numbering
<1> DEFINE u(i) == s[g[i]]
           e == s[n + 1]
<1>3. e \in Pair /\ \A i \in 1 .. n : g[i] \in 1 .. n /\ u(i) \in Pair
  <2>1. n + 1 \in 1 .. n + 1 /\ 1 .. n \subseteq 1 .. n + 1
    OBVIOUS
  <2>2. \A i \in 1 .. n : g[i] \in 1 .. n
    BY <1>2
  <2> QED
    BY <2>1, <2>2, Zenon
<1>4. ASSUME NEW i \in 1 .. n, NEW k \in 1 .. n, i < k
      PROVE  ~PairLess(u(k), u(i))
  <2> DEFINE t == [x \in 1 .. n |-> [y \in 1 .. n |-> s[y]][g[x]]]
  <2>1. DOMAIN t = 1 .. n /\ t[i] = u(i) /\ t[k] = u(k)
    BY <1>3
  <2>2. InOrder(t)
    BY <1>1
  <2> HIDE DEF t, u
  <2> QED
    BY <1>4, <2>1, <2>2 DEF InOrder
<1> HIDE DEF u, e
<1>5. PICK j \in 1 .. n + 1 : /\ \A i \in 1 .. n : i < j => ~PairLess(e, u(i))
                              /\ j # n + 1 => PairLess(e, u(j))
  <2> DEFINE J == {j \in 1 .. n + 1 : j = n + 1 \/ PairLess(e, u(j))}
  <2>1. J \in SUBSET Nat /\ n + 1 \in J
    OBVIOUS
  <2>2. PICK j \in J : \A k \in J : j <= k
    BY <2>1, LeastNumber
  <2>3. ASSUME NEW i \in 1 .. n, i < j
        PROVE  ~PairLess(e, u(i))
    <3>1. i \in Nat /\ j \in Nat /\ i \in 1 .. n + 1 /\ ~(j <= i)
      BY <2>1, <2>2, <2>3
    <3>2. i \notin J
      BY <2>2, <3>1
    <3> QED
      BY <3>1, <3>2
  <2> QED
    BY <2>2, <2>3
<1> DEFINE f == [i \in 1 .. n + 1 |-> IF i < j THEN g[i] ELSE IF i = j THEN n + 1 ELSE g[i - 1]]
           t == [i \in 1 .. n + 1 |-> s[f[i]]]
<1>6. ASSUME NEW i \in 1 .. n + 1
      PROVE  /\ i < j => i \in 1 .. n /\ f[i] = g[i] /\ g[i] \in 1 .. n
             /\ i = j => f[i] = n + 1
             /\ i > j => i - 1 \in 1 .. n /\ f[i] = g[i - 1] /\ g[i - 1] \in 1 .. n
  <2>1. i < j => i \in 1 .. n
    OBVIOUS
  <2>2. i > j => i - 1 \in 1 .. n
    OBVIOUS
  <2>3. f[i] = IF i < j THEN g[i] ELSE IF i = j THEN n + 1 ELSE g[i - 1]
    OBVIOUS
  <2> HIDE DEF f
  <2>4. i < j => f[i] = g[i] /\ g[i] \in 1 .. n
    BY <1>2, <2>1, <2>3
  <2>5. i = j => f[i] = n + 1
    BY <2>3
  <2>6. i > j => f[i] = g[i - 1] /\ g[i - 1] \in 1 .. n
    BY <1>2, <2>2, <2>3
  <2> QED
    BY <2>1, <2>2, <2>4, <2>5, <2>6
<1>7. \A i \in 1 .. n + 1 : i < j \/ i = j \/ i > j
  OBVIOUS
<1>8. Permutation(f, n + 1)
  <2>1. f \in [1 .. n + 1 -> 1 .. n + 1]
    <3>1. ASSUME NEW i \in 1 .. n + 1
          PROVE  f[i] \in 1 .. n + 1
      <4> HIDE DEF f
      <4> QED
        BY <1>6, <1>7
    <3> QED
      BY <3>1
  <2>2. ASSUME NEW i \in 1 .. n + 1, NEW k \in 1 .. n + 1, f[i] = f[k]
        PROVE  i = k
    <3> HIDE DEF f
    <3>1. CASE i = j
      BY <1>6, <1>7, <2>2, <3>1
    <3>2. CASE k = j
      BY <1>6, <1>7, <2>2, <3>2
    <3>3. CASE i < j /\ k < j
      BY <1>2, <1>6, <2>2, <3>3
    <3>4. CASE i < j /\ k > j
      <4>1. i = k - 1
        BY <1>2, <1>6, <2>2, <3>4
      <4> QED
        BY <3>4, <4>1
    <3>5. CASE i > j /\ k < j
      <4>1. i - 1 = k
        BY <1>2, <1>6, <2>2, <3>5
      <4> QED
        BY <3>5, <4>1
    <3>6. CASE i > j /\ k > j
      <4>1. i - 1 = k - 1
        BY <1>2, <1>6, <2>2, <3>6
      <4> QED
        BY <4>1
    <3> QED
      BY <1>7, <3>1, <3>2, <3>3, <3>4, <3>5, <3>6
  <2>3. ASSUME NEW k \in 1 .. n + 1
        PROVE  \E i \in 1 .. n + 1 : f[i] = k
    <3> HIDE DEF f
    <3>1. CASE k = n + 1
      BY <1>6, <3>1
    <3>2. CASE k # n + 1
      <4>0. k \in 1 .. n
        BY <3>2
      <4>1. PICK i \in 1 .. n : g[i] = k
        BY <1>2, <4>0
      <4>2. CASE i < j
        <5>1. i \in 1 .. n + 1
          OBVIOUS
        <5> QED
          BY <1>6, <4>1, <4>2, <5>1
      <4>3. CASE ~(i < j)
        <5>1. i + 1 \in 1 .. n + 1 /\ i + 1 > j /\ (i + 1) - 1 = i
          BY <4>3
        <5>2. f[i + 1] = g[i]
          BY <1>6, <5>1
        <5> QED
          BY <4>1, <5>1, <5>2
      <4> QED
        BY <4>2, <4>3
    <3> QED
      BY <3>1, <3>2
  <2> HIDE DEF f
  <2> QED
    BY <2>1, <2>2, <2>3 DEF Permutation, Numbering
<1>9. InOrder(t)
  <2>0. \A i \in 1 .. n + 1 : t[i] = s[f[i]]
    OBVIOUS
  <2> HIDE DEF f
  <2>1. DOMAIN t = 1 .. n + 1
    OBVIOUS
  <2> HIDE DEF t
  <2>2. \A i \in 1 .. n + 1 : /\ i < j => i \in 1 .. n /\ t[i] = u(i)
                              /\ i = j => t[i] = e
                              /\ i > j => i - 1 \in 1 .. n /\ t[i] = u(i - 1)
    BY <1>6, <2>0 DEF u, e
  <2>3. ASSUME NEW i \in 1 .. n + 1, NEW k \in 1 .. n + 1, i < k
        PROVE  ~PairLess(t[k], t[i])
    <3>1. CASE k < j
      <4>1. i \in 1 .. n /\ k \in 1 .. n /\ t[i] = u(i) /\ t[k] = u(k)
        BY <2>2, <2>3, <3>1
      <4> QED
        BY <1>4, <2>3, <4>1
    <3>2. CASE k = j
      <4>1. i < j /\ i \in 1 .. n /\ t[i] = u(i) /\ t[k] = e
        BY <2>2, <2>3, <3>2
      <4> QED
        BY <1>5, <4>1
    <3>3. CASE k > j /\ i < j
      <4>1. i \in 1 .. n /\ k - 1 \in 1 .. n /\ i < k - 1 /\ t[i] = u(i) /\ t[k] = u(k - 1)
        BY <2>2, <3>3
      <4> QED
        BY <1>4, <4>1
    <3>4. CASE k > j /\ i = j
      <4>1. k - 1 \in 1 .. n /\ t[i] = e /\ t[k] = u(k - 1)
        BY <2>2, <3>4
      <4>2. j \in 1 .. n /\ j # n + 1 /\ (k - 1 = j \/ j < k - 1)
        BY <3>4
      <4>3. PairLess(e, u(j)) /\ u(j) \in Pair /\ u(k - 1) \in Pair
        BY <1>3, <1>5, <4>1, <4>2 DEF u
      <4>4. k - 1 = j \/ ~PairLess(u(k - 1), u(j))
        BY <1>4, <4>1, <4>2
      <4>5. PairLess(e, u(k - 1))
        BY <1>3, <4>3, <4>4, PairOrder
      <4> QED
        BY <1>3, <4>1, <4>3, <4>5, PairOrder
    <3>5. CASE k > j /\ i > j
      <4>1. i - 1 \in 1 .. n /\ k - 1 \in 1 .. n /\ i - 1 < k - 1 /\ t[i] = u(i - 1) /\ t[k] = u(k - 1)
        BY <2>2, <2>3, <3>5
      <4> QED
        BY <1>4, <4>1
    <3> QED
      BY <1>7, <3>1, <3>2, <3>3, <3>4, <3>5
  <2> QED
    BY <2>1, <2>3 DEF InOrder
<1> HIDE DEF f
<1> QED
  BY <1>8, <1>9

(* Every sequence of pairs can be put in order: none is the shortest that  *)
(* cannot.                                                                 *)
LEMMA AllSortable == \A n \in Nat : Sortable(n)
<1> DEFINE T == {n \in Nat : ~Sortable(n)}
<1> SUFFICES ASSUME T # {} PROVE FALSE
  OBVIOUS
<1>1. PICK n \in T : \A m \in T : n <= m
  BY LeastNumber
<1>2. CASE n = 0
  <2>1. ASSUME NEW s \in [1 .. 0 -> Pair]
        PROVE  \E f : Permutation(f, 0) /\ InOrder([i \in 1 .. 0 |-> s[f[i]]])
    <3> DEFINE f == [i \in 1 .. 0 |-> i]
    <3>1. Permutation(f, 0)
      BY DEF Permutation, Numbering
    <3>2. InOrder([i \in 1 .. 0 |-> s[f[i]]])
      BY DEF InOrder
    <3> QED
      BY <3>1, <3>2
  <2>2. Sortable(0)
    BY <2>1 DEF Sortable
  <2> QED
    BY <1>2, <2>2
<1>3. CASE n # 0
  <2>1. n - 1 \in Nat /\ n - 1 \notin T /\ (n - 1) + 1 = n
    BY <1>1, <1>3
  <2>2. Sortable((n - 1) + 1)
    BY <2>1, SortableNext
  <2> QED
    BY <2>1, <2>2
<1> QED
  BY <1>2, <1>3

(* What sort gives. *)
LEMMA SortSpec ==
  ASSUME NEW s \in Seq(Pair)
  PROVE  /\ sort(s) \in Seq(Pair) /\ Len(sort(s)) = Len(s)
         /\ \E f : Permutation(f, Len(s)) /\ \A i \in 1 .. Len(s) : sort(s)[i] = s[f[i]]
         /\ \A i, j \in 1 .. Len(s) : i < j => ~PairLess(sort(s)[j], sort(s)[i])
<1> DEFINE n == Len(s)
<1>1. n \in Nat /\ s \in [1 .. n -> Pair] /\ DOMAIN s = 1 .. n
  BY LenProperties
<1> HIDE DEF n
<1>2. PICK f : Permutation(f, n) /\ InOrder([i \in 1 .. n |-> s[f[i]]])
  BY <1>1, AllSortable DEF Sortable
<1>3. \E t \in Rearranged(s) : InOrder(t)
  BY <1>1, <1>2, BijectionNumbers DEF Rearranged
<1>4. sort(s) \in Rearranged(s) /\ InOrder(sort(s))
  BY <1>3 DEF sort
<1>5. PICK h \in Bijection(1 .. n, 1 .. n) : sort(s) = [i \in 1 .. n |-> s[h[i]]]
  BY <1>1, <1>4 DEF Rearranged
<1>6. Permutation(h, n) /\ h \in [1 .. n -> 1 .. n]
  BY <1>5, BijectionNumbers DEF Permutation, Numbering
<1>7. sort(s) \in [1 .. n -> Pair]
  BY <1>1, <1>5, <1>6
<1>8. sort(s) \in Seq(Pair)
  BY <1>1, <1>7, SeqDef
<1>9. Len(sort(s)) = n /\ DOMAIN sort(s) = 1 .. n
  BY <1>1, <1>7, <1>8, LenProperties
<1> QED
  BY <1>4, <1>5, <1>6, <1>8, <1>9 DEF InOrder, n

-----------------------------------------------------------------------------
(* The invariant. *)

Cursor == [run : Nat, next_offset : Nat, word : Nat, doc : Nat]

(* The fields of the index are inside it. *)
IndexType(file) ==
  /\ file = [size |-> file.size, at |-> file.at] /\ file.size \in Nat
  /\ \A b \in DOMAIN file.at : b \in Nat /\ file.at[b].size \in Nat /\ b + file.at[b].size <= file.size

Types ==
  /\ input \in Inputs
  /\ pc \in {"read", "partlySort", "initialize", "merge", "offsets", "lists", "done"}
  /\ doc \in Nat \ {0} /\ word \in Nat \ {0}
  /\ DOMAIN word_dict_ \subseteq Nat /\ IsFiniteSet(DOMAIN word_dict_)
  /\ word_dict_ \in [DOMAIN word_dict_ -> Nat]
  /\ pairs \in Seq(Pair) /\ sort_buf_ \in Seq(Pair) /\ partly \in Seq(Pair) /\ sorted \in Seq(Pair)
  /\ file_positions_ \in Seq(Nat) /\ next_file_positions_ \in Seq(Nat)
  /\ read_pairs \in Nat /\ first \in Nat \ {0} /\ heap_ \subseteq Cursor
  /\ it \subseteq DOMAIN word_dict_
  /\ cur_offset \in Nat /\ prev_cnt_docs \in Nat /\ left \in Nat /\ read_docs \in 0 .. Len(sorted)
  /\ IndexType(index)

(* s is a rearrangement of the first pairs of all. *)
Rearranges(s, all) ==
  \E g : Permutation(g, Len(s)) /\ \A k \in 1 .. Len(s) : s[k] = all[g[k]]

(* The files before the merge: what is in the buffer are the pairs after   *)
(* those that have been flushed, which are rearranged.                     *)
Sorting ==
  /\ read_pairs = Len(partly) + Len(sort_buf_) /\ read_pairs <= Len(pairs) /\ Len(sort_buf_) < max_pairs_
  /\ \A i \in 1 .. Len(sort_buf_) : sort_buf_[i] = pairs[Len(partly) + i]
  /\ Rearranges(partly, pairs)
  /\ pc = "read" => read_pairs = 0 /\ file_positions_ = <<>> /\ next_file_positions_ = <<>>
  /\ pc = "partlySort" =>
       /\ Len(file_positions_) = Len(next_file_positions_) + 1
       /\ file_positions_[Len(file_positions_)] = Len(partly)
       /\ \A r \in 1 .. Len(next_file_positions_) : next_file_positions_[r] <= Len(partly)
  /\ pc \notin {"read", "partlySort"} =>
       Len(file_positions_) = Len(next_file_positions_) /\ Len(partly) = Len(pairs)

(* The last run may be said to end behind the blank after its last pair. *)
End(r) == Least(next_file_positions_[r], Len(partly))

Run(r) == file_positions_[r] + 1 .. End(r)

(* The runs follow each other, leave out no pair and are in order. *)
Runs ==
  /\ \A r \in 1 .. Len(next_file_positions_) : file_positions_[r] < End(r)
  /\ \A r \in 1 .. Len(file_positions_) - 1 : file_positions_[r + 1] = next_file_positions_[r]
  /\ \A r \in 1 .. Len(next_file_positions_), s \in 1 .. Len(file_positions_) :
       r < s => next_file_positions_[r] <= file_positions_[s]
  /\ \A k \in 1 .. Len(partly) : \E r \in 1 .. Len(next_file_positions_) : k \in Run(r)
  /\ \A r \in 1 .. Len(next_file_positions_) :
       \A i, j \in Run(r) : i < j => ~PairLess(partly[j], partly[i])

At(e) == <<e.word, e.doc>>

(* A cursor is in its run, the only one of it, and has read the pair at    *)
(* next_offset; what is sorted is in order and before every cursor.        *)
Merging ==
  /\ pc \in {"read", "partlySort"} => first = 1 /\ heap_ = {}
  /\ pc \in {"read", "partlySort", "initialize"} => sorted = <<>>
  /\ \A e \in heap_ : /\ e.run \in 1 .. Len(next_file_positions_) /\ e.next_offset \in Run(e.run)
                      /\ At(e) = partly[e.next_offset]
                      /\ sorted # <<>> => ~PairLess(At(e), sorted[Len(sorted)])
  /\ \A e, x \in heap_ : e.run = x.run => e = x
  /\ pc = "initialize" => \A e \in heap_ : e.run < first
  /\ \A i, j \in 1 .. Len(sorted) : i < j => ~PairLess(sorted[j], sorted[i])

IInv == Types /\ Sorting /\ Runs /\ Merging

(* What the loops over words, and the heap, take first. *)
LEMMA SmallestIs ==
  ASSUME NEW T \in SUBSET Nat, T # {}
  PROVE  Smallest(T) \in T /\ \A v \in T : Smallest(T) <= v
<1>1. \E x \in T : \A y \in T : x <= y
  BY LeastNumber
<1> QED
  BY <1>1 DEF Smallest

LEMMA LeastCursor ==
  ASSUME NEW H \in SUBSET Cursor, H # {}
  PROVE  \E m \in H : \A y \in H : ~PairLess(At(y), At(m))
<1> DEFINE W == {e.word : e \in H}
<1>0. \A e \in H : e.word \in Nat /\ e.doc \in Nat
  BY DEF Cursor
<1>1. PICK w \in W : \A v \in W : w <= v
  <2>1. W \subseteq Nat /\ W # {}
    BY <1>0
  <2> QED
    BY <2>1, LeastNumber
<1> DEFINE D == {e.doc : e \in {e \in H : e.word = w}}
<1>2. PICK d \in D : \A v \in D : d <= v
  <2>1. D \subseteq Nat
    BY <1>0
  <2>2. D # {}
    BY <1>1
  <2> QED
    BY <2>1, <2>2, LeastNumber
<1>3. PICK m \in H : m.word = w /\ m.doc = d
  BY <1>2
<1>4. ASSUME NEW y \in H
      PROVE  ~PairLess(At(y), At(m))
  <2>1. w <= y.word /\ (y.word = w => d <= y.doc)
    BY <1>1, <1>2
  <2>2. w \in Nat /\ d \in Nat /\ y.word \in Nat /\ y.doc \in Nat
    BY <1>0, <1>3
  <2> QED
    BY <1>3, <2>1, <2>2 DEF PairLess, At
<1> QED
  BY <1>3, <1>4

(* The words and documents of the input are numbers. *)
LEMMA InputTypes ==
  ASSUME input \in Inputs, NEW d \in 1 .. Len(input)
  PROVE  /\ input \in Seq([docid : Nat, words : Seq(0 .. UINT64_MAX)])
         /\ DOMAIN input = 1 .. Len(input) /\ Len(input) \in Nat
         /\ input[d].docid \in Nat /\ input[d].words \in Seq(Nat)
         /\ DOMAIN input[d].words = 1 .. Len(input[d].words) /\ Len(input[d].words) \in Nat
         /\ \A k \in 1 .. Len(input[d].words) : input[d].words[k] \in 0 .. UINT64_MAX
<1>1. input \in Seq([docid : Nat, words : Seq(0 .. UINT64_MAX)])
  BY ConstantsAssumption
<1>2. DOMAIN input = 1 .. Len(input) /\ Len(input) \in Nat
  BY <1>1, LenProperties
<1>3. input[d].docid \in Nat /\ input[d].words \in Seq(0 .. UINT64_MAX)
  <2>1. input[d] \in [docid : Nat, words : Seq(0 .. UINT64_MAX)]
    BY <1>1, <1>2, ElementOfSeq
  <2> QED
    BY <2>1
<1>4. input[d].words \in Seq(Nat)
  <2>1. 0 .. UINT64_MAX \subseteq Nat
    BY ConstantsAssumption
  <2> QED
    BY <1>3, <2>1, SeqMonotonic
<1>5. DOMAIN input[d].words = 1 .. Len(input[d].words) /\ Len(input[d].words) \in Nat
  BY <1>3, LenProperties
<1>6. \A k \in 1 .. Len(input[d].words) : input[d].words[k] \in 0 .. UINT64_MAX
  BY <1>3, ElementOfSeq
<1> QED
  BY <1>1, <1>2, <1>3, <1>4, <1>5, <1>6, Zenon

(* A field is written behind the others. *)
LEMMA WriteKeeps ==
  ASSUME NEW file, IndexType(file), NEW n \in Nat, NEW value
  PROVE  /\ IndexType(write(file, Field(n, value)))
         /\ write(file, Field(n, value)).size = file.size + n
         /\ file.size \in DOMAIN write(file, Field(n, value)).at
         /\ write(file, Field(n, value)).at[file.size] = Field(n, value)
         /\ \A b \in DOMAIN file.at : file.at[b].size > 0 =>
              /\ b \in DOMAIN write(file, Field(n, value)).at
              /\ write(file, Field(n, value)).at[b] = file.at[b]
<1> DEFINE f == Field(n, value)
           g == write(file, f)
<1>1. f.size = n
  BY DEF Field
<1> HIDE DEF f
<1>2. /\ g.size = file.size + n /\ g = [size |-> g.size, at |-> g.at]
      /\ DOMAIN g.at = DOMAIN file.at \cup {file.size}
      /\ \A b \in DOMAIN g.at : g.at[b] = IF b = file.size THEN f ELSE file.at[b]
  BY <1>1 DEF write
<1> HIDE DEF g
<1>3. ASSUME NEW b \in DOMAIN g.at
      PROVE  b \in Nat /\ g.at[b].size \in Nat /\ b + g.at[b].size <= g.size
  <2>1. CASE b = file.size
    BY <1>1, <1>2, <2>1 DEF IndexType
  <2>2. CASE b # file.size
    <3>1. b \in DOMAIN file.at /\ g.at[b] = file.at[b]
      BY <1>2, <2>2
    <3> QED
      BY <1>2, <3>1 DEF IndexType
  <2> QED
    BY <2>1, <2>2
<1>4. ASSUME NEW b \in DOMAIN file.at, file.at[b].size > 0
      PROVE  b \in DOMAIN g.at /\ g.at[b] = file.at[b]
  <2>1. b # file.size
    BY <1>4 DEF IndexType
  <2> QED
    BY <1>2, <2>1
<1>5. IndexType(g)
  <2>1. g.size \in Nat
    BY <1>2 DEF IndexType
  <2> QED
    BY <1>2, <1>3, <2>1 DEF IndexType
<1> QED
  BY <1>2, <1>4, <1>5 DEF f, g
(* A cursor goes on, if its run does, and if the heap has not its pair. *)
Advanced(H, run, offset, A) ==
  \/ /\ A = H
     /\ \/ ~(offset < next_file_positions_[run] /\ offset < Len(partly))
        \/ \E x \in H : At(x) = partly[offset + 1]
  \/ /\ offset < next_file_positions_[run] /\ offset < Len(partly)
     /\ \E e \in Cursor : /\ A = H \cup {e}
                          /\ e.run = run /\ e.next_offset = offset + 1
                          /\ At(e) = partly[offset + 1]

LEMMA AdvanceIs ==
  ASSUME partly \in Seq(Pair), NEW H, NEW run \in Nat, NEW offset \in Nat
  PROVE  Advanced(H, run, offset, Advance(H, run, offset))
<1>1. CASE ~(offset < next_file_positions_[run] /\ offset < Len(partly))
  BY <1>1 DEF Advance, HasNext, Advanced
<1>2. CASE offset < next_file_positions_[run] /\ offset < Len(partly)
  <2> DEFINE p == partly[offset + 1]
             e == [run |-> run, next_offset |-> offset + 1, word |-> p[1], doc |-> p[2]]
  <2>1. p \in Pair
    <3>1. offset + 1 \in 1 .. Len(partly)
      BY <1>2
    <3> QED
      BY <3>1, ElementOfSeq
  <2>2. p[1] \in Nat /\ p[2] \in Nat /\ p = <<p[1], p[2]>>
    BY <2>1 DEF Pair
  <2>3. Advance(H, run, offset) = HeapInsert(H, e)
    BY <1>2 DEF Advance, HasNext
  <2> HIDE DEF p
  <2>4. e \in Cursor
    BY <2>2 DEF Cursor
  <2>5. e.run = run /\ e.next_offset = offset + 1 /\ e.word = p[1] /\ e.doc = p[2]
    OBVIOUS
  <2>6. At(e) = p
    BY <2>2, <2>5 DEF At
  <2> HIDE DEF e
  <2>7. CASE \E x \in H : x.word = e.word /\ x.doc = e.doc
    <3>1. HeapInsert(H, e) = H
      BY <2>7 DEF HeapInsert
    <3>2. \E x \in H : At(x) = p
      BY <2>6, <2>7 DEF At
    <3> QED
      BY <2>3, <3>1, <3>2 DEF p, Advanced
  <2>8. CASE ~\E x \in H : x.word = e.word /\ x.doc = e.doc
    <3>1. HeapInsert(H, e) = H \cup {e}
      BY <2>8 DEF HeapInsert
    <3> QED
      BY <1>2, <2>3, <2>4, <2>5, <2>6, <3>1 DEF p, Advanced
  <2> QED
    BY <2>7, <2>8
<1> QED
  BY <1>1, <1>2

(* A step of the merge that takes a pair. *)
Taken(m) ==
  /\ m \in heap_ /\ \A y \in heap_ : ~PairLess(At(y), At(m))
  /\ heap_' = Advance(heap_ \ {m}, m.run, m.next_offset)
  /\ \/ m.word = UINT64_MAX /\ pc' = "offsets" /\ sorted' = sorted
     \/ m.word # UINT64_MAX /\ pc' = pc /\ sorted' = Append(sorted, At(m))

LEMMA MergeStepIs ==
  ASSUME heap_ \subseteq Cursor, MergeStep
  PROVE  \/ heap_ = {} /\ pc' = "offsets" /\ UNCHANGED <<heap_, sorted>>
         \/ \E m : Taken(m)
<1>1. CASE heap_ = {}
  BY <1>1 DEF MergeStep
<1>2. CASE heap_ # {}
  <2> DEFINE m == CHOOSE x \in heap_ : \A y \in heap_ : ~PairLess(<<y.word, y.doc>>, <<x.word, x.doc>>)
  <2>1. m \in heap_ /\ \A y \in heap_ : ~PairLess(<<y.word, y.doc>>, <<m.word, m.doc>>)
    <3>1. \E x \in heap_ : \A y \in heap_ : ~PairLess(<<y.word, y.doc>>, <<x.word, x.doc>>)
      BY <1>2, LeastCursor DEF At
    <3> QED
      BY <3>1
  <2>2. /\ heap_' = Advance(heap_ \ {m}, m.run, m.next_offset)
        /\ IF m.word = UINT64_MAX THEN pc' = "offsets" /\ UNCHANGED sorted
           ELSE sorted' = Append(sorted, <<m.word, m.doc>>) /\ UNCHANGED pc
    BY <1>2 DEF MergeStep
  <2> HIDE DEF m
  <2> QED
    BY <2>1, <2>2 DEF Taken, At
<1> QED
  BY <1>1, <1>2
(* Sequences. *)
LEMMA AppendedOrNot ==
  ASSUME NEW S, NEW s \in Seq(S), NEW x \in S, NEW t, t = s \/ t = Append(s, x)
  PROVE  t \in Seq(S)
<1>1. Append(s, x) \in Seq(S)
  BY AppendProperties
<1> QED
  BY <1>1

LEMMA FrontIs ==
  ASSUME NEW S, NEW s \in Seq(S), s # <<>>
  PROVE  /\ Front(s) \in Seq(S) /\ Len(Front(s)) = Len(s) - 1
         /\ \A i \in 1 .. Len(s) - 1 : Front(s)[i] = s[i]
<1>1. Len(s) \in Nat \ {0}
  BY EmptySeq
<1>2. \A i \in 1 .. Len(s) - 1 : s[i] \in S
  BY <1>1, ElementOfSeq
<1> DEFINE n == Len(s) - 1
<1>3. n \in Nat
  BY <1>1
<1>4. Front(s) = SubSeq(s, 1, n)
  BY DEF Front
<1> HIDE DEF n
<1>5. 1 \in Int /\ n \in Int /\ \A i \in 1 .. n : s[i] \in S
  BY <1>2, <1>3 DEF n
<1>6. /\ SubSeq(s, 1, n) \in Seq(S)
      /\ Len(SubSeq(s, 1, n)) = IF 1 <= n THEN n - 1 + 1 ELSE 0
      /\ \A i \in 1 .. n - 1 + 1 : SubSeq(s, 1, n)[i] = s[1 + i - 1]
  BY <1>5, SubSeqProperties
<1>7. /\ Front(s) \in Seq(S) /\ Len(Front(s)) = n
      /\ \A i \in 1 .. n : Front(s)[i] = s[i]
  BY <1>3, <1>4, <1>6
<1> QED
  BY <1>7 DEF n

LEMMA TypesInit == Init => Types
<1> SUFFICES ASSUME Init PROVE Types
  OBVIOUS
<1>1. /\ input \in Inputs /\ pc = "read" /\ doc = 1 /\ word = 1 /\ first = 1 /\ heap_ = {} /\ it = {}
      /\ pairs = <<>> /\ sort_buf_ = <<>> /\ partly = <<>> /\ sorted = <<>>
      /\ file_positions_ = <<>> /\ next_file_positions_ = <<>>
      /\ read_pairs = 0 /\ cur_offset = 0 /\ prev_cnt_docs = 0 /\ left = 0 /\ read_docs = 0
  BY DEF Init
<1>2. DOMAIN word_dict_ \subseteq Nat /\ IsFiniteSet(DOMAIN word_dict_) /\ word_dict_ \in [DOMAIN word_dict_ -> Nat]
  <2>1. word_dict_ = [w \in {} |-> 0]
    BY DEF Init
  <2>2. DOMAIN word_dict_ = {} /\ word_dict_ \in [{} -> Nat]
    BY <2>1
  <2>3. IsFiniteSet({})
    BY FS_EmptySet
  <2> QED
    BY <2>2, <2>3
<1>3. IndexType(index)
  BY DEF Init, IndexType
<1> QED
  <2>1. <<>> \in Seq(Pair) /\ <<>> \in Seq(Nat) /\ Len(<<>>) = 0
    BY EmptySeq
  <2>2. read_docs \in 0 .. Len(sorted)
    BY <1>1, <2>1
  <2>3. /\ pairs \in Seq(Pair) /\ sort_buf_ \in Seq(Pair) /\ partly \in Seq(Pair) /\ sorted \in Seq(Pair)
        /\ file_positions_ \in Seq(Nat) /\ next_file_positions_ \in Seq(Nat)
    BY <1>1, <2>1
  <2>4. /\ input \in Inputs
        /\ pc \in {"read", "partlySort", "initialize", "merge", "offsets", "lists", "done"}
        /\ doc \in Nat \ {0} /\ word \in Nat \ {0}
        /\ read_pairs \in Nat /\ first \in Nat \ {0}
        /\ cur_offset \in Nat /\ prev_cnt_docs \in Nat /\ left \in Nat
    BY <1>1
  <2>5. heap_ \subseteq Cursor /\ it \subseteq DOMAIN word_dict_
    BY <1>1
  <2> QED
    BY <1>2, <1>3, <2>2, <2>3, <2>4, <2>5 DEF Types

(* The counts of the words after one more word. *)
LEMMA DictAfterWord ==
  ASSUME Types, NEW w \in Nat,
         word_dict_' = [v \in DOMAIN word_dict_ \cup {w} |->
                          IF v # w THEN word_dict_[v]
                          ELSE IF v \in DOMAIN word_dict_ THEN word_dict_[v] + 1 ELSE 1]
  PROVE  /\ DOMAIN word_dict_' = DOMAIN word_dict_ \cup {w}
         /\ DOMAIN word_dict_' \subseteq Nat /\ IsFiniteSet(DOMAIN word_dict_')
         /\ word_dict_' \in [DOMAIN word_dict_' -> Nat]
<1>1. DOMAIN word_dict_' = DOMAIN word_dict_ \cup {w}
  OBVIOUS
<1>2. \A v \in DOMAIN word_dict_ : word_dict_[v] \in Nat
  BY DEF Types
<1>3. word_dict_' \in [DOMAIN word_dict_' -> Nat]
  BY <1>1, <1>2
<1>4. DOMAIN word_dict_ \subseteq Nat /\ IsFiniteSet(DOMAIN word_dict_)
  BY DEF Types
<1>5. IsFiniteSet(DOMAIN word_dict_ \cup {w})
  BY <1>4, FS_AddElement
<1> QED
  BY <1>1, <1>3, <1>4, <1>5

LEMMA TypesNext == Types /\ Sorting /\ Next => Types'
<1> SUFFICES ASSUME Types, Sorting, Next PROVE Types'
  OBVIOUS
<1>t. /\ input \in Inputs
      /\ pc \in {"read", "partlySort", "initialize", "merge", "offsets", "lists", "done"}
      /\ doc \in Nat \ {0} /\ word \in Nat \ {0}
      /\ pairs \in Seq(Pair) /\ sort_buf_ \in Seq(Pair) /\ partly \in Seq(Pair) /\ sorted \in Seq(Pair)
      /\ file_positions_ \in Seq(Nat) /\ next_file_positions_ \in Seq(Nat)
      /\ read_pairs \in Nat /\ first \in Nat \ {0} /\ heap_ \subseteq Cursor
      /\ it \subseteq DOMAIN word_dict_
      /\ cur_offset \in Nat /\ prev_cnt_docs \in Nat /\ left \in Nat /\ read_docs \in 0 .. Len(sorted)
      /\ IndexType(index)
  BY DEF Types
<1>d. /\ DOMAIN word_dict_ \subseteq Nat /\ IsFiniteSet(DOMAIN word_dict_)
      /\ word_dict_ \in [DOMAIN word_dict_ -> Nat]
  BY DEF Types
<1>l. Len(sorted) \in Nat /\ Cardinality(DOMAIN word_dict_) \in Nat
  BY <1>t, <1>d, FS_CardinalityType, LenProperties
<1>1. CASE ReadWord
  <2>1. doc \in 1 .. Len(input)
    <3>1. Len(input) \in Nat
      BY <1>t, ConstantsAssumption, LenProperties
    <3> QED
      BY <1>1, <1>t, <3>1 DEF ReadWord
  <2>2. word \in 1 .. Len(input[doc].words)
    BY <1>1, <1>t, <2>1, InputTypes DEF ReadWord
  <2>3. input[doc].words[word] \in Nat /\ input[doc].docid \in Nat
    <3>1. input[doc].words \in Seq(Nat)
      BY <1>t, <2>1, InputTypes
    <3> QED
      BY <1>t, <2>1, <2>2, <3>1, InputTypes, ElementOfSeq
  <2>4. pairs' \in Seq(Pair)
    <3>1. <<input[doc].words[word], input[doc].docid>> \in Pair
      BY <2>3 DEF Pair
    <3>2. pairs' = Append(pairs, <<input[doc].words[word], input[doc].docid>>)
      BY <1>1 DEF ReadWord
    <3> QED
      BY <1>t, <3>1, <3>2, AppendProperties
  <2>5. /\ DOMAIN word_dict_' = DOMAIN word_dict_ \cup {input[doc].words[word]}
        /\ DOMAIN word_dict_' \subseteq Nat /\ IsFiniteSet(DOMAIN word_dict_')
        /\ word_dict_' \in [DOMAIN word_dict_' -> Nat]
    BY <1>1, <2>3, DictAfterWord DEF ReadWord
  <2>6. word' \in Nat \ {0}
    BY <1>1, <1>t DEF ReadWord
  <2> QED
    BY <1>1, <1>t, <2>4, <2>5, <2>6 DEF ReadWord, Types, sorter, merger, writer
<1>2. CASE NextDocument
  <2>1. doc' \in Nat \ {0} /\ word' \in Nat \ {0}
    BY <1>2, <1>t DEF NextDocument
  <2> QED
    BY <1>2, <1>t, <1>d, <2>1 DEF NextDocument, Types, sorter, merger, writer
<1>3. CASE EndOfInput
  <2>1. file_positions_' \in Seq(Nat)
    BY <1>3 DEF EndOfInput
  <2> QED
    BY <1>3, <1>t, <1>d, <2>1 DEF EndOfInput, Types, reader, merger, writer
<1>4. CASE ReadPair
  <2> DEFINE buf == Append(sort_buf_, pairs[read_pairs + 1])
  <2>1. read_pairs + 1 \in 1 .. Len(pairs) /\ read_pairs' = read_pairs + 1
    <3>1. Len(pairs) \in Nat
      BY <1>t, LenProperties
    <3> QED
      BY <1>4, <1>t, <3>1 DEF ReadPair
  <2>2. buf \in Seq(Pair)
    BY <1>t, <2>1, ElementOfSeq, AppendProperties
  <2>3. sort(buf) \in Seq(Pair)
    BY <2>2, SortSpec
  <2>4. /\ sort_buf_' = buf \/ sort_buf_' = <<>>
        /\ partly' = partly \/ partly' = partly \o sort(buf)
        /\ file_positions_' = file_positions_ \/ file_positions_' = Append(file_positions_, read_pairs')
        /\ next_file_positions_' = next_file_positions_ \/ next_file_positions_' = Append(next_file_positions_, read_pairs')
    BY <1>4 DEF ReadPair
  <2> HIDE DEF buf
  <2>5. /\ sort_buf_' \in Seq(Pair) /\ partly' \in Seq(Pair) /\ read_pairs' \in Nat
    <3>1. <<>> \in Seq(Pair) /\ partly \o sort(buf) \in Seq(Pair) /\ read_pairs + 1 \in Nat
      BY <1>t, <2>3, ConcatProperties, EmptySeq
    <3> QED
      BY <1>t, <2>1, <2>2, <2>4, <3>1
  <2>6. file_positions_' \in Seq(Nat) /\ next_file_positions_' \in Seq(Nat)
    BY <1>t, <2>4, <2>5, AppendedOrNot
  <2> QED
    BY <1>4, <1>t, <1>d, <2>5, <2>6 DEF ReadPair, Types, reader, merger, writer
<1>5. CASE FlushRest
  <2>1. sort_buf_' = <<>> /\ first' = 1 /\ pc' = "initialize" /\ sort(sort_buf_) \in Seq(Pair) /\ Len(pairs) \in Nat
    BY <1>5, <1>t, SortSpec, LenProperties DEF FlushRest
  <2>2. partly' \in Seq(Pair)
    BY <1>5, <1>t, <2>1, ConcatProperties DEF FlushRest, EndOfRuns
  <2>3. file_positions_' \in Seq(Nat)
    <3>1. file_positions_ # <<>>
      BY <1>5, <1>t, LenProperties, EmptySeq DEF FlushRest, Sorting
    <3>2. file_positions_' = file_positions_ \/ file_positions_' = Front(file_positions_)
      BY <1>5 DEF FlushRest, LastRun
    <3> QED
      BY <1>t, <3>1, <3>2, FrontIs
  <2>4. next_file_positions_' \in Seq(Nat)
    <3>1. filesize_ \in Nat
      BY <2>1 DEF filesize_
    <3>2. next_file_positions_' = next_file_positions_ \/ next_file_positions_' = Append(next_file_positions_, filesize_)
      BY <1>5 DEF FlushRest
    <3> QED
      BY <1>t, <3>1, <3>2, AppendedOrNot
  <2> QED
    BY <1>5, <1>t, <1>d, <2>1, <2>2, <2>3, <2>4 DEF FlushRest, Types, reader, writer
<1>6. CASE InitializeHeap
  <2>1. heap_' \subseteq Cursor
    <3>1. CASE first \in DOMAIN file_positions_
      <4>1. file_positions_[first] \in Nat /\ heap_' = Advance(heap_, first, file_positions_[first])
        BY <1>6, <1>t, <3>1 DEF InitializeHeap
      <4>2. first \in Nat
        BY <1>t
      <4>3. heap_' = heap_ \/ \E e \in Cursor : heap_' = heap_ \cup {e}
        <5>1. Advanced(heap_, first, file_positions_[first], heap_')
          BY <1>t, <4>1, <4>2, AdvanceIs
        <5> HIDE DEF Cursor
        <5> QED
          BY <5>1 DEF Advanced
      <4> QED
        BY <1>t, <4>3
    <3>2. CASE first \notin DOMAIN file_positions_
      BY <1>6, <1>t, <3>2 DEF InitializeHeap
    <3> QED
      BY <3>1, <3>2
  <2>2. first' \in Nat \ {0} /\ pc' \in {"initialize", "merge"}
    BY <1>6, <1>t DEF InitializeHeap
  <2> QED
    BY <1>6, <1>t, <1>d, <2>1, <2>2 DEF InitializeHeap, Types, reader, sorter, writer
<1>7. CASE MergeStep
  <2>1. pc' \in {"merge", "offsets"}
    BY <1>7 DEF MergeStep
  <2>2. heap_' \subseteq Cursor /\ sorted' \in Seq(Pair) /\ Len(sorted') \in {Len(sorted), Len(sorted) + 1}
    <3>1. CASE UNCHANGED <<heap_, sorted>>
      BY <1>t, <3>1
    <3>2. CASE \E m : Taken(m)
      <4>1. PICK m : Taken(m)
        BY <3>2
      <4>2. m \in Cursor /\ m.run \in Nat /\ m.next_offset \in Nat /\ At(m) \in Pair
        BY <1>t, <4>1 DEF Taken, Cursor, At, Pair
      <4>3. heap_' \subseteq Cursor
        <5>1. heap_' = Advance(heap_ \ {m}, m.run, m.next_offset)
          BY <4>1 DEF Taken
        <5>2. heap_' = heap_ \ {m} \/ \E e \in Cursor : heap_' = (heap_ \ {m}) \cup {e}
          <6>1. Advanced(heap_ \ {m}, m.run, m.next_offset, heap_')
            BY <1>t, <4>2, <5>1, AdvanceIs
          <6> QED
            BY <6>1 DEF Advanced
        <5> QED
          BY <1>t, <5>2
      <4>4. sorted' = sorted \/ sorted' = Append(sorted, At(m))
        BY <4>1 DEF Taken
      <4>5. Append(sorted, At(m)) \in Seq(Pair) /\ Len(Append(sorted, At(m))) = Len(sorted) + 1
        BY <1>t, <4>2, AppendProperties
      <4> QED
        BY <1>t, <4>3, <4>4, <4>5
    <3> QED
      BY <1>7, <1>t, <3>1, <3>2, MergeStepIs
  <2>3. read_docs' = read_docs /\ read_docs' \in 0 .. Len(sorted') /\ it' = DOMAIN word_dict_
    BY <1>7, <1>t, <1>l, <2>2 DEF MergeStep
  <2> QED
    BY <1>7, <1>t, <1>d, <2>1, <2>2, <2>3 DEF MergeStep, Types, reader, sorter
<1>8. CASE WriteOffset
  <2> DEFINE w == Smallest(it)
  <2>1. w \in it /\ w \in Nat /\ word_dict_[w] \in Nat
    BY <1>8, <1>t, <1>d, SmallestIs DEF WriteOffset
  <2>2. /\ cur_offset' = cur_offset + (IF it = DOMAIN word_dict_ THEN HeaderSize ELSE ListSize(prev_cnt_docs))
        /\ prev_cnt_docs' = word_dict_[w]
        /\ index' = write(write(index, Field(8, w)), Field(8, cur_offset'))
        /\ it' = it \ {w}
    BY <1>8 DEF WriteOffset
  <2> HIDE DEF w
  <2>3. cur_offset' \in Nat
    BY <1>t, <1>l, <2>2 DEF HeaderSize, ListSize
  <2>4. IndexType(index')
    <3>1. IndexType(write(index, Field(8, w)))
      BY <1>t, WriteKeeps
    <3> QED
      BY <2>2, <3>1, WriteKeeps
  <2> QED
    BY <1>8, <1>t, <1>d, <2>1, <2>2, <2>3, <2>4 DEF WriteOffset, Types, reader, sorter, merger
<1>9. CASE EndOfOffsets
  <2>1. IndexType(index')
    <3>1. IndexType(write(index, Field(8, 0)))
      BY <1>t, WriteKeeps
    <3> QED
      BY <1>9, <3>1, WriteKeeps DEF EndOfOffsets
  <2> QED
    BY <1>9, <1>t, <1>d, <2>1 DEF EndOfOffsets, Types, reader, sorter, merger
<1>10. CASE WriteCount
  <2> DEFINE w == Smallest(it)
  <2>1. w \in it /\ w \in Nat /\ word_dict_[w] \in Nat
    BY <1>10, <1>t, <1>d, SmallestIs DEF WriteCount
  <2>2. index' = write(index, Field(4, CountField(word_dict_[w]))) /\ left' = word_dict_[w] /\ it' = it \ {w}
    BY <1>10 DEF WriteCount
  <2> HIDE DEF w
  <2>3. IndexType(index')
    BY <1>t, <2>2, WriteKeeps
  <2> QED
    BY <1>10, <1>t, <1>d, <2>1, <2>2, <2>3 DEF WriteCount, Types, reader, sorter, merger
<1>11. CASE WriteDocument
  <2>1. IndexType(index')
    BY <1>11, <1>t, WriteKeeps DEF WriteDocument
  <2>2. read_docs' \in 0 .. Len(sorted) /\ left' \in Nat
    BY <1>11, <1>t, <1>l DEF WriteDocument
  <2> QED
    BY <1>11, <1>t, <1>d, <2>1, <2>2 DEF WriteDocument, Types, reader, sorter, merger
<1>12. CASE EndOfLists
  BY <1>12, <1>t, <1>d DEF EndOfLists, Types, reader, sorter, merger, writer
<1> QED
  BY <1>1, <1>2, <1>3, <1>4, <1>5, <1>6, <1>7, <1>8, <1>9, <1>10, <1>11, <1>12 DEF Next
-----------------------------------------------------------------------------
(* The runs. *)


(* A buffer is sorted and flushed behind the file s. *)
LEMMA Flushed ==
  ASSUME NEW s \in Seq(Pair), NEW b \in Seq(Pair), NEW all \in Seq(Pair),
         \A i \in 1 .. Len(b) : b[i] = all[Len(s) + i],
         Rearranges(s, all)
  PROVE  LET t == s \o sort(b)
         IN  /\ t \in Seq(Pair) /\ Len(t) = Len(s) + Len(b)
             /\ Rearranges(t, all)
             /\ \A k \in 1 .. Len(s) : t[k] = s[k]
             /\ \A i, j \in Len(s) + 1 .. Len(t) : i < j => ~PairLess(t[j], t[i])
<1> DEFINE t == s \o sort(b)
           n == Len(s)
           m == Len(b)
<1>1. n \in Nat /\ m \in Nat
  BY LenProperties
<1>2. /\ sort(b) \in Seq(Pair) /\ Len(sort(b)) = m
      /\ \A i, j \in 1 .. m : i < j => ~PairLess(sort(b)[j], sort(b)[i])
  BY SortSpec
<1>3. PICK f : Permutation(f, m) /\ \A i \in 1 .. m : sort(b)[i] = b[f[i]]
  BY SortSpec
<1>4. PICK g : Permutation(g, n) /\ \A k \in 1 .. n : s[k] = all[g[k]]
  BY DEF Rearranges
<1>5. /\ t \in Seq(Pair) /\ Len(t) = n + m
      /\ \A i \in 1 .. n + m : t[i] = IF i <= n THEN s[i] ELSE sort(b)[i - n]
  <2>1. /\ t \in Seq(Pair) /\ Len(t) = Len(s) + Len(sort(b))
        /\ \A i \in 1 .. Len(s) + Len(sort(b)) : t[i] = IF i <= Len(s) THEN s[i] ELSE sort(b)[i - Len(s)]
    <3>1. sort(b) \in Seq(Pair)
      BY <1>2
    <3> QED
      BY <3>1, ConcatProperties
  <2> QED
    BY <1>2, <2>1
<1>6. \A i \in 1 .. m : b[i] = all[n + i]
  OBVIOUS
<1> HIDE DEF t, n, m
<1>7. /\ f \in [1 .. m -> 1 .. m] /\ \A i, j \in 1 .. m : f[i] = f[j] => i = j
      /\ \A x \in 1 .. m : \E i \in 1 .. m : f[i] = x
  BY <1>3 DEF Permutation, Numbering
<1>8. /\ g \in [1 .. n -> 1 .. n] /\ \A i, j \in 1 .. n : g[i] = g[j] => i = j
      /\ \A x \in 1 .. n : \E i \in 1 .. n : g[i] = x
  BY <1>4 DEF Permutation, Numbering
<1> DEFINE h == [k \in 1 .. n + m |-> IF k <= n THEN g[k] ELSE n + f[k - n]]
<1>9. ASSUME NEW k \in 1 .. n + m
      PROVE  /\ k <= n => k \in 1 .. n /\ h[k] = g[k] /\ h[k] \in 1 .. n /\ t[k] = s[k]
             /\ ~(k <= n) => /\ k - n \in 1 .. m /\ f[k - n] \in 1 .. m /\ h[k] = n + f[k - n]
                             /\ h[k] \in n + 1 .. n + m /\ t[k] = sort(b)[k - n]
  <2>1. k <= n => k \in 1 .. n
    OBVIOUS
  <2>2. ~(k <= n) => k - n \in 1 .. m
    BY <1>1
  <2>3. h[k] = IF k <= n THEN g[k] ELSE n + f[k - n]
    OBVIOUS
  <2> HIDE DEF h
  <2>4. k <= n => h[k] = g[k] /\ h[k] \in 1 .. n
    BY <1>8, <2>1, <2>3
  <2>5. ~(k <= n) => f[k - n] \in 1 .. m /\ h[k] = n + f[k - n]
    BY <1>7, <2>2, <2>3
  <2>6. ~(k <= n) => h[k] \in n + 1 .. n + m
    BY <1>1, <2>5
  <2> QED
    BY <1>5, <2>1, <2>2, <2>4, <2>5, <2>6

<1>10. h \in [1 .. n + m -> 1 .. n + m]
  <2>1. \A k \in 1 .. n + m : h[k] \in 1 .. n + m
    <3> HIDE DEF h
    <3> QED
      BY <1>1, <1>9
  <2> QED
    BY <2>1
<1> HIDE DEF h
<1>11. ASSUME NEW i \in 1 .. n + m, NEW j \in 1 .. n + m, h[i] = h[j]
       PROVE  i = j
  <2>1. CASE i <= n /\ j <= n
    BY <1>8, <1>9, <1>11, <2>1
  <2>2. CASE ~(i <= n) /\ ~(j <= n)
    <3>1. f[i - n] = f[j - n] /\ i - n \in 1 .. m /\ j - n \in 1 .. m
      <4>1. n + f[i - n] = n + f[j - n] /\ f[i - n] \in 1 .. m /\ f[j - n] \in 1 .. m
        BY <1>9, <1>11, <2>2
      <4> QED
        BY <1>1, <1>9, <2>2, <4>1
    <3>2. i - n = j - n
      BY <1>7, <3>1
    <3> QED
      BY <1>1, <3>2
  <2>3. CASE i <= n <=> ~(j <= n)
    <3>1. (h[i] \in 1 .. n /\ h[j] \in n + 1 .. n + m) \/ (h[j] \in 1 .. n /\ h[i] \in n + 1 .. n + m)
      BY <1>9, <2>3
    <3> QED
      BY <1>1, <1>11, <3>1
  <2> QED
    BY <2>1, <2>2, <2>3
<1>12. ASSUME NEW x \in 1 .. n + m
       PROVE  \E k \in 1 .. n + m : h[k] = x
  <2>1. CASE x <= n
    <3>1. PICK k \in 1 .. n : g[k] = x
      BY <1>8, <2>1
    <3>2. k \in 1 .. n + m /\ k <= n
      BY <1>1
    <3> QED
      BY <1>9, <3>1, <3>2
  <2>2. CASE ~(x <= n)
    <3>1. x - n \in 1 .. m
      BY <1>1, <2>2
    <3>2. PICK k \in 1 .. m : f[k] = x - n
      BY <1>7, <3>1
    <3>3. k + n \in 1 .. n + m /\ ~(k + n <= n) /\ (k + n) - n = k
      BY <1>1
    <3>4. h[k + n] = n + (x - n)
      BY <1>9, <3>2, <3>3
    <3> QED
      BY <1>1, <3>3, <3>4
  <2> QED
    BY <2>1, <2>2
<1>13. Permutation(h, n + m)
  BY <1>10, <1>11, <1>12 DEF Permutation, Numbering
<1>14. ASSUME NEW k \in 1 .. n + m
       PROVE  t[k] = all[h[k]]
  <2>1. CASE k <= n
    BY <1>4, <1>9, <2>1
  <2>2. CASE ~(k <= n)
    <3>1. t[k] = b[f[k - n]] /\ f[k - n] \in 1 .. m /\ h[k] = n + f[k - n]
      BY <1>3, <1>9, <2>2
    <3> QED
      BY <1>6, <3>1
  <2> QED
    BY <2>1, <2>2
<1>15. Rearranges(t, all)
  BY <1>5, <1>13, <1>14 DEF Rearranges
<1>16. \A k \in 1 .. n : t[k] = s[k]
  <2>1. \A k \in 1 .. n : k \in 1 .. n + m /\ k <= n
    BY <1>1
  <2> QED
    BY <1>9, <2>1
<1>17. ASSUME NEW i \in n + 1 .. n + m, NEW j \in n + 1 .. n + m, i < j
       PROVE  ~PairLess(t[j], t[i])
  <2>1. i \in 1 .. n + m /\ j \in 1 .. n + m /\ ~(i <= n) /\ ~(j <= n) /\ i - n < j - n
    BY <1>1, <1>17
  <2>2. t[i] = sort(b)[i - n] /\ t[j] = sort(b)[j - n] /\ i - n \in 1 .. m /\ j - n \in 1 .. m
    BY <1>9, <2>1
  <2> QED
    BY <1>2, <2>1, <2>2
<1>18. t \in Seq(Pair) /\ Len(t) = n + m
  BY <1>5
<1> QED
  BY <1>15, <1>16, <1>17, <1>18 DEF t, n, m
(* A run that is flushed follows the others. *)
LEMMA NewRun ==
  ASSUME Types, Sorting, Runs, pc = "partlySort",
         NEW b \in Seq(Pair), b # <<>>, \A i \in 1 .. Len(b) : b[i] = pairs[Len(partly) + i],
         partly' = partly \o sort(b),
         NEW e \in Nat, e \in {Len(partly) + Len(b), Len(partly) + Len(b) + 1},
         next_file_positions_' = Append(next_file_positions_, e),
         \/ file_positions_' = file_positions_
         \/ file_positions_' = Append(file_positions_, e) /\ e = Len(partly) + Len(b)
  PROVE  Runs'
<1>n. PICK n, m, R : n = Len(partly) /\ m = Len(b) /\ R = Len(next_file_positions_) + 1
  OBVIOUS
<1>0. partly \in Seq(Pair) /\ file_positions_ \in Seq(Nat) /\ next_file_positions_ \in Seq(Nat) /\ pairs \in Seq(Pair)
  BY DEF Types
<1>1. /\ n \in Nat /\ m \in Nat \ {0} /\ R \in Nat \ {0}
      /\ Len(file_positions_) = R /\ file_positions_[R] = n
      /\ \A r \in 1 .. R - 1 : next_file_positions_[r] <= n
      /\ e \in {n + m, n + m + 1}
  <2>1. n \in Nat /\ m \in Nat \ {0} /\ Len(next_file_positions_) \in Nat
    BY <1>0, <1>n, LenProperties, EmptySeq
  <2> QED
    BY <1>n, <2>1 DEF Sorting
<1>2. /\ Len(partly') = n + m
      /\ \A k \in 1 .. n : partly'[k] = partly[k]
      /\ \A i, j \in n + 1 .. n + m : i < j => ~PairLess(partly'[j], partly'[i])
  <2>1. Rearranges(partly, pairs)
    BY DEF Sorting
  <2> QED
    BY <1>0, <1>n, <2>1, Flushed
<1>3. /\ Len(next_file_positions_') = R /\ next_file_positions_'[R] = e
      /\ \A r \in 1 .. R - 1 : next_file_positions_'[r] = next_file_positions_[r]
  <2>1. /\ Len(Append(next_file_positions_, e)) = Len(next_file_positions_) + 1
        /\ \A i \in 1 .. Len(next_file_positions_) : Append(next_file_positions_, e)[i] = next_file_positions_[i]
        /\ Append(next_file_positions_, e)[Len(next_file_positions_) + 1] = e
    BY <1>0, AppendProperties
  <2>2. Len(next_file_positions_) = R - 1 /\ R = Len(next_file_positions_) + 1
    BY <1>0, <1>n, LenProperties
  <2> QED
    BY <2>1, <2>2
<1>4. /\ Len(file_positions_') \in {R, R + 1}
      /\ \A r \in 1 .. R : file_positions_'[r] = file_positions_[r]
      /\ Len(file_positions_') = R + 1 => e = n + m /\ file_positions_'[R + 1] = e
  <2>1. CASE file_positions_' = file_positions_
    <3>1. R # R + 1
      BY <1>1
    <3> QED
      BY <1>1, <2>1, <3>1
  <2>2. CASE file_positions_' = Append(file_positions_, e) /\ e = n + m
    <3>1. /\ Len(Append(file_positions_, e)) = Len(file_positions_) + 1
          /\ \A i \in 1 .. Len(file_positions_) : Append(file_positions_, e)[i] = file_positions_[i]
          /\ Append(file_positions_, e)[Len(file_positions_) + 1] = e
      BY <1>0, AppendProperties
    <3> QED
      BY <1>1, <2>2, <3>1
  <2> QED
    BY <1>n, <2>1, <2>2
<1>5. /\ \A r \in 1 .. R - 1 : file_positions_[r] \in Nat /\ next_file_positions_[r] \in Nat
      /\ \A r \in 1 .. R : file_positions_[r] \in Nat
  <2>1. \A r \in 1 .. R : file_positions_[r] \in Nat
    BY <1>0, <1>1, ElementOfSeq
  <2>2. \A r \in 1 .. Len(next_file_positions_) : next_file_positions_[r] \in Nat
    BY <1>0, ElementOfSeq
  <2>3. Len(next_file_positions_) = R - 1 /\ \A r \in 1 .. R - 1 : r \in 1 .. R
    BY <1>0, <1>n, LenProperties
  <2> QED
    BY <2>1, <2>2, <2>3
<1>6. /\ \A r \in 1 .. R - 1 : file_positions_[r] < End(r)
      /\ \A r \in 1 .. R - 1 : file_positions_[r + 1] = next_file_positions_[r]
      /\ \A r \in 1 .. R - 1, s \in 1 .. R : r < s => next_file_positions_[r] <= file_positions_[s]
      /\ \A k \in 1 .. n : \E r \in 1 .. R - 1 : k \in Run(r)
      /\ \A r \in 1 .. R - 1 : \A i, j \in Run(r) : i < j => ~PairLess(partly[j], partly[i])
  <2>1. Len(next_file_positions_) = R - 1
    BY <1>0, <1>n, LenProperties
  <2> QED
    BY <1>1, <1>n, <2>1 DEF Runs
<1>7. ASSUME NEW r \in 1 .. R - 1
      PROVE  /\ r \in 1 .. R /\ End(r) = next_file_positions_[r] /\ End(r)' = End(r) /\ End(r) <= n
             /\ Run(r)' = Run(r) /\ Run(r) \subseteq 1 .. n
  <2>1. r \in 1 .. R /\ next_file_positions_[r] <= n /\ next_file_positions_[r] \in Nat
    BY <1>1, <1>5
  <2>2. End(r) = next_file_positions_[r]
    BY <1>1, <1>n, <2>1 DEF End, Least
  <2>3. End(r)' = next_file_positions_[r]
    <3>1. next_file_positions_[r] <= n + m
      BY <1>1, <2>1
    <3> QED
      BY <1>2, <1>3, <3>1 DEF End, Least
  <2>4. Run(r)' = Run(r)
    BY <1>4, <2>1, <2>2, <2>3 DEF Run
  <2>5. Run(r) \subseteq 1 .. n
    BY <1>1, <1>5, <2>1, <2>2 DEF Run
  <2> QED
    BY <2>1, <2>2, <2>3, <2>4, <2>5
<1>8. End(R)' = n + m /\ Run(R)' = n + 1 .. n + m
  <2>1. End(R)' = n + m
    <3>1. End(R)' = Least(e, n + m)
      BY <1>2, <1>3 DEF End
    <3> QED
      BY <1>1, <3>1 DEF Least
  <2>2. R \in 1 .. R
    BY <1>1
  <2> QED
    BY <1>1, <1>4, <2>1, <2>2 DEF Run
<1>9. \A r \in 1 .. R : r \in 1 .. R - 1 \/ r = R
  BY <1>1

<1>10. \A r \in 1 .. R : file_positions_'[r] < End(r)'
  <2>1. file_positions_'[R] < End(R)'
    <3>1. R \in 1 .. R
      BY <1>1
    <3> QED
      BY <1>1, <1>4, <1>8, <3>1
  <2>2. \A r \in 1 .. R - 1 : file_positions_'[r] < End(r)'
    BY <1>4, <1>6, <1>7
  <2> QED
    BY <1>9, <2>1, <2>2
<1>11. \A r \in 1 .. Len(file_positions_') - 1 : file_positions_'[r + 1] = next_file_positions_'[r]
  <2> SUFFICES ASSUME NEW r \in 1 .. Len(file_positions_') - 1
               PROVE  file_positions_'[r + 1] = next_file_positions_'[r]
    OBVIOUS
  <2>1. CASE r = R
    <3>1. Len(file_positions_') = R + 1
      BY <1>1, <1>4, <2>1
    <3> QED
      BY <1>3, <1>4, <2>1, <3>1
  <2>2. CASE r # R
    <3>1. r \in 1 .. R - 1 /\ r + 1 \in 1 .. R
      BY <1>1, <1>4, <2>2
    <3> QED
      BY <1>3, <1>4, <1>6, <3>1
  <2> QED
    BY <2>1, <2>2
<1>12. \A r \in 1 .. R, s \in 1 .. Len(file_positions_') :
          r < s => next_file_positions_'[r] <= file_positions_'[s]
  <2> SUFFICES ASSUME NEW r \in 1 .. R, NEW s \in 1 .. Len(file_positions_'), r < s
               PROVE  next_file_positions_'[r] <= file_positions_'[s]
    OBVIOUS
  <2>1. CASE s \in 1 .. R
    <3>1. r \in 1 .. R - 1
      BY <1>1, <2>1
    <3> QED
      BY <1>3, <1>4, <1>6, <2>1, <3>1
  <2>2. CASE s \notin 1 .. R
    <3>1. Len(file_positions_') = R + 1 /\ s = R + 1
      BY <1>1, <1>4, <2>2
    <3>2. file_positions_'[s] = e /\ e = n + m
      BY <1>4, <3>1
    <3>3. CASE r = R
      BY <1>3, <3>2, <3>3
    <3>4. CASE r # R
      <4>1. r \in 1 .. R - 1
        BY <1>9, <3>4
      <4>2. next_file_positions_'[r] <= n
        BY <1>1, <1>3, <4>1
      <4>3. next_file_positions_'[r] \in Nat
        BY <1>3, <1>5, <4>1
      <4>4. file_positions_'[s] = n + m /\ n <= n + m /\ n \in Nat /\ m \in Nat
        BY <1>1, <3>2
      <4> DEFINE x == next_file_positions_'[r]
      <4>5. x \in Nat /\ x <= n
        BY <4>2, <4>3
      <4> HIDE DEF x
      <4>6. x <= n + m
        BY <4>4, <4>5
      <4> QED
        BY <4>4, <4>6 DEF x
    <3> QED
      BY <3>3, <3>4
  <2> QED
    BY <2>1, <2>2
<1>13. \A k \in 1 .. n + m : \E r \in 1 .. R : k \in Run(r)'
  <2> SUFFICES ASSUME NEW k \in 1 .. n + m
               PROVE  \E r \in 1 .. R : k \in Run(r)'
    OBVIOUS
  <2>1. CASE k <= n
    <3>1. k \in 1 .. n
      BY <2>1
    <3>2. PICK r \in 1 .. R - 1 : k \in Run(r)
      BY <1>6, <3>1
    <3> QED
      BY <1>7, <3>2
  <2>2. CASE ~(k <= n)
    <3>1. R \in 1 .. R /\ k \in n + 1 .. n + m
      BY <1>1, <2>2
    <3> QED
      BY <1>8, <3>1
  <2> QED
    BY <2>1, <2>2
<1>14. \A r \in 1 .. R : \A i, j \in Run(r)' : i < j => ~PairLess(partly'[j], partly'[i])
  <2> SUFFICES ASSUME NEW r \in 1 .. R, NEW i \in Run(r)', NEW j \in Run(r)', i < j
               PROVE  ~PairLess(partly'[j], partly'[i])
    OBVIOUS
  <2>1. CASE r = R
    BY <1>2, <1>8, <2>1
  <2>2. CASE r \in 1 .. R - 1
    <3>1. i \in Run(r) /\ j \in Run(r) /\ i \in 1 .. n /\ j \in 1 .. n
      BY <1>7, <2>2
    <3> QED
      BY <1>2, <1>6, <2>2, <3>1
  <2> QED
    BY <1>9, <2>1, <2>2
<1> QED
  BY <1>2, <1>3, <1>10, <1>11, <1>12, <1>13, <1>14 DEF Runs
LEMMA AppendIs ==
  ASSUME NEW S, NEW s \in Seq(S), NEW x \in S, NEW t, t = Append(s, x)
  PROVE  /\ t \in Seq(S) /\ t # <<>> /\ Len(t) = Len(s) + 1
         /\ \A i \in 1 .. Len(s) : t[i] = s[i]
         /\ t[Len(s) + 1] = x
BY AppendProperties

LEMMA SortingInit == Init => Sorting /\ Runs
<1> SUFFICES ASSUME Init PROVE Sorting /\ Runs
  OBVIOUS
<1>1. /\ pc = "read" /\ pairs = <<>> /\ read_pairs = 0 /\ sort_buf_ = <<>> /\ partly = <<>>
      /\ file_positions_ = <<>> /\ next_file_positions_ = <<>>
  BY DEF Init
<1>2. Len(<<>>) = 0
  BY EmptySeq
<1>3. Rearranges(<<>>, pairs)
  <2> DEFINE g == [i \in 1 .. 0 |-> i]
  <2>1. Permutation(g, 0)
    BY DEF Permutation, Numbering
  <2> HIDE DEF g
  <2> QED
    BY <1>2, <2>1 DEF Rearranges
<1>4. Sorting
  BY <1>1, <1>2, <1>3, ConstantsAssumption DEF Sorting
<1>5. Runs
  BY <1>1, <1>2 DEF Runs
<1> QED
  BY <1>4, <1>5

(* The files before the merge change only while they are written. *)
LEMMA SortingKept ==
  ASSUME Sorting, Runs, UNCHANGED <<pairs, sorter>>,
         pc' = pc \/ (pc \notin {"read", "partlySort"} /\ pc' \notin {"read", "partlySort"})
  PROVE  Sorting' /\ Runs'
<1>1. /\ read_pairs' = read_pairs /\ sort_buf_' = sort_buf_ /\ partly' = partly /\ pairs' = pairs
      /\ file_positions_' = file_positions_ /\ next_file_positions_' = next_file_positions_
  BY DEF sorter
<1>2. Sorting'
  BY <1>1 DEF Sorting
<1>3. \A r : End(r)' = End(r) /\ Run(r)' = Run(r)
  BY <1>1 DEF End, Run
<1>4. Runs'
  BY <1>1, <1>3 DEF Runs
<1> QED
  BY <1>2, <1>4

LEMMA SortingNext == Types /\ Sorting /\ Runs /\ Next => Sorting' /\ Runs'
<1> SUFFICES ASSUME Types, Sorting, Runs, Next PROVE Sorting' /\ Runs'
  OBVIOUS
<1>t. /\ pairs \in Seq(Pair) /\ sort_buf_ \in Seq(Pair) /\ partly \in Seq(Pair)
      /\ file_positions_ \in Seq(Nat) /\ next_file_positions_ \in Seq(Nat) /\ read_pairs \in Nat
  BY DEF Types
<1>l. /\ Len(pairs) \in Nat /\ Len(sort_buf_) \in Nat /\ Len(partly) \in Nat
      /\ Len(file_positions_) \in Nat /\ Len(next_file_positions_) \in Nat /\ Len(<<>>) = 0
  BY <1>t, LenProperties, EmptySeq
<1>s. /\ read_pairs = Len(partly) + Len(sort_buf_) /\ read_pairs <= Len(pairs) /\ Len(sort_buf_) < max_pairs_
      /\ \A i \in 1 .. Len(sort_buf_) : sort_buf_[i] = pairs[Len(partly) + i]
      /\ Rearranges(partly, pairs)
  BY DEF Sorting
<1>m. max_pairs_ \in Nat \ {0}
  BY ConstantsAssumption
<1>1. CASE ReadWord
  <2>1. pc = "read" /\ pc' = pc /\ UNCHANGED sorter
    BY <1>1 DEF ReadWord
  <2>2. /\ read_pairs' = 0 /\ file_positions_' = <<>> /\ next_file_positions_' = <<>>
        /\ Len(partly) = 0 /\ Len(sort_buf_) = 0 /\ partly' = partly /\ sort_buf_' = sort_buf_
    BY <1>l, <1>s, <2>1 DEF Sorting, sorter
  <2>3. Rearranges(partly', pairs')
    <3>1. PICK g : Permutation(g, 0)
      BY <1>s, <2>2 DEF Rearranges
    <3> QED
      BY <2>2, <3>1 DEF Rearranges
  <2>4. Len(pairs') \in Nat
    <3>1. PICK x : pairs' = Append(pairs, x)
      BY <1>1 DEF ReadWord
    <3> QED
      BY <1>t, <3>1
  <2>5. Sorting'
    BY <1>m, <2>1, <2>2, <2>3, <2>4 DEF Sorting
  <2>6. Runs'
    BY <1>l, <2>2 DEF Runs
  <2> QED
    BY <2>5, <2>6
<1>2. CASE NextDocument
  BY <1>2, SortingKept DEF NextDocument
<1>3. CASE EndOfInput
  <2>1. /\ pc = "read" /\ pc' = "partlySort" /\ file_positions_' = <<0>> /\ pairs' = pairs /\ read_pairs' = read_pairs
        /\ sort_buf_' = sort_buf_ /\ partly' = partly /\ next_file_positions_' = next_file_positions_
    BY <1>3 DEF EndOfInput, reader
  <2>2. /\ read_pairs = 0 /\ next_file_positions_ = <<>> /\ Len(partly) = 0 /\ Len(sort_buf_) = 0
    BY <1>l, <1>s, <2>1 DEF Sorting
  <2>3. Len(<<0>>) = 1 /\ <<0>>[1] = 0
    OBVIOUS
  <2>4. Sorting'
    BY <1>l, <1>s, <2>1, <2>2, <2>3 DEF Sorting
  <2>5. Runs'
    BY <1>l, <2>1, <2>2, <2>3 DEF Runs
  <2> QED
    BY <2>4, <2>5
<1>4. CASE ReadPair
  <2>1. PICK buf : buf = Append(sort_buf_, pairs[read_pairs + 1])
    OBVIOUS
  <2>2. /\ pc = "partlySort" /\ pc' = pc /\ pairs' = pairs
        /\ read_pairs < Len(pairs) /\ read_pairs' = read_pairs + 1
        /\ \/ Len(buf) < max_pairs_ /\ sort_buf_' = buf /\ UNCHANGED <<partly, file_positions_, next_file_positions_>>
           \/ /\ ~(Len(buf) < max_pairs_) /\ sort_buf_' = <<>> /\ partly' = partly \o sort(buf)
              /\ file_positions_' = Append(file_positions_, read_pairs')
              /\ next_file_positions_' = Append(next_file_positions_, read_pairs')
    BY <1>4, <2>1 DEF ReadPair, reader
  <2>3. /\ buf \in Seq(Pair) /\ buf # <<>> /\ Len(buf) = Len(sort_buf_) + 1
        /\ \A i \in 1 .. Len(sort_buf_) : buf[i] = sort_buf_[i]
        /\ buf[Len(sort_buf_) + 1] = pairs[read_pairs + 1]
    <3>1. pairs[read_pairs + 1] \in Pair
      BY <1>t, <1>l, <2>2, ElementOfSeq
    <3>2. sort_buf_ \in Seq(Pair)
      BY <1>t
    <3>3. buf \in Seq(Pair)
      BY <2>1, <3>1, <3>2, AppendIs
    <3>4. buf # <<>>
      BY <2>1, <3>1, <3>2, AppendIs
    <3>5. Len(buf) = Len(sort_buf_) + 1
      BY <2>1, <3>1, <3>2, AppendIs
    <3>6. \A i \in 1 .. Len(sort_buf_) : buf[i] = sort_buf_[i]
      BY <2>1, <3>1, <3>2, AppendIs
    <3>7. buf[Len(sort_buf_) + 1] = pairs[read_pairs + 1]
      BY <2>1, <3>1, <3>2, AppendIs
    <3> QED
      BY <3>3, <3>4, <3>5, <3>6, <3>7
  <2>4. \A i \in 1 .. Len(buf) : buf[i] = pairs[Len(partly) + i]
    <3> SUFFICES ASSUME NEW i \in 1 .. Len(buf) PROVE buf[i] = pairs[Len(partly) + i]
      OBVIOUS
    <3>1. CASE i = Len(sort_buf_) + 1
      <4>1. Len(partly) + i = read_pairs + 1
        BY <1>l, <1>s, <3>1
      <4> QED
        BY <2>3, <3>1, <4>1
    <3>2. CASE i # Len(sort_buf_) + 1
      <4>1. i \in 1 .. Len(sort_buf_)
        BY <1>l, <2>3, <3>2
      <4> QED
        BY <1>s, <2>3, <4>1
    <3> QED
      BY <3>1, <3>2
  <2>5. read_pairs' = Len(partly) + Len(buf) /\ read_pairs' <= Len(pairs) /\ read_pairs' \in Nat
    BY <1>t, <1>l, <1>s, <2>2, <2>3
  <2>6. CASE Len(buf) < max_pairs_ /\ sort_buf_' = buf /\ UNCHANGED <<partly, file_positions_, next_file_positions_>>
    <3>1. Sorting'
      BY <1>s, <2>2, <2>4, <2>5, <2>6 DEF Sorting
    <3>2. \A r : End(r)' = End(r) /\ Run(r)' = Run(r)
      BY <2>6 DEF End, Run
    <3>3. Runs'
      BY <2>6, <3>2 DEF Runs
    <3> QED
      BY <3>1, <3>3
  <2>7. CASE /\ sort_buf_' = <<>> /\ partly' = partly \o sort(buf)
             /\ file_positions_' = Append(file_positions_, read_pairs')
             /\ next_file_positions_' = Append(next_file_positions_, read_pairs')
    <3>1. PICK e \in Nat : e = read_pairs' /\ e = Len(partly) + Len(buf)
      BY <2>5
    <3>2. Runs'
      BY <2>2, <2>3, <2>4, <2>7, <3>1, NewRun
    <3>3. Len(partly') = e /\ Rearranges(partly', pairs)
      BY <1>t, <1>s, <2>3, <2>4, <2>7, <3>1, Flushed
    <3>4. /\ Len(file_positions_') = Len(file_positions_) + 1 /\ file_positions_'[Len(file_positions_) + 1] = e
          /\ Len(next_file_positions_') = Len(next_file_positions_) + 1
          /\ next_file_positions_'[Len(next_file_positions_) + 1] = e
          /\ \A r \in 1 .. Len(next_file_positions_) : next_file_positions_'[r] = next_file_positions_[r]
      BY <1>t, <2>7, <3>1, AppendProperties
    <3>5. /\ Len(file_positions_) = Len(next_file_positions_) + 1
          /\ \A r \in 1 .. Len(next_file_positions_) : next_file_positions_[r] <= Len(partly)
      BY <2>2 DEF Sorting
    <3>6. \A r \in 1 .. Len(next_file_positions_') : next_file_positions_'[r] <= Len(partly')
      <4> SUFFICES ASSUME NEW r \in 1 .. Len(next_file_positions_')
                   PROVE  next_file_positions_'[r] <= Len(partly')
        OBVIOUS
      <4>1. CASE r = Len(next_file_positions_) + 1
        BY <3>1, <3>3, <3>4, <4>1
      <4>2. CASE r # Len(next_file_positions_) + 1
        <5>1. r \in 1 .. Len(next_file_positions_)
          BY <1>l, <3>4, <4>2
        <5>2. next_file_positions_[r] \in Nat
          BY <1>t, <5>1, ElementOfSeq
        <5>3. Len(buf) \in Nat
          BY <1>l, <2>3
        <5> QED
          BY <1>l, <3>1, <3>3, <3>4, <3>5, <5>1, <5>2, <5>3
      <4> QED
        BY <4>1, <4>2
    <3>7. read_pairs' = Len(partly') + Len(sort_buf_') /\ Len(sort_buf_') = 0
      BY <1>l, <2>7, <3>1, <3>3
    <3>8. Sorting'
      <4>1. /\ read_pairs' <= Len(pairs') /\ Len(sort_buf_') < max_pairs_ /\ Rearranges(partly', pairs')
            /\ \A i \in 1 .. Len(sort_buf_') : sort_buf_'[i] = pairs'[Len(partly') + i]
        BY <1>m, <2>2, <2>5, <3>3, <3>7
      <4>2. /\ Len(file_positions_') = Len(next_file_positions_') + 1
            /\ file_positions_'[Len(file_positions_')] = Len(partly')
        BY <3>3, <3>4, <3>5
      <4>3. pc' = "partlySort"
        BY <2>2
      <4> QED
        BY <3>6, <3>7, <4>1, <4>2, <4>3 DEF Sorting
    <3> QED
      BY <3>2, <3>8
  <2> QED
    BY <2>2, <2>6, <2>7
<1>5. CASE FlushRest
  <2>1. /\ pc = "partlySort" /\ pc' = "initialize" /\ pairs' = pairs /\ read_pairs' = read_pairs
        /\ read_pairs = Len(pairs) /\ sort_buf_' = <<>> /\ partly' = partly \o sort(sort_buf_)
        /\ file_positions_' = LastRun(file_positions_, sort_buf_)
        /\ next_file_positions_' = IF sort_buf_ = <<>> THEN next_file_positions_
                                   ELSE Append(next_file_positions_, filesize_)
    BY <1>5 DEF FlushRest, EndOfRuns, reader
  <2>2. Len(partly') = Len(pairs) /\ Rearranges(partly', pairs)
    BY <1>t, <1>s, <2>1, Flushed
  <2>3. Len(file_positions_) = Len(next_file_positions_) + 1
    BY <2>1 DEF Sorting
  <2>4. CASE sort_buf_ = <<>>
    <3>1. file_positions_' = Front(file_positions_) /\ next_file_positions_' = next_file_positions_
      BY <2>1, <2>4 DEF LastRun
    <3>2. /\ Len(Front(file_positions_)) = Len(file_positions_) - 1
          /\ \A i \in 1 .. Len(file_positions_) - 1 : Front(file_positions_)[i] = file_positions_[i]
      <4>1. file_positions_ # <<>>
        BY <1>l, <2>3
      <4> QED
        BY <1>t, <4>1, FrontIs
    <3>3. Len(file_positions_') = Len(next_file_positions_')
      BY <1>l, <2>3, <3>1, <3>2
    <3>4. Sorting'
      BY <1>l, <1>m, <2>1, <2>2, <3>3 DEF Sorting
    <3>5. partly' = partly
      <4>1. sort(sort_buf_) = <<>>
        BY <1>t, <1>l, <2>4, SortSpec, EmptySeq
      <4> QED
        BY <1>t, <2>1, <4>1, ConcatEmptySeq
    <3>6. \A r \in 1 .. Len(next_file_positions_) :
             /\ r \in 1 .. Len(file_positions_) /\ file_positions_'[r] = file_positions_[r]
             /\ End(r)' = End(r) /\ Run(r)' = Run(r)
      <4> SUFFICES ASSUME NEW r \in 1 .. Len(next_file_positions_)
                   PROVE  /\ r \in 1 .. Len(file_positions_) /\ file_positions_'[r] = file_positions_[r]
                          /\ End(r)' = End(r) /\ Run(r)' = Run(r)
        OBVIOUS
      <4>1. r \in 1 .. Len(file_positions_) /\ file_positions_'[r] = file_positions_[r]
        BY <1>l, <2>3, <3>1, <3>2
      <4>2. End(r)' = End(r)
        BY <3>1, <3>5 DEF End
      <4> QED
        BY <4>1, <4>2 DEF Run
    <3>7. Runs'
      <4>1. \A r \in 1 .. Len(file_positions_') - 1 : file_positions_'[r + 1] = next_file_positions_'[r]
        <5> SUFFICES ASSUME NEW r \in 1 .. Len(file_positions_') - 1
                     PROVE  file_positions_'[r + 1] = next_file_positions_'[r]
          OBVIOUS
        <5>1. r \in 1 .. Len(file_positions_) - 1 /\ r + 1 \in 1 .. Len(next_file_positions_)
          BY <1>l, <2>3, <3>1, <3>3
        <5> QED
          BY <3>1, <3>6, <5>1 DEF Runs
      <4> QED
        BY <3>1, <3>3, <3>5, <3>6, <4>1 DEF Runs
    <3> QED
      BY <3>4, <3>7
  <2>5. CASE sort_buf_ # <<>>
    <3>1. file_positions_' = file_positions_ /\ next_file_positions_' = Append(next_file_positions_, filesize_)
      BY <2>1, <2>5 DEF LastRun
    <3>2. filesize_ = Len(partly) + Len(sort_buf_) + 1
      <4>1. Len(sort_buf_) # 0
        BY <1>t, <2>5, EmptySeq
      <4>2. pairs # <<>>
        BY <1>l, <1>s, <2>1, <4>1
      <4> QED
        BY <1>s, <2>1, <4>2 DEF filesize_
    <3>3. PICK e \in Nat : e = filesize_
      BY <1>l, <3>2
    <3>4. Runs'
      BY <1>t, <1>s, <2>1, <2>5, <3>1, <3>2, <3>3, NewRun
    <3>5. Len(next_file_positions_') = Len(next_file_positions_) + 1
      BY <1>t, <3>1, <3>3, AppendProperties
    <3>6. Sorting'
      BY <1>l, <1>m, <2>1, <2>2, <2>3, <3>1, <3>5 DEF Sorting
    <3> QED
      BY <3>4, <3>6
  <2> QED
    BY <2>4, <2>5
<1>6. CASE InitializeHeap
  BY <1>6, SortingKept DEF InitializeHeap, reader
<1>7. CASE MergeStep
  BY <1>7, SortingKept DEF MergeStep, reader
<1>8. CASE WriteOffset
  BY <1>8, SortingKept DEF WriteOffset, reader
<1>9. CASE EndOfOffsets
  BY <1>9, SortingKept DEF EndOfOffsets, reader
<1>10. CASE WriteCount
  BY <1>10, SortingKept DEF WriteCount, reader
<1>11. CASE WriteDocument
  BY <1>11, SortingKept DEF WriteDocument, reader
<1>12. CASE EndOfLists
  BY <1>12, SortingKept DEF EndOfLists, reader
<1> QED
  BY <1>1, <1>2, <1>3, <1>4, <1>5, <1>6, <1>7, <1>8, <1>9, <1>10, <1>11, <1>12 DEF Next
-----------------------------------------------------------------------------
(* The heap. *)

LEMMA RunIs ==
  ASSUME Types, Sorting, Runs, pc \notin {"read", "partlySort"}, NEW r \in 1 .. Len(next_file_positions_)
  PROVE  /\ r \in Nat /\ r \in 1 .. Len(file_positions_) /\ r \in DOMAIN file_positions_
         /\ file_positions_[r] \in Nat /\ next_file_positions_[r] \in Nat /\ End(r) \in Nat
         /\ End(r) <= Len(partly) /\ file_positions_[r] < End(r) /\ Run(r) \subseteq 1 .. Len(partly)
         /\ \A k \in Nat : k < next_file_positions_[r] /\ k < Len(partly) <=> k < End(r)
<1>1. Len(file_positions_) = Len(next_file_positions_)
  BY DEF Sorting
<1>2. Len(partly) \in Nat /\ file_positions_ \in Seq(Nat) /\ next_file_positions_ \in Seq(Nat)
  BY LenProperties DEF Types
<1>3. r \in DOMAIN file_positions_
  BY <1>1, <1>2, LenProperties
<1>4. file_positions_[r] \in Nat /\ next_file_positions_[r] \in Nat
  BY <1>1, <1>2, ElementOfSeq
<1>5. End(r) \in Nat /\ End(r) <= Len(partly) /\ \A k \in Nat : k < next_file_positions_[r] /\ k < Len(partly) <=> k < End(r)
  BY <1>2, <1>4 DEF End, Least
<1>6. file_positions_[r] < End(r)
  BY DEF Runs
<1>7. Run(r) \subseteq 1 .. Len(partly)
  BY <1>2, <1>4, <1>5 DEF Run
<1>8. r \in Nat /\ r \in 1 .. Len(file_positions_)
  BY <1>1
<1> QED
  BY <1>3, <1>4, <1>5, <1>6, <1>7, <1>8

LEMMA MergingInit == Init => Merging
<1> SUFFICES ASSUME Init PROVE Merging
  OBVIOUS
<1>1. pc = "read" /\ first = 1 /\ heap_ = {} /\ sorted = <<>>
  BY DEF Init
<1>2. Len(<<>>) = 0
  BY EmptySeq
<1> QED
  BY <1>1, <1>2 DEF Merging

LEMMA MergingKept ==
  ASSUME Merging, UNCHANGED <<merger, partly, file_positions_, next_file_positions_>>, pc' = pc \/ pc' \in {"offsets", "lists", "done"}
  PROVE  Merging'
<1>1. /\ first' = first /\ heap_' = heap_ /\ sorted' = sorted /\ partly' = partly
      /\ next_file_positions_' = next_file_positions_ /\ file_positions_' = file_positions_
  BY DEF merger
<1>2. \A r : Run(r)' = Run(r)
  BY <1>1 DEF End, Run
<1> QED
  BY <1>1, <1>2 DEF Merging

(* While the runs are written nothing is in the heap. *)
LEMMA MergingBefore ==
  ASSUME Merging, pc \in {"read", "partlySort"}, first' = 1, heap_' = heap_, sorted' = sorted
  PROVE  Merging'
<1>1. heap_' = {} /\ sorted' = <<>>
  BY DEF Merging
<1>2. Len(<<>>) = 0
  BY EmptySeq
<1> QED
  BY <1>1, <1>2 DEF Merging

LEMMA MergingNext == Types /\ Sorting /\ Runs /\ Merging /\ Next => Merging'
<1> SUFFICES ASSUME Types, Sorting, Runs, Merging, Next PROVE Merging'
  OBVIOUS
<1>t. /\ partly \in Seq(Pair) /\ sorted \in Seq(Pair) /\ heap_ \subseteq Cursor /\ first \in Nat \ {0}
      /\ Len(partly) \in Nat /\ Len(sorted) \in Nat /\ Len(next_file_positions_) \in Nat
  BY LenProperties DEF Types
<1>f. pc \in {"read", "partlySort"} => first = 1
  BY DEF Merging
<1>1. CASE ReadWord
  BY <1>1, <1>f, MergingBefore DEF ReadWord, merger
<1>2. CASE NextDocument
  BY <1>2, <1>f, MergingBefore DEF NextDocument, merger
<1>3. CASE EndOfInput
  BY <1>3, <1>f, MergingBefore DEF EndOfInput, merger
<1>4. CASE ReadPair
  BY <1>4, <1>f, MergingBefore DEF ReadPair, merger
<1>5. CASE FlushRest
  BY <1>5, MergingBefore DEF FlushRest
<1>6. CASE InitializeHeap
  <2>1. /\ pc = "initialize" /\ sorted' = sorted /\ sorted = <<>> /\ partly' = partly
        /\ next_file_positions_' = next_file_positions_ /\ file_positions_' = file_positions_
    BY <1>6 DEF InitializeHeap, sorter, Merging
  <2>2. \A r : Run(r)' = Run(r)
    BY <2>1 DEF End, Run
  <2>3. CASE first \notin DOMAIN file_positions_
    <3>1. heap_' = heap_ /\ pc' = "merge"
      BY <1>6, <2>3 DEF InitializeHeap
    <3> QED
      BY <2>1, <2>2, <3>1 DEF Merging
  <2>4. CASE first \in DOMAIN file_positions_
    <3>1. heap_' = Advance(heap_, first, file_positions_[first]) /\ first' = first + 1 /\ pc' = pc
      BY <1>6, <2>4 DEF InitializeHeap
    <3>2. first \in 1 .. Len(next_file_positions_)
      <4>1. Len(file_positions_) = Len(next_file_positions_)
        BY <2>1 DEF Sorting
      <4>2. file_positions_ \in Seq(Nat)
        BY DEF Types
      <4> QED
        BY <2>4, <4>1, <4>2, LenProperties
    <3>3. /\ file_positions_[first] \in Nat
          /\ \A k \in Nat : k < next_file_positions_[first] /\ k < Len(partly) <=> k < End(first)
          /\ End(first) \in Nat
      BY <2>1, <3>2, RunIs
    <3>4. Advanced(heap_, first, file_positions_[first], heap_')
      BY <1>t, <3>1, <3>3, AdvanceIs
    <3>5. \A e \in heap_ : e.run < first
      BY <2>1 DEF Merging
    <3>6. CASE heap_' = heap_
      <4>1. \A e \in heap_ : e.run < first + 1
        <5>1. \A e \in heap_ : e.run \in Nat
          BY <1>t DEF Cursor
        <5> QED
          BY <1>t, <3>5, <5>1
      <4> QED
        BY <2>1, <2>2, <3>1, <3>6, <4>1 DEF Merging
    <3>7. ASSUME NEW e \in Cursor, heap_' = heap_ \cup {e}, e.run = first,
                 e.next_offset = file_positions_[first] + 1, At(e) = partly[file_positions_[first] + 1],
                 file_positions_[first] < next_file_positions_[first], file_positions_[first] < Len(partly)
          PROVE  Merging'
      <4>1. e.next_offset \in Run(first)
        BY <3>3, <3>7 DEF Run
      <4>2. \A x \in heap_' : /\ x.run \in 1 .. Len(next_file_positions_) /\ x.next_offset \in Run(x.run)
                              /\ At(x) = partly[x.next_offset]
        BY <3>2, <3>7, <4>1 DEF Merging
      <4>3. \A x, y \in heap_' : x.run = y.run => x = y
        <5>1. \A x \in heap_ : x.run \in Nat /\ x.run # first
          BY <1>t, <3>5 DEF Cursor
        <5>2. \A x, y \in heap_ : x.run = y.run => x = y
          BY DEF Merging
        <5> QED
          BY <3>7, <5>1, <5>2
      <4>4. \A x \in heap_' : x.run < first + 1
        <5>1. \A x \in heap_ : x.run \in Nat
          BY <1>t DEF Cursor
        <5> QED
          BY <1>t, <3>5, <3>7, <5>1
      <4>5. Len(sorted) = 0
        BY <2>1, EmptySeq
      <4> QED
        BY <2>1, <2>2, <3>1, <4>2, <4>3, <4>4, <4>5 DEF Merging
    <3> QED
      BY <3>4, <3>6, <3>7 DEF Advanced
  <2> QED
    BY <2>3, <2>4
<1>7. CASE MergeStep
  <2>1. /\ pc = "merge" /\ pc' \in {"merge", "offsets"} /\ partly' = partly
        /\ next_file_positions_' = next_file_positions_ /\ file_positions_' = file_positions_
    BY <1>7 DEF MergeStep, sorter
  <2>2. \A r : Run(r)' = Run(r)
    BY <2>1 DEF End, Run
  <2>3. CASE UNCHANGED <<heap_, sorted>>
    BY <2>1, <2>2, <2>3 DEF Merging
  <2>4. ASSUME NEW m, Taken(m)
        PROVE  Merging'
    <3>1. /\ m \in heap_ /\ m \in Cursor /\ \A y \in heap_ : ~PairLess(At(y), At(m))
          /\ heap_' = Advance(heap_ \ {m}, m.run, m.next_offset)
      BY <1>t, <2>4 DEF Taken
    <3>2. /\ m.run \in 1 .. Len(next_file_positions_) /\ m.next_offset \in Run(m.run)
          /\ At(m) = partly[m.next_offset] /\ m.run \in Nat /\ m.next_offset \in Nat
      BY <3>1 DEF Merging, Cursor
    <3>3. \A e \in Cursor : At(e) \in Pair
      BY DEF Cursor, At, Pair
    <3>4. Advanced(heap_ \ {m}, m.run, m.next_offset, heap_')
      BY <1>t, <3>1, <3>2, AdvanceIs
    <3>5. /\ file_positions_[m.run] \in Nat /\ End(m.run) \in Nat
          /\ \A k \in Nat : k < next_file_positions_[m.run] /\ k < Len(partly) <=> k < End(m.run)
      BY <2>1, <3>2, RunIs
    (* The cursors in the heap are sound, and none is before m. *)
    <3>6. /\ \A x \in heap_' : /\ x.run \in 1 .. Len(next_file_positions_) /\ x.next_offset \in Run(x.run)
                               /\ At(x) = partly[x.next_offset] /\ At(x) \in Pair
                               /\ ~PairLess(At(x), At(m))
          /\ \A x, y \in heap_' : x.run = y.run => x = y
      <4>1. \A x \in heap_ : /\ x.run \in 1 .. Len(next_file_positions_) /\ x.next_offset \in Run(x.run)
                             /\ At(x) = partly[x.next_offset] /\ At(x) \in Pair
                             /\ ~PairLess(At(x), At(m))
        BY <1>t, <3>1, <3>3 DEF Merging
      <4>2. \A x, y \in heap_ : x.run = y.run => x = y
        BY DEF Merging
      <4>3. CASE heap_' = heap_ \ {m}
        BY <4>1, <4>2, <4>3
      <4>4. ASSUME NEW e \in Cursor, heap_' = (heap_ \ {m}) \cup {e}, e.run = m.run,
                   e.next_offset = m.next_offset + 1, At(e) = partly[m.next_offset + 1],
                   m.next_offset < next_file_positions_[m.run], m.next_offset < Len(partly)
            PROVE  /\ \A x \in heap_' : /\ x.run \in 1 .. Len(next_file_positions_) /\ x.next_offset \in Run(x.run)
                                        /\ At(x) = partly[x.next_offset] /\ At(x) \in Pair
                                        /\ ~PairLess(At(x), At(m))
                   /\ \A x, y \in heap_' : x.run = y.run => x = y
        <5>1. e.next_offset \in Run(m.run) /\ m.next_offset < e.next_offset
          BY <3>2, <3>5, <4>4 DEF Run
        <5>2. ~PairLess(At(e), At(m))
          BY <3>2, <4>4, <5>1 DEF Runs
        <5>3. At(e) \in Pair /\ At(e) = partly[e.next_offset]
          BY <3>3, <4>4
        <5>4. \A x \in heap_ \ {m} : x.run # e.run
          BY <3>1, <4>2, <4>4
        <5> HIDE DEF Cursor
        <5> QED
          BY <3>2, <4>1, <4>2, <4>4, <5>1, <5>2, <5>3, <5>4
      <4> QED
        BY <3>4, <4>3, <4>4 DEF Advanced
    <3>7. CASE sorted' = sorted
      <4>1. ASSUME NEW x \in heap_', sorted # <<>>
            PROVE  ~PairLess(At(x), sorted[Len(sorted)])
        <5>1. ~PairLess(At(m), sorted[Len(sorted)])
          BY <3>1, <4>1 DEF Merging
        <5>2. sorted[Len(sorted)] \in Pair
          <6>1. Len(sorted) \in 1 .. Len(sorted)
            BY <1>t, <4>1, EmptySeq
          <6> QED
            BY <1>t, <6>1, ElementOfSeq
        <5>3. At(x) \in Pair /\ At(m) \in Pair /\ ~PairLess(At(x), At(m))
          BY <3>1, <3>3, <3>6
        <5> QED
          BY <5>1, <5>2, <5>3, PairOrder
      <4> QED
        BY <2>1, <2>2, <3>6, <3>7, <4>1 DEF Merging
    <3>8. CASE sorted' = Append(sorted, At(m))
      <4>0. At(m) \in Pair
        BY <3>1, <3>3
      <4>1. /\ Len(sorted') = Len(sorted) + 1 /\ sorted'[Len(sorted) + 1] = At(m)
            /\ \A i \in 1 .. Len(sorted) : sorted'[i] = sorted[i]
        BY <1>t, <3>8, <4>0, AppendIs
      <4>2. ASSUME NEW i \in 1 .. Len(sorted)
            PROVE  ~PairLess(At(m), sorted[i])
        <5>1. Len(sorted) \in 1 .. Len(sorted) /\ sorted # <<>>
          BY <1>t, EmptySeq
        <5>2. ~PairLess(At(m), sorted[Len(sorted)])
          BY <3>1, <5>1 DEF Merging
        <5>3. sorted[i] \in Pair /\ sorted[Len(sorted)] \in Pair
          BY <1>t, <5>1, ElementOfSeq
        <5>4. i = Len(sorted) \/ ~PairLess(sorted[Len(sorted)], sorted[i])
          BY <1>t, <5>1 DEF Merging
        <5> QED
          BY <4>0, <5>2, <5>3, <5>4, PairOrder
      <4>3. \A i, j \in 1 .. Len(sorted') : i < j => ~PairLess(sorted'[j], sorted'[i])
        <5> SUFFICES ASSUME NEW i \in 1 .. Len(sorted'), NEW j \in 1 .. Len(sorted'), i < j
                     PROVE  ~PairLess(sorted'[j], sorted'[i])
          OBVIOUS
        <5>1. i \in 1 .. Len(sorted)
          BY <1>t, <4>1
        <5>2. CASE j = Len(sorted) + 1
          BY <4>1, <4>2, <5>1, <5>2
        <5>3. CASE j # Len(sorted) + 1
          <6>1. j \in 1 .. Len(sorted)
            BY <1>t, <4>1, <5>3
          <6> QED
            BY <4>1, <5>1, <6>1 DEF Merging
        <5> QED
          BY <5>2, <5>3
      <4>4. sorted'[Len(sorted')] = At(m)
        BY <4>1
      <4> QED
        BY <2>1, <2>2, <3>6, <4>3, <4>4 DEF Merging
    <3> QED
      BY <2>4, <3>7, <3>8 DEF Taken
  <2> QED
    BY <1>7, <1>t, <2>3, <2>4, MergeStepIs
<1>8. CASE WriteOffset
  BY <1>8, MergingKept DEF WriteOffset, sorter
<1>9. CASE EndOfOffsets
  BY <1>9, MergingKept DEF EndOfOffsets, sorter
<1>10. CASE WriteCount
  BY <1>10, MergingKept DEF WriteCount, sorter
<1>11. CASE WriteDocument
  BY <1>11, MergingKept DEF WriteDocument, sorter
<1>12. CASE EndOfLists
  BY <1>12, MergingKept DEF EndOfLists, sorter
<1> QED
  BY <1>1, <1>2, <1>3, <1>4, <1>5, <1>6, <1>7, <1>8, <1>9, <1>10, <1>11, <1>12 DEF Next
THEOREM Invariance == Spec => []IInv
<1>1. Init => IInv
  BY TypesInit, SortingInit, MergingInit DEF IInv
<1>2. IInv /\ [Next]_vars => IInv'
  <2> SUFFICES ASSUME IInv, [Next]_vars PROVE IInv'
    OBVIOUS
  <2>1. CASE Next
    BY <2>1, TypesNext, SortingNext, MergingNext DEF IInv
  <2>2. CASE UNCHANGED vars
    <3>1. UNCHANGED <<reader, sorter, merger, writer, input, pc>>
      BY <2>2 DEF vars
    <3>2. Types'
      BY <3>1 DEF IInv, Types, reader, sorter, merger, writer
    <3>3. Sorting' /\ Runs'
      BY <3>1, SortingKept DEF IInv, reader
    <3>4. Merging'
      BY <3>1, MergingKept DEF IInv, sorter
    <3> QED
      BY <3>2, <3>3, <3>4 DEF IInv
  <2> QED
    BY <2>1, <2>2
<1> QED
  BY <1>1, <1>2, PTL DEF Spec

(* The types: the runs follow each other without a gap, as many starts as  *)
(* ends; no cursor is past the end of the runs, and the second loop over   *)
(* the words reads no pair that is not there; every field of the index is  *)
(* inside the file.                                                        *)
THEOREM TypesAreOK == Spec => []TypeOK
<1>1. IInv => TypeOK
  <2> SUFFICES ASSUME IInv PROVE TypeOK
    OBVIOUS
  <2>t. Types /\ Sorting /\ Runs /\ Merging
    BY DEF IInv
  <2>1. read_pairs \in 0 .. Len(pairs) /\ Len(sort_buf_) < max_pairs_
    BY <2>t DEF Types, Sorting
  <2>2. \A e \in heap_ : e.run \in DOMAIN file_positions_ /\ e.next_offset \in 1 .. Len(partly)
    <3> SUFFICES ASSUME NEW e \in heap_
                 PROVE  e.run \in DOMAIN file_positions_ /\ e.next_offset \in 1 .. Len(partly)
      OBVIOUS
    <3>1. pc \notin {"read", "partlySort"}
      BY <2>t DEF Merging
    <3>2. e.run \in 1 .. Len(next_file_positions_) /\ e.next_offset \in Run(e.run)
      BY <2>t DEF Merging
    <3> QED
      BY <2>t, <3>1, <3>2, RunIs
  <2>3. pc \in {"initialize", "merge"} =>
          /\ Len(file_positions_) = Len(next_file_positions_)
          /\ \A i \in 2 .. Len(file_positions_) : file_positions_[i] = next_file_positions_[i - 1]
    <3>1. \A i \in 2 .. Len(file_positions_) : file_positions_[i] = next_file_positions_[i - 1]
      <4> SUFFICES ASSUME NEW i \in 2 .. Len(file_positions_)
                   PROVE  file_positions_[i] = next_file_positions_[i - 1]
        OBVIOUS
      <4>1. Len(file_positions_) \in Nat
        BY <2>t, LenProperties DEF Types
      <4>2. i - 1 \in 1 .. Len(file_positions_) - 1 /\ (i - 1) + 1 = i
        BY <4>1
      <4>3. file_positions_[(i - 1) + 1] = next_file_positions_[i - 1]
        BY <2>t, <4>2 DEF Runs
      <4> QED
        BY <4>2, <4>3
    <3> QED
      BY <2>t, <3>1 DEF Sorting
  <2>4. /\ pc \in {"read", "partlySort", "initialize", "merge", "offsets", "lists", "done"}
        /\ it \subseteq DOMAIN word_dict_ /\ left \in Nat /\ read_docs \in 0 .. Len(sorted)
        /\ \A b \in DOMAIN index.at : b + index.at[b].size <= index.size
    BY <2>t DEF Types, IndexType
  <2> QED
    BY <2>1, <2>2, <2>3, <2>4 DEF TypeOK
<1> QED
  BY <1>1, Invariance, PTL

(* The merge of the runs writes in order, and leaves nothing in the heap   *)
(* that should have been written before (getMin, sort): for any input and  *)
(* any length of the runs, even with the pairs that the heap drops.        *)
THEOREM MergingIsSorted == Spec => []MergeIsSorted
<1>1. IInv => MergeIsSorted
  <2> SUFFICES ASSUME IInv PROVE MergeIsSorted
    OBVIOUS
  <2>t. Types /\ Merging
    BY DEF IInv
  <2>1. Len(sorted) \in Nat
    BY <2>t, LenProperties DEF Types
  <2>2. ASSUME NEW i \in 1 .. Len(sorted) - 1
        PROVE  ~PairLess(sorted[i + 1], sorted[i])
    <3>1. i \in 1 .. Len(sorted) /\ i + 1 \in 1 .. Len(sorted) /\ i < i + 1
      BY <2>1
    <3> QED
      BY <2>t, <3>1 DEF Merging
  <2>3. \A e \in heap_ : sorted # <<>> => ~PairLess(<<e.word, e.doc>>, Last(sorted))
    BY <2>t DEF Merging, At, Last
  <2> QED
    BY <2>2, <2>3 DEF MergeIsSorted
<1> QED
  BY <1>1, Invariance, PTL
-----------------------------------------------------------------------------
(* The input that has been read. *)

(* A place in the input, and the pair that stands there. *)
Places == {q \in Pair : q[1] \in DOMAIN input /\ q[2] \in DOMAIN input[q[1]].words}

PairAt(q) == <<input[q[1]].words[q[2]], input[q[1]].docid>>

(* The places that FileReader has been at. *)
Before == {q \in Places : PairLess(q, <<doc, word>>)}

Reading ==
  /\ \E o : Numbering(o, Len(pairs), Before) /\ \A i \in 1 .. Len(pairs) : pairs[i] = PairAt(o[i])
  /\ DOMAIN word_dict_ = {PairAt(q)[1] : q \in Before}
  /\ \A w \in DOMAIN word_dict_ : word_dict_[w] = Cardinality({q \in Before : PairAt(q)[1] = w})
  /\ pc # "read" => doc > Len(input)

LEMMA NumberingAppended ==
  ASSUME NEW n \in Nat, NEW S, NEW h, Numbering(h, n, S), NEW x, x \notin S
  PROVE  Numbering([i \in 1 .. n + 1 |-> IF i = n + 1 THEN x ELSE h[i]], n + 1, S \cup {x})
<1> DEFINE g == [i \in 1 .. n + 1 |-> IF i = n + 1 THEN x ELSE h[i]]
<1>0. /\ h \in [1 .. n -> S]
      /\ \A i, j \in 1 .. n : h[i] = h[j] => i = j
      /\ \A y \in S : \E i \in 1 .. n : h[i] = y
  BY DEF Numbering
<1>1. \A i \in 1 .. n + 1 : /\ i = n + 1 => g[i] = x
                            /\ i # n + 1 => i \in 1 .. n /\ g[i] = h[i] /\ g[i] \in S
  <2>1. \A i \in 1 .. n + 1 : i # n + 1 => i \in 1 .. n
    OBVIOUS
  <2> QED
    BY <1>0, <2>1
<1>2. n + 1 \in 1 .. n + 1 /\ \A i \in 1 .. n : i \in 1 .. n + 1 /\ i # n + 1
  OBVIOUS
<1>3. g \in [1 .. n + 1 -> S \cup {x}]
  <2>1. \A i \in 1 .. n + 1 : g[i] \in S \cup {x}
    <3> HIDE DEF g
    <3> QED
      BY <1>1
  <2> QED
    BY <2>1
<1> HIDE DEF g
<1>4. \A i, j \in 1 .. n + 1 : g[i] = g[j] => i = j
  BY <1>0, <1>1
<1>5. \A y \in S \cup {x} : \E i \in 1 .. n + 1 : g[i] = y
  BY <1>0, <1>1, <1>2
<1>6. Numbering(g, n + 1, S \cup {x})
  BY <1>3, <1>4, <1>5 DEF Numbering
<1> QED
  BY <1>6 DEF g

LEMMA PlacesAre ==
  ASSUME Types
  PROVE  /\ Len(input) \in Nat /\ DOMAIN input = 1 .. Len(input)
         /\ \A q \in Places : /\ q = <<q[1], q[2]>> /\ q[1] \in 1 .. Len(input) /\ q[2] \in Nat \ {0}
                              /\ q[2] \in 1 .. Len(input[q[1]].words) /\ Len(input[q[1]].words) \in Nat
                              /\ PairAt(q) \in Pair /\ PairAt(q)[1] \in Nat /\ PairAt(q)[2] \in Nat
                              /\ PairAt(q)[1] = input[q[1]].words[q[2]] /\ PairAt(q)[2] = input[q[1]].docid
<1>0. input \in Inputs
  BY DEF Types
<1>1. Len(input) \in Nat /\ DOMAIN input = 1 .. Len(input)
  BY <1>0, ConstantsAssumption, LenProperties
<1>2. ASSUME NEW q \in Places
      PROVE  /\ q = <<q[1], q[2]>> /\ q[1] \in 1 .. Len(input) /\ q[2] \in Nat \ {0}
             /\ q[2] \in 1 .. Len(input[q[1]].words) /\ Len(input[q[1]].words) \in Nat
             /\ PairAt(q) \in Pair /\ PairAt(q)[1] \in Nat /\ PairAt(q)[2] \in Nat
             /\ PairAt(q)[1] = input[q[1]].words[q[2]] /\ PairAt(q)[2] = input[q[1]].docid
  <2>1. q = <<q[1], q[2]>> /\ q[1] \in 1 .. Len(input) /\ q[2] \in DOMAIN input[q[1]].words
    BY <1>1 DEF Places, Pair
  <2>2. /\ DOMAIN input[q[1]].words = 1 .. Len(input[q[1]].words) /\ Len(input[q[1]].words) \in Nat
        /\ input[q[1]].words \in Seq(Nat) /\ input[q[1]].docid \in Nat
    BY <1>0, <2>1, InputTypes
  <2>3. q[2] \in 1 .. Len(input[q[1]].words) /\ q[2] \in Nat \ {0}
    BY <2>1, <2>2
  <2>4. input[q[1]].words[q[2]] \in Nat
    BY <2>2, <2>3, ElementOfSeq
  <2>5. PairAt(q)[1] = input[q[1]].words[q[2]] /\ PairAt(q)[2] = input[q[1]].docid
    BY DEF PairAt
  <2>6. PairAt(q) \in Pair
    BY <2>2, <2>4 DEF PairAt, Pair
  <2> QED
    BY <2>1, <2>2, <2>3, <2>4, <2>5, <2>6
<1> QED
  BY <1>1, <1>2

LEMMA ReadingInit == Init => Reading
<1> SUFFICES ASSUME Init PROVE Reading
  OBVIOUS
<1>1. pc = "read" /\ doc = 1 /\ word = 1 /\ pairs = <<>> /\ DOMAIN word_dict_ = {}
  BY DEF Init
<1>2. Before = {}
  <2>1. Types
    BY TypesInit
  <2> SUFFICES ASSUME NEW q \in Before PROVE FALSE
    OBVIOUS
  <2>2. q[1] \in Nat \ {0} /\ q[2] \in Nat \ {0}
    BY <2>1, PlacesAre DEF Before
  <2>3. PairLess(q, <<1, 1>>)
    BY <1>1 DEF Before
  <2> QED
    BY <2>2, <2>3 DEF PairLess
<1>3. Len(pairs) = 0
  BY <1>1, EmptySeq
<1>4. Numbering([i \in 1 .. 0 |-> i], 0, {})
  BY DEF Numbering
<1> QED
  BY <1>1, <1>2, <1>3, <1>4 DEF Reading

LEMMA ReadingKept ==
  ASSUME Reading, input' = input, reader' = reader, pc # "read" \/ pc' = pc \/ doc > Len(input)
  PROVE  Reading'
<1>1. doc' = doc /\ word' = word /\ word_dict_' = word_dict_ /\ pairs' = pairs
  BY DEF reader
<1>2. Before' = Before /\ \A q : PairAt(q)' = PairAt(q)
  BY <1>1 DEF Before, Places, PairAt
<1> QED
  BY <1>1, <1>2 DEF Reading

LEMMA ReadingNext == Types /\ Reading /\ Next => Reading'
<1> SUFFICES ASSUME Types, Reading, Next PROVE Reading'
  OBVIOUS
<1>t. doc \in Nat \ {0} /\ word \in Nat \ {0} /\ pairs \in Seq(Pair) /\ Len(pairs) \in Nat
  BY LenProperties DEF Types
<1>p. /\ Len(input) \in Nat /\ DOMAIN input = 1 .. Len(input)
      /\ \A q \in Places : /\ q = <<q[1], q[2]>> /\ q[1] \in 1 .. Len(input) /\ q[2] \in Nat \ {0}
                           /\ q[2] \in 1 .. Len(input[q[1]].words) /\ Len(input[q[1]].words) \in Nat
  BY PlacesAre
<1>1. CASE ReadWord
  <2>0. PICK x, w : x = <<doc, word>> /\ w = input[doc].words[word]
    OBVIOUS
  <2>1. /\ pc = "read" /\ pc' = pc /\ input' = input /\ doc' = doc /\ word' = word + 1
        /\ pairs' = Append(pairs, PairAt(x))
        /\ word_dict_' = [v \in DOMAIN word_dict_ \cup {w} |->
                            IF v # w THEN word_dict_[v]
                            ELSE IF v \in DOMAIN word_dict_ THEN word_dict_[v] + 1 ELSE 1]
    BY <1>1, <2>0 DEF ReadWord, PairAt
  <2>2. x \in Places
    <3>1. doc \in 1 .. Len(input)
      BY <1>1, <1>t, <1>p DEF ReadWord
    <3>2. word \in DOMAIN input[doc].words
      <4>1. DOMAIN input[doc].words = 1 .. Len(input[doc].words) /\ Len(input[doc].words) \in Nat
        BY <3>1, InputTypes DEF Types
      <4> QED
        BY <1>1, <1>t, <4>1 DEF ReadWord
    <3> QED
      BY <1>t, <1>p, <2>0, <3>1, <3>2 DEF Places, Pair
  <2>3. PairAt(x) \in Pair /\ PairAt(x)[1] = w /\ w \in Nat
    BY <2>0, <2>2, PlacesAre
  <2>4. \A q : PairAt(q)' = PairAt(q)
    BY <2>1 DEF PairAt
  <2>5. Before' = Before \cup {x} /\ x \notin Before
    <3>1. x \notin Before
      BY <1>t, <2>0 DEF Before, PairLess
    <3>2. ASSUME NEW q \in Places
          PROVE  PairLess(q, <<doc, word + 1>>) <=> PairLess(q, x) \/ q = x
      <4>1. q = <<q[1], q[2]>> /\ q[1] \in Nat /\ q[2] \in Nat
        BY <1>p
      <4> QED
        BY <1>t, <2>0, <4>1 DEF PairLess
    <3>3. Places' = Places
      BY <2>1 DEF Places
    <3>4. Before' = {q \in Places : PairLess(q, <<doc, word + 1>>)}
      BY <2>1, <3>3 DEF Before
    <3>5. Before = {q \in Places : PairLess(q, x)}
      BY <2>0 DEF Before
    <3> QED
      BY <2>2, <3>1, <3>2, <3>4, <3>5
  <2>6. PICK o : Numbering(o, Len(pairs), Before) /\ \A i \in 1 .. Len(pairs) : pairs[i] = PairAt(o[i])
    BY DEF Reading
  <2>7. \E g : Numbering(g, Len(pairs'), Before') /\ \A i \in 1 .. Len(pairs') : pairs'[i] = PairAt(g[i])'
    <3>0. PICK n \in Nat : n = Len(pairs)
      BY <1>t
    <3>g. PICK g : g = [i \in 1 .. n + 1 |-> IF i = n + 1 THEN x ELSE o[i]]
      OBVIOUS
    <3>1. /\ Len(pairs') = n + 1 /\ pairs'[n + 1] = PairAt(x)
          /\ \A i \in 1 .. n : pairs'[i] = pairs[i]
      BY <1>t, <2>1, <2>3, <3>0, AppendIs
    <3>2. Numbering(g, n + 1, Before')
      BY <2>5, <2>6, <3>0, <3>g, NumberingAppended
    <3>3. ASSUME NEW i \in 1 .. n + 1
          PROVE  pairs'[i] = PairAt(g[i])'
      <4>1. CASE i = n + 1
        <5>1. g[i] = x
          BY <3>g, <4>1
        <5> QED
          BY <2>4, <3>1, <4>1, <5>1
      <4>2. CASE i # n + 1
        <5>1. i \in 1 .. n /\ g[i] = o[i]
          BY <3>0, <3>g, <4>2
        <5> QED
          BY <2>4, <2>6, <3>0, <3>1, <5>1
      <4> QED
        BY <4>1, <4>2
    <3> QED
      BY <3>1, <3>2, <3>3
  <2>8. IsFiniteSet(Before)
    BY <1>t, <2>6, NumberingCounts
  <2>9. /\ DOMAIN word_dict_ = {PairAt(q)[1] : q \in Before}
        /\ \A v \in DOMAIN word_dict_ : word_dict_[v] = Cardinality({q \in Before : PairAt(q)[1] = v})
    BY DEF Reading
  <2>10. DOMAIN word_dict_' = {PairAt(q)'[1] : q \in Before'}
    <3>1. DOMAIN word_dict_' = DOMAIN word_dict_ \cup {w}
      BY <2>1
    <3> QED
      BY <2>3, <2>4, <2>5, <2>9, <3>1
  <2>11. ASSUME NEW v \in DOMAIN word_dict_'
         PROVE  word_dict_'[v] = Cardinality({q \in Before' : PairAt(q)'[1] = v})
    <3> DEFINE B == {q \in Before : PairAt(q)[1] = v}
    <3>0. /\ v \in DOMAIN word_dict_ \cup {w}
          /\ word_dict_'[v] = IF v # w THEN word_dict_[v]
                              ELSE IF v \in DOMAIN word_dict_ THEN word_dict_[v] + 1 ELSE 1
      BY <2>1
    <3>1. IsFiniteSet(B) /\ x \notin B
      BY <2>5, <2>8, FS_Subset
    <3>2. {q \in Before' : PairAt(q)'[1] = v} = IF v = w THEN B \cup {x} ELSE B
      BY <2>3, <2>4, <2>5
    <3>3. CASE v # w
      BY <2>9, <3>0, <3>2, <3>3
    <3>4. CASE v = w
      <4>1. Cardinality(B \cup {x}) = Cardinality(B) + 1
        BY <3>1, FS_AddElement
      <4>2. word_dict_'[v] = Cardinality(B) + 1
        <5>1. CASE v \in DOMAIN word_dict_
          BY <2>9, <3>0, <3>4, <5>1
        <5>2. CASE v \notin DOMAIN word_dict_
          <6>1. B = {}
            BY <2>9, <5>2
          <6>2. Cardinality(B) = 0
            BY <6>1, FS_EmptySet
          <6> QED
            BY <3>0, <3>4, <5>2, <6>2
        <5> QED
          BY <5>1, <5>2
      <4> QED
        BY <3>2, <3>4, <4>1, <4>2
    <3> QED
      BY <3>3, <3>4
  <2> QED
    BY <2>1, <2>7, <2>10, <2>11 DEF Reading
<1>2. CASE NextDocument
  <2>1. /\ pc = "read" /\ pc' = pc /\ input' = input /\ doc' = doc + 1 /\ word' = 1
        /\ word_dict_' = word_dict_ /\ pairs' = pairs /\ word > Len(input[doc].words)
    BY <1>2 DEF NextDocument
  <2>2. ASSUME NEW q \in Places
        PROVE  PairLess(q, <<doc + 1, 1>>) <=> PairLess(q, <<doc, word>>)
    <3>1. q[1] \in Nat /\ q[2] \in Nat \ {0} /\ (q[1] = doc => q[2] < word)
      BY <1>t, <1>p, <2>1
    <3> QED
      BY <1>t, <3>1 DEF PairLess
  <2>3. Before' = Before /\ \A q : PairAt(q)' = PairAt(q)
    BY <2>1, <2>2 DEF Before, Places, PairAt
  <2> QED
    BY <2>1, <2>3 DEF Reading
<1>3. CASE EndOfInput
  BY <1>3, ReadingKept DEF EndOfInput
<1>4. CASE ReadPair
  BY <1>4, ReadingKept DEF ReadPair
<1>5. CASE FlushRest
  BY <1>5, ReadingKept DEF FlushRest
<1>6. CASE InitializeHeap
  BY <1>6, ReadingKept DEF InitializeHeap
<1>7. CASE MergeStep
  BY <1>7, ReadingKept DEF MergeStep
<1>8. CASE WriteOffset
  BY <1>8, ReadingKept DEF WriteOffset
<1>9. CASE EndOfOffsets
  BY <1>9, ReadingKept DEF EndOfOffsets
<1>10. CASE WriteCount
  BY <1>10, ReadingKept DEF WriteCount
<1>11. CASE WriteDocument
  BY <1>11, ReadingKept DEF WriteDocument
<1>12. CASE EndOfLists
  BY <1>12, ReadingKept DEF EndOfLists
<1> QED
  BY <1>1, <1>2, <1>3, <1>4, <1>5, <1>6, <1>7, <1>8, <1>9, <1>10, <1>11, <1>12 DEF Next
-----------------------------------------------------------------------------
(* No pair is lost. *)

(* No word is twice in a document, nor in two documents of one number.     *)
NoPairTwice == \A q, x \in Places : PairAt(q) = PairAt(x) => q = x

(* What no cursor is still to come to. *)
Passed == {k \in 1 .. Len(partly) : \A e \in heap_ : k \notin Ahead(e)}

(* Each run has its cursor, and the pairs that are sorted are those that   *)
(* the cursors have passed.                                                *)
Kept ==
  /\ pc = "initialize" =>
       \A r \in 1 .. Len(next_file_positions_) :
         r < first => \E e \in heap_ : e.run = r /\ e.next_offset = file_positions_[r] + 1
  /\ pc = "merge" =>
       \E h : Numbering(h, Len(sorted), Passed) /\ \A i \in 1 .. Len(sorted) : sorted[i] = partly[h[i]]

LEMMA PairsOnce ==
  ASSUME Types, Sorting, Reading, NoPairTwice
  PROVE  /\ \A i, j \in 1 .. Len(pairs) : pairs[i] = pairs[j] => i = j
         /\ \A i, j \in 1 .. Len(partly) : partly[i] = partly[j] => i = j
<1>1. PICK o : Numbering(o, Len(pairs), Before) /\ \A i \in 1 .. Len(pairs) : pairs[i] = PairAt(o[i])
  BY DEF Reading
<1>2. /\ \A i \in 1 .. Len(pairs) : o[i] \in Places
      /\ \A i, j \in 1 .. Len(pairs) : o[i] = o[j] => i = j
  <2>1. o \in [1 .. Len(pairs) -> Before] /\ \A i, j \in 1 .. Len(pairs) : o[i] = o[j] => i = j
    BY <1>1 DEF Numbering
  <2> QED
    BY <2>1 DEF Before
<1>3. \A i, j \in 1 .. Len(pairs) : pairs[i] = pairs[j] => i = j
  BY <1>1, <1>2 DEF NoPairTwice
<1>4. PICK g : Permutation(g, Len(partly)) /\ \A k \in 1 .. Len(partly) : partly[k] = pairs[g[k]]
  BY DEF Sorting, Rearranges
<1>5. Len(partly) \in Nat /\ Len(pairs) \in Nat /\ Len(partly) <= Len(pairs)
  <2>1. Len(partly) \in Nat /\ Len(pairs) \in Nat /\ Len(sort_buf_) \in Nat
    BY LenProperties DEF Types
  <2> QED
    BY <2>1 DEF Sorting
<1>6. \A k \in 1 .. Len(partly) : g[k] \in 1 .. Len(pairs)
  <2>1. \A k \in 1 .. Len(partly) : g[k] \in 1 .. Len(partly)
    BY <1>4 DEF Permutation, Numbering
  <2> QED
    BY <1>5, <2>1
<1>7. \A i, j \in 1 .. Len(partly) : g[i] = g[j] => i = j
  BY <1>4 DEF Permutation, Numbering
<1> QED
  BY <1>3, <1>4, <1>6, <1>7

LEMMA RunsAreDisjoint ==
  ASSUME Types, Sorting, Runs, pc \notin {"read", "partlySort"},
         NEW r \in 1 .. Len(next_file_positions_), NEW s \in 1 .. Len(next_file_positions_),
         NEW k \in Run(r), k \in Run(s)
  PROVE  r = s
<1>1. /\ r \in Nat /\ s \in Nat /\ r \in 1 .. Len(file_positions_) /\ s \in 1 .. Len(file_positions_)
      /\ file_positions_[r] \in Nat /\ file_positions_[s] \in Nat
      /\ next_file_positions_[r] \in Nat /\ next_file_positions_[s] \in Nat
      /\ End(r) \in Nat /\ End(s) \in Nat /\ Len(partly) \in Nat
  BY RunIs, LenProperties DEF Types
<1>2. End(r) <= next_file_positions_[r] /\ End(s) <= next_file_positions_[s]
  BY <1>1 DEF End, Least
<1>3. /\ k \in Nat /\ file_positions_[r] < k /\ k <= next_file_positions_[r]
      /\ file_positions_[s] < k /\ k <= next_file_positions_[s]
  <2>1. k \in file_positions_[r] + 1 .. End(r) /\ k \in file_positions_[s] + 1 .. End(s)
    BY DEF Run
  <2>2. k \in Nat /\ file_positions_[r] < k /\ k <= End(r)
    BY <1>1, <2>1
  <2>3. file_positions_[s] < k /\ k <= End(s)
    BY <1>1, <2>1
  <2> QED
    BY <1>1, <1>2, <2>2, <2>3
<1>4. ~(r < s)
  <2> SUFFICES ASSUME r < s PROVE FALSE
    OBVIOUS
  <2>1. next_file_positions_[r] <= file_positions_[s]
    BY <1>1 DEF Runs
  <2> QED
    BY <1>1, <1>3, <2>1
<1>5. ~(s < r)
  <2> SUFFICES ASSUME s < r PROVE FALSE
    OBVIOUS
  <2>1. next_file_positions_[s] <= file_positions_[r]
    BY <1>1 DEF Runs
  <2> QED
    BY <1>1, <1>3, <2>1
<1> QED
  BY <1>1, <1>4, <1>5

(* A cursor at a pair is the cursor of the pair's run. *)
LEMMA CursorOfPair ==
  ASSUME IInv, Reading, NoPairTwice, pc \notin {"read", "partlySort"},
         NEW r \in 1 .. Len(next_file_positions_), NEW k \in Run(r),
         NEW x \in heap_, At(x) = partly[k]
  PROVE  x.run = r /\ x.next_offset = k
<1>0. Types /\ Sorting /\ Runs /\ Merging
  BY DEF IInv
<1>1. /\ x.run \in 1 .. Len(next_file_positions_) /\ x.next_offset \in Run(x.run)
      /\ At(x) = partly[x.next_offset]
  BY <1>0 DEF Merging
<1>2. x.next_offset \in 1 .. Len(partly) /\ k \in 1 .. Len(partly)
  BY <1>0, <1>1, RunIs
<1>3. x.next_offset = k
  BY <1>0, <1>1, <1>2, PairsOnce
<1> QED
  BY <1>0, <1>1, <1>3, RunsAreDisjoint

(* Every run gets a cursor. *)
LEMMA KeptInitializing ==
  ASSUME IInv, Reading, NoPairTwice, Kept, InitializeHeap
  PROVE  Kept'
<1>0. Types /\ Sorting /\ Runs /\ Merging /\ pc = "initialize" /\ pc \notin {"read", "partlySort"}
  BY DEF IInv, InitializeHeap
<1>1. /\ partly' = partly /\ file_positions_' = file_positions_ /\ next_file_positions_' = next_file_positions_
      /\ sorted' = sorted /\ sorted = <<>>
  BY <1>0 DEF InitializeHeap, sorter, Merging
<1>2. /\ first \in Nat /\ first # 0 /\ Len(file_positions_) = Len(next_file_positions_)
      /\ DOMAIN file_positions_ = 1 .. Len(next_file_positions_) /\ Len(next_file_positions_) \in Nat
  <2>1. Len(file_positions_) = Len(next_file_positions_)
    BY <1>0 DEF Sorting
  <2> QED
    BY <1>0, <2>1, LenProperties DEF Types
<1>3. CASE first \in DOMAIN file_positions_
  <2>1. first' = first + 1 /\ pc' = pc /\ heap_' = Advance(heap_, first, file_positions_[first])
    BY <1>3 DEF InitializeHeap
  <2>2. first \in 1 .. Len(next_file_positions_)
    BY <1>2, <1>3
  <2>3. /\ file_positions_[first] \in Nat /\ End(first) \in Nat /\ file_positions_[first] < End(first)
        /\ file_positions_[first] < next_file_positions_[first] /\ file_positions_[first] < Len(partly)
    BY <1>0, <2>2, RunIs
  <2>4. Advanced(heap_, first, file_positions_[first], heap_')
    BY <1>0, <1>2, <2>1, <2>3, AdvanceIs DEF Types
  <2>5. file_positions_[first] + 1 \in Run(first)
    BY <2>3 DEF Run
  <2>6. ~\E x \in heap_ : At(x) = partly[file_positions_[first] + 1]
    <3> SUFFICES ASSUME NEW x \in heap_, At(x) = partly[file_positions_[first] + 1]
                 PROVE  FALSE
      OBVIOUS
    <3>1. x.run = first
      BY <1>0, <2>2, <2>5, CursorOfPair
    <3>2. x.run < first
      BY <1>0 DEF Merging
    <3> QED
      BY <1>2, <3>1, <3>2
  <2>7. PICK e : heap_' = heap_ \cup {e} /\ e.run = first /\ e.next_offset = file_positions_[first] + 1
    BY <2>3, <2>4, <2>6 DEF Advanced
  <2>8. ASSUME NEW r \in 1 .. Len(next_file_positions_), r < first + 1
        PROVE  \E x \in heap_' : x.run = r /\ x.next_offset = file_positions_[r] + 1
    <3>1. CASE r = first
      BY <2>7, <3>1
    <3>2. CASE r # first
      <4>1. r < first
        BY <1>2, <2>8, <3>2
      <4> QED
        BY <1>0, <2>7, <4>1 DEF Kept
    <3> QED
      BY <3>1, <3>2
  <2> QED
    BY <1>0, <1>1, <2>1, <2>8 DEF Kept
<1>4. CASE first \notin DOMAIN file_positions_
  <2>1. pc' = "merge" /\ heap_' = heap_
    BY <1>4 DEF InitializeHeap
  <2>2. \A r \in 1 .. Len(next_file_positions_) : r < first
    BY <1>2, <1>4
  <2>3. Passed' = {}
    <3> SUFFICES ASSUME NEW k \in 1 .. Len(partly)
                 PROVE  \E e \in heap_ : k \in Ahead(e)'
      BY <1>1, <2>1 DEF Passed
    <3>1. PICK r \in 1 .. Len(next_file_positions_) : k \in Run(r)
      BY <1>0 DEF Runs
    <3>2. PICK e \in heap_ : e.run = r /\ e.next_offset = file_positions_[r] + 1
      BY <1>0, <2>2 DEF Kept
    <3>3. k \in Ahead(e)'
      BY <1>1, <3>1, <3>2 DEF Ahead, Run, End
    <3> QED
      BY <3>3
  <2>4. Numbering([i \in 1 .. 0 |-> i], 0, {})
    BY DEF Numbering
  <2>5. Len(sorted') = 0
    BY <1>1, EmptySeq
  <2> QED
    BY <2>1, <2>3, <2>4, <2>5 DEF Kept
<1> QED
  BY <1>3, <1>4
(* A step of the merge passes one pair more: the one it takes. *)
LEMMA PassedOneMore ==
  ASSUME IInv, Reading, NoPairTwice, pc = "merge",
         partly' = partly, next_file_positions_' = next_file_positions_,
         NEW m, Taken(m)
  PROVE  Passed' = Passed \cup {m.next_offset} /\ m.next_offset \notin Passed /\ At(m) = partly[m.next_offset]
<1>0. Types /\ Sorting /\ Runs /\ Merging /\ pc \notin {"read", "partlySort"}
  BY DEF IInv
<1>1. /\ m \in heap_ /\ m.run \in 1 .. Len(next_file_positions_) /\ m.next_offset \in Run(m.run)
      /\ At(m) = partly[m.next_offset] /\ m.run \in Nat /\ m.next_offset \in Nat
  BY <1>0 DEF Taken, Merging, Types, Cursor
<1>2. PICK run, k : run = m.run /\ k = m.next_offset
  OBVIOUS
<1>3. /\ file_positions_[run] \in Nat /\ End(run) \in Nat /\ k \in 1 .. Len(partly)
      /\ \A i \in Nat : i < next_file_positions_[run] /\ i < Len(partly) <=> i < End(run)
      /\ file_positions_[run] < k /\ k <= End(run) /\ k \in Nat
  <2>1. /\ file_positions_[run] \in Nat /\ End(run) \in Nat /\ Run(run) \subseteq 1 .. Len(partly)
        /\ \A i \in Nat : i < next_file_positions_[run] /\ i < Len(partly) <=> i < End(run)
    BY <1>0, <1>1, <1>2, RunIs
  <2>2. k \in file_positions_[run] + 1 .. End(run)
    BY <1>1, <1>2 DEF Run
  <2>3. k \in 1 .. Len(partly)
    BY <1>1, <1>2, <2>1
  <2> QED
    BY <2>1, <2>2, <2>3
<1>4. \A e : Ahead(e) = e.next_offset .. End(e.run) /\ Ahead(e)' = Ahead(e)
  BY DEF Ahead, End
<1>5. Advanced(heap_ \ {m}, run, k, heap_')
  <2>1. heap_' = Advance(heap_ \ {m}, run, k)
    BY <1>2 DEF Taken
  <2> QED
    BY <1>0, <1>1, <1>2, <2>1, AdvanceIs DEF Types
(* What the other cursors are still to come to is in other runs. *)
<1>6. ASSUME NEW x \in heap_, x # m, NEW i \in Ahead(x)
      PROVE  i \notin Run(run)
  <2>1. x.run \in 1 .. Len(next_file_positions_) /\ x.next_offset \in Run(x.run) /\ x.run # run
    BY <1>0, <1>1, <1>2, <1>6 DEF Merging
  <2>2. i \in Run(x.run)
    <3>1. x.next_offset \in file_positions_[x.run] + 1 .. End(x.run) /\ i \in x.next_offset .. End(x.run)
      BY <1>4, <2>1 DEF Run
    <3>2. file_positions_[x.run] \in Nat /\ End(x.run) \in Nat
      BY <1>0, <2>1, RunIs
    <3> QED
      BY <3>1, <3>2 DEF Run
  <2> QED
    BY <1>0, <1>1, <1>2, <2>1, <2>2, RunsAreDisjoint
<1>7. k \in Ahead(m) /\ k \in Run(run)
  BY <1>1, <1>2, <1>3, <1>4
<1>8. ASSUME NEW i
      PROVE  (\E x \in heap_' : i \in Ahead(x)) <=> i # k /\ \E x \in heap_ : i \in Ahead(x)
  <2>1. CASE heap_' = heap_ \ {m} /\ ~(k < End(run))
    <3>1. Ahead(m) = {k}
      BY <1>2, <1>3, <1>4, <2>1
    <3>2. \A x \in heap_ : x # m => k \notin Ahead(x)
      BY <1>6, <1>7
    <3> QED
      BY <1>1, <2>1, <3>1, <3>2
  <2>2. ASSUME NEW e \in Cursor, heap_' = (heap_ \ {m}) \cup {e}, e.run = run, e.next_offset = k + 1, k < End(run)
        PROVE  (\E x \in heap_' : i \in Ahead(x)) <=> i # k /\ \E x \in heap_ : i \in Ahead(x)
    <3>1. Ahead(m) = Ahead(e) \cup {k} /\ k \notin Ahead(e)
      <4>1. Ahead(m) = k .. End(run) /\ Ahead(e) = k + 1 .. End(run)
        BY <1>2, <1>4, <2>2
      <4> QED
        BY <1>3, <2>2, <4>1
    <3>2. \A x \in heap_ : x # m => k \notin Ahead(x)
      BY <1>6, <1>7
    <3> QED
      BY <1>1, <2>2, <3>1, <3>2
  <2>3. ASSUME NEW x \in heap_ \ {m}, At(x) = partly[k + 1], k < End(run)
        PROVE  FALSE
    <3>1. k + 1 \in Run(run)
      BY <1>3, <2>3 DEF Run
    <3>2. x.run = run
      BY <1>0, <1>1, <1>2, <2>3, <3>1, CursorOfPair
    <3> QED
      BY <1>0, <1>1, <1>2, <2>3, <3>2 DEF Merging
  <2> QED
    BY <1>3, <1>5, <2>1, <2>2, <2>3 DEF Advanced
<1>9. Passed' = {i \in 1 .. Len(partly) : ~\E x \in heap_' : i \in Ahead(x)}
  BY <1>4 DEF Passed
<1>10. Passed = {i \in 1 .. Len(partly) : ~\E x \in heap_ : i \in Ahead(x)}
  BY DEF Passed
<1>11. Passed' = Passed \cup {k} /\ k \notin Passed
  BY <1>1, <1>3, <1>7, <1>8, <1>9, <1>10
<1> QED
  BY <1>1, <1>2, <1>11

LEMMA KeptNext == IInv /\ Reading /\ NoPairTwice /\ Kept /\ Next => Kept'
<1> SUFFICES ASSUME IInv, Reading, NoPairTwice, Kept, Next PROVE Kept'
  OBVIOUS
<1>1. CASE InitializeHeap
  BY <1>1, KeptInitializing
<1>2. CASE MergeStep /\ pc' = "merge"
  <2>0. Types /\ Sorting /\ Runs /\ Merging
    BY DEF IInv
  <2>1. /\ pc = "merge" /\ partly' = partly /\ next_file_positions_' = next_file_positions_
    BY <1>2 DEF MergeStep, sorter
  <2>2. PICK m : Taken(m) /\ sorted' = Append(sorted, At(m))
    BY <1>2, <2>0, MergeStepIs DEF Types, Taken
  <2>3. Passed' = Passed \cup {m.next_offset} /\ m.next_offset \notin Passed /\ At(m) = partly[m.next_offset]
    BY <2>1, <2>2, PassedOneMore
  <2>4. PICK h : Numbering(h, Len(sorted), Passed) /\ \A i \in 1 .. Len(sorted) : sorted[i] = partly[h[i]]
    BY <2>1 DEF Kept
  <2>5. At(m) \in Pair /\ sorted \in Seq(Pair)
    BY <2>0, <2>2 DEF Types, Taken, Cursor, At, Pair
  <2>6. PICK n \in Nat : n = Len(sorted)
    BY <2>5, LenProperties
  <2>7. PICK g : g = [i \in 1 .. n + 1 |-> IF i = n + 1 THEN m.next_offset ELSE h[i]]
    OBVIOUS
  <2>8. /\ Len(sorted') = n + 1 /\ sorted'[n + 1] = At(m)
        /\ \A i \in 1 .. n : sorted'[i] = sorted[i]
    BY <2>2, <2>5, <2>6, AppendIs
  <2>9. Numbering(g, n + 1, Passed')
    BY <2>3, <2>4, <2>6, <2>7, NumberingAppended
  <2>10. \A i \in 1 .. n + 1 : sorted'[i] = partly'[g[i]]
    <3> SUFFICES ASSUME NEW i \in 1 .. n + 1 PROVE sorted'[i] = partly[g[i]]
      BY <2>1
    <3>1. CASE i = n + 1
      BY <2>3, <2>7, <2>8, <3>1
    <3>2. CASE i # n + 1
      <4>1. i \in 1 .. n /\ g[i] = h[i]
        BY <2>7, <3>2
      <4> QED
        BY <2>4, <2>6, <2>8, <4>1
    <3> QED
      BY <3>1, <3>2
  <2> QED
    BY <1>2, <2>8, <2>9, <2>10 DEF Kept
<1>3. CASE MergeStep /\ pc' # "merge"
  <2>1. pc' # "initialize"
    BY <1>3 DEF MergeStep
  <2> QED
    BY <1>3, <2>1 DEF Kept
<1>4. CASE FlushRest
  <2>1. pc' = "initialize" /\ first' = 1
    BY <1>4 DEF FlushRest
  <2> QED
    BY <2>1 DEF Kept
<1>5. CASE ReadWord \/ NextDocument \/ EndOfInput \/ ReadPair
  BY <1>5 DEF ReadWord, NextDocument, EndOfInput, ReadPair, Kept
<1>6. CASE WriteOffset \/ EndOfOffsets \/ WriteCount \/ WriteDocument \/ EndOfLists
  BY <1>6 DEF WriteOffset, EndOfOffsets, WriteCount, WriteDocument, EndOfLists, Kept
<1> QED
  BY <1>1, <1>2, <1>3, <1>4, <1>5, <1>6 DEF Next
(* Where a pair of the input is after the runs have been written. *)
LEMMA PairInRuns ==
  ASSUME Types, Sorting, pc \notin {"read", "partlySort"}, NEW i \in 1 .. Len(pairs)
  PROVE  \E k \in 1 .. Len(partly) : partly[k] = pairs[i]
<1>1. PICK g : Permutation(g, Len(partly)) /\ \A k \in 1 .. Len(partly) : partly[k] = pairs[g[k]]
  BY DEF Sorting, Rearranges
<1>2. Len(partly) = Len(pairs)
  BY DEF Sorting
<1>3. PICK k \in 1 .. Len(partly) : g[k] = i
  BY <1>1, <1>2 DEF Permutation, Numbering
<1> QED
  BY <1>1, <1>3

LEMMA CountOnce ==
  ASSUME NEW p, NEW s, NEW n, DOMAIN s = 1 .. n, \A i, j \in 1 .. n : s[i] = s[j] => i = j
  PROVE  /\ (\E i \in 1 .. n : s[i] = p) => Count(p, s) = 1
         /\ ~(\E i \in 1 .. n : s[i] = p) => Count(p, s) = 0
<1> DEFINE I == {i \in DOMAIN s : s[i] = p}
<1>1. ASSUME NEW i \in 1 .. n, s[i] = p
      PROVE  Count(p, s) = 1
  <2>1. I = {i}
    BY <1>1
  <2>2. Cardinality({i}) = 1
    BY FS_Singleton
  <2> QED
    BY <2>1, <2>2 DEF Count
<1>2. ASSUME ~\E i \in 1 .. n : s[i] = p
      PROVE  Count(p, s) = 0
  <2>1. I = {}
    BY <1>2
  <2> QED
    BY <2>1, FS_EmptySet DEF Count
<1> QED
  BY <1>1, <1>2

LEMMA KeptCounts ==
  ASSUME IInv, Reading, NoPairTwice, Kept
  PROVE  MergeKeepsPairs
<1> SUFFICES ASSUME pc = "merge", NEW p \in ToSet(pairs)
             PROVE  Count(p, pairs) = Count(p, sorted) + Cardinality(ToCome(p))
  BY DEF MergeKeepsPairs
<1>0. Types /\ Sorting /\ Runs /\ Merging /\ pc \notin {"read", "partlySort"}
  BY DEF IInv
<1>t. /\ DOMAIN pairs = 1 .. Len(pairs) /\ DOMAIN partly = 1 .. Len(partly) /\ DOMAIN sorted = 1 .. Len(sorted)
  BY <1>0, LenProperties DEF Types
<1>1. PICK i \in 1 .. Len(pairs) : pairs[i] = p
  BY <1>t DEF ToSet
<1>2. /\ \A a, b \in 1 .. Len(pairs) : pairs[a] = pairs[b] => a = b
      /\ \A a, b \in 1 .. Len(partly) : partly[a] = partly[b] => a = b
  BY <1>0, PairsOnce
<1>3. Count(p, pairs) = 1
  BY <1>t, <1>1, <1>2, CountOnce
<1>4. PICK k \in 1 .. Len(partly) : partly[k] = p
  BY <1>0, <1>1, PairInRuns
<1>5. PICK h : Numbering(h, Len(sorted), Passed) /\ \A a \in 1 .. Len(sorted) : sorted[a] = partly[h[a]]
  BY DEF Kept
<1>6. /\ \A a \in 1 .. Len(sorted) : h[a] \in Passed /\ h[a] \in 1 .. Len(partly)
      /\ \A a, b \in 1 .. Len(sorted) : h[a] = h[b] => a = b
      /\ \A x \in Passed : \E a \in 1 .. Len(sorted) : h[a] = x
  <2>1. h \in [1 .. Len(sorted) -> Passed] /\ Passed \subseteq 1 .. Len(partly)
    BY <1>5 DEF Numbering, Passed
  <2> QED
    BY <1>5, <2>1 DEF Numbering
<1>7. ASSUME NEW a \in 1 .. Len(sorted), NEW b \in 1 .. Len(sorted), sorted[a] = sorted[b]
      PROVE  a = b
  <2>1. sorted[a] = partly[h[a]] /\ sorted[b] = partly[h[b]]
    BY <1>5
  <2>2. h[a] \in 1 .. Len(partly) /\ h[b] \in 1 .. Len(partly)
    BY <1>6
  <2>3. h[a] = h[b]
    BY <1>2, <1>7, <2>1, <2>2
  <2> QED
    BY <1>6, <2>3
<1>8. (\E a \in 1 .. Len(sorted) : sorted[a] = p) <=> k \in Passed
  <2>1. ASSUME NEW a \in 1 .. Len(sorted), sorted[a] = p
        PROVE  k \in Passed
    <3>1. partly[h[a]] = partly[k] /\ h[a] \in 1 .. Len(partly) /\ h[a] \in Passed
      BY <1>4, <1>5, <1>6, <2>1
    <3>2. h[a] = k
      BY <1>2, <1>4, <3>1
    <3> QED
      BY <3>1, <3>2
  <2>2. ASSUME k \in Passed
        PROVE  \E a \in 1 .. Len(sorted) : sorted[a] = p
    <3>1. PICK a \in 1 .. Len(sorted) : h[a] = k
      BY <1>6, <2>2
    <3>2. sorted[a] = p
      BY <1>4, <1>5, <3>1
    <3> QED
      BY <3>2
  <2> QED
    BY <2>1, <2>2
<1>9. Count(p, sorted) = IF k \in Passed THEN 1 ELSE 0
  BY <1>t, <1>7, <1>8, CountOnce
<1>10. ToCome(p) = {ek \in heap_ \X (1 .. Len(partly)) : ek[2] = k /\ k \in Ahead(ek[1])}
  BY <1>t, <1>2, <1>4 DEF ToCome
<1>11. CASE k \in Passed
  <2>1. ToCome(p) = {}
    BY <1>10, <1>11 DEF Passed
  <2>2. Cardinality(ToCome(p)) = 0
    BY <2>1, FS_EmptySet
  <2> QED
    BY <1>3, <1>9, <1>11, <2>2
<1>12. CASE k \notin Passed
  <2>1. PICK e \in heap_ : k \in Ahead(e)
    BY <1>12 DEF Passed
  <2>2. ASSUME NEW x \in heap_, k \in Ahead(x)
        PROVE  k \in Run(x.run) /\ x.run \in 1 .. Len(next_file_positions_)
    <3>1. x.run \in 1 .. Len(next_file_positions_) /\ x.next_offset \in Run(x.run)
      BY <1>0 DEF Merging
    <3>2. x.next_offset \in file_positions_[x.run] + 1 .. End(x.run) /\ k \in x.next_offset .. End(x.run)
      BY <2>2, <3>1 DEF Run, Ahead, End
    <3>3. file_positions_[x.run] \in Nat /\ End(x.run) \in Nat
      BY <1>0, <3>1, RunIs
    <3> QED
      BY <3>1, <3>2, <3>3 DEF Run
  <2>3. \A x \in heap_ : k \in Ahead(x) => x = e
    <3> SUFFICES ASSUME NEW x \in heap_, k \in Ahead(x) PROVE x = e
      OBVIOUS
    <3>1. x.run = e.run
      BY <1>0, <2>1, <2>2, RunsAreDisjoint
    <3> QED
      BY <1>0, <3>1 DEF Merging
  <2>4. ToCome(p) = {<<e, k>>}
    BY <1>10, <2>1, <2>3
  <2>5. Cardinality(ToCome(p)) = 1
    BY <2>4, FS_Singleton
  <2> QED
    BY <1>3, <1>9, <1>12, <2>5
<1> QED
  BY <1>11, <1>12

(* While the runs are merged no pair is lost or written twice: every pair  *)
(* of the input is either written or still to come, once - if no pair is   *)
(* in the input twice.  Otherwise the heap, which is a set, drops a run.   *)
THEOREM MergingKeepsPairs == Spec => [](NoPairTwice => MergeKeepsPairs)
<1> DEFINE KInv == IInv /\ Reading /\ (NoPairTwice => Kept)
<1>1. Init => Reading /\ Kept
  BY ReadingInit DEF Init, Kept
<1>2. IInv /\ IInv' /\ Reading /\ (NoPairTwice => Kept) /\ [Next]_vars => Reading' /\ (NoPairTwice => Kept)'
  <2> SUFFICES ASSUME IInv, Reading, NoPairTwice => Kept, [Next]_vars
               PROVE  Reading' /\ (NoPairTwice => Kept)'
    OBVIOUS
  <2>0. Types
    BY DEF IInv
  <2>1. NoPairTwice' => NoPairTwice
    <3>1. input' = input
      BY DEF Next, vars, ReadWord, NextDocument, EndOfInput, ReadPair, FlushRest, InitializeHeap, MergeStep,
             WriteOffset, EndOfOffsets, WriteCount, WriteDocument, EndOfLists
    <3>2. Places' = Places /\ \A q : PairAt(q)' = PairAt(q)
      BY <3>1 DEF Places, PairAt
    <3> QED
      BY <3>2 DEF NoPairTwice
  <2>2. CASE Next
    BY <2>0, <2>1, <2>2, ReadingNext, KeptNext
  <2>3. CASE UNCHANGED vars
    <3>1. /\ UNCHANGED <<reader, input, pc>> /\ partly' = partly /\ heap_' = heap_ /\ sorted' = sorted /\ first' = first
          /\ next_file_positions_' = next_file_positions_ /\ file_positions_' = file_positions_
      BY <2>3 DEF vars, sorter, merger
    <3>2. Reading'
      BY <3>1, ReadingKept
    <3>3. Passed' = Passed
      BY <3>1 DEF Passed, Ahead
    <3>4. Kept => Kept'
      BY <3>1, <3>3 DEF Kept
    <3> QED
      BY <2>1, <3>2, <3>4
  <2> QED
    BY <2>2, <2>3
<1>3. IInv /\ Reading /\ (NoPairTwice => Kept) => (NoPairTwice => MergeKeepsPairs)
  BY KeptCounts
<1> QED
  BY <1>1, <1>2, <1>3, Invariance, PTL DEF Spec
-----------------------------------------------------------------------------
(* The index. *)

(* A numbering numbers each part of the set. *)
LEMMA NumberingPart ==
  ASSUME NEW n \in Nat, NEW S, NEW h, Numbering(h, n, S), NEW T \in SUBSET S,
         NEW A, A = {i \in 1 .. n : h[i] \in T}
  PROVE  IsFiniteSet(T) /\ IsFiniteSet(A) /\ Cardinality(A) = Cardinality(T)
<1> DEFINE f == [i \in A |-> h[i]]
<1>1. IsFiniteSet(S) /\ IsFiniteSet(T)
  BY NumberingCounts, FS_Subset
<1>2. IsFiniteSet(A)
  <2>1. IsFiniteSet(1 .. n) /\ A \subseteq 1 .. n
    BY FS_Interval
  <2> QED
    BY <2>1, FS_Subset
<1>3. /\ \A i, j \in 1 .. n : h[i] = h[j] => i = j
      /\ \A x \in S : \E i \in 1 .. n : h[i] = x
  BY DEF Numbering
<1>4. f \in [A -> T] /\ \A i \in A : f[i] = h[i]
  OBVIOUS
<1>5. \A i, j \in A : f[i] = f[j] => i = j
  BY <1>3, <1>4
<1>6. \A x \in T : \E i \in A : f[i] = x
  BY <1>3, <1>4
<1> HIDE DEF f
<1>7. f \in Bijection(A, T)
  BY <1>4, <1>5, <1>6, Zenon DEF Bijection, Injection, Surjection, IsInjective
<1>8. Cardinality(A) = Cardinality(T)
  BY <1>2, <1>7, FS_Bijection DEF ExistsBijection
<1> QED
  BY <1>1, <1>2, <1>8

(* What has all that is below its elements are the first numbers. *)
LEMMA FirstNumbers ==
  ASSUME NEW n \in Nat, NEW A \in SUBSET (1 .. n), \A i \in A : \A j \in 1 .. n : j < i => j \in A
  PROVE  IsFiniteSet(A) /\ Cardinality(A) \in Nat /\ A = 1 .. Cardinality(A)
<1> DEFINE B == {k \in Nat : k >= 1 /\ k \notin A}
<1>1. B \in SUBSET Nat /\ n + 1 \in B
  OBVIOUS
<1>2. PICK x \in B : \A y \in B : x <= y
  <2>1. B # {}
    BY <1>1
  <2> HIDE DEF B
  <2> QED
    BY <1>1, <2>1, LeastNumber
<1>3. x \in Nat /\ x >= 1 /\ x <= n + 1 /\ x \notin A
  BY <1>1, <1>2
<1>4. \A k \in 1 .. x - 1 : k \in A
  BY <1>2, <1>3
<1>5. \A k \in A : k \in 1 .. x - 1
  <2> SUFFICES ASSUME NEW k \in A, ~(k < x) PROVE FALSE
    BY <1>3
  <2>1. x < k /\ x \in 1 .. n
    BY <1>3
  <2> QED
    BY <1>3, <2>1
<1>6. A = 1 .. x - 1
  BY <1>4, <1>5
<1>7. x - 1 \in Nat /\ IsFiniteSet(1 .. x - 1) /\ Cardinality(1 .. x - 1) = x - 1
  <2>1. x - 1 \in Nat
    BY <1>3
  <2>2. IsFiniteSet(1 .. x - 1) /\ Cardinality(1 .. x - 1) = IF 1 > x - 1 THEN 0 ELSE (x - 1) - 1 + 1
    BY <2>1, FS_Interval
  <2> QED
    BY <1>3, <2>1, <2>2
<1> QED
  BY <1>6, <1>7
(* What is sorted are the pairs of the input. *)
Merged ==
  \E o : Numbering(o, Len(sorted), Places) /\ \A i \in 1 .. Len(sorted) : sorted[i] = PairAt(o[i])

(* Where the pairs of some words are in the sorted file. *)
OfWords(V) == {i \in 1 .. Len(sorted) : sorted[i][1] \in V}

LEMMA OfWordsAre ==
  ASSUME sorted \in Seq(Pair), NEW V, NEW W, V \cap W = {}
  PROVE  /\ IsFiniteSet(OfWords(V)) /\ Cardinality(OfWords(V)) \in Nat
         /\ Cardinality(OfWords(W)) \in Nat
         /\ OfWords(V \cup W) = OfWords(V) \cup OfWords(W)
         /\ Cardinality(OfWords(V \cup W)) = Cardinality(OfWords(V)) + Cardinality(OfWords(W))
         /\ Cardinality(OfWords({})) = 0
<1>1. Len(sorted) \in Nat
  BY LenProperties
<1>2. \A X : IsFiniteSet(OfWords(X)) /\ Cardinality(OfWords(X)) \in Nat
  <2> TAKE X
  <2>1. OfWords(X) \subseteq 1 .. Len(sorted) /\ IsFiniteSet(1 .. Len(sorted))
    BY <1>1, FS_Interval DEF OfWords
  <2>2. IsFiniteSet(OfWords(X))
    BY <2>1, FS_Subset
  <2> QED
    BY <2>2, FS_CardinalityType
<1>3. OfWords(V \cup W) = OfWords(V) \cup OfWords(W) /\ OfWords(V) \cap OfWords(W) = {}
  BY DEF OfWords
<1>4. Cardinality(OfWords(V) \cap OfWords(W)) = 0 /\ Cardinality(OfWords({})) = 0
  <2>1. OfWords({}) = {}
    BY DEF OfWords
  <2> QED
    BY <1>3, <2>1, FS_EmptySet
<1>5. Cardinality(OfWords(V) \cup OfWords(W))
        = Cardinality(OfWords(V)) + Cardinality(OfWords(W)) - Cardinality(OfWords(V) \cap OfWords(W))
  BY <1>2, FS_Union
<1>6. Cardinality(OfWords(V)) \in Nat /\ Cardinality(OfWords(W)) \in Nat
  BY <1>2
<1>7. Cardinality(OfWords(V \cup W)) = Cardinality(OfWords(V)) + Cardinality(OfWords(W)) - 0
  BY <1>3, <1>4, <1>5
<1>8. Cardinality(OfWords(V \cup W)) = Cardinality(OfWords(V)) + Cardinality(OfWords(W))
  BY <1>6, <1>7
<1> QED
  BY <1>2, <1>3, <1>4, <1>6, <1>8

(* The dictionary has the words that are sorted, and counts them. *)
LEMMA DictIsSorted ==
  ASSUME Types, Reading, pc # "read", Merged
  PROVE  /\ Before = Places
         /\ \A i \in 1 .. Len(sorted) : sorted[i][1] \in DOMAIN word_dict_
         /\ \A w \in DOMAIN word_dict_ : /\ word_dict_[w] = Cardinality(OfWords({w}))
                                         /\ word_dict_[w] = Cardinality({q \in Places : PairAt(q)[1] = w})
<1>t. Len(sorted) \in Nat /\ doc \in Nat /\ word \in Nat
  BY LenProperties DEF Types
<1>1. Before = Places
  <2>1. ASSUME NEW q \in Places PROVE PairLess(q, <<doc, word>>)
    <3>1. q[1] \in 1 .. Len(input) /\ Len(input) \in Nat
      BY PlacesAre
    <3>2. doc > Len(input)
      BY DEF Reading
    <3>3. q[1] < doc
      BY <1>t, <3>1, <3>2
    <3> QED
      BY <3>3 DEF PairLess
  <2> QED
    BY <2>1 DEF Before
<1>2. PICK o : Numbering(o, Len(sorted), Places) /\ \A i \in 1 .. Len(sorted) : sorted[i] = PairAt(o[i])
  BY DEF Merged
<1>3. \A i \in 1 .. Len(sorted) : o[i] \in Places
  BY <1>2 DEF Numbering
<1>4. /\ DOMAIN word_dict_ = {PairAt(q)[1] : q \in Places}
      /\ \A w \in DOMAIN word_dict_ : word_dict_[w] = Cardinality({q \in Places : PairAt(q)[1] = w})
  BY <1>1 DEF Reading
<1>5. \A i \in 1 .. Len(sorted) : sorted[i][1] \in DOMAIN word_dict_
  BY <1>2, <1>3, <1>4
<1>6. ASSUME NEW w
      PROVE  Cardinality(OfWords({w})) = Cardinality({q \in Places : PairAt(q)[1] = w})
  <2> DEFINE T == {q \in Places : PairAt(q)[1] = w}
  <2>1. OfWords({w}) = {i \in 1 .. Len(sorted) : o[i] \in T}
    BY <1>2, <1>3 DEF OfWords
  <2>2. T \in SUBSET Places
    OBVIOUS
  <2> HIDE DEF T
  <2>3. PICK n \in Nat : n = Len(sorted)
    BY <1>t
  <2>4. Numbering(o, n, Places) /\ OfWords({w}) = {i \in 1 .. n : o[i] \in T}
    BY <1>2, <2>1, <2>3
  <2>5. Cardinality(OfWords({w})) = Cardinality(T)
    BY <2>2, <2>4, NumberingPart
  <2> QED
    BY <2>5 DEF T
<1> QED
  BY <1>1, <1>4, <1>5, <1>6

(* The lists of the least words are the first part of the sorted file. *)
LEMMA FirstWords ==
  ASSUME Types, Merging, NEW V, \A i \in 1 .. Len(sorted) : sorted[i][1] \in DOMAIN word_dict_,
         \A v \in V, w \in DOMAIN word_dict_ : w <= v => w \in V
  PROVE  OfWords(V) = 1 .. Cardinality(OfWords(V))
<1>t. sorted \in Seq(Pair) /\ Len(sorted) \in Nat
  BY LenProperties DEF Types
<1>1. OfWords(V) \in SUBSET (1 .. Len(sorted))
  BY DEF OfWords
<1>2. ASSUME NEW i \in OfWords(V), NEW j \in 1 .. Len(sorted), j < i
      PROVE  j \in OfWords(V)
  <2>1. i \in 1 .. Len(sorted) /\ sorted[i][1] \in V
    BY DEF OfWords
  <2>2. sorted[i] \in Pair /\ sorted[j] \in Pair
    BY <1>t, <2>1, ElementOfSeq
  <2>3. ~PairLess(sorted[i], sorted[j])
    BY <1>2, <2>1 DEF Merging
  <2>4. sorted[j][1] <= sorted[i][1]
    BY <2>2, <2>3 DEF Pair, PairLess
  <2> QED
    BY <2>1, <2>4 DEF OfWords
<1> QED
  BY <1>t, <1>1, <1>2, FirstNumbers
(* The documents are given in the order of their numbers. *)
DocumentsAscend == \A d, e \in 1 .. Len(input) : d < e => input[d].docid <= input[e].docid

(* The input has not the word that getMin returns at the end. *)
NoLastWord == \A q \in Places : PairAt(q)[1] # UINT64_MAX

Indexable == NoPairTwice /\ DocumentsAscend /\ NoLastWord

(* When the merge ends, all pairs of the input have been sorted. *)
LEMMA MergeEnds ==
  ASSUME IInv, Reading, NoPairTwice, NoLastWord, Kept, MergeStep, pc' # "merge"
  PROVE  Merged' /\ pc' = "offsets" /\ sorted' = sorted
<1>0. Types /\ Sorting /\ Runs /\ Merging
  BY DEF IInv
<1>1. pc = "merge" /\ input' = input
  BY DEF MergeStep
<1>t. /\ pairs \in Seq(Pair) /\ partly \in Seq(Pair) /\ sorted \in Seq(Pair)
      /\ Len(sorted) \in Nat /\ Len(partly) \in Nat /\ Len(pairs) = Len(partly)
  BY <1>0, <1>1, LenProperties DEF Types, Sorting
<1>2. PICK o : Numbering(o, Len(pairs), Before) /\ \A i \in 1 .. Len(pairs) : pairs[i] = PairAt(o[i])
  BY DEF Reading
<1>3. PICK g : Permutation(g, Len(partly)) /\ \A k \in 1 .. Len(partly) : partly[k] = pairs[g[k]]
  BY <1>0 DEF Sorting, Rearranges
<1>4. PICK h : Numbering(h, Len(sorted), Passed) /\ \A i \in 1 .. Len(sorted) : sorted[i] = partly[h[i]]
  BY <1>1 DEF Kept
<1>5. Before = Places
  <2>1. doc \in Nat /\ word \in Nat /\ doc > Len(input)
    BY <1>0, <1>1 DEF Types, Reading
  <2>2. ASSUME NEW q \in Places PROVE PairLess(q, <<doc, word>>)
    <3>1. q[1] \in 1 .. Len(input) /\ Len(input) \in Nat
      BY <1>0, PlacesAre
    <3>2. q[1] < doc
      BY <2>1, <3>1
    <3> QED
      BY <3>2 DEF PairLess
  <2> QED
    BY <2>2 DEF Before
<1>6. PICK f : f = [i \in 1 .. Len(partly) |-> o[g[i]]]
  OBVIOUS
<1>7. Numbering(f, Len(partly), Places)
  BY <1>t, <1>2, <1>3, <1>5, <1>6, NumberingComposed
<1>8. /\ \A k \in 1 .. Len(partly) : partly[k] = PairAt(f[k])
      /\ \A k \in 1 .. Len(partly) : f[k] \in Places
  <2>1. \A k \in 1 .. Len(partly) : g[k] \in 1 .. Len(partly)
    BY <1>3 DEF Permutation, Numbering
  <2>2. \A k \in 1 .. Len(partly) : f[k] \in Places
    BY <1>7 DEF Numbering
  <2> QED
    BY <1>t, <1>2, <1>3, <1>6, <2>1, <2>2
<1>9. heap_ = {} /\ pc' = "offsets" /\ sorted' = sorted
  <2>1. CASE \E m : Taken(m)
    <3>1. PICK m : Taken(m)
      BY <2>1
    <3>2. m.word = UINT64_MAX /\ m \in heap_
      BY <1>1, <3>1 DEF Taken
    <3>3. /\ m.run \in 1 .. Len(next_file_positions_) /\ m.next_offset \in Run(m.run)
          /\ At(m) = partly[m.next_offset]
      BY <1>0, <3>2 DEF Merging
    <3>4. m.next_offset \in 1 .. Len(partly)
      <4>1. PICK r : r = m.run
        OBVIOUS
      <4>2. file_positions_[r] \in Nat /\ End(r) \in Nat /\ End(r) <= Len(partly)
        BY <1>0, <1>1, <3>3, <4>1, RunIs
      <4> QED
        BY <1>t, <3>3, <4>1, <4>2 DEF Run
    <3>5. At(m)[1] = UINT64_MAX
      BY <3>2 DEF At
    <3>6. At(m) = PairAt(f[m.next_offset]) /\ f[m.next_offset] \in Places
      BY <1>8, <3>3, <3>4
    <3> QED
      BY <3>5, <3>6 DEF NoLastWord
  <2>2. CASE heap_ = {} /\ pc' = "offsets" /\ UNCHANGED <<heap_, sorted>>
    BY <2>2
  <2> QED
    BY <1>0, <2>1, <2>2, MergeStepIs DEF Types
<1>10. Passed = 1 .. Len(partly)
  BY <1>9 DEF Passed
<1>11. Len(sorted) = Len(partly)
  <2>1. Cardinality(Passed) = Len(sorted)
    BY <1>t, <1>4, NumberingCounts
  <2>2. Cardinality(1 .. Len(partly)) = Len(partly)
    <3>1. PICK n \in Nat : n = Len(partly)
      BY <1>t
    <3>2. Cardinality(1 .. n) = n
      BY FS_Interval
    <3> QED
      BY <3>1, <3>2
  <2> QED
    BY <1>10, <2>1, <2>2
<1>12. PICK e : e = [i \in 1 .. Len(sorted) |-> f[h[i]]]
  OBVIOUS
<1>13. Numbering(e, Len(sorted), Places)
  BY <1>4, <1>7, <1>10, <1>11, <1>12, NumberingComposed DEF Permutation
<1>14. \A i \in 1 .. Len(sorted) : sorted[i] = PairAt(e[i])
  <2>1. \A i \in 1 .. Len(sorted) : h[i] \in 1 .. Len(partly)
    BY <1>4, <1>10 DEF Numbering
  <2> QED
    BY <1>4, <1>8, <1>12, <2>1
<1>15. Places' = Places /\ \A q : PairAt(q)' = PairAt(q)
  BY <1>1 DEF Places, PairAt
<1>16. Merged'
  BY <1>9, <1>13, <1>14, <1>15 DEF Merged
<1> QED
  BY <1>9, <1>16
(* The words that the loop under way has come to, and their places in the  *)
(* header and behind it.                                                   *)
Listed == DOMAIN word_dict_ \ it

Lower(w) == {v \in DOMAIN word_dict_ : v < w}

Entry(w) == 16 * Cardinality(Lower(w))

ListAt(V) == HeaderSize + 4 * Cardinality(V) + 8 * Cardinality(OfWords(V))

ListOf(w) == ListAt(Lower(w))

(* Where the document of the i-th sorted pair is. *)
DocAt(i) == HeaderSize + 4 * (Cardinality(Lower(sorted[i][1])) + 1) + 8 * (i - 1)

(* What the index has of a word and of a sorted pair, and between header   *)
(* and lists.                                                              *)
EntryIs(w) == IsAt(Entry(w), Field(8, w)) /\ IsAt(Entry(w) + 8, Field(8, ListOf(w)))

CountIs(w) == IsAt(ListOf(w), Field(4, CountField(word_dict_[w])))

DocIs(i) == IsAt(DocAt(i), Field(8, sorted[i][2]))

EndIs == \A b \in {0, 8} : IsAt(16 * Cardinality(DOMAIN word_dict_) + b, Field(8, 0))

(* The two loops that write the index. *)
Writing ==
  /\ pc \in {"read", "partlySort", "initialize", "merge"} =>
       index.size = 0 /\ cur_offset = 0 /\ left = 0 /\ read_docs = 0
  /\ pc \in {"offsets", "lists", "done"} => Merged /\ \A v \in Listed, w \in it : v < w
  /\ pc = "offsets" =>
       /\ left = 0 /\ read_docs = 0
       /\ index.size = 16 * Cardinality(Listed)
       /\ \A w \in Listed : EntryIs(w)
       /\ Listed = {} => cur_offset = 0
       /\ Listed # {} => cur_offset + ListSize(prev_cnt_docs) = ListAt(Listed)
  /\ pc \in {"lists", "done"} =>
       /\ index.size = HeaderSize + 4 * Cardinality(Listed) + 8 * read_docs
       /\ \A w \in DOMAIN word_dict_ : EntryIs(w)
       /\ EndIs
       /\ \A w \in Listed : CountIs(w)
       /\ \A i \in 1 .. read_docs : DocIs(i)
       /\ OfWords(Listed) = 1 .. read_docs + left
       /\ \A i \in read_docs + 1 .. read_docs + left, v \in Listed : v <= sorted[i][1]
  /\ pc = "done" => left = 0 /\ it = {}

(* These places do not move while the index is written. *)
LEMMA PlacesStay ==
  ASSUME word_dict_' = word_dict_, sorted' = sorted, input' = input
  PROVE  /\ HeaderSize' = HeaderSize
         /\ \A V : OfWords(V)' = OfWords(V) /\ ListAt(V)' = ListAt(V)
         /\ \A w : Lower(w)' = Lower(w) /\ Entry(w)' = Entry(w) /\ ListOf(w)' = ListOf(w)
         /\ \A i : DocAt(i)' = DocAt(i)
         /\ Merged' = Merged
<1>1. HeaderSize' = HeaderSize
  BY DEF HeaderSize
<1>2. \A V : OfWords(V)' = OfWords(V)
  BY DEF OfWords
<1>3. \A V : ListAt(V)' = ListAt(V)
  BY <1>1, <1>2 DEF ListAt
<1>4. \A w : Lower(w)' = Lower(w)
  BY DEF Lower
<1>5. \A w : Entry(w)' = Entry(w)
  BY <1>4 DEF Entry
<1>6. \A i : DocAt(i)' = DocAt(i)
  BY DEF DocAt, Lower, HeaderSize
<1>7. Merged' = Merged
  BY DEF Merged, Places, PairAt
<1>8. \A w : ListOf(w)' = ListOf(w)
  BY DEF ListOf, ListAt, Lower, OfWords, HeaderSize
<1> QED
  BY <1>1, <1>2, <1>3, <1>4, <1>5, <1>6, <1>7, <1>8

(* The next word of a loop over the words. *)
LEMMA NextWord ==
  ASSUME Types, it # {}, \A v \in Listed, w \in it : v < w, NEW w, w = Smallest(it),
         word_dict_' = word_dict_, it' = it \ {w}
  PROVE  /\ w \in it /\ w \in DOMAIN word_dict_ /\ w \in Nat /\ w \notin Listed
         /\ Lower(w) = Listed /\ Listed' = Listed \cup {w}
         /\ \A v \in Listed', u \in it' : v < u
         /\ \A v \in Listed' : v <= w
         /\ Cardinality(Listed) \in Nat /\ Cardinality(Listed') = Cardinality(Listed) + 1
<1>t. /\ it \subseteq DOMAIN word_dict_ /\ DOMAIN word_dict_ \subseteq Nat
      /\ IsFiniteSet(DOMAIN word_dict_)
  BY DEF Types
<1>1. w \in it /\ \A v \in it : w <= v
  <2>1. it \in SUBSET Nat
    BY <1>t
  <2> QED
    BY <2>1, SmallestIs
<1>2. w \in it /\ w \in DOMAIN word_dict_ /\ w \in Nat /\ w \notin Listed
  BY <1>t, <1>1 DEF Listed
<1>3. Lower(w) = Listed
  <2>1. ASSUME NEW v \in Lower(w) PROVE v \in Listed
    <3>1. v \in DOMAIN word_dict_ /\ v < w /\ v \in Nat
      BY <1>t DEF Lower
    <3>2. v \notin it
      BY <1>1, <1>2, <3>1
    <3> QED
      BY <3>1, <3>2 DEF Listed
  <2>2. ASSUME NEW v \in Listed PROVE v \in Lower(w)
    BY <1>2 DEF Listed, Lower
  <2> QED
    BY <2>1, <2>2
<1>4. Listed' = Listed \cup {w}
  BY <1>2 DEF Listed
<1>5. \A v \in Listed', u \in it' : v < u
  <2> SUFFICES ASSUME NEW v \in Listed', NEW u \in it' PROVE v < u
    OBVIOUS
  <2>1. u \in it /\ u # w /\ u \in Nat
    BY <1>t
  <2>2. CASE v = w
    BY <1>1, <1>2, <2>1, <2>2
  <2>3. CASE v \in Listed
    BY <2>1, <2>3
  <2> QED
    BY <1>4, <2>2, <2>3
<1>6. \A v \in Listed' : v <= w
  <2> SUFFICES ASSUME NEW v \in Listed' PROVE v <= w
    OBVIOUS
  <2>1. v \in Nat
    BY <1>t, <1>2, <1>4 DEF Listed
  <2>2. v = w \/ v < w
    BY <1>2, <1>4
  <2> QED
    BY <1>2, <2>1, <2>2
<1>7. Cardinality(Listed) \in Nat /\ Cardinality(Listed') = Cardinality(Listed) + 1
  <2>1. IsFiniteSet(Listed)
    BY <1>t, FS_Subset DEF Listed
  <2> QED
    BY <1>2, <1>4, <2>1, FS_CardinalityType, FS_AddElement
<1> QED
  BY <1>2, <1>3, <1>4, <1>5, <1>6, <1>7
(* What is in the index stays when one more field, or two, are written. *)
LEMMA OneWritten ==
  ASSUME IndexType(index), NEW n \in Nat, NEW x, index' = write(index, Field(n, x)),
         NEW s, s = index.size
  PROVE  /\ s \in Nat /\ index'.size = s + n /\ IsAt(s, Field(n, x))'
         /\ \A b, k, y : k > 0 /\ IsAt(b, Field(k, y)) => IsAt(b, Field(k, y))'
<1>1. /\ index'.size = index.size + n
      /\ index.size \in DOMAIN index'.at /\ index'.at[index.size] = Field(n, x)
      /\ \A b \in DOMAIN index.at : index.at[b].size > 0 => b \in DOMAIN index'.at /\ index'.at[b] = index.at[b]
  BY WriteKeeps
<1>2. \A k, y : Field(k, y).size = k
  BY DEF Field
<1>3. \A b, k, y : IsAt(b, Field(k, y)) <=> b \in DOMAIN index.at /\ index.at[b] = Field(k, y)
  BY DEF IsAt
<1>4. \A b, k, y : IsAt(b, Field(k, y))' <=> b \in DOMAIN index'.at /\ index'.at[b] = Field(k, y)
  BY DEF IsAt, Field
<1>5. s \in Nat /\ IsAt(s, Field(n, x))'
  BY <1>1 DEF IsAt, Field, IndexType
<1> QED
  BY <1>1, <1>2, <1>3, <1>4, <1>5

LEMMA TwoWritten ==
  ASSUME IndexType(index), NEW n \in Nat \ {0}, NEW x, NEW y,
         index' = write(write(index, Field(n, x)), Field(n, y)),
         NEW s, s = index.size
  PROVE  /\ s \in Nat /\ index'.size = s + 2 * n
         /\ IsAt(s, Field(n, x))' /\ IsAt(s + n, Field(n, y))'
         /\ \A b, k, z : k > 0 /\ IsAt(b, Field(k, z)) => IsAt(b, Field(k, z))'
<1>0. PICK file : file = write(index, Field(n, x))
  OBVIOUS
<1>1. /\ IndexType(file) /\ file.size = index.size + n
      /\ index.size \in DOMAIN file.at /\ file.at[index.size] = Field(n, x)
      /\ \A b \in DOMAIN index.at : index.at[b].size > 0 => b \in DOMAIN file.at /\ file.at[b] = index.at[b]
  BY <1>0, WriteKeeps
<1>2. index' = write(file, Field(n, y))
  BY <1>0
<1>3. /\ index'.size = file.size + n
      /\ file.size \in DOMAIN index'.at /\ index'.at[file.size] = Field(n, y)
      /\ \A b \in DOMAIN file.at : file.at[b].size > 0 => b \in DOMAIN index'.at /\ index'.at[b] = file.at[b]
  BY <1>1, <1>2, WriteKeeps
<1>4. \A k, z : Field(k, z).size = k
  BY DEF Field
<1>5. index.size \in DOMAIN index'.at /\ index'.at[index.size] = Field(n, x)
  <2>1. file.at[index.size].size > 0
    BY <1>1, <1>4
  <2> QED
    BY <1>1, <1>3, <2>1
<1>6. index.size + n \in DOMAIN index'.at /\ index'.at[index.size + n] = Field(n, y)
  BY <1>1, <1>3
<1>7. IsAt(s, Field(n, x))' /\ IsAt(s + n, Field(n, y))'
  BY <1>5, <1>6 DEF IsAt, Field
<1>8. ASSUME NEW b, NEW k, NEW z, k > 0, IsAt(b, Field(k, z))
      PROVE  IsAt(b, Field(k, z))'
  <2>1. b \in DOMAIN index.at /\ index.at[b] = Field(k, z) /\ Field(k, z).size = k
    BY <1>4, <1>8 DEF IsAt
  <2>2. b \in DOMAIN file.at /\ file.at[b] = Field(k, z)
    BY <1>1, <1>8, <2>1
  <2>3. b \in DOMAIN index'.at /\ index'.at[b] = Field(k, z)
    BY <1>3, <1>8, <2>1, <2>2
  <2> QED
    BY <2>3 DEF IsAt, Field
<1>9. s \in Nat /\ index'.size = s + 2 * n
  <2>1. index.size \in Nat
    BY DEF IndexType
  <2> QED
    BY <1>1, <1>3, <2>1
<1> QED
  BY <1>7, <1>8, <1>9
LEMMA FieldsStay ==
  ASSUME word_dict_' = word_dict_, sorted' = sorted, input' = input,
         \A b, k, y : k > 0 /\ IsAt(b, Field(k, y)) => IsAt(b, Field(k, y))'
  PROVE  /\ \A w : /\ EntryIs(w) => EntryIs(w)'
                   /\ CountIs(w) => CountIs(w)'
         /\ \A i : DocIs(i) => DocIs(i)'
         /\ EndIs => EndIs'
<1>1. \A w : Entry(w)' = Entry(w) /\ ListOf(w)' = ListOf(w)
  BY PlacesStay
<1>2. \A i : DocAt(i)' = DocAt(i)
  BY PlacesStay
<1>3. ASSUME NEW w, EntryIs(w) PROVE EntryIs(w)'
  <2>1. PICK e, l : e = Entry(w) /\ l = ListOf(w)
    OBVIOUS
  <2>2. IsAt(e, Field(8, w)) /\ IsAt(e + 8, Field(8, l))
    BY <1>3, <2>1 DEF EntryIs
  <2>3. IsAt(e, Field(8, w))' /\ IsAt(e + 8, Field(8, l))'
    BY <2>2
  <2>4. e = Entry(w)' /\ l = ListOf(w)'
    BY <1>1, <2>1
  <2> QED
    BY <2>3, <2>4 DEF EntryIs, IsAt, Field
<1>4. ASSUME NEW w, CountIs(w) PROVE CountIs(w)'
  <2>1. PICK l, n : l = ListOf(w) /\ n = CountField(word_dict_[w])
    OBVIOUS
  <2>2. IsAt(l, Field(4, n))
    BY <1>4, <2>1 DEF CountIs
  <2>3. IsAt(l, Field(4, n))'
    BY <2>2
  <2>4. l = ListOf(w)' /\ n = CountField(word_dict_'[w])
    BY <1>1, <2>1
  <2> QED
    BY <2>3, <2>4 DEF CountIs, IsAt, Field, CountField
<1>5. ASSUME NEW i, DocIs(i) PROVE DocIs(i)'
  <2>1. PICK l, n : l = DocAt(i) /\ n = sorted[i][2]
    OBVIOUS
  <2>2. IsAt(l, Field(8, n))
    BY <1>5, <2>1 DEF DocIs
  <2>3. IsAt(l, Field(8, n))'
    BY <2>2
  <2>4. l = DocAt(i)' /\ n = sorted'[i][2]
    BY <1>2, <2>1
  <2> QED
    BY <2>3, <2>4 DEF DocIs, IsAt, Field
<1>6. ASSUME EndIs PROVE EndIs'
  <2>1. PICK n : n = 16 * Cardinality(DOMAIN word_dict_)
    OBVIOUS
  <2>2. \A b \in {0, 8} : IsAt(n + b, Field(8, 0))
    BY <1>6, <2>1 DEF EndIs
  <2>3. \A b \in {0, 8} : IsAt(n + b, Field(8, 0))'
    BY <2>2
  <2> QED
    BY <2>1, <2>3 DEF EndIs, IsAt, Field
<1> QED
  BY <1>3, <1>4, <1>5, <1>6
LEMMA ListedStays ==
  ASSUME word_dict_' = word_dict_, sorted' = sorted, NEW V, V = Listed'
  PROVE  /\ ListAt(Listed)' = ListAt(V) /\ OfWords(Listed)' = OfWords(V)
         /\ Cardinality(Listed)' = Cardinality(V)
<1>1. OfWords(Listed)' = OfWords(V)
  BY DEF OfWords
<1>2. ListAt(Listed)' = HeaderSize' + 4 * Cardinality(Listed') + 8 * Cardinality(OfWords(Listed)')
  BY DEF ListAt
<1>3. HeaderSize' = HeaderSize
  BY DEF HeaderSize
<1> QED
  BY <1>1, <1>2, <1>3 DEF ListAt

LEMMA HeaderSizeIs ==
  ASSUME Types
  PROVE  /\ Cardinality(DOMAIN word_dict_) \in Nat /\ HeaderSize \in Nat
         /\ HeaderSize = 16 * Cardinality(DOMAIN word_dict_) + 16
<1>1. Cardinality(DOMAIN word_dict_) \in Nat
  <2>1. IsFiniteSet(DOMAIN word_dict_)
    BY DEF Types
  <2> QED
    BY <2>1, FS_CardinalityType
<1> QED
  BY <1>1 DEF HeaderSize

LEMMA OffsetWritten ==
  ASSUME IInv, Reading, Writing, WriteOffset
  PROVE  Writing'
<1>0. Types /\ pc = "offsets" /\ it # {} /\ pc' = "offsets"
  BY DEF IInv, WriteOffset
<1>1. PICK w, U : w = Smallest(it) /\ U = Listed
  OBVIOUS
<1>2. /\ word_dict_' = word_dict_ /\ sorted' = sorted /\ input' = input /\ left' = left /\ read_docs' = read_docs
      /\ it' = it \ {w} /\ prev_cnt_docs' = word_dict_[w]
      /\ cur_offset' = cur_offset + (IF it = DOMAIN word_dict_ THEN HeaderSize ELSE ListSize(prev_cnt_docs))
      /\ index' = write(write(index, Field(8, w)), Field(8, cur_offset'))
  BY <1>1 DEF WriteOffset, reader, merger
<1>3. /\ Merged /\ left = 0 /\ read_docs = 0 /\ index.size = 16 * Cardinality(U)
      /\ \A v \in U, x \in it : v < x
      /\ \A v \in U : EntryIs(v)
      /\ U = {} => cur_offset = 0
      /\ U # {} => cur_offset + ListSize(prev_cnt_docs) = ListAt(U)
  BY <1>0, <1>1 DEF Writing
<1>4. /\ w \in it /\ w \in DOMAIN word_dict_ /\ w \in Nat /\ w \notin U
      /\ Lower(w) = U /\ Listed' = U \cup {w}
      /\ \A v \in Listed', u \in it' : v < u
      /\ Cardinality(U) \in Nat /\ Cardinality(Listed') = Cardinality(U) + 1
  BY <1>0, <1>1, <1>2, <1>3, NextWord
<1>5. cur_offset' = ListAt(U)
  <2>1. CASE U = {}
    <3>1. it = DOMAIN word_dict_
      BY <1>0, <1>1, <2>1 DEF Listed, Types
    <3>2. Cardinality(U) = 0 /\ Cardinality(OfWords(U)) = 0
      BY <1>0, <2>1, OfWordsAre, FS_EmptySet DEF Types
    <3>3. HeaderSize \in Nat
      BY <1>0, HeaderSizeIs
    <3>4. ListAt(U) = HeaderSize
      BY <3>2, <3>3 DEF ListAt
    <3>5. cur_offset' = 0 + HeaderSize
      BY <1>2, <1>3, <2>1, <3>1
    <3> QED
      BY <3>3, <3>4, <3>5
  <2>2. CASE U # {}
    <3>1. it # DOMAIN word_dict_
      BY <1>1, <2>2 DEF Listed
    <3> QED
      BY <1>2, <1>3, <2>2, <3>1
  <2> QED
    BY <2>1, <2>2
<1>6. /\ IsAt(16 * Cardinality(U), Field(8, w))' /\ IsAt(16 * Cardinality(U) + 8, Field(8, ListAt(U)))'
      /\ index'.size = 16 * Cardinality(U) + 16
      /\ \A b, k, z : k > 0 /\ IsAt(b, Field(k, z)) => IsAt(b, Field(k, z))'
  <2>1. PICK l, s : l = ListAt(U) /\ s = index.size
    OBVIOUS
  <2>2. IndexType(index) /\ index' = write(write(index, Field(8, w)), Field(8, l))
    BY <1>0, <1>2, <1>5, <2>1 DEF Types
  <2>3. /\ s \in Nat /\ index'.size = s + 2 * 8 /\ IsAt(s, Field(8, w))' /\ IsAt(s + 8, Field(8, l))'
        /\ \A b, k, z : k > 0 /\ IsAt(b, Field(k, z)) => IsAt(b, Field(k, z))'
    BY <2>1, <2>2, TwoWritten
  <2>4. s = 16 * Cardinality(U) /\ l = ListAt(U)'
    BY <1>2, <1>3, <2>1, PlacesStay
  <2> QED
    BY <2>3, <2>4 DEF IsAt, Field
<1>7. EntryIs(w)'
  <2>1. Entry(w)' = 16 * Cardinality(U) /\ ListOf(w)' = ListAt(U)' /\ ListAt(U)' = ListAt(U)
    BY <1>2, <1>4, PlacesStay DEF Entry, ListOf
  <2> QED
    BY <1>6, <2>1 DEF EntryIs, IsAt, Field
<1>8. \A v \in Listed' : EntryIs(v)'
  <2>1. \A v \in U : EntryIs(v)'
    BY <1>2, <1>3, <1>6, FieldsStay
  <2> QED
    BY <1>4, <1>7, <2>1
<1>9. Merged'
  BY <1>2, <1>3, PlacesStay
<1>10. cur_offset' + ListSize(prev_cnt_docs)' = ListAt(Listed)'
  <2>1. PICK V : V = Listed'
    OBVIOUS
  <2>2. ListAt(Listed)' = ListAt(V)
    BY <1>2, <2>1, ListedStays
  <2>3. /\ Cardinality(V) = Cardinality(U) + 1
        /\ Cardinality(OfWords(V)) = Cardinality(OfWords(U)) + Cardinality(OfWords({w}))
        /\ Cardinality(OfWords(U)) \in Nat /\ Cardinality(OfWords({w})) \in Nat
    <3>1. V = U \cup {w} /\ U \cap {w} = {} /\ Cardinality(V) = Cardinality(U) + 1
      BY <1>4, <2>1
    <3>2. sorted \in Seq(Pair)
      BY <1>0 DEF Types
    <3>3. /\ Cardinality(OfWords(U)) \in Nat /\ Cardinality(OfWords({w})) \in Nat
          /\ Cardinality(OfWords(U \cup {w})) = Cardinality(OfWords(U)) + Cardinality(OfWords({w}))
      BY <3>1, <3>2, OfWordsAre
    <3> QED
      BY <3>1, <3>3
  <2>4. prev_cnt_docs' = Cardinality(OfWords({w}))
    BY <1>0, <1>2, <1>3, <1>4, DictIsSorted
  <2>5. HeaderSize \in Nat
    BY <1>0, HeaderSizeIs
  <2>6. ListSize(prev_cnt_docs)' = 4 + 8 * Cardinality(OfWords({w}))
    BY <2>4 DEF ListSize
  <2> QED
    BY <1>4, <1>5, <2>2, <2>3, <2>5, <2>6 DEF ListAt
<1>11. index'.size = 16 * Cardinality(Listed)' /\ Listed' # {}
  BY <1>4, <1>6
<1>12. left' = 0 /\ read_docs' = 0
  BY <1>2, <1>3
<1> QED
  BY <1>0, <1>4, <1>8, <1>9, <1>10, <1>11, <1>12 DEF Writing
LEMMA HeaderEnded ==
  ASSUME IInv, Writing, EndOfOffsets
  PROVE  Writing'
<1>0. Types /\ pc = "offsets" /\ it = {} /\ pc' = "lists"
  BY DEF IInv, EndOfOffsets
<1>1. /\ word_dict_' = word_dict_ /\ sorted' = sorted /\ input' = input /\ left' = left /\ read_docs' = read_docs
      /\ it' = DOMAIN word_dict_
      /\ index' = write(write(index, Field(8, 0)), Field(8, 0))
  BY DEF EndOfOffsets, reader, merger
<1>2. PICK n, D : n = 16 * Cardinality(DOMAIN word_dict_) /\ D = DOMAIN word_dict_
  OBVIOUS
<1>3. Listed = D /\ Listed' = {}
  BY <1>0, <1>1, <1>2 DEF Listed
<1>4. /\ Merged /\ left = 0 /\ read_docs = 0 /\ index.size = n
      /\ \A v \in D : EntryIs(v)
  BY <1>0, <1>2, <1>3 DEF Writing
<1>5. /\ n \in Nat /\ index'.size = n + 2 * 8
      /\ IsAt(n, Field(8, 0))' /\ IsAt(n + 8, Field(8, 0))'
      /\ \A b, k, z : k > 0 /\ IsAt(b, Field(k, z)) => IsAt(b, Field(k, z))'
  <2>1. IndexType(index) /\ n = index.size /\ 8 \in Nat \ {0}
    BY <1>0, <1>4 DEF Types
  <2>2. index' = write(write(index, Field(8, 0)), Field(8, 0))
    BY <1>1
  <2> QED
    BY <2>1, <2>2, TwoWritten, Zenon
<1>6. \A v \in DOMAIN word_dict_' : EntryIs(v)'
  BY <1>1, <1>2, <1>4, <1>5, FieldsStay
<1>7. EndIs'
  <2>1. \A b \in {0, 8} : IsAt(n + b, Field(8, 0))'
    BY <1>5
  <2> QED
    BY <1>1, <1>2, <2>1 DEF EndIs, IsAt, Field
<1>8. Merged'
  BY <1>1, <1>4, PlacesStay
<1>9. index'.size = HeaderSize' + 4 * Cardinality(Listed)' + 8 * read_docs'
  <2>1. Cardinality(Listed)' = 0
    BY <1>3, FS_EmptySet
  <2>2. HeaderSize' = HeaderSize /\ HeaderSize = n + 16
    BY <1>0, <1>1, <1>2, HeaderSizeIs, PlacesStay
  <2> QED
    BY <1>1, <1>4, <1>5, <2>1, <2>2
<1>10. /\ left' = 0 /\ read_docs' = 0 /\ OfWords(Listed)' = 1 .. read_docs' + left'
       /\ \A i \in 1 .. read_docs' : FALSE
  <2>1. OfWords(Listed)' = {}
    BY <1>3 DEF OfWords
  <2> QED
    BY <1>1, <1>4, <2>1
<1> QED
  BY <1>0, <1>3, <1>6, <1>7, <1>8, <1>9, <1>10 DEF Writing

LEMMA CountWritten ==
  ASSUME IInv, Reading, Writing, WriteCount
  PROVE  Writing'
<1>0. Types /\ Merging /\ pc = "lists" /\ it # {} /\ left = 0 /\ pc' = "lists"
  BY DEF IInv, WriteCount
<1>1. PICK w, U : w = Smallest(it) /\ U = Listed
  OBVIOUS
<1>2. /\ word_dict_' = word_dict_ /\ sorted' = sorted /\ input' = input /\ read_docs' = read_docs
      /\ it' = it \ {w} /\ left' = word_dict_[w]
      /\ index' = write(index, Field(4, CountField(word_dict_[w])))
  BY <1>1 DEF WriteCount, reader, merger
<1>3. /\ Merged /\ \A v \in U, x \in it : v < x
      /\ index.size = HeaderSize + 4 * Cardinality(U) + 8 * read_docs
      /\ \A v \in DOMAIN word_dict_ : EntryIs(v)
      /\ EndIs
      /\ \A v \in U : CountIs(v)
      /\ \A i \in 1 .. read_docs : DocIs(i)
      /\ OfWords(U) = 1 .. read_docs + 0
  BY <1>0, <1>1 DEF Writing
<1>4. /\ w \in it /\ w \in DOMAIN word_dict_ /\ w \in Nat /\ w \notin U
      /\ Lower(w) = U /\ Listed' = U \cup {w}
      /\ \A v \in Listed', u \in it' : v < u
      /\ \A v \in Listed' : v <= w
      /\ Cardinality(U) \in Nat /\ Cardinality(Listed') = Cardinality(U) + 1
  BY <1>0, <1>1, <1>2, <1>3, NextWord
<1>5. PICK V : V = Listed'
  OBVIOUS
<1>6. read_docs \in Nat /\ sorted \in Seq(Pair) /\ Len(sorted) \in Nat
  BY <1>0, LenProperties DEF Types
<1>7. Cardinality(OfWords(U)) = read_docs
  <2>1. OfWords(U) = 1 .. read_docs
    BY <1>3, <1>6
  <2>2. PICK n \in Nat : n = read_docs
    BY <1>6
  <2>3. Cardinality(1 .. n) = n
    BY FS_Interval
  <2> QED
    BY <2>1, <2>2, <2>3
<1>8. ListOf(w) = index.size
  BY <1>3, <1>4, <1>7 DEF ListOf, ListAt
<1>9. /\ CountIs(w)' /\ index'.size = index.size + 4
      /\ \A b, k, z : k > 0 /\ IsAt(b, Field(k, z)) => IsAt(b, Field(k, z))'
  <2>1. PICK l, s : l = CountField(word_dict_[w]) /\ s = index.size
    OBVIOUS
  <2>2. /\ s \in Nat /\ index'.size = s + 4 /\ IsAt(s, Field(4, l))'
        /\ \A b, k, z : k > 0 /\ IsAt(b, Field(k, z)) => IsAt(b, Field(k, z))'
    BY <1>0, <1>2, <2>1, OneWritten DEF Types
  <2>3. ListOf(w)' = s /\ CountField(word_dict_'[w]) = l
    BY <1>2, <1>8, <2>1, PlacesStay
  <2>4. CountIs(w)'
    BY <2>2, <2>3 DEF CountIs, IsAt, Field, CountField
  <2> QED
    BY <2>1, <2>2, <2>4
<1>10. /\ \A v \in DOMAIN word_dict_' : EntryIs(v)'
       /\ EndIs'
       /\ \A v \in Listed' : CountIs(v)'
       /\ \A i \in 1 .. read_docs' : DocIs(i)'
  <2>1. EndIs' /\ \A i \in 1 .. read_docs' : DocIs(i)'
    BY <1>2, <1>3, <1>9, FieldsStay
  <2>2. \A v \in DOMAIN word_dict_' : EntryIs(v)'
    BY <1>2, <1>3, <1>9, FieldsStay
  <2>3. \A v \in U : CountIs(v)'
    BY <1>2, <1>3, <1>9, FieldsStay
  <2> QED
    BY <1>4, <1>9, <2>1, <2>2, <2>3
<1>11. Merged'
  BY <1>2, <1>3, PlacesStay
<1>12. index'.size = HeaderSize' + 4 * Cardinality(Listed)' + 8 * read_docs'
  <2>1. HeaderSize' = HeaderSize /\ HeaderSize \in Nat
    BY <1>0, <1>2, HeaderSizeIs, PlacesStay
  <2> QED
    BY <1>2, <1>3, <1>4, <1>6, <1>9, <2>1
<1>13. left' = Cardinality(OfWords({w})) /\ Cardinality(OfWords({w})) \in Nat
  <2>1. Cardinality(OfWords({w})) \in Nat
    BY <1>6, OfWordsAre
  <2> QED
    BY <1>0, <1>2, <1>3, <1>4, <2>1, DictIsSorted
<1>14. OfWords(V) = 1 .. read_docs + left'
  <2>1. ASSUME NEW v \in V, NEW u \in DOMAIN word_dict_, u <= v
        PROVE  u \in V
    <3>1. v \in DOMAIN word_dict_ /\ DOMAIN word_dict_ \subseteq Nat
      BY <1>0, <1>2, <1>5 DEF Types, Listed
    <3>2. u \notin it'
      BY <1>4, <1>5, <2>1, <3>1
    <3> QED
      BY <1>2, <1>5, <3>2 DEF Listed
  <2>2. \A i \in 1 .. Len(sorted) : sorted[i][1] \in DOMAIN word_dict_
    BY <1>0, <1>3, DictIsSorted
  <2>3. OfWords(V) = 1 .. Cardinality(OfWords(V))
    BY <1>0, <2>1, <2>2, FirstWords
  <2>4. Cardinality(OfWords(V)) = Cardinality(OfWords(U)) + Cardinality(OfWords({w}))
    <3>1. V = U \cup {w} /\ U \cap {w} = {}
      BY <1>4, <1>5
    <3> QED
      BY <1>6, <3>1, OfWordsAre
  <2> QED
    BY <1>7, <1>13, <2>3, <2>4
<1>15. OfWords(Listed)' = 1 .. read_docs' + left'
  <2>1. OfWords(Listed)' = OfWords(V)
    BY <1>2, <1>5, ListedStays
  <2> QED
    BY <1>2, <1>14, <2>1
<1>16. ASSUME NEW i \in read_docs' + 1 .. read_docs' + left', NEW v \in Listed'
       PROVE  v <= sorted'[i][1]
  <2>1. i \in OfWords(V) /\ i \notin OfWords(U)
    BY <1>2, <1>3, <1>6, <1>13, <1>14
  <2>2. sorted[i][1] = w
    BY <1>4, <1>5, <2>1 DEF OfWords
  <2> QED
    BY <1>2, <1>4, <2>2
<1> QED
  BY <1>0, <1>4, <1>10, <1>11, <1>12, <1>15, <1>16 DEF Writing
LEMMA DocumentWritten ==
  ASSUME IInv, Reading, Writing, WriteDocument
  PROVE  Writing'
<1>0. Types /\ Merging /\ pc = "lists" /\ left > 0 /\ pc' = "lists"
  BY DEF IInv, WriteDocument
<1>1. PICK i, U, l : i = read_docs + 1 /\ U = Listed /\ l = left
  OBVIOUS
<1>2. read_docs \in Nat /\ l \in Nat \ {0} /\ sorted \in Seq(Pair) /\ Len(sorted) \in Nat /\ i \in Nat
  BY <1>0, <1>1, LenProperties DEF Types
<1>3. /\ word_dict_' = word_dict_ /\ sorted' = sorted /\ input' = input /\ it' = it /\ left' = l - 1
      /\ index' = write(index, Field(8, cur_d'))
  BY <1>1 DEF WriteDocument, reader, merger
<1>4. /\ Merged /\ \A v \in U, x \in it : v < x
      /\ index.size = HeaderSize + 4 * Cardinality(U) + 8 * read_docs
      /\ \A v \in DOMAIN word_dict_ : EntryIs(v)
      /\ EndIs
      /\ \A v \in U : CountIs(v)
      /\ \A j \in 1 .. read_docs : DocIs(j)
      /\ OfWords(U) = 1 .. read_docs + l
      /\ \A j \in read_docs + 1 .. read_docs + l, v \in U : v <= sorted[j][1]
  BY <1>0, <1>1 DEF Writing
<1>5. Listed' = U /\ U = DOMAIN word_dict_ \ it /\ it \subseteq DOMAIN word_dict_ /\ DOMAIN word_dict_ \subseteq Nat
  BY <1>0, <1>1, <1>3 DEF Types, Listed
<1>6. i \in OfWords(U) /\ i \in read_docs + 1 .. read_docs + l
  BY <1>1, <1>2, <1>4
<1>7. i \in 1 .. Len(sorted) /\ sorted[i][1] \in U
  BY <1>6 DEF OfWords
<1>8. cur_d' = sorted[i][2] /\ read_docs' = i
  <2>1. read_docs < Len(sorted)
    BY <1>1, <1>2, <1>7
  <2> QED
    BY <1>1, <2>1 DEF WriteDocument
<1>9. PICK w : w = sorted[i][1]
  OBVIOUS
<1>10. Cardinality(U) = Cardinality(Lower(w)) + 1
  <2>1. U = Lower(w) \cup {w}
    <3>1. ASSUME NEW v \in U PROVE v \in Lower(w) \cup {w}
      <4>1. v <= w /\ v \in DOMAIN word_dict_ /\ v \in Nat /\ w \in Nat
        BY <1>4, <1>5, <1>6, <1>7, <1>9
      <4> QED
        BY <4>1 DEF Lower
    <3>2. ASSUME NEW v \in Lower(w) PROVE v \in U
      <4>1. v \in DOMAIN word_dict_ /\ v < w /\ v \in Nat /\ w \in Nat
        BY <1>5, <1>7, <1>9 DEF Lower
      <4>2. v \notin it
        <5> SUFFICES ASSUME v \in it PROVE FALSE
          OBVIOUS
        <5>1. w < v
          BY <1>4, <1>7, <1>9
        <5> QED
          BY <4>1, <5>1
      <4> QED
        BY <1>5, <4>1, <4>2
    <3> QED
      BY <1>7, <1>9, <3>1, <3>2
  <2>2. IsFiniteSet(Lower(w)) /\ w \notin Lower(w)
    <3>1. IsFiniteSet(DOMAIN word_dict_) /\ Lower(w) \subseteq DOMAIN word_dict_
      BY <1>0 DEF Types, Lower
    <3>2. w \notin Lower(w)
      BY <1>5, <1>7, <1>9 DEF Lower
    <3> QED
      BY <3>1, <3>2, FS_Subset
  <2> QED
    BY <2>1, <2>2, FS_AddElement
<1>11. DocAt(i) = index.size
  <2>1. HeaderSize \in Nat
    BY <1>0, HeaderSizeIs
  <2>2. i - 1 = read_docs
    BY <1>1, <1>2
  <2> QED
    BY <1>4, <1>9, <1>10, <2>2 DEF DocAt
<1>12. /\ DocIs(i)' /\ index'.size = index.size + 8
       /\ \A b, k, z : k > 0 /\ IsAt(b, Field(k, z)) => IsAt(b, Field(k, z))'
  <2>1. PICK d, s : d = cur_d' /\ s = index.size
    OBVIOUS
  <2>2. IndexType(index) /\ index' = write(index, Field(8, d)) /\ 8 \in Nat
    BY <1>0, <1>3, <2>1 DEF Types
  <2>3. /\ s \in Nat /\ index'.size = s + 8 /\ IsAt(s, Field(8, d))'
        /\ \A b, k, z : k > 0 /\ IsAt(b, Field(k, z)) => IsAt(b, Field(k, z))'
    BY <2>1, <2>2, OneWritten, Zenon
  <2>4. DocAt(i)' = s /\ sorted'[i][2] = d
    BY <1>3, <1>8, <1>11, <2>1, PlacesStay
  <2>5. DocIs(i)'
    BY <2>3, <2>4 DEF DocIs, IsAt, Field
  <2> QED
    BY <2>1, <2>3, <2>5
<1>13. /\ \A v \in DOMAIN word_dict_' : EntryIs(v)'
       /\ EndIs'
       /\ \A v \in Listed' : CountIs(v)'
  <2>1. EndIs' /\ \A v \in DOMAIN word_dict_ : EntryIs(v)'
    BY <1>3, <1>4, <1>12, FieldsStay
  <2>2. \A v \in U : CountIs(v)'
    BY <1>3, <1>4, <1>12, FieldsStay
  <2> QED
    BY <1>3, <1>5, <2>1, <2>2
<1>14. \A j \in 1 .. read_docs' : DocIs(j)'
  <2>1. \A j \in 1 .. read_docs : DocIs(j)'
    BY <1>3, <1>4, <1>12, FieldsStay
  <2>2. \A j \in 1 .. read_docs' : j = i \/ j \in 1 .. read_docs
    BY <1>1, <1>2, <1>8
  <2> QED
    BY <1>12, <2>1, <2>2
<1>15. Merged'
  BY <1>3, <1>4, PlacesStay
<1>16. index'.size = HeaderSize' + 4 * Cardinality(Listed)' + 8 * read_docs'
  <2>1. HeaderSize' = HeaderSize /\ HeaderSize \in Nat
    BY <1>0, <1>3, HeaderSizeIs, PlacesStay
  <2>2. Cardinality(U) \in Nat
    <3>1. IsFiniteSet(U)
      BY <1>0, <1>5, FS_Subset DEF Types
    <3> QED
      BY <3>1, FS_CardinalityType
  <2>3. Cardinality(Listed)' = Cardinality(U)
    BY <1>5
  <2> QED
    BY <1>1, <1>2, <1>4, <1>8, <1>12, <2>1, <2>2, <2>3
<1>17. OfWords(Listed)' = 1 .. read_docs' + left'
  <2>1. OfWords(Listed)' = OfWords(U)
    BY <1>3, <1>5, ListedStays
  <2>2. read_docs' + left' = read_docs + l
    BY <1>1, <1>2, <1>3, <1>8
  <2> QED
    BY <1>4, <2>1, <2>2
<1>18. ASSUME NEW j \in read_docs' + 1 .. read_docs' + left', NEW v \in Listed'
       PROVE  v <= sorted'[j][1]
  <2>1. j \in read_docs + 1 .. read_docs + l
    BY <1>1, <1>2, <1>3, <1>8
  <2> QED
    BY <1>3, <1>4, <1>5, <2>1
<1>19. \A v \in Listed', x \in it' : v < x
  BY <1>3, <1>4, <1>5
<1> QED
  BY <1>0, <1>13, <1>14, <1>15, <1>16, <1>17, <1>18, <1>19 DEF Writing
LEMMA WritingNext == IInv /\ Reading /\ Indexable /\ Kept /\ Writing /\ Next => Writing'
<1> SUFFICES ASSUME IInv, Reading, Indexable, Kept, Writing, Next PROVE Writing'
  OBVIOUS
<1>1. CASE ReadWord \/ NextDocument \/ EndOfInput \/ ReadPair \/ FlushRest \/ InitializeHeap
  <2>1. /\ pc \in {"read", "partlySort", "initialize"} /\ pc' \in {"read", "partlySort", "initialize", "merge"}
        /\ index' = index /\ cur_offset' = cur_offset /\ left' = left /\ read_docs' = read_docs
    BY <1>1 DEF ReadWord, NextDocument, EndOfInput, ReadPair, FlushRest, InitializeHeap, writer
  <2> QED
    BY <2>1 DEF Writing
<1>2. CASE MergeStep
  <2>1. /\ pc = "merge" /\ word_dict_' = word_dict_ /\ it' = DOMAIN word_dict_
        /\ index' = index /\ cur_offset' = cur_offset /\ left' = left /\ read_docs' = read_docs
    BY <1>2 DEF MergeStep, reader
  <2>2. index.size = 0 /\ cur_offset = 0 /\ left = 0 /\ read_docs = 0
    BY <2>1 DEF Writing
  <2>3. Listed' = {}
    BY <2>1 DEF Listed
  <2>4. Cardinality(Listed)' = 0
    BY <2>3, FS_EmptySet
  <2>5. CASE pc' = "merge"
    BY <2>1, <2>2, <2>5 DEF Writing
  <2>6. CASE pc' # "merge"
    <3>1. Merged' /\ pc' = "offsets"
      BY <1>2, <2>6, MergeEnds DEF Indexable
    <3> QED
      BY <2>1, <2>2, <2>3, <2>4, <3>1 DEF Writing
  <2> QED
    BY <2>5, <2>6
<1>3. CASE EndOfLists
  <2>1. /\ pc = "lists" /\ pc' = "done" /\ left = 0 /\ it = {}
        /\ word_dict_' = word_dict_ /\ sorted' = sorted /\ input' = input /\ index' = index
        /\ it' = it /\ left' = left /\ read_docs' = read_docs
    BY <1>3 DEF EndOfLists, reader, merger, writer

  <2>2. /\ \A w : EntryIs(w) => EntryIs(w)'
        /\ \A w : CountIs(w) => CountIs(w)'
        /\ \A i : DocIs(i) => DocIs(i)'
        /\ EndIs => EndIs'
    <3>1. \A b, k, y : k > 0 /\ IsAt(b, Field(k, y)) => IsAt(b, Field(k, y))'
      BY <2>1 DEF IsAt, Field
    <3> QED
      BY <2>1, <3>1, FieldsStay
  <2>4. Merged' = Merged /\ HeaderSize' = HeaderSize
    BY <2>1, PlacesStay
  <2>5. Listed' = Listed
    BY <2>1 DEF Listed
  <2>6. OfWords(Listed)' = OfWords(Listed) /\ Cardinality(Listed)' = Cardinality(Listed)
    BY <2>1, <2>5 DEF OfWords
  <2> QED
    BY <2>1, <2>2, <2>4, <2>5, <2>6 DEF Writing
<1> QED
  BY <1>1, <1>2, <1>3, OffsetWritten, HeaderEnded, CountWritten, DocumentWritten DEF Next

LEMMA WritingStays ==
  ASSUME Writing, UNCHANGED vars
  PROVE  Writing'
<1>1. UNCHANGED <<input, pc, word_dict_, sorted, writer>>
  BY DEF vars, reader, merger
<1>2. /\ word_dict_' = word_dict_ /\ sorted' = sorted /\ input' = input /\ index' = index /\ pc' = pc
      /\ it' = it /\ left' = left /\ read_docs' = read_docs /\ cur_offset' = cur_offset
      /\ prev_cnt_docs' = prev_cnt_docs
  BY <1>1 DEF writer
<1>3. /\ \A w : EntryIs(w)' = EntryIs(w) /\ CountIs(w)' = CountIs(w)
      /\ \A i : DocIs(i)' = DocIs(i)
      /\ EndIs' = EndIs
  BY <1>2 DEF EntryIs, CountIs, DocIs, EndIs, IsAt, Entry, ListOf, ListAt, DocAt, Lower, OfWords, HeaderSize,
              Field, CountField
<1>4. Merged' = Merged /\ HeaderSize' = HeaderSize
  BY <1>2, PlacesStay
<1>5. Listed' = Listed /\ Cardinality(Listed)' = Cardinality(Listed)
  BY <1>2 DEF Listed
<1>6. OfWords(Listed)' = OfWords(Listed) /\ ListAt(Listed)' = ListAt(Listed)
  BY <1>2 DEF OfWords, ListAt, HeaderSize, Listed
<1>7. ListSize(prev_cnt_docs)' = ListSize(prev_cnt_docs)
  BY <1>2 DEF ListSize
<1> QED
  BY <1>2, <1>3, <1>4, <1>5, <1>6, <1>7 DEF Writing
(* A word's occurrences are the places where it stands. *)
LEMMA OccurrencesAre ==
  ASSUME Types, Before = Places, Reading
  PROVE  /\ \A w : Occurrences(w) = {q \in Places : PairAt(q)[1] = w}
         /\ InputWords = DOMAIN word_dict_
<1>p. /\ DOMAIN input = 1 .. Len(input)
      /\ \A q \in Places : /\ q = <<q[1], q[2]>> /\ q[1] \in DOMAIN input /\ q[2] \in DOMAIN input[q[1]].words
                           /\ PairAt(q)[1] = input[q[1]].words[q[2]]
  BY PlacesAre DEF Places
<1>q. \A d \in DOMAIN input : \A k \in DOMAIN input[d].words :
        <<d, k>> \in Places /\ PairAt(<<d, k>>)[1] = input[d].words[k]
  <2> SUFFICES ASSUME NEW d \in DOMAIN input, NEW k \in DOMAIN input[d].words
               PROVE  <<d, k>> \in Places /\ PairAt(<<d, k>>)[1] = input[d].words[k]
    OBVIOUS
  <2>1. Len(input) \in Nat /\ d \in 1 .. Len(input)
    BY <1>p, PlacesAre
  <2>2. DOMAIN input[d].words = 1 .. Len(input[d].words) /\ Len(input[d].words) \in Nat
    BY <2>1, InputTypes DEF Types
  <2> QED
    BY <2>1, <2>2 DEF Places, Pair, PairAt
<1>1. ASSUME NEW w
      PROVE  Occurrences(w) = {q \in Places : PairAt(q)[1] = w}
  <2>1. ASSUME NEW q \in Occurrences(w) PROVE q \in Places /\ PairAt(q)[1] = w
    <3>1. \E d \in DOMAIN input : \E k \in DOMAIN input[d].words : q = <<d, k>> /\ input[d].words[k] = w
      BY DEF Occurrences
    <3> QED
      BY <1>q, <3>1
  <2>2. ASSUME NEW q \in Places, PairAt(q)[1] = w PROVE q \in Occurrences(w)
    <3>1. \E d \in DOMAIN input : \E k \in DOMAIN input[d].words : q = <<d, k>> /\ input[d].words[k] = w
      BY <1>p, <2>2
    <3> QED
      BY <3>1 DEF Occurrences
  <2> QED
    BY <2>1, <2>2
<1>2. DOMAIN word_dict_ = {PairAt(q)[1] : q \in Places}
  BY DEF Reading
<1>3. ASSUME NEW w \in InputWords PROVE w \in DOMAIN word_dict_
  <2>1. PICK d \in DOMAIN input : w \in ToSet(input[d].words)
    BY DEF InputWords
  <2>2. PICK k \in DOMAIN input[d].words : w = input[d].words[k]
    BY <2>1 DEF ToSet
  <2> QED
    BY <1>q, <1>2, <2>2
<1>4. ASSUME NEW w \in DOMAIN word_dict_ PROVE w \in InputWords
  <2>1. PICK q \in Places : w = PairAt(q)[1]
    BY <1>2
  <2>2. w = input[q[1]].words[q[2]] /\ q[1] \in DOMAIN input /\ q[2] \in DOMAIN input[q[1]].words
    BY <1>p, <2>1
  <2>3. w \in ToSet(input[q[1]].words)
    BY <2>2 DEF ToSet
  <2> QED
    BY <2>2, <2>3 DEF InputWords
<1> QED
  BY <1>1, <1>3, <1>4

PlacesOf(w) == {q \in Places : PairAt(q)[1] = w}

Earlier(w, o) == {q \in PlacesOf(w) : PairLess(q, o)}

(* The pair of a place is behind those of the lesser words, and of the     *)
(* places of its word that are before it.                                  *)
LEMMA PlaceInLists ==
  ASSUME Types, Merging, Merged, NoPairTwice, DocumentsAscend,
         DOMAIN word_dict_ = {PairAt(q)[1] : q \in Places},
         NEW w, NEW o \in PlacesOf(w)
  PROVE  \E i \in 1 .. Len(sorted) :
           /\ sorted[i] = PairAt(o)
           /\ i - 1 = Cardinality(OfWords(Lower(w))) + Cardinality(Earlier(w, o))
           /\ Cardinality(OfWords(Lower(w))) \in Nat /\ Cardinality(Earlier(w, o)) \in Nat
<1>p. PICK docs, before : /\ docs = PlacesOf(w) /\ docs = {q \in Places : PairAt(q)[1] = w} /\ o \in docs
                          /\ before = Earlier(w, o) /\ before = {q \in docs : PairLess(q, o)}
  BY DEF PlacesOf, Earlier
<1>t. sorted \in Seq(Pair) /\ Len(sorted) \in Nat
  BY LenProperties DEF Types
<1>1. PICK f : Numbering(f, Len(sorted), Places) /\ \A j \in 1 .. Len(sorted) : sorted[j] = PairAt(f[j])
  BY DEF Merged
<1>2. /\ \A j \in 1 .. Len(sorted) : f[j] \in Places
      /\ \A j, k \in 1 .. Len(sorted) : f[j] = f[k] => j = k
      /\ \A q \in Places : \E j \in 1 .. Len(sorted) : f[j] = q
  BY <1>1 DEF Numbering
<1>3. PICK i \in 1 .. Len(sorted) : f[i] = o
  BY <1>p, <1>2
<1>4. sorted[i] = PairAt(o) /\ o \in Places /\ PairAt(o)[1] = w
  BY <1>p, <1>1, <1>3
<1>5. ASSUME NEW j \in 1 .. Len(sorted)
      PROVE  j < i <=> PairLess(sorted[j], sorted[i])
  <2>1. /\ j < i => ~PairLess(sorted[i], sorted[j])
        /\ i < j => ~PairLess(sorted[j], sorted[i])
    BY DEF Merging
  <2>2. sorted[j] = sorted[i] => j = i
    BY <1>1, <1>2 DEF NoPairTwice
  <2>3. sorted[i] \in Pair /\ sorted[j] \in Pair
    BY <1>t, ElementOfSeq
  <2>4. /\ ~PairLess(sorted[i], sorted[i])
        /\ PairLess(sorted[i], sorted[j]) => ~PairLess(sorted[j], sorted[i])
        /\ ~PairLess(sorted[i], sorted[j]) /\ ~PairLess(sorted[j], sorted[i]) => sorted[i] = sorted[j]
    BY <2>3, PairOrder
  <2> QED
    BY <1>t, <2>1, <2>2, <2>4
<1>6. ASSUME NEW q \in docs
      PROVE  PairLess(q, o) <=> PairAt(q)[2] < PairAt(o)[2]
  <2>1. /\ q \in Places /\ PairAt(q)[1] = w
        /\ q = <<q[1], q[2]>> /\ q[1] \in 1 .. Len(input) /\ q[2] \in Nat /\ PairAt(q) \in Pair
        /\ o = <<o[1], o[2]>> /\ o[1] \in 1 .. Len(input) /\ o[2] \in Nat /\ PairAt(o) \in Pair
        /\ PairAt(q)[2] = input[q[1]].docid /\ PairAt(o)[2] = input[o[1]].docid
        /\ PairAt(q)[2] \in Nat /\ PairAt(o)[2] \in Nat
    BY <1>p, <1>4, PlacesAre
  <2>2. PairAt(q)[2] = PairAt(o)[2] => q = o
    <3>1. PairAt(q)[2] = PairAt(o)[2] => PairAt(q) = PairAt(o)
      BY <1>4, <2>1 DEF PairAt
    <3> QED
      BY <1>4, <2>1, <3>1 DEF NoPairTwice
  <2>3. /\ q[1] < o[1] => PairAt(q)[2] <= PairAt(o)[2]
        /\ o[1] < q[1] => PairAt(o)[2] <= PairAt(q)[2]
        /\ q[1] = o[1] => PairAt(o)[2] = PairAt(q)[2]
    BY <2>1 DEF DocumentsAscend
  <2>4. q = o => ~PairLess(q, o)
    BY <2>1 DEF PairLess
  <2>5. PairLess(q, o) => q[1] < o[1] \/ q[1] = o[1]
    BY DEF PairLess
  <2>6. q[1] < o[1] => PairLess(q, o)
    BY DEF PairLess
  <2> QED
    BY <2>1, <2>2, <2>3, <2>4, <2>5, <2>6
<1>7. PICK J : J = {j \in 1 .. Len(sorted) : f[j] \in before}
  OBVIOUS
<1>8. /\ Cardinality(J) = Cardinality(before) /\ IsFiniteSet(J) /\ Cardinality(J) \in Nat
  <2>1. PICK n \in Nat : n = Len(sorted)
    BY <1>t
  <2>2. before \in SUBSET Places
    BY <1>p
  <2>3. Numbering(f, n, Places) /\ J = {j \in 1 .. n : f[j] \in before}
    BY <1>1, <1>7, <2>1
  <2>4. IsFiniteSet(J) /\ Cardinality(J) = Cardinality(before)
    BY <2>2, <2>3, NumberingPart
  <2> QED
    BY <2>4, FS_CardinalityType
<1>9. PICK L : L = OfWords(Lower(w))
  OBVIOUS
<1>10. IsFiniteSet(L) /\ Cardinality(L) \in Nat
  <2>1. Lower(w) \cap {} = {}
    OBVIOUS
  <2> QED
    BY <1>t, <1>9, <2>1, OfWordsAre
<1>11. ASSUME NEW j \in 1 .. Len(sorted)
       PROVE  /\ j \in L <=> sorted[j][1] < w
              /\ j \in J <=> sorted[j][1] = w /\ sorted[j][2] < sorted[i][2]
  <2>1. f[j] \in Places /\ sorted[j] = PairAt(f[j])
    BY <1>1, <1>2
  <2>2. sorted[j][1] \in DOMAIN word_dict_
    BY <2>1
  <2>3. j \in L <=> sorted[j][1] < w
    BY <1>9, <2>2 DEF OfWords, Lower
  <2>4. j \in J <=> f[j] \in docs /\ PairLess(f[j], o)
    BY <1>p, <1>7
  <2>5. f[j] \in docs <=> sorted[j][1] = w
    BY <1>p, <2>1
  <2> QED
    BY <1>4, <1>6, <2>1, <2>3, <2>4, <2>5
<1>12. L \cup J = 1 .. i - 1 /\ L \cap J = {}
  <2>1. L \subseteq 1 .. Len(sorted) /\ J \subseteq 1 .. Len(sorted)
    BY <1>7, <1>9 DEF OfWords
  <2>2. ASSUME NEW j \in 1 .. Len(sorted)
        PROVE  /\ j < i <=> j \in L \/ j \in J
               /\ ~(j \in L /\ j \in J)
    <3>1. sorted[j] \in Pair /\ sorted[i] \in Pair /\ sorted[i][1] = w
      BY <1>t, <1>4, ElementOfSeq
    <3>2. sorted[j][1] \in Nat /\ w \in Nat
      BY <3>1 DEF Pair
    <3>3. PairLess(sorted[j], sorted[i]) <=> sorted[j][1] < w \/ (sorted[j][1] = w /\ sorted[j][2] < sorted[i][2])
      BY <3>1 DEF PairLess
    <3> QED
      BY <1>5, <1>11, <3>2, <3>3
  <2>3. \A j : j \in 1 .. i - 1 <=> j \in 1 .. Len(sorted) /\ j < i
    BY <1>t
  <2> QED
    BY <2>1, <2>2, <2>3
<1>13. i - 1 = Cardinality(L) + Cardinality(J)
  <2>1. Cardinality(1 .. i - 1) = i - 1
    <3>1. PICK n \in Nat : n = i - 1
      BY <1>t
    <3>2. Cardinality(1 .. n) = n
      BY FS_Interval
    <3> QED
      BY <3>1, <3>2
  <2>2. Cardinality(L \cup J) = Cardinality(L) + Cardinality(J) - Cardinality(L \cap J)
    BY <1>8, <1>10, FS_Union
  <2>3. Cardinality(L \cap J) = 0
    BY <1>12, FS_EmptySet
  <2>4. i - 1 = Cardinality(L) + Cardinality(J) - 0
    BY <1>12, <2>1, <2>2, <2>3
  <2>5. Cardinality(L) \in Nat /\ Cardinality(J) \in Nat
    BY <1>8, <1>10
  <2> QED
    BY <2>4, <2>5
<1> QED
  BY <1>p, <1>4, <1>8, <1>9, <1>10, <1>13
LEMMA WrittenIndexIsRight ==
  ASSUME IInv, Reading, Indexable, Writing
  PROVE  IndexIsRight
<1> SUFFICES ASSUME pc = "done"
             PROVE  /\ \A w \in InputWords :
                         LET entry == 16 * Cardinality({v \in InputWords : v < w})
                             offset == index.at[entry + 8].value
                             docs == Occurrences(w)
                         IN /\ IsAt(entry, Field(8, w))
                            /\ IsAt(offset, Field(4, CountField(Cardinality(docs))))
                            /\ \A o \in docs :
                                 IsAt(offset + 4 + 8 * Cardinality({q \in docs : PairLess(q, o)}),
                                      Field(8, input[o[1]].docid))
                    /\ \A b \in {0, 8} : IsAt(16 * Cardinality(InputWords) + b, Field(8, 0))
  BY DEF IndexIsRight
<1>0. Types /\ Merging /\ NoPairTwice /\ DocumentsAscend
  BY DEF IInv, Indexable
<1>t. read_docs \in Nat /\ HeaderSize \in Nat
  BY <1>0, HeaderSizeIs DEF Types
<1>1. Listed = DOMAIN word_dict_ /\ left = 0
  BY DEF Writing, Listed
<1>2. /\ Merged /\ EndIs
      /\ \A w \in DOMAIN word_dict_ : EntryIs(w) /\ CountIs(w)
      /\ \A i \in 1 .. read_docs : DocIs(i)
      /\ OfWords(DOMAIN word_dict_) = 1 .. read_docs + 0
  BY <1>1 DEF Writing
<1>3. /\ Before = Places
      /\ \A i \in 1 .. Len(sorted) : sorted[i][1] \in DOMAIN word_dict_
      /\ \A w \in DOMAIN word_dict_ : word_dict_[w] = Cardinality({q \in Places : PairAt(q)[1] = w})
  BY <1>0, <1>2, DictIsSorted
<1>4. /\ \A w : Occurrences(w) = {q \in Places : PairAt(q)[1] = w}
      /\ InputWords = DOMAIN word_dict_
      /\ DOMAIN word_dict_ = {PairAt(q)[1] : q \in Places}
  BY <1>0, <1>3, OccurrencesAre DEF Reading
<1>5. \A i \in 1 .. Len(sorted) : DocIs(i)
  <2>1. \A i \in 1 .. Len(sorted) : i \in OfWords(DOMAIN word_dict_)
    BY <1>3 DEF OfWords
  <2> QED
    BY <1>t, <1>2, <2>1
<1>6. ASSUME NEW w \in InputWords, NEW entry, entry = 16 * Cardinality({v \in InputWords : v < w}),
             NEW offset, offset = index.at[entry + 8].value, NEW docs, docs = Occurrences(w)
      PROVE  /\ IsAt(entry, Field(8, w))
             /\ IsAt(offset, Field(4, CountField(Cardinality(docs))))
             /\ \A o \in docs :
                  IsAt(offset + 4 + 8 * Cardinality({q \in docs : PairLess(q, o)}),
                       Field(8, input[o[1]].docid))
  <2>1. w \in DOMAIN word_dict_ /\ docs = {q \in Places : PairAt(q)[1] = w}
    BY <1>4, <1>6
  <2>2. entry = Entry(w)
    BY <1>4, <1>6 DEF Entry, Lower
  <2>3. IsAt(entry, Field(8, w)) /\ IsAt(entry + 8, Field(8, ListOf(w)))
    BY <1>2, <2>1, <2>2 DEF EntryIs
  <2>4. offset = ListOf(w)
    BY <1>6, <2>3 DEF IsAt, Field
  <2>5. IsAt(offset, Field(4, CountField(Cardinality(docs))))
    BY <1>2, <1>3, <2>1, <2>4 DEF CountIs
  <2>6. ASSUME NEW o \in docs
        PROVE  IsAt(offset + 4 + 8 * Cardinality({q \in docs : PairLess(q, o)}), Field(8, input[o[1]].docid))
    <3>1. PICK before : before = {q \in docs : PairLess(q, o)} /\ before = Earlier(w, o)
      BY <2>1 DEF Earlier, PlacesOf
    <3>2. PICK i \in 1 .. Len(sorted) :
            /\ sorted[i] = PairAt(o)
            /\ i - 1 = Cardinality(OfWords(Lower(w))) + Cardinality(before)
            /\ Cardinality(OfWords(Lower(w))) \in Nat /\ Cardinality(before) \in Nat
      <4>1. o \in PlacesOf(w)
        BY <2>1 DEF PlacesOf
      <4> QED
        BY <1>0, <1>2, <1>4, <3>1, <4>1, PlaceInLists
    <3>3. sorted[i][1] = w /\ sorted[i][2] = input[o[1]].docid
      BY <2>1, <3>2 DEF PairAt
    <3>4. Cardinality(Lower(w)) \in Nat
      <4>1. IsFiniteSet(DOMAIN word_dict_) /\ Lower(w) \subseteq DOMAIN word_dict_
        BY <1>0 DEF Types, Lower
      <4> QED
        BY <4>1, FS_Subset, FS_CardinalityType
    <3>5. DocAt(i) = offset + 4 + 8 * Cardinality(before)
      <4>1. PICK size, l, m, b \in Nat : /\ size = HeaderSize /\ l = Cardinality(Lower(w))
                                         /\ m = Cardinality(OfWords(Lower(w))) /\ b = Cardinality(before)
        BY <1>t, <3>2, <3>4
      <4>2. DocAt(i) = size + 4 * (l + 1) + 8 * (m + b)
        BY <3>2, <3>3, <4>1 DEF DocAt
      <4>3. offset = size + 4 * l + 8 * m
        BY <2>4, <4>1 DEF ListOf, ListAt
      <4>4. DocAt(i) = offset + 4 + 8 * b
        BY <4>2, <4>3
      <4> QED
        BY <4>1, <4>4
    <3>6. IsAt(DocAt(i), Field(8, sorted[i][2]))
      BY <1>5 DEF DocIs
    <3> QED
      BY <3>1, <3>3, <3>5, <3>6
  <2> QED
    BY <2>3, <2>5, <2>6
<1>7. \A b \in {0, 8} : IsAt(16 * Cardinality(InputWords) + b, Field(8, 0))
  BY <1>2, <1>4 DEF EndIs
<1> QED
  BY <1>6, <1>7

(* The finished index is right: a reader finds each word of the input, the *)
(* number of its documents and those in their order, if the input has no   *)
(* pair twice, gives the documents in the order of their numbers, and has  *)
(* not the word that marks the end of the merge.                           *)
THEOREM FinishedIndexIsRight == Spec => [](Indexable => IndexIsRight)
<1>1. Init => Reading /\ Kept /\ Writing
  <2> SUFFICES ASSUME Init PROVE Reading /\ Kept /\ Writing
    OBVIOUS
  <2>1. /\ pc = "read" /\ index.size = 0 /\ cur_offset = 0 /\ left = 0 /\ read_docs = 0
    BY DEF Init
  <2> QED
    BY <2>1, ReadingInit DEF Kept, Writing
<1>2. /\ IInv /\ Reading /\ (Indexable => Kept /\ Writing) /\ [Next]_vars
      => Reading' /\ (Indexable => Kept /\ Writing)'
  <2> SUFFICES ASSUME IInv, Reading, Indexable => Kept /\ Writing, [Next]_vars
               PROVE  Reading' /\ (Indexable => Kept /\ Writing)'
    OBVIOUS
  <2>0. Types
    BY DEF IInv
  <2>1. Indexable' => Indexable
    <3>1. input' = input
      BY DEF Next, vars, ReadWord, NextDocument, EndOfInput, ReadPair, FlushRest, InitializeHeap, MergeStep,
             WriteOffset, EndOfOffsets, WriteCount, WriteDocument, EndOfLists
    <3>2. Places' = Places /\ \A q : PairAt(q)' = PairAt(q)
      BY <3>1 DEF Places, PairAt
    <3> QED
      BY <3>1, <3>2 DEF Indexable, NoPairTwice, DocumentsAscend, NoLastWord
  <2>2. CASE Next
    BY <2>0, <2>1, <2>2, ReadingNext, KeptNext, WritingNext DEF Indexable
  <2>3. CASE UNCHANGED vars
    <3>1. /\ UNCHANGED <<reader, input, pc>> /\ partly' = partly /\ heap_' = heap_ /\ sorted' = sorted /\ first' = first
          /\ next_file_positions_' = next_file_positions_ /\ file_positions_' = file_positions_
      BY <2>3 DEF vars, sorter, merger
    <3>2. Reading'
      BY <3>1, ReadingKept
    <3>3. Passed' = Passed
      BY <3>1 DEF Passed, Ahead
    <3>4. Kept => Kept'
      BY <3>1, <3>3 DEF Kept
    <3> QED
      BY <2>1, <2>3, <3>2, <3>4, WritingStays
  <2> QED
    BY <2>2, <2>3
<1>3. IInv /\ Reading /\ (Indexable => Kept /\ Writing) => (Indexable => IndexIsRight)
  BY WrittenIndexIsRight
<1> QED
  BY <1>1, <1>2, <1>3, Invariance, PTL DEF Spec
=============================================================================
