-------------------------- MODULE AllocatorProofs ---------------------------
(***************************************************************************)
(* What is proved of Allocator for every size, every set of requests and   *)
(* any number of handles, in a buffer of even size.                        *)
(*                                                                         *)
(* First the lists (what erase and insert leave), then the free list: the  *)
(* loops of allocator.cpp keep it in order, its blocks apart, and no two   *)
(* of them touching.  Then the memory: free list and table together cover  *)
(* the half in use, each byte once.  Then the counting that defrag needs,  *)
(* the inductive invariant IInv, and at the end the theorems.              *)
(***************************************************************************)
EXTENDS Allocator, SequenceTheorems, FiniteSetTheorems, TLAPS

(* What std::list::erase leaves. *)
LEMMA RemoveAtProperties ==
  ASSUME NEW S, NEW s \in Seq(S), NEW i \in 1 .. Len(s)
  PROVE  /\ RemoveAt(s, i) \in Seq(S)
         /\ Len(RemoveAt(s, i)) = Len(s) - 1
         /\ \A j \in 1 .. Len(s) - 1 :
              RemoveAt(s, i)[j] = IF j < i THEN s[j] ELSE s[j + 1]
<1>1. Len(s) \in Nat /\ \A j \in 1 .. Len(s) : s[j] \in S
  BY ElementOfSeq, LenProperties
<1> DEFINE l == SubSeq(s, 1, i - 1)
           r == SubSeq(s, i + 1, Len(s))
<1>2. /\ l \in Seq(S) /\ Len(l) = i - 1
      /\ \A j \in 1 .. i - 1 : l[j] = s[j]
  BY <1>1, SubSeqProperties, Z3
<1>3. /\ r \in Seq(S) /\ Len(r) = Len(s) - i
      /\ \A j \in 1 .. Len(s) - i : r[j] = s[i + j]
  BY <1>1, SubSeqProperties, Z3
<1>4. RemoveAt(s, i) = l \o r
  BY DEF RemoveAt
<1> HIDE DEF l, r
<1>5. /\ l \o r \in Seq(S)
      /\ Len(l \o r) = Len(l) + Len(r)
      /\ \A j \in 1 .. Len(l) + Len(r) : (l \o r)[j] = IF j <= Len(l) THEN l[j] ELSE r[j - Len(l)]
  BY <1>2, <1>3, ConcatProperties
<1> QED
  BY <1>1, <1>2, <1>3, <1>4, <1>5

(* What std::list::insert leaves. *)
LEMMA InsertAtProperties ==
  ASSUME NEW S, NEW s \in Seq(S), NEW i \in 1 .. Len(s) + 1, NEW e \in S
  PROVE  /\ InsertAt(s, i, e) \in Seq(S)
         /\ Len(InsertAt(s, i, e)) = Len(s) + 1
         /\ \A j \in 1 .. Len(s) + 1 :
              InsertAt(s, i, e)[j] = IF j < i THEN s[j] ELSE IF j = i THEN e ELSE s[j - 1]
<1>1. Len(s) \in Nat /\ \A j \in 1 .. Len(s) : s[j] \in S
  BY ElementOfSeq, LenProperties
<1> DEFINE l == SubSeq(s, 1, i - 1)
           m == <<e>>
           r == SubSeq(s, i, Len(s))
<1>2. /\ l \in Seq(S) /\ Len(l) = i - 1
      /\ \A j \in 1 .. i - 1 : l[j] = s[j]
  BY <1>1, SubSeqProperties, Z3
<1>3. /\ r \in Seq(S) /\ Len(r) = Len(s) - i + 1
      /\ \A j \in 1 .. Len(s) - i + 1 : r[j] = s[i + j - 1]
  BY <1>1, SubSeqProperties, Z3
<1>4. m \in Seq(S) /\ Len(m) = 1 /\ m[1] = e
  OBVIOUS
<1>5. InsertAt(s, i, e) = l \o m \o r
  BY DEF InsertAt
<1> HIDE DEF l, m, r
<1>6. /\ l \o m \in Seq(S)
      /\ Len(l \o m) = Len(l) + Len(m)
      /\ \A j \in 1 .. Len(l) + Len(m) : (l \o m)[j] = IF j <= Len(l) THEN l[j] ELSE m[j - Len(l)]
  BY <1>2, <1>4, ConcatProperties
<1> DEFINE n == l \o m
<1>7. InsertAt(s, i, e) = n \o r /\ n \in Seq(S) /\ Len(n) = i
  BY <1>1, <1>2, <1>4, <1>5, <1>6
<1>8. \A j \in 1 .. i : n[j] = IF j < i THEN s[j] ELSE e
  BY <1>1, <1>2, <1>4, <1>6
<1> HIDE DEF n
<1>9. /\ n \o r \in Seq(S)
      /\ Len(n \o r) = Len(n) + Len(r)
      /\ \A j \in 1 .. Len(n) + Len(r) : (n \o r)[j] = IF j <= Len(n) THEN n[j] ELSE r[j - Len(n)]
  BY <1>3, <1>7, ConcatProperties
<1> QED
  BY <1>1, <1>3, <1>7, <1>8, <1>9

(* A nonempty set of naturals has a least element.                         *)
LEMMA LeastElement ==
  ASSUME NEW T, T \subseteq Nat, T # {}
  PROVE  \E x \in T : \A y \in T : x <= y
<1> DEFINE R == {ss \in Nat \X Nat : ss[1] < ss[2]}
<1>1. IsWellFoundedOn(R, Nat)
  BY NatLessThanWellFounded, Zenon DEF OpToRel
<1>2. \A x, y \in Nat : ~ (<<y, x>> \in R) => x <= y
  OBVIOUS
<1> HIDE DEF R
<1>3. \E x \in T : \A y \in T : ~ (<<y, x>> \in R)
  BY <1>1, WFMin, Zenon
<1> QED
  BY <1>2, <1>3

-----------------------------------------------------------------------------
(* The invariant, of a free list fl and a table ptrs over lo .. hi-1. *)

Disjoint(b, c) == getEnd(b) <= c.begin \/ getEnd(c) <= b.begin
Within(b, lo, hi) == lo <= b.begin /\ getEnd(b) <= hi

(* The list is in order, and neighbours i, i+1 touch only for i in K. *)
LooseAt(fl, K) ==
  \A i, j \in 1 .. Len(fl) : i < j =>
    \/ getEnd(fl[i]) < fl[j].begin
    \/ getEnd(fl[i]) = fl[j].begin /\ j = i + 1 /\ i \in K

FreeSound(fl, lo, hi, K) ==
  /\ fl \in Seq(BlockType)
  /\ \A i \in 1 .. Len(fl) : Within(fl[i], lo, hi)
  /\ LooseAt(fl, K)

ApartFrom(b, fl) == \A i \in 1 .. Len(fl) : Disjoint(b, fl[i])
InFree(a, fl) == \E i \in 1 .. Len(fl) : a \in Cells(fl[i])

(* The fields of a block, and Block::getEnd, are naturals.                 *)
LEMMA BlockFacts ==
  ASSUME NEW b \in BlockType
  PROVE  /\ b.begin \in Nat /\ b.size \in Nat /\ getEnd(b) \in Nat
         /\ getEnd(b) = b.begin + b.size /\ b.begin <= getEnd(b)
BY ConstantsAssumption DEF BlockType, getEnd, Base

(* A block made inside the address range is a block, with the fields it    *)
(* was made of.                                                            *)
LEMMA MakeBlock ==
  ASSUME NEW b \in Base .. Base + Size, NEW s \in 0 .. Size
  PROVE  /\ Block(b, s) \in BlockType
         /\ Block(b, s).begin = b /\ Block(b, s).size = s
         /\ getEnd(Block(b, s)) = b + s
BY DEF BlockType, Block, getEnd

(* Where a block ends, whatever it is made of.                             *)
LEMMA BlockParts ==
  ASSUME NEW b, NEW s
  PROVE  Block(b, s).begin = b /\ getEnd(Block(b, s)) = b + s
BY DEF Block, getEnd

(* A chain of ends and beginnings is in order.                             *)
LEMMA Chain ==
  ASSUME NEW x \in Nat, NEW y \in Nat, NEW z \in Nat, NEW w \in Nat
  PROVE  /\ x <= y /\ y <= z /\ z < w => x < w
         /\ x < y /\ y <= z /\ z <= w => x < w
OBVIOUS

(* merge2Blocks, entry by entry. *)
LEMMA Merge2Properties ==
  ASSUME NEW fl \in Seq(BlockType), NEW i \in 1 .. Len(fl) - 1,
         fl[i].size + fl[i + 1].size <= Size
  PROVE  LET R == merge2Blocks(fl, i) IN
         /\ R \in Seq(BlockType)
         /\ Len(R) = Len(fl) - 1
         /\ \A j \in 1 .. Len(R) :
              R[j] = IF j < i THEN fl[j]
                     ELSE IF j = i THEN Block(fl[i].begin, fl[i].size + fl[i + 1].size)
                     ELSE fl[j + 1]
<1>1. Len(fl) \in Nat /\ DOMAIN fl = 1 .. Len(fl) /\ \A j \in 1 .. Len(fl) : fl[j] \in BlockType
  BY ElementOfSeq, LenProperties
<1> DEFINE e == Block(fl[i].begin, fl[i].size + fl[i + 1].size)
           g == [fl EXCEPT ![i] = e]
<1>2. e \in BlockType
  <2>1. fl[i] \in BlockType /\ fl[i + 1] \in BlockType
    BY <1>1
  <2>2. fl[i].begin \in Base .. Base + Size /\ fl[i].size + fl[i + 1].size \in 0 .. Size
    BY <2>1, ConstantsAssumption DEF BlockType
  <2> QED
    BY <2>2, MakeBlock
<1>3. merge2Blocks(fl, i) = RemoveAt(g, i + 1)
  BY <1>1 DEF merge2Blocks
<1> HIDE DEF e
<1>4. /\ g \in Seq(BlockType) /\ Len(g) = Len(fl)
      /\ \A j \in 1 .. Len(fl) : g[j] = IF j = i THEN e ELSE fl[j]
  BY <1>1, <1>2, ExceptSeq
<1> HIDE DEF g
<1>a. i + 1 \in 1 .. Len(g)
  BY <1>1, <1>4
<1>5. /\ RemoveAt(g, i + 1) \in Seq(BlockType)
      /\ Len(RemoveAt(g, i + 1)) = Len(g) - 1
      /\ \A j \in 1 .. Len(g) - 1 : RemoveAt(g, i + 1)[j] = IF j < i + 1 THEN g[j] ELSE g[j + 1]
  BY <1>4, <1>a, RemoveAtProperties
<1>6. \A j \in 1 .. Len(fl) - 1 : RemoveAt(g, i + 1)[j] = IF j < i THEN fl[j] ELSE IF j = i THEN e ELSE fl[j + 1]
  BY <1>1, <1>4, <1>5
<1> QED
  BY <1>1, <1>3, <1>4, <1>5, <1>6 DEF e

(* Joining the only pair that may touch leaves the list in order, covering *)
(* the same bytes, and still apart from the blocks it was apart from.      *)
LEMMA JoinSound ==
  ASSUME NEW fl, NEW lo \in Nat, NEW hi \in Nat, hi - lo <= Size,
         NEW i \in Int, NEW K, K \subseteq {i - 1, i},
         FreeSound(fl, lo, hi, K)
  PROVE  /\ FreeSound(Join(fl, i), lo, hi, K \ {i})
         /\ \A a \in Int : InFree(a, Join(fl, i)) <=> InFree(a, fl)
         /\ \A b \in BlockType : b.size > 0 /\ ApartFrom(b, fl) => ApartFrom(b, Join(fl, i))
<1>1. /\ fl \in Seq(BlockType) /\ Len(fl) \in Nat
      /\ \A j \in 1 .. Len(fl) : fl[j] \in BlockType
  BY ElementOfSeq, LenProperties DEF FreeSound
<1>2. \A j \in 1 .. Len(fl) :
        /\ fl[j].begin \in Nat /\ fl[j].size \in Nat /\ getEnd(fl[j]) \in Nat
        /\ getEnd(fl[j]) = fl[j].begin + fl[j].size
        /\ lo <= fl[j].begin /\ getEnd(fl[j]) <= hi
  BY <1>1, BlockFacts DEF FreeSound, Within
<1>3. CASE ~ (i \in 1 .. Len(fl) - 1 /\ getEnd(fl[i]) = fl[i + 1].begin)
  <2>1. Join(fl, i) = fl
    BY <1>3 DEF Join
  <2>2. LooseAt(fl, K \ {i})
    <3> SUFFICES ASSUME NEW j \in 1 .. Len(fl), NEW k \in 1 .. Len(fl), j < k
                 PROVE  \/ getEnd(fl[j]) < fl[k].begin
                        \/ getEnd(fl[j]) = fl[k].begin /\ k = j + 1 /\ j \in K \ {i}
      BY DEF LooseAt
    <3>1. \/ getEnd(fl[j]) < fl[k].begin
          \/ getEnd(fl[j]) = fl[k].begin /\ k = j + 1 /\ j \in K
      BY DEF FreeSound, LooseAt
    <3>2. CASE j = i /\ k = j + 1
      <4>1. i \in 1 .. Len(fl) - 1
        BY <1>1, <3>2
      <4>2. getEnd(fl[j]) # fl[k].begin
        BY <1>3, <3>2, <4>1
      <4> QED
        BY <3>1, <4>2
    <3> QED
      BY <3>1, <3>2
  <2> QED
    BY <2>1, <2>2 DEF FreeSound
<1>4. CASE i \in 1 .. Len(fl) - 1 /\ getEnd(fl[i]) = fl[i + 1].begin
  <2> DEFINE R == Join(fl, i)
  <2>0. /\ i \in 1 .. Len(fl) /\ i + 1 \in 1 .. Len(fl)
        /\ fl[i].begin \in Nat /\ fl[i].size \in Nat
        /\ fl[i + 1].begin \in Nat /\ fl[i + 1].size \in Nat
        /\ fl[i].begin + fl[i].size = fl[i + 1].begin
        /\ getEnd(fl[i]) = fl[i + 1].begin
        /\ getEnd(fl[i + 1]) = fl[i + 1].begin + fl[i + 1].size
        /\ getEnd(fl[i]) \in Nat /\ getEnd(fl[i + 1]) \in Nat
        /\ lo <= fl[i].begin /\ getEnd(fl[i]) <= hi
        /\ lo <= fl[i + 1].begin /\ getEnd(fl[i + 1]) <= hi
    <3>1. i \in 1 .. Len(fl) /\ i + 1 \in 1 .. Len(fl)
      BY <1>1, <1>4
    <3> QED
      BY <3>1, <1>2, <1>4
  <2>d. /\ fl[i].begin <= fl[i + 1].begin /\ getEnd(fl[i]) <= getEnd(fl[i + 1])
        /\ fl[i].begin + (fl[i].size + fl[i + 1].size) = getEnd(fl[i + 1])
    <3> DEFINE x == fl[i].begin
               m == fl[i].size
               n == fl[i + 1].size
               y == fl[i + 1].begin
               e == getEnd(fl[i])
               f == getEnd(fl[i + 1])
    <3>1. x \in Nat /\ m \in Nat /\ n \in Nat /\ x + m = y /\ e = y /\ f = y + n
      BY <2>0
    <3> HIDE DEF x, m, n, y, e, f
    <3>2. x <= y /\ e <= f /\ x + (m + n) = f
      BY <3>1
    <3> QED
      BY <3>2 DEF x, m, n, y, e, f
  <2>1. fl[i].size + fl[i + 1].size <= Size
    <3> DEFINE x == fl[i].begin
               m == fl[i].size
               n == fl[i + 1].size
    <3>1. x \in Nat /\ m \in Nat /\ n \in Nat /\ lo <= x /\ x + m + n <= hi
      BY <2>0
    <3> HIDE DEF x, m, n
    <3>2. m + n <= Size
      BY <3>1, ConstantsAssumption
    <3> QED
      BY <3>2 DEF m, n
  <2>2. /\ R \in Seq(BlockType)
        /\ Len(R) = Len(fl) - 1
        /\ \A j \in 1 .. Len(R) :
             R[j] = IF j < i THEN fl[j]
                    ELSE IF j = i THEN Block(fl[i].begin, fl[i].size + fl[i + 1].size)
                    ELSE fl[j + 1]
    BY <1>4, <1>1, <2>1, Merge2Properties DEF Join
  <2> HIDE DEF R
  <2>a. \A j \in 1 .. Len(R) : j < i =>
          j \in 1 .. Len(fl) /\ R[j].begin = fl[j].begin /\ getEnd(R[j]) = getEnd(fl[j])
    <3> SUFFICES ASSUME NEW j \in 1 .. Len(R), j < i
                 PROVE  j \in 1 .. Len(fl) /\ R[j] = fl[j]
      OBVIOUS
    <3>1. j \in 1 .. Len(fl)
      BY <1>1, <1>4, <2>2
    <3> QED
      BY <3>1, <2>2
  <2>b. /\ i \in 1 .. Len(R)
        /\ R[i].begin = fl[i].begin /\ getEnd(R[i]) = getEnd(fl[i + 1])
    <3>1. i \in 1 .. Len(R)
      BY <1>1, <1>4, <2>2
    <3>2. R[i] = Block(fl[i].begin, fl[i].size + fl[i + 1].size)
      BY <3>1, <2>2
    <3>3. R[i].begin = fl[i].begin /\ getEnd(R[i]) = fl[i].begin + (fl[i].size + fl[i + 1].size)
      BY <3>2, BlockParts
    <3> QED
      BY <3>1, <3>3, <2>d, Zenon
  <2>c. \A j \in 1 .. Len(R) : j > i =>
          j + 1 \in 1 .. Len(fl) /\ R[j].begin = fl[j + 1].begin /\ getEnd(R[j]) = getEnd(fl[j + 1])
    <3> SUFFICES ASSUME NEW j \in 1 .. Len(R), j > i
                 PROVE  j + 1 \in 1 .. Len(fl) /\ R[j] = fl[j + 1]
      OBVIOUS
    <3>1. ~ (j < i) /\ j # i /\ j + 1 \in 1 .. Len(fl)
      BY <1>1, <1>4, <2>2
    <3> QED
      BY <3>1, <2>2
  <2>3. \A j \in 1 .. Len(R) :
          /\ R[j].begin = (IF j <= i THEN fl[j].begin ELSE fl[j + 1].begin)
          /\ getEnd(R[j]) = (IF j < i THEN getEnd(fl[j]) ELSE getEnd(fl[j + 1]))
    BY <1>4, <2>a, <2>b, <2>c
  <2>4. ASSUME NEW j \in 1 .. Len(R)
        PROVE  /\ R[j].begin \in Nat /\ getEnd(R[j]) \in Int
               /\ Within(R[j], lo, hi)
    <3>1. \A k \in 1 .. Len(fl) : /\ fl[k].begin \in Nat /\ getEnd(fl[k]) \in Int
                                  /\ Within(fl[k], lo, hi)
      BY <1>2 DEF Within
    <3>2. CASE j < i
      BY <3>1, <3>2, <2>a DEF Within
    <3>3. CASE j = i
      BY <3>3, <2>0, <2>b DEF Within
    <3>4. CASE j > i
      BY <3>1, <3>4, <2>c DEF Within
    <3> QED
      BY <3>2, <3>3, <3>4, <1>1, <2>2
  <2>5. LooseAt(R, K \ {i})
    <3> SUFFICES ASSUME NEW j \in 1 .. Len(R), NEW k \in 1 .. Len(R), j < k
                 PROVE  \/ getEnd(R[j]) < R[k].begin
                        \/ getEnd(R[j]) = R[k].begin /\ k = j + 1 /\ j \in K \ {i}
      BY DEF LooseAt
    <3> DEFINE jj == IF j < i THEN j ELSE j + 1
               kk == IF k <= i THEN k ELSE k + 1
    <3>1. jj \in 1 .. Len(fl) /\ kk \in 1 .. Len(fl) /\ jj < kk
      BY <1>1, <1>4, <2>2
    <3>2. \/ getEnd(fl[jj]) < fl[kk].begin
          \/ getEnd(fl[jj]) = fl[kk].begin /\ kk = jj + 1 /\ jj \in K
      BY <3>1 DEF FreeSound, LooseAt
    <3>3. getEnd(R[j]) = getEnd(fl[jj]) /\ R[k].begin = fl[kk].begin
      BY <2>3
    <3>4. ASSUME kk = jj + 1, jj \in K
          PROVE  k = j + 1 /\ j \in K \ {i}
      <4>1. jj = i - 1 \/ jj = i
        BY <3>4
      <4>2. j < i
        BY <4>1, <1>4, <2>2
      <4>3. jj = j /\ j = i - 1 /\ kk = i
        BY <4>1, <4>2, <3>4
      <4>4. k = i
        BY <4>3, <1>4
      <4> QED
        BY <3>4, <4>3, <4>4
    <3> QED
      BY <3>2, <3>3, <3>4
  <2>6. ASSUME NEW a \in Int
        PROVE  InFree(a, R) <=> InFree(a, fl)
    <3> DEFINE In(b) == b.begin <= a /\ a < getEnd(b)
    <3>1. /\ InFree(a, fl) <=> \E j \in 1 .. Len(fl) : In(fl[j])
          /\ InFree(a, R) <=> \E j \in 1 .. Len(R) : In(R[j])
      <4>1. \A j \in 1 .. Len(R) : R[j].begin \in Int /\ getEnd(R[j]) \in Int
        BY <2>4
      <4>2. \A j \in 1 .. Len(fl) : a \in Cells(fl[j]) <=> In(fl[j])
        BY <1>2 DEF Cells
      <4>3. \A j \in 1 .. Len(R) : a \in Cells(R[j]) <=> In(R[j])
        BY <4>1 DEF Cells
      <4> QED
        BY <4>2, <4>3 DEF InFree
    <3>2. ASSUME NEW j \in 1 .. Len(R), In(R[j])
          PROVE  \E m \in 1 .. Len(fl) : In(fl[m])
      <4>1. CASE j < i
        BY <3>2, <4>1, <2>a
      <4>2. CASE j = i
        BY <3>2, <4>2, <2>0, <2>b
      <4>3. CASE j > i
        BY <3>2, <4>3, <2>c
      <4> QED
        BY <4>1, <4>2, <4>3, <1>1, <2>2
    <3>3. ASSUME NEW j \in 1 .. Len(fl), In(fl[j])
          PROVE  \E m \in 1 .. Len(R) : In(R[m])
      <4>1. CASE j < i
        BY <3>3, <4>1, <2>a, <2>2, <1>1, <1>4
      <4>2. CASE j = i \/ j = i + 1
        <5>1. fl[i].begin <= a /\ a < getEnd(fl[i + 1])
          <6>1. CASE j = i
            <7>1. fl[i].begin <= a /\ a < getEnd(fl[i])
              BY <3>3, <6>1, Zenon
            <7>2. getEnd(fl[i]) \in Nat /\ getEnd(fl[i + 1]) \in Nat /\ getEnd(fl[i]) <= getEnd(fl[i + 1])
              BY <2>0, <2>d, Zenon
            <7>3. a < getEnd(fl[i + 1])
              BY <7>1, <7>2
            <7> QED
              BY <7>1, <7>3, Zenon
          <6>2. CASE j = i + 1
            <7>1. fl[i + 1].begin <= a /\ a < getEnd(fl[i + 1])
              BY <3>3, <6>2, Zenon
            <7>2. fl[i].begin \in Nat /\ fl[i + 1].begin \in Nat /\ fl[i].begin <= fl[i + 1].begin
              BY <2>0, <2>d, Zenon
            <7>3. fl[i].begin <= a
              BY <7>1, <7>2
            <7> QED
              BY <7>1, <7>3, Zenon
          <6> QED
            BY <4>2, <6>1, <6>2
        <5> QED
          BY <5>1, <2>b
      <4>3. CASE j > i + 1
        <5>1. j - 1 \in 1 .. Len(R) /\ j - 1 > i /\ (j - 1) + 1 = j
          BY <4>3, <2>2, <1>1, <1>4
        <5>2. In(R[j - 1])
          BY <5>1, <3>3, <2>c
        <5> QED
          BY <5>1, <5>2
      <4> QED
        BY <4>1, <4>2, <4>3, <1>1, <1>4
    <3> HIDE DEF In
    <3> QED
      BY <3>1, <3>2, <3>3
  <2>7. ASSUME NEW b \in BlockType, b.size > 0, ApartFrom(b, fl)
        PROVE  ApartFrom(b, R)
    <3>1. b.begin \in Nat /\ b.size \in Nat /\ getEnd(b) = b.begin + b.size
      BY BlockFacts
    <3>2. \A j \in 1 .. Len(fl) : getEnd(b) <= fl[j].begin \/ getEnd(fl[j]) <= b.begin
      BY <2>7 DEF ApartFrom, Disjoint
    <3> SUFFICES ASSUME NEW j \in 1 .. Len(R)
                 PROVE  getEnd(b) <= R[j].begin \/ getEnd(R[j]) <= b.begin
      BY DEF ApartFrom, Disjoint
    <3>3. CASE j = i
      <4>1. \/ getEnd(b) <= fl[i].begin
            \/ getEnd(fl[i + 1]) <= b.begin
        BY <2>0, <2>7, <3>1, <3>2
      <4> QED
        BY <4>1, <2>b, <3>3
    <3>4. CASE j < i
      BY <2>a, <3>2, <3>4
    <3>5. CASE j > i
      BY <2>c, <3>2, <3>5
    <3> QED
      BY <3>3, <3>4, <3>5, <2>2, <1>1
  <2> QED
    BY <2>2, <2>4, <2>5, <2>6, <2>7 DEF FreeSound, R
<1> QED
  BY <1>3, <1>4

(* Where addFreeBlock inserts b: the blocks before that place end before   *)
(* b, the others start after it.                                           *)
LEMMA FindNearestSound ==
  ASSUME NEW fl, NEW lo \in Nat, NEW hi \in Nat, FreeSound(fl, lo, hi, {}),
         NEW b \in BlockType, b.size > 0, ApartFrom(b, fl)
  PROVE  LET k == findNearestFreeBlock(fl, b) IN
         /\ k \in 1 .. Len(fl) + 1
         /\ \A i \in 1 .. Len(fl) : i < k => getEnd(fl[i]) <= b.begin
         /\ \A i \in 1 .. Len(fl) : i >= k => getEnd(b) <= fl[i].begin
<1>1. /\ fl \in Seq(BlockType) /\ Len(fl) \in Nat /\ DOMAIN fl = 1 .. Len(fl)
      /\ \A j \in 1 .. Len(fl) : fl[j] \in BlockType
  BY ElementOfSeq, LenProperties DEF FreeSound
<1>2. \A j \in 1 .. Len(fl) : /\ fl[j].begin \in Nat /\ getEnd(fl[j]) \in Nat
                              /\ fl[j].begin <= getEnd(fl[j])
  BY <1>1, BlockFacts
<1>3. b.begin \in Nat /\ getEnd(b) \in Nat
  BY BlockFacts
<1>4. \A i \in 1 .. Len(fl) : getEnd(b) <= fl[i].begin \/ getEnd(fl[i]) <= b.begin
  BY DEF ApartFrom, Disjoint
<1> DEFINE P == {i \in 1 .. Len(fl) : getEnd(b) <= fl[i].begin}
           k == findNearestFreeBlock(fl, b)
<1>5. CASE P = {}
  <2>1. k = Len(fl) + 1
    BY <1>1, <1>5 DEF findNearestFreeBlock
  <2> QED
    BY <2>1, <1>1, <1>4, <1>5
<1>6. CASE P # {}
  <2> DEFINE First(i) == /\ i \in 1 .. Len(fl)
                         /\ getEnd(b) <= fl[i].begin
                         /\ \A j \in 1 .. i - 1 : fl[j].begin < getEnd(b)
  <2>1. \E i \in DOMAIN fl : First(i)
    <3>0. P \subseteq Nat
      BY <1>1
    <3>1. PICK x \in P : \A y \in P : x <= y
      <4> HIDE DEF P
      <4> QED
        BY <1>6, <3>0, LeastElement
    <3>2. \A j \in 1 .. x - 1 : fl[j].begin < getEnd(b)
      BY <3>1, <1>1, <1>2, <1>3
    <3> QED
      BY <3>1, <3>2, <1>1
  <2>2. k = CHOOSE i \in DOMAIN fl : /\ getEnd(b) <= fl[i].begin
                                     /\ \A j \in 1 .. i - 1 : fl[j].begin < getEnd(b)
    BY <1>1, <1>6 DEF findNearestFreeBlock
  <2>3. First(k)
    BY <2>1, <2>2, <1>1, Zenon
  <2> HIDE DEF k
  <2>4. ASSUME NEW i \in 1 .. Len(fl), i < k
        PROVE  getEnd(fl[i]) <= b.begin
    <3>1. i \in 1 .. k - 1
      BY <2>3, <2>4, <1>1
    <3>2. fl[i].begin < getEnd(b)
      BY <2>3, <3>1
    <3>3. ~ (getEnd(b) <= fl[i].begin)
      BY <3>2, <1>2, <1>3
    <3> QED
      BY <3>3, <1>4
  <2>5. ASSUME NEW i \in 1 .. Len(fl), i >= k
        PROVE  getEnd(b) <= fl[i].begin
    <3>1. CASE i = k
      BY <2>3, <3>1
    <3>2. CASE k < i
      <4>1. getEnd(fl[k]) < fl[i].begin
        BY <2>3, <3>2 DEF FreeSound, LooseAt
      <4>2. getEnd(b) <= fl[k].begin /\ fl[k].begin <= getEnd(fl[k])
        BY <2>3, <1>2
      <4>3. fl[k].begin \in Nat /\ getEnd(fl[k]) \in Nat /\ fl[i].begin \in Nat
        BY <2>3, <1>2
      <4> QED
        BY <4>1, <4>2, <4>3, <1>3
    <3> QED
      BY <2>3, <2>5, <3>1, <3>2, <1>1
  <2> QED
    BY <2>3, <2>4, <2>5, <1>1 DEF k
<1> QED
  BY <1>5, <1>6

(* free(p) puts the bytes of p's block, and no others, back into the list. *)
LEMMA ReleasedSound ==
  ASSUME NEW fl, NEW lo \in Nat, NEW hi \in Nat, hi - lo <= Size,
         FreeSound(fl, lo, hi, {}),
         NEW b \in BlockType, b.size > 0, Within(b, lo, hi), ApartFrom(b, fl)
  PROVE  /\ FreeSound(Released(fl, b), lo, hi, {})
         /\ \A a \in Int : InFree(a, Released(fl, b)) <=> InFree(a, fl) \/ a \in Cells(b)
         /\ \A c \in BlockType :
              c.size > 0 /\ ApartFrom(c, fl) /\ Disjoint(c, b) => ApartFrom(c, Released(fl, b))
<1>1. /\ fl \in Seq(BlockType) /\ Len(fl) \in Nat
      /\ \A j \in 1 .. Len(fl) : fl[j] \in BlockType
  BY ElementOfSeq, LenProperties DEF FreeSound
<1> DEFINE k == findNearestFreeBlock(fl, b)
           ins == InsertAt(fl, k, b)
           right == Join(ins, k)
           R == Join(right, k - 1)
<1>2. /\ k \in 1 .. Len(fl) + 1
      /\ \A i \in 1 .. Len(fl) : i < k => getEnd(fl[i]) <= b.begin
      /\ \A i \in 1 .. Len(fl) : i >= k => getEnd(b) <= fl[i].begin
  BY FindNearestSound
<1>3. Released(fl, b) = R
  <2>1. b.size # 0
    BY BlockFacts
  <2> QED
    BY <2>1 DEF Released, mergeBlocks
<1> HIDE DEF k
<1>4. /\ ins \in Seq(BlockType)
      /\ Len(ins) = Len(fl) + 1
      /\ \A j \in 1 .. Len(fl) + 1 :
           ins[j] = IF j < k THEN fl[j] ELSE IF j = k THEN b ELSE fl[j - 1]
  <2>1. fl \in Seq(BlockType) /\ k \in 1 .. Len(fl) + 1 /\ b \in BlockType
    BY <1>1, <1>2
  <2>2. /\ InsertAt(fl, k, b) \in Seq(BlockType)
        /\ Len(InsertAt(fl, k, b)) = Len(fl) + 1
        /\ \A j \in 1 .. Len(fl) + 1 :
             InsertAt(fl, k, b)[j] = IF j < k THEN fl[j] ELSE IF j = k THEN b ELSE fl[j - 1]
    <3> HIDE DEF ins
    <3>1. \A t \in Seq(BlockType) : \A m \in 1 .. Len(t) + 1 : \A e \in BlockType :
            /\ InsertAt(t, m, e) \in Seq(BlockType)
            /\ Len(InsertAt(t, m, e)) = Len(t) + 1
            /\ \A j \in 1 .. Len(t) + 1 :
                 InsertAt(t, m, e)[j] = IF j < m THEN t[j] ELSE IF j = m THEN e ELSE t[j - 1]
      BY InsertAtProperties
    <3> QED
      BY <2>1, <3>1
  <2> QED
    BY <2>2 DEF ins
<1> HIDE DEF ins
<1>5. /\ \A j \in 1 .. Len(ins) : j < k => j \in 1 .. Len(fl) /\ ins[j] = fl[j]
      /\ k \in 1 .. Len(ins) /\ ins[k] = b
      /\ \A j \in 1 .. Len(ins) : j > k => j - 1 \in 1 .. Len(fl) /\ ins[j] = fl[j - 1]
  <2>1. k \in 1 .. Len(ins) /\ ins[k] = b
    BY <1>1, <1>2, <1>4
  <2>2. \A j \in 1 .. Len(ins) : j < k => j \in 1 .. Len(fl) /\ ins[j] = fl[j]
    BY <1>1, <1>2, <1>4
  <2>3. ASSUME NEW j \in 1 .. Len(ins), j > k
        PROVE  j - 1 \in 1 .. Len(fl) /\ ins[j] = fl[j - 1]
    <3>1. j \in 1 .. Len(fl) + 1 /\ ~ (j < k) /\ j # k /\ j - 1 \in 1 .. Len(fl)
      BY <2>3, <1>1, <1>2, <1>4
    <3> QED
      BY <3>1, <1>4
  <2> QED
    BY <2>1, <2>2, <2>3
<1>a. \A j \in 1 .. Len(ins) : ins[j] = b \/ \E i \in 1 .. Len(fl) : ins[j] = fl[i]
  <2> SUFFICES ASSUME NEW j \in 1 .. Len(ins)
               PROVE  ins[j] = b \/ \E i \in 1 .. Len(fl) : ins[j] = fl[i]
    OBVIOUS
  <2>1. j < k \/ j = k \/ j > k
    BY <1>2, <1>4, <1>1
  <2> QED
    BY <2>1, <1>5
<1>b. \A i \in 1 .. Len(fl) : \E j \in 1 .. Len(ins) : ins[j] = fl[i]
  <2> SUFFICES ASSUME NEW i \in 1 .. Len(fl)
               PROVE  \E j \in 1 .. Len(ins) : ins[j] = fl[i]
    OBVIOUS
  <2>1. CASE i < k
    <3>1. i \in 1 .. Len(fl) + 1 /\ ins[i] = fl[i]
      BY <2>1, <1>1, <1>4
    <3> QED
      BY <3>1, <1>4
  <2>2. CASE i >= k
    <3>1. i + 1 \in 1 .. Len(fl) + 1 /\ ~(i + 1 < k) /\ i + 1 # k /\ (i + 1) - 1 = i
      BY <2>2, <1>1, <1>2
    <3>2. ins[i + 1] = fl[i]
      BY <3>1, <1>4
    <3> QED
      BY <3>1, <3>2, <1>4
  <2> QED
    BY <2>1, <2>2, <1>2, <1>1
<1>6. LooseAt(ins, {k - 1, k})
  <2> SUFFICES ASSUME NEW i \in 1 .. Len(ins), NEW j \in 1 .. Len(ins), i < j
               PROVE  \/ getEnd(ins[i]) < ins[j].begin
                      \/ getEnd(ins[i]) = ins[j].begin /\ j = i + 1 /\ i \in {k - 1, k}
    BY DEF LooseAt
  <2>1. \A x, y \in 1 .. Len(fl) : x < y => getEnd(fl[x]) < fl[y].begin
    BY DEF FreeSound, LooseAt
  <2>2. \A x \in 1 .. Len(fl) : /\ fl[x].begin \in Nat /\ getEnd(fl[x]) \in Nat
                                /\ fl[x].begin <= getEnd(fl[x])
    BY <1>1, BlockFacts
  <2>3. b.begin \in Nat /\ getEnd(b) \in Nat
    BY BlockFacts
  <2>4. CASE i # k /\ j # k
    <3>1. CASE j < k
      BY <1>5, <2>1, <2>4, <3>1, <1>2
    <3>2. CASE i < k /\ k < j
      <4>1. i \in 1 .. Len(fl) /\ j - 1 \in 1 .. Len(fl) /\ i <= k - 1 /\ k <= j - 1
        BY <1>5, <3>2, <1>2
      <4>2. i < j - 1
        BY <4>1, <1>2
      <4> QED
        BY <4>1, <4>2, <1>5, <2>1, <3>2
    <3>3. CASE k < i
      <4>1. i - 1 \in 1 .. Len(fl) /\ j - 1 \in 1 .. Len(fl) /\ i - 1 < j - 1
        BY <1>5, <3>3, <1>2
      <4>2. ins[i] = fl[i - 1] /\ ins[j] = fl[j - 1]
        BY <1>5, <3>3, <1>2
      <4> QED
        BY <4>1, <4>2, <2>1
    <3> QED
      BY <2>4, <3>1, <3>2, <3>3, <1>2, <1>4, <1>1
  <2>5. CASE i = k
    <3>1. j - 1 \in 1 .. Len(fl) /\ ins[i] = b /\ ins[j] = fl[j - 1] /\ j - 1 >= k
      BY <1>5, <2>5, <1>2
    <3>2. getEnd(b) <= fl[j - 1].begin
      BY <3>1, <1>2
    <3>3. CASE j = k + 1
      BY <2>3, <2>2, <2>5, <3>1, <3>2, <3>3
    <3>4. CASE j > k + 1
      <4>1. k \in 1 .. Len(fl) /\ k < j - 1
        BY <3>1, <3>4, <1>2, <1>1
      <4>2. getEnd(b) <= fl[k].begin /\ fl[k].begin <= getEnd(fl[k]) /\ getEnd(fl[k]) < fl[j - 1].begin
        BY <4>1, <3>1, <1>2, <2>1, <2>2
      <4>a. fl[k].begin \in Nat /\ getEnd(fl[k]) \in Nat /\ fl[j - 1].begin \in Nat
        BY <4>1, <3>1, <2>2
      <4>3. getEnd(b) < fl[j - 1].begin
        BY <4>2, <4>a, <2>3, Chain, Zenon
      <4> QED
        BY <4>3, <3>1
    <3> QED
      BY <3>3, <3>4, <2>5, <1>2, <1>4, <1>1
  <2>6. CASE j = k
    <3>1. i \in 1 .. Len(fl) /\ ins[i] = fl[i] /\ ins[j] = b /\ i < k
      BY <1>5, <2>6, <1>2
    <3>2. getEnd(fl[i]) <= b.begin
      BY <3>1, <1>2
    <3>3. CASE i = k - 1
      <4>1. j = i + 1 /\ i \in {k - 1, k}
        BY <2>6, <3>3, <1>2, <3>1
      <4>2. getEnd(fl[i]) \in Nat /\ getEnd(fl[i]) <= b.begin
        BY <3>1, <3>2, <2>2
      <4>3. getEnd(fl[i]) < b.begin \/ getEnd(fl[i]) = b.begin
        BY <4>2, <2>3
      <4> QED
        BY <4>1, <4>3, <3>1, Zenon
    <3>4. CASE i < k - 1
      <4>1. k - 1 \in 1 .. Len(fl) /\ i < k - 1 /\ k - 1 < k
        BY <3>1, <3>4, <1>2, <1>1
      <4>2. getEnd(fl[i]) < fl[k - 1].begin
        BY <4>1, <3>1, <2>1
      <4>3. fl[k - 1].begin <= getEnd(fl[k - 1]) /\ getEnd(fl[k - 1]) <= b.begin
        BY <4>1, <1>2, <2>2
      <4>a. fl[k - 1].begin \in Nat /\ getEnd(fl[k - 1]) \in Nat /\ getEnd(fl[i]) \in Nat
        BY <4>1, <3>1, <2>2
      <4>4. getEnd(fl[i]) < b.begin
        BY <4>2, <4>3, <4>a, <2>3
      <4> QED
        BY <4>4, <3>1
    <3> QED
      BY <3>1, <3>3, <3>4, <1>2
  <2> QED
    BY <2>4, <2>5, <2>6
<1>7. FreeSound(ins, lo, hi, {k - 1, k})
  <2>1. \A i \in 1 .. Len(ins) : Within(ins[i], lo, hi)
    BY <1>a DEF FreeSound
  <2> QED
    BY <2>1, <1>4, <1>6 DEF FreeSound
<1>8. \A a \in Int : InFree(a, ins) <=> InFree(a, fl) \/ a \in Cells(b)
  <2> SUFFICES ASSUME NEW a \in Int
               PROVE  InFree(a, ins) <=> InFree(a, fl) \/ a \in Cells(b)
    OBVIOUS
  <2> QED
    BY <1>a, <1>b, <1>5 DEF InFree
<1>9. \A c \in BlockType : ApartFrom(c, fl) /\ Disjoint(c, b) => ApartFrom(c, ins)
  BY <1>a DEF ApartFrom
<1>10. /\ FreeSound(right, lo, hi, {k - 1, k} \ {k})
       /\ \A a \in Int : InFree(a, right) <=> InFree(a, ins)
       /\ \A c \in BlockType : c.size > 0 /\ ApartFrom(c, ins) => ApartFrom(c, right)
  <2>1. k \in Int /\ {k - 1, k} \subseteq {k - 1, k}
    BY <1>2
  <2> QED
    BY <1>7, <2>1, JoinSound
<1> HIDE DEF right
<1>11. {k - 1, k} \ {k} = {k - 1} /\ {k - 1} \ {k - 1} = {} /\ k - 1 \in Int
  BY <1>2
<1>12. /\ FreeSound(R, lo, hi, {})
       /\ \A a \in Int : InFree(a, R) <=> InFree(a, right)
       /\ \A c \in BlockType : c.size > 0 /\ ApartFrom(c, right) => ApartFrom(c, R)
  <2>1. FreeSound(right, lo, hi, {k - 1})
    BY <1>10, <1>11
  <2>2. {k - 1} \subseteq {(k - 1) - 1, k - 1}
    OBVIOUS
  <2> DEFINE kk == k - 1
  <2>3. kk \in Int /\ {kk} \subseteq {kk - 1, kk} /\ FreeSound(right, lo, hi, {kk}) /\ {kk} \ {kk} = {}
    BY <2>1, <2>2, <1>11
  <2> HIDE DEF kk
  <2>4. /\ FreeSound(Join(right, kk), lo, hi, {kk} \ {kk})
        /\ \A a \in Int : InFree(a, Join(right, kk)) <=> InFree(a, right)
        /\ \A c \in BlockType : c.size > 0 /\ ApartFrom(c, right) => ApartFrom(c, Join(right, kk))
    BY <2>3, JoinSound
  <2> QED
    BY <2>3, <2>4 DEF kk
<1> QED
  BY <1>3, <1>8, <1>9, <1>10, <1>12

(* alloc cuts a block off a free one: the list and the new block hold the  *)
(* bytes the list held.                                                    *)
LEMMA SplitSound ==
  ASSUME NEW fl, NEW lo \in Nat, NEW hi \in Nat, hi <= Base + Size,
         FreeSound(fl, lo, hi, {}),
         NEW i \in 1 .. Len(fl), NEW N \in Nat, N > 0, fl[i].size >= N
  PROVE  LET b == Block(fl[i].begin, N)
             R == splitBlock(fl, i, N) IN
         /\ FreeSound(R, lo, hi, {})
         /\ b \in BlockType /\ b.size > 0 /\ Within(b, lo, hi) /\ ApartFrom(b, R)
         /\ \A a \in Int : InFree(a, fl) <=> InFree(a, R) \/ a \in Cells(b)
         /\ \A c \in BlockType : c.size > 0 /\ ApartFrom(c, fl) => ApartFrom(c, R) /\ Disjoint(c, b)
<1> DEFINE b == Block(fl[i].begin, N)
           rest == Block(fl[i].begin + N, fl[i].size - N)
           R == splitBlock(fl, i, N)
<1>1. /\ fl \in Seq(BlockType) /\ Len(fl) \in Nat /\ DOMAIN fl = 1 .. Len(fl)
      /\ \A j \in 1 .. Len(fl) : fl[j] \in BlockType
  BY ElementOfSeq, LenProperties DEF FreeSound
<1>2. \A j \in 1 .. Len(fl) : /\ fl[j].begin \in Nat /\ getEnd(fl[j]) \in Nat
                              /\ fl[j].begin <= getEnd(fl[j])
                              /\ lo <= fl[j].begin /\ getEnd(fl[j]) <= hi
  BY <1>1, BlockFacts DEF FreeSound, Within
<1>3. \A j, k \in 1 .. Len(fl) : j < k => getEnd(fl[j]) < fl[k].begin
  BY DEF FreeSound, LooseAt
<1>4. /\ fl[i].begin \in Base .. Base + Size /\ fl[i].size \in 0 .. Size
      /\ fl[i].begin \in Nat /\ fl[i].size \in Nat
      /\ fl[i].begin + fl[i].size = getEnd(fl[i])
      /\ fl[i].begin + fl[i].size <= hi /\ lo <= fl[i].begin
  <2>1. fl[i] \in BlockType
    BY <1>1
  <2> QED
    BY <2>1, <1>2, BlockFacts DEF BlockType
<1>5. b \in BlockType /\ b.begin = fl[i].begin /\ b.size = N /\ getEnd(b) = fl[i].begin + N
  <2>1. N \in 0 .. Size
    BY <1>4, ConstantsAssumption
  <2> QED
    BY <2>1, <1>4, MakeBlock
<1> HIDE DEF b
<1>6. Within(b, lo, hi)
  BY <1>4, <1>5 DEF Within
<1>7. ASSUME NEW c \in BlockType, c.size > 0, ApartFrom(c, fl)
      PROVE  Disjoint(c, b)
  <2>1. c.begin \in Nat /\ c.size \in Nat /\ getEnd(c) = c.begin + c.size /\ getEnd(c) \in Nat
    BY BlockFacts
  <2>2. getEnd(c) <= fl[i].begin \/ fl[i].begin + fl[i].size <= c.begin
    BY <1>7, <1>4 DEF ApartFrom, Disjoint
  <2>3. getEnd(c) <= fl[i].begin \/ fl[i].begin + N <= c.begin
    BY <2>1, <2>2, <1>4
  <2> QED
    BY <2>3, <1>5 DEF Disjoint
<1>8. ASSUME NEW j \in 1 .. Len(fl), j # i
      PROVE  Disjoint(b, fl[j])
  <2>1. j < i \/ i < j
    BY <1>8
  <2>2. getEnd(fl[j]) < fl[i].begin \/ fl[i].begin + fl[i].size < fl[j].begin
    BY <2>1, <1>3, <1>4
  <2>3. getEnd(fl[j]) <= fl[i].begin \/ fl[i].begin + N <= fl[j].begin
    BY <2>2, <1>2, <1>4
  <2> QED
    BY <2>3, <1>5 DEF Disjoint
<1>9. CASE fl[i].size = N
  <2>1. R = RemoveAt(fl, i)
    BY <1>9 DEF splitBlock
  <2> HIDE DEF R
  <2>2. /\ R \in Seq(BlockType) /\ Len(R) = Len(fl) - 1
        /\ \A j \in 1 .. Len(fl) - 1 : R[j] = IF j < i THEN fl[j] ELSE fl[j + 1]
    BY <1>1, <2>1, RemoveAtProperties
  <2>3. b = fl[i]
    <3>1. fl[i] \in BlockType
      BY <1>1
    <3> QED
      BY <3>1, <1>9 DEF b, Block, BlockType
  <2>4. \A j \in 1 .. Len(R) : \E k \in 1 .. Len(fl) : R[j] = fl[k] /\ k # i /\ k = IF j < i THEN j ELSE j + 1
    BY <1>1, <2>2
  <2>5. ASSUME NEW k \in 1 .. Len(fl), k # i
        PROVE  \E j \in 1 .. Len(R) : R[j] = fl[k]
    <3>1. CASE k < i
      <4>1. k \in 1 .. Len(fl) - 1 /\ k \in 1 .. Len(R)
        BY <3>1, <1>1, <2>2
      <4> QED
        BY <3>1, <4>1, <2>2
    <3>2. CASE k > i
      <4>1. k - 1 \in 1 .. Len(fl) - 1 /\ ~ (k - 1 < i) /\ (k - 1) + 1 = k
        BY <3>2, <1>1
      <4> QED
        BY <4>1, <2>2
    <3> QED
      BY <3>1, <3>2, <2>5
  <2>6. LooseAt(R, {})
    <3> SUFFICES ASSUME NEW j \in 1 .. Len(R), NEW k \in 1 .. Len(R), j < k
                 PROVE  getEnd(R[j]) < R[k].begin
      BY DEF LooseAt
    <3> DEFINE jj == IF j < i THEN j ELSE j + 1
               kk == IF k < i THEN k ELSE k + 1
    <3>1. jj \in 1 .. Len(fl) /\ kk \in 1 .. Len(fl) /\ jj < kk /\ R[j] = fl[jj] /\ R[k] = fl[kk]
      BY <1>1, <2>2
    <3> QED
      BY <3>1, <1>3
  <2>7. FreeSound(R, lo, hi, {})
    BY <2>2, <2>4, <2>6 DEF FreeSound
  <2>8. ApartFrom(b, R)
    BY <2>4, <1>8 DEF ApartFrom
  <2>9. \A a \in Int : InFree(a, fl) <=> InFree(a, R) \/ a \in Cells(b)
    BY <2>3, <2>4, <2>5 DEF InFree
  <2>10. \A c \in BlockType : ApartFrom(c, fl) => ApartFrom(c, R)
    BY <2>4 DEF ApartFrom
  <2> QED
    BY <2>7, <2>8, <2>9, <2>10, <1>5, <1>6, <1>7 DEF b, R
<1>10. CASE fl[i].size # N
  <2>1. R = [fl EXCEPT ![i] = rest]
    BY <1>10, <1>1 DEF splitBlock
  <2>2. rest \in BlockType /\ rest.begin = fl[i].begin + N /\ getEnd(rest) = getEnd(fl[i])
    <3>1. fl[i].begin + N \in Base .. Base + Size /\ fl[i].size - N \in 0 .. Size
      <4> DEFINE x == fl[i].begin
                 n == fl[i].size
      <4>1. x \in Base .. Base + Size /\ n \in 0 .. Size /\ x + n <= hi
        BY <1>4
      <4>2. x \in Int /\ n \in Int /\ n >= N
        BY <1>4
      <4> HIDE DEF x, n
      <4>3. x + N \in Base .. Base + Size /\ n - N \in 0 .. Size
        BY <4>1, <4>2, ConstantsAssumption DEF Base
      <4> QED
        BY <4>3 DEF x, n
    <3>2. /\ rest \in BlockType /\ rest.begin = fl[i].begin + N
          /\ getEnd(rest) = (fl[i].begin + N) + (fl[i].size - N)
      BY <3>1, MakeBlock
    <3>3. (fl[i].begin + N) + (fl[i].size - N) = getEnd(fl[i])
      BY <1>4
    <3> QED
      BY <3>2, <3>3
  <2> HIDE DEF rest
  <2>3. /\ R \in Seq(BlockType) /\ Len(R) = Len(fl)
        /\ \A j \in 1 .. Len(fl) : R[j] = IF j = i THEN rest ELSE fl[j]
    <3> HIDE DEF R
    <3> QED
      BY <1>1, <2>1, <2>2, ExceptSeq
  <2> HIDE DEF R
  <2>4. /\ rest.begin \in Nat /\ getEnd(rest) \in Nat /\ rest.begin <= getEnd(rest)
        /\ fl[i].begin < rest.begin /\ rest.begin = getEnd(b)
        /\ getEnd(rest) = getEnd(fl[i])
    BY <2>2, <1>4, <1>5, BlockFacts
  <2>5. \A j \in 1 .. Len(R) : Within(R[j], lo, hi)
    <3>1. Within(rest, lo, hi)
      BY <2>4, <1>4, <1>2 DEF Within
    <3> QED
      BY <3>1, <2>3 DEF FreeSound
  <2>6. LooseAt(R, {})
    <3> SUFFICES ASSUME NEW j \in 1 .. Len(R), NEW k \in 1 .. Len(R), j < k
                 PROVE  getEnd(R[j]) < R[k].begin
      BY DEF LooseAt
    <3>1. getEnd(fl[j]) < fl[k].begin
      BY <1>3, <2>3
    <3>2. CASE j = i
      BY <3>1, <3>2, <2>3, <2>4
    <3>3. CASE k = i
      <4>1. R[j] = fl[j] /\ R[k] = rest /\ getEnd(fl[j]) < fl[i].begin /\ getEnd(fl[j]) \in Nat
        BY <3>1, <3>3, <2>3, <1>2
      <4> QED
        BY <4>1, <2>4, <1>4
    <3>4. CASE j # i /\ k # i
      BY <3>1, <3>4, <2>3
    <3> QED
      BY <3>2, <3>3, <3>4
  <2>7. FreeSound(R, lo, hi, {})
    BY <2>3, <2>5, <2>6 DEF FreeSound
  <2>8. ApartFrom(b, R)
    <3>1. Disjoint(b, rest)
      BY <2>4 DEF Disjoint
    <3> QED
      BY <3>1, <2>3, <1>8 DEF ApartFrom
  <2>9. ASSUME NEW a \in Int
        PROVE  InFree(a, fl) <=> InFree(a, R) \/ a \in Cells(b)
    <3>1. a \in Cells(fl[i]) <=> a \in Cells(rest) \/ a \in Cells(b)
      BY <2>4, <1>4, <1>5, <1>2 DEF Cells
    <3> QED
      BY <3>1, <2>3 DEF InFree
  <2>10. ASSUME NEW c \in BlockType, c.size > 0, ApartFrom(c, fl)
         PROVE  ApartFrom(c, R)
    <3>1. Disjoint(c, rest)
      <4>1. Disjoint(c, fl[i]) /\ Disjoint(c, b)
        BY <2>10, <1>7 DEF ApartFrom
      <4>2. c.begin \in Nat /\ c.size \in Nat /\ getEnd(c) = c.begin + c.size /\ getEnd(c) \in Nat
        BY BlockFacts
      <4> QED
        BY <4>1, <4>2, <2>4, <1>4 DEF Disjoint
    <3> QED
      BY <3>1, <2>3, <2>10 DEF ApartFrom
  <2> QED
    BY <2>7, <2>8, <2>9, <2>10, <1>5, <1>6, <1>7 DEF b, R
<1> QED
  BY <1>9, <1>10

-----------------------------------------------------------------------------
(* The list and the table together. *)

TableSound(ptrs, fl, lo, hi) ==
  /\ \A id \in DOMAIN ptrs : /\ ptrs[id] \in BlockType /\ ptrs[id].size > 0
                             /\ Within(ptrs[id], lo, hi)
                             /\ ApartFrom(ptrs[id], fl)
  /\ \A id, jd \in DOMAIN ptrs : id # jd => Disjoint(ptrs[id], ptrs[jd])

Covered(ptrs, fl, lo, hi) ==
  \A a \in lo .. hi - 1 : InFree(a, fl) \/ \E id \in DOMAIN ptrs : a \in Cells(ptrs[id])

MemorySound(ptrs, fl, lo, hi) ==
  /\ FreeSound(fl, lo, hi, {})
  /\ TableSound(ptrs, fl, lo, hi)
  /\ Covered(ptrs, fl, lo, hi)

(* Allocator::free keeps the memory sound: the bytes of the block that     *)
(* goes out of the table come into the free list.                          *)
LEMMA FreeKeepsSound ==
  ASSUME NEW fl, NEW ptrs, NEW lo \in Nat, NEW hi \in Nat, hi - lo <= Size,
         MemorySound(ptrs, fl, lo, hi), NEW id \in DOMAIN ptrs
  PROVE  MemorySound(Without(ptrs, id), Released(fl, ptrs[id]), lo, hi)
<1> DEFINE b == ptrs[id]
           R == Released(fl, b)
           W == Without(ptrs, id)
<1>1. /\ FreeSound(fl, lo, hi, {})
      /\ b \in BlockType /\ b.size > 0 /\ Within(b, lo, hi) /\ ApartFrom(b, fl)
  BY DEF MemorySound, TableSound
<1>2. DOMAIN W = DOMAIN ptrs \ {id} /\ \A j \in DOMAIN W : W[j] = ptrs[j]
  BY DEF Without
<1> HIDE DEF b, W
<1>3. /\ FreeSound(R, lo, hi, {})
      /\ \A a \in Int : InFree(a, R) <=> InFree(a, fl) \/ a \in Cells(b)
      /\ \A c \in BlockType : c.size > 0 /\ ApartFrom(c, fl) /\ Disjoint(c, b) => ApartFrom(c, R)
  <2> HIDE DEF R
  <2> QED
    BY <1>1, ReleasedSound DEF R
<1> HIDE DEF R
<1>4. TableSound(W, R, lo, hi)
  <2>1. ASSUME NEW j \in DOMAIN W
        PROVE  /\ W[j] \in BlockType /\ W[j].size > 0
               /\ Within(W[j], lo, hi)
               /\ ApartFrom(W[j], R)
    <3>1. j \in DOMAIN ptrs /\ j # id /\ W[j] = ptrs[j]
      BY <1>2
    <3>2. ptrs[j] \in BlockType /\ ptrs[j].size > 0 /\ Within(ptrs[j], lo, hi) /\ ApartFrom(ptrs[j], fl)
      BY <3>1 DEF MemorySound, TableSound
    <3>3. Disjoint(ptrs[j], b)
      BY <3>1 DEF MemorySound, TableSound, b
    <3> QED
      BY <3>1, <3>2, <3>3, <1>3
  <2>2. \A j, k \in DOMAIN W : j # k => Disjoint(W[j], W[k])
    BY <1>2 DEF MemorySound, TableSound
  <2> QED
    BY <2>1, <2>2 DEF TableSound
<1>5. Covered(W, R, lo, hi)
  <2> SUFFICES ASSUME NEW a \in lo .. hi - 1
               PROVE  InFree(a, R) \/ \E j \in DOMAIN W : a \in Cells(W[j])
    BY DEF Covered
  <2>1. CASE InFree(a, fl)
    BY <2>1, <1>3
  <2>2. ASSUME NEW j \in DOMAIN ptrs, a \in Cells(ptrs[j])
        PROVE  InFree(a, R) \/ \E k \in DOMAIN W : a \in Cells(W[k])
    <3>1. CASE j = id
      BY <2>2, <3>1, <1>3 DEF b
    <3>2. CASE j # id
      BY <2>2, <3>2, <1>2
    <3> QED
      BY <3>1, <3>2
  <2> QED
    BY <2>1, <2>2 DEF MemorySound, Covered
<1> QED
  BY <1>3, <1>4, <1>5 DEF MemorySound, b, R, W

(* A successful Allocator::alloc keeps the memory sound: the bytes cut off *)
(* a free block are those of the new entry of the table.                   *)
LEMMA AllocKeepsSound ==
  ASSUME NEW fl, NEW ptrs, NEW lo \in Nat, NEW hi \in Nat, hi <= Base + Size,
         MemorySound(ptrs, fl, lo, hi),
         NEW i \in 1 .. Len(fl), NEW N \in Nat, N > 0, fl[i].size >= N,
         NEW new, new \notin DOMAIN ptrs, NEW W,
         DOMAIN W = DOMAIN ptrs \cup {new}, W[new] = Block(fl[i].begin, N),
         \A id \in DOMAIN ptrs : W[id] = ptrs[id]
  PROVE  MemorySound(W, splitBlock(fl, i, N), lo, hi)
<1> DEFINE b == Block(fl[i].begin, N)
           R == splitBlock(fl, i, N)
<1>1. FreeSound(fl, lo, hi, {})
  BY DEF MemorySound
<1>2. /\ FreeSound(R, lo, hi, {})
      /\ b \in BlockType /\ b.size > 0 /\ Within(b, lo, hi) /\ ApartFrom(b, R)
      /\ \A a \in Int : InFree(a, fl) <=> InFree(a, R) \/ a \in Cells(b)
      /\ \A c \in BlockType : c.size > 0 /\ ApartFrom(c, fl) => ApartFrom(c, R) /\ Disjoint(c, b)
  BY <1>1, SplitSound
<1>3. /\ DOMAIN W = DOMAIN ptrs \cup {new} /\ W[new] = b
      /\ \A j \in DOMAIN ptrs : W[j] = ptrs[j]
  OBVIOUS
<1> HIDE DEF b, R
<1>4. \A j \in DOMAIN ptrs :
        /\ ptrs[j] \in BlockType /\ ptrs[j].size > 0 /\ Within(ptrs[j], lo, hi)
        /\ ApartFrom(ptrs[j], R) /\ Disjoint(ptrs[j], b)
  BY <1>2 DEF MemorySound, TableSound
<1>5. \A c, d : Disjoint(c, d) <=> Disjoint(d, c)
  BY DEF Disjoint
<1>6. TableSound(W, R, lo, hi)
  <2>1. ASSUME NEW j \in DOMAIN W
        PROVE  /\ W[j] \in BlockType /\ W[j].size > 0
               /\ Within(W[j], lo, hi)
               /\ ApartFrom(W[j], R)
    BY <1>2, <1>3, <1>4
  <2>2. ASSUME NEW j \in DOMAIN W, NEW k \in DOMAIN W, j # k
        PROVE  Disjoint(W[j], W[k])
    <3>1. CASE j = new
      BY <3>1, <2>2, <1>3, <1>4, <1>5
    <3>2. CASE k = new
      BY <3>2, <2>2, <1>3, <1>4
    <3>3. CASE j # new /\ k # new
      BY <3>3, <2>2, <1>3 DEF MemorySound, TableSound
    <3> QED
      BY <3>1, <3>2, <3>3
  <2> QED
    BY <2>1, <2>2 DEF TableSound
<1>7. Covered(W, R, lo, hi)
  <2> SUFFICES ASSUME NEW a \in lo .. hi - 1
               PROVE  InFree(a, R) \/ \E j \in DOMAIN W : a \in Cells(W[j])
    BY DEF Covered
  <2>1. CASE InFree(a, fl)
    BY <2>1, <1>2, <1>3
  <2>2. ASSUME NEW j \in DOMAIN ptrs, a \in Cells(ptrs[j])
        PROVE  \E k \in DOMAIN W : a \in Cells(W[k])
    BY <2>2, <1>3
  <2> QED
    BY <2>1, <2>2 DEF MemorySound, Covered
<1> QED
  BY <1>2, <1>6, <1>7 DEF MemorySound, R

-----------------------------------------------------------------------------
(* defrag: counting the bytes of the blocks. *)

IdsBelow(id) == {j \in DOMAIN pointers_ : j < id}
Before(id) == Cardinality(BytesOf(IdsBelow(id)))
AllBytes == Cardinality(BytesOf(DOMAIN pointers_))

(* What the elements of BytesOf are: a live id and an offset in its block. *)
LEMMA BytesOfElements ==
  ASSUME NEW ids \in SUBSET DOMAIN pointers_
  PROVE  /\ \A id \in ids : \A k \in 0 .. pointers_[id].size - 1 : <<id, k>> \in BytesOf(ids)
         /\ \A x \in BytesOf(ids) :
              x = <<x[1], x[2]>> /\ x[1] \in ids /\ x[2] \in 0 .. pointers_[x[1]].size - 1
BY DEF BytesOf

(* The live blocks have no more bytes than the memory they lie in: the     *)
(* bytes' addresses are distinct.                                          *)
LEMMA BytesFit ==
  ASSUME NEW lo \in Nat, NEW hi \in Nat, lo <= hi, NEW fl, TableSound(pointers_, fl, lo, hi)
  PROVE  /\ IsFiniteSet(BytesOf(DOMAIN pointers_))
         /\ AllBytes <= hi - lo
<1> DEFINE S == BytesOf(DOMAIN pointers_)
           T == lo .. hi - 1
           f == [x \in S |-> pointers_[x[1]].begin + x[2]]
<1>1. ASSUME NEW id \in DOMAIN pointers_
      PROVE  /\ pointers_[id].begin \in Nat /\ pointers_[id].size \in Nat
             /\ getEnd(pointers_[id]) = pointers_[id].begin + pointers_[id].size
             /\ lo <= pointers_[id].begin /\ pointers_[id].begin + pointers_[id].size <= hi
  <2>1. pointers_[id] \in BlockType /\ Within(pointers_[id], lo, hi)
    BY DEF TableSound
  <2> QED
    BY <2>1, BlockFacts DEF Within
<1>2. \A x \in S : x = <<x[1], x[2]>> /\ x[1] \in DOMAIN pointers_ /\ x[2] \in 0 .. pointers_[x[1]].size - 1
  BY BytesOfElements
<1> HIDE DEF S
<1>3. f \in [S -> T]
  <2> SUFFICES ASSUME NEW x \in S
               PROVE  pointers_[x[1]].begin + x[2] \in T
    OBVIOUS
  <2>1. x[1] \in DOMAIN pointers_ /\ x[2] \in 0 .. pointers_[x[1]].size - 1
    BY <1>2
  <2> QED
    BY <1>1, <2>1
<1>4. ASSUME NEW x \in S, NEW y \in S, f[x] = f[y]
      PROVE  x = y
  <2> DEFINE i == x[1]
             j == y[1]
  <2>1. /\ i \in DOMAIN pointers_ /\ x[2] \in 0 .. pointers_[i].size - 1
        /\ j \in DOMAIN pointers_ /\ y[2] \in 0 .. pointers_[j].size - 1
        /\ pointers_[i].begin + x[2] = pointers_[j].begin + y[2]
    BY <1>2, <1>4
  <2>2. i = j
    <3> SUFFICES ASSUME i # j PROVE FALSE
      OBVIOUS
    <3>1. \/ pointers_[i].begin + pointers_[i].size <= pointers_[j].begin
          \/ pointers_[j].begin + pointers_[j].size <= pointers_[i].begin
      <4>1. Disjoint(pointers_[i], pointers_[j])
        BY <2>1 DEF TableSound
      <4> QED
        BY <4>1, <2>1, <1>1 DEF Disjoint
    <3>2. /\ pointers_[i].begin \in Nat /\ pointers_[i].size \in Nat
          /\ pointers_[j].begin \in Nat /\ pointers_[j].size \in Nat
      BY <2>1, <1>1
    <3> QED
      BY <2>1, <3>1, <3>2
  <2>3. x[2] = y[2]
    BY <2>1, <2>2, <1>1
  <2> QED
    BY <2>2, <2>3, <1>2
<1>5. f \in Injection(S, T)
  BY <1>3, <1>4 DEF Injection, IsInjective
<1>6. IsFiniteSet(T) /\ Cardinality(T) = hi - lo
  <2>1. lo \in Int /\ hi - 1 \in Int
    OBVIOUS
  <2>2. /\ IsFiniteSet(lo .. hi - 1)
        /\ Cardinality(lo .. hi - 1) = IF lo > hi - 1 THEN 0 ELSE (hi - 1) - lo + 1
    BY <2>1, FS_Interval
  <2> QED
    BY <2>2
<1> HIDE DEF f, T
<1>7. IsFiniteSet(S) /\ Cardinality(S) <= Cardinality(T)
  BY <1>5, <1>6, FS_Injection
<1> QED
  BY <1>6, <1>7 DEF AllBytes, S

(* One block's bytes are as many as its size, on top of those before it.   *)
LEMMA BytesOfOneMore ==
  ASSUME IsFiniteSet(BytesOf(DOMAIN pointers_)),
         NEW ids \in SUBSET DOMAIN pointers_,
         NEW id \in DOMAIN pointers_, id \notin ids, pointers_[id].size \in Nat
  PROVE  /\ Cardinality(BytesOf(ids)) \in Nat
         /\ Cardinality(BytesOf(ids \cup {id})) = Cardinality(BytesOf(ids)) + pointers_[id].size
<1> DEFINE n == pointers_[id].size
           one == {id} \X (0 .. n - 1)
<1>1. /\ BytesOf(ids) \subseteq BytesOf(DOMAIN pointers_)
      /\ BytesOf(ids \cup {id}) = BytesOf(ids) \cup one
      /\ BytesOf(ids) \cap one = {}
  BY DEF BytesOf
<1>2. IsFiniteSet(BytesOf(ids))
  BY <1>1, FS_Subset
<1>3. IsFiniteSet(one) /\ Cardinality(one) = n
  <2>1. IsFiniteSet({id}) /\ Cardinality({id}) = 1
    BY FS_Singleton
  <2>2. IsFiniteSet(0 .. n - 1) /\ Cardinality(0 .. n - 1) = n
    <3>1. 0 \in Int /\ n - 1 \in Int
      OBVIOUS
    <3>2. /\ IsFiniteSet(0 .. n - 1)
          /\ Cardinality(0 .. n - 1) = IF 0 > n - 1 THEN 0 ELSE (n - 1) - 0 + 1
      BY <3>1, FS_Interval
    <3> QED
      BY <3>2
  <2>3. IsFiniteSet(one) /\ Cardinality(one) = 1 * n
    BY <2>1, <2>2, FS_Product
  <2> QED
    BY <2>3
<1> HIDE DEF one
<1>4. Cardinality(BytesOf(ids)) \in Nat
  BY <1>2, FS_CardinalityType
<1>5. Cardinality(BytesOf(ids) \cup one)
        = Cardinality(BytesOf(ids)) + Cardinality(one) - Cardinality(BytesOf(ids) \cap one)
  BY <1>2, <1>3, FS_Union
<1>6. Cardinality(BytesOf(ids) \cap one) = 0
  BY <1>1, FS_EmptySet
<1>7. Cardinality(BytesOf(ids) \cup one) = Cardinality(BytesOf(ids)) + n - 0
  BY <1>3, <1>5, <1>6
<1>8. n \in Nat
  OBVIOUS
<1>9. Cardinality(BytesOf(ids) \cup one) = Cardinality(BytesOf(ids)) + n
  <2> HIDE DEF n
  <2> QED
    BY <1>4, <1>7, <1>8
<1> QED
  BY <1>1, <1>4, <1>9

(* More blocks have no fewer bytes.                                        *)
LEMMA BytesOfMonotonic ==
  ASSUME IsFiniteSet(BytesOf(DOMAIN pointers_)),
         NEW ids \in SUBSET DOMAIN pointers_, NEW jds \in SUBSET DOMAIN pointers_, ids \subseteq jds
  PROVE  /\ Cardinality(BytesOf(ids)) \in Nat /\ Cardinality(BytesOf(jds)) \in Nat
         /\ Cardinality(BytesOf(ids)) <= Cardinality(BytesOf(jds))
<1>1. BytesOf(ids) \subseteq BytesOf(jds) /\ BytesOf(jds) \subseteq BytesOf(DOMAIN pointers_)
  BY DEF BytesOf
<1>2. IsFiniteSet(BytesOf(jds)) /\ IsFiniteSet(BytesOf(ids))
  BY <1>1, FS_Subset
<1> QED
  BY <1>1, <1>2, FS_Subset, FS_CardinalityType

(* Where defrag puts the blocks: one after another. *)
LEMMA BeforeProperties ==
  ASSUME IsFiniteSet(BytesOf(DOMAIN pointers_)), DOMAIN pointers_ \subseteq Nat,
         NEW id \in DOMAIN pointers_, pointers_[id].size \in Nat
  PROVE  /\ Before(id) \in Nat /\ AllBytes \in Nat
         /\ Before(id) + pointers_[id].size <= AllBytes
         /\ \A jd \in DOMAIN pointers_ : id < jd =>
              Before(jd) \in Nat /\ Before(id) + pointers_[id].size <= Before(jd)
<1> DEFINE up == IdsBelow(id) \cup {id}
<1>1. /\ IdsBelow(id) \in SUBSET DOMAIN pointers_ /\ id \notin IdsBelow(id)
      /\ up \in SUBSET DOMAIN pointers_
  BY DEF IdsBelow
<1>2. Before(id) \in Nat /\ Cardinality(BytesOf(up)) = Before(id) + pointers_[id].size
  BY <1>1, BytesOfOneMore DEF Before
<1>3. AllBytes \in Nat /\ Cardinality(BytesOf(up)) <= AllBytes
  BY <1>1, BytesOfMonotonic DEF AllBytes
<1>4. ASSUME NEW jd \in DOMAIN pointers_, id < jd
      PROVE  Before(jd) \in Nat /\ Cardinality(BytesOf(up)) <= Before(jd)
  <2>1. IdsBelow(jd) \in SUBSET DOMAIN pointers_ /\ up \subseteq IdsBelow(jd)
    BY <1>4 DEF IdsBelow
  <2> QED
    BY <1>1, <2>1, BytesOfMonotonic DEF Before
<1> QED
  BY <1>2, <1>3, <1>4

temp_pointers == [id \in DOMAIN pointers_ |-> Block(NewBegin(id), pointers_[id].size)]

(* defrag tiles the other half: the blocks one after another, then one     *)
(* free block.  Counting shows that the blocks leave no gap.               *)
LEMMA DefragKeepsSound ==
  ASSUME NEW lo \in Nat, NEW hi \in Nat, lo <= hi, NEW fl, TableSound(pointers_, fl, lo, hi),
         DOMAIN pointers_ \subseteq Nat,
         base2_ \in Nat, memory_size2_ \in Nat, memory_size2_ = hi - lo,
         Base <= base2_, base2_ + memory_size2_ <= Base + Size
  PROVE  /\ \A id \in DOMAIN pointers_ :
              /\ temp_pointers[id].begin = NewBegin(id)
              /\ temp_pointers[id].size = pointers_[id].size
         /\ MemorySound(temp_pointers, Compacted(AllBytes), base2_, base2_ + memory_size2_)
<1> DEFINE rest == Block(base2_ + AllBytes, SubSizeT(memory_size2_, AllBytes))
           hi2 == base2_ + memory_size2_
           D == DOMAIN pointers_
<1>1. /\ IsFiniteSet(BytesOf(D)) /\ AllBytes <= memory_size2_
  BY BytesFit
<1>2. AllBytes \in Nat
  BY <1>1, FS_CardinalityType DEF AllBytes
<1>3. SubSizeT(memory_size2_, AllBytes) = memory_size2_ - AllBytes
  BY <1>1 DEF SubSizeT
<1>4. /\ rest \in BlockType /\ rest.begin = base2_ + AllBytes /\ rest.begin \in Nat
      /\ getEnd(rest) = hi2
  <2>1. base2_ + AllBytes \in Base .. Base + Size /\ memory_size2_ - AllBytes \in 0 .. Size
    BY <1>1, <1>2, ConstantsAssumption DEF Base
  <2>2. /\ rest \in BlockType /\ rest.begin = base2_ + AllBytes
        /\ getEnd(rest) = (base2_ + AllBytes) + (memory_size2_ - AllBytes)
    BY <2>1, <1>3, MakeBlock
  <2> QED
    BY <2>2, <1>2
<1> HIDE DEF rest
<1>5. Compacted(AllBytes) = <<rest>>
  BY DEF Compacted, rest
<1>6. /\ Compacted(AllBytes) \in Seq(BlockType)
      /\ Len(Compacted(AllBytes)) = 1 /\ Compacted(AllBytes)[1] = rest
  BY <1>4, <1>5
<1>7. FreeSound(Compacted(AllBytes), base2_, hi2, {})
  <2>1. Within(rest, base2_, hi2)
    BY <1>4, <1>2 DEF Within
  <2> QED
    BY <1>6, <2>1 DEF FreeSound, LooseAt
<1>8. ASSUME NEW id \in D
      PROVE  /\ pointers_[id].size \in Nat /\ pointers_[id].size > 0 /\ pointers_[id].size <= Size
             /\ Before(id) \in Nat /\ NewBegin(id) = base2_ + Before(id)
             /\ Before(id) + pointers_[id].size <= AllBytes
             /\ \A jd \in D : id < jd => Before(id) + pointers_[id].size <= Before(jd)
  <2>1. pointers_[id] \in BlockType /\ pointers_[id].size > 0
    BY DEF TableSound
  <2>2. pointers_[id].size \in 0 .. Size /\ pointers_[id].size \in Nat
    BY <2>1, ConstantsAssumption DEF BlockType
  <2>3. pointers_[id].size <= Size
    BY <2>2, ConstantsAssumption
  <2>4. NewBegin(id) = base2_ + Before(id)
    BY DEF NewBegin, Before, IdsBelow
  <2> QED
    BY <1>1, <2>1, <2>2, <2>3, <2>4, BeforeProperties
<1>9. ASSUME NEW id \in D
      PROVE  /\ temp_pointers[id] \in BlockType
             /\ temp_pointers[id].begin = NewBegin(id)
             /\ temp_pointers[id].begin = base2_ + Before(id)
             /\ temp_pointers[id].size = pointers_[id].size
             /\ getEnd(temp_pointers[id]) = base2_ + Before(id) + pointers_[id].size
  <2>1. temp_pointers[id] = Block(base2_ + Before(id), pointers_[id].size)
    BY <1>8 DEF temp_pointers
  <2>2. base2_ + Before(id) \in Base .. Base + Size /\ pointers_[id].size \in 0 .. Size
    BY <1>1, <1>2, <1>8, ConstantsAssumption DEF Base
  <2> QED
    BY <2>1, <2>2, <1>8, MakeBlock
<1>10. TableSound(temp_pointers, Compacted(AllBytes), base2_, hi2)
  <2>1. DOMAIN temp_pointers = D
    BY DEF temp_pointers
  <2>2. ASSUME NEW id \in D
        PROVE  /\ Within(temp_pointers[id], base2_, hi2)
               /\ ApartFrom(temp_pointers[id], Compacted(AllBytes))
    <3>1. Within(temp_pointers[id], base2_, hi2)
      BY <1>1, <1>2, <1>8, <1>9 DEF Within
    <3>2. Disjoint(temp_pointers[id], rest)
      BY <1>2, <1>4, <1>8, <1>9 DEF Disjoint
    <3> QED
      BY <3>1, <3>2, <1>6 DEF ApartFrom
  <2>3. ASSUME NEW id \in D, NEW jd \in D, id < jd
        PROVE  getEnd(temp_pointers[id]) <= temp_pointers[jd].begin
    BY <1>8, <1>9, <2>3
  <2>4. \A id, jd \in D : id # jd => id < jd \/ jd < id
    OBVIOUS
  <2> QED
    BY <2>1, <2>2, <2>3, <2>4, <1>8, <1>9 DEF TableSound, Disjoint
<1>11. ASSUME NEW o \in 0 .. AllBytes - 1
       PROVE  \E id \in D : Before(id) <= o /\ o < Before(id) + pointers_[id].size
  <2> DEFINE S == BytesOf(D)
             T == 0 .. AllBytes - 1
             g == [x \in S |-> Before(x[1]) + x[2]]
  <2>1. \A x \in S : x = <<x[1], x[2]>> /\ x[1] \in D /\ x[2] \in 0 .. pointers_[x[1]].size - 1
    BY BytesOfElements
  <2> HIDE DEF S
  <2>2. g \in [S -> T]
    <3> SUFFICES ASSUME NEW x \in S
                 PROVE  Before(x[1]) + x[2] \in T
      OBVIOUS
    <3>1. x[1] \in D /\ x[2] \in 0 .. pointers_[x[1]].size - 1
      BY <2>1
    <3> QED
      BY <1>2, <1>8, <3>1
  <2>3. ASSUME NEW x \in S, NEW y \in S, g[x] = g[y]
        PROVE  x = y
    <3> DEFINE i == x[1]
               j == y[1]
    <3>1. /\ i \in D /\ x[2] \in 0 .. pointers_[i].size - 1
          /\ j \in D /\ y[2] \in 0 .. pointers_[j].size - 1
          /\ Before(i) + x[2] = Before(j) + y[2]
      BY <2>1, <2>3
    <3>2. i \in Nat /\ j \in Nat
      BY <3>1
    <3>3. ~ (i < j) /\ ~ (j < i)
      BY <3>1, <1>8
    <3>4. i = j
      BY <3>2, <3>3
    <3>5. x[2] = y[2]
      BY <3>1, <3>4, <1>8
    <3> QED
      BY <3>4, <3>5, <2>1
  <2>4. g \in Injection(S, T)
    BY <2>2, <2>3 DEF Injection, IsInjective
  <2>5. IsFiniteSet(T) /\ Cardinality(T) = AllBytes
    <3>1. 0 \in Int /\ AllBytes - 1 \in Int
      BY <1>2
    <3>2. /\ IsFiniteSet(0 .. AllBytes - 1)
          /\ Cardinality(0 .. AllBytes - 1) = IF 0 > AllBytes - 1 THEN 0 ELSE (AllBytes - 1) - 0 + 1
      BY <3>1, FS_Interval
    <3> QED
      BY <3>2, <1>2
  <2>6. Cardinality(S) = AllBytes
    BY DEF AllBytes, S
  <2>7. \E x \in S : g[x] = o
    <3> HIDE DEF g, T
    <3>1. g \in Surjection(S, T)
      BY <2>4, <2>5, <2>6, FS_Injection
    <3> QED
      BY <3>1 DEF Surjection, T
  <2>8. PICK x \in S : Before(x[1]) + x[2] = o
    BY <2>7
  <2>9. x[1] \in D /\ x[2] \in 0 .. pointers_[x[1]].size - 1
    BY <2>1
  <2> QED
    BY <1>8, <2>8, <2>9
<1>12. Covered(temp_pointers, Compacted(AllBytes), base2_, hi2)
  <2> SUFFICES ASSUME NEW a \in base2_ .. hi2 - 1
               PROVE  \/ InFree(a, Compacted(AllBytes))
                      \/ \E id \in DOMAIN temp_pointers : a \in Cells(temp_pointers[id])
    BY DEF Covered
  <2>1. CASE a >= base2_ + AllBytes
    <3>1. a \in Cells(rest)
      BY <2>1, <1>2, <1>4 DEF Cells
    <3> QED
      BY <3>1, <1>6 DEF InFree
  <2>2. CASE a < base2_ + AllBytes
    <3>1. a - base2_ \in 0 .. AllBytes - 1
      BY <2>2, <1>2
    <3>2. PICK id \in D : Before(id) <= a - base2_ /\ a - base2_ < Before(id) + pointers_[id].size
      BY <3>1, <1>11
    <3>3. a \in Cells(temp_pointers[id])
      BY <3>2, <1>8, <1>9 DEF Cells
    <3> QED
      BY <3>3 DEF temp_pointers
  <2> QED
    BY <2>1, <2>2, <1>2
<1> QED
  BY <1>7, <1>9, <1>10, <1>12 DEF MemorySound

-----------------------------------------------------------------------------
(* The inductive invariant.  The halves have to be equal: in a buffer of   *)
(* odd size defrag may not find room for the blocks, and nothing below     *)
(* holds (the run AllocatorOdd).                                           *)

EvenSize == Size = 2 * (Size \div 2)

HalvesSound ==
  /\ memory_size1_ = Size \div 2 /\ memory_size2_ = Size \div 2
  /\ \/ base1_ = Base /\ base2_ = Base + Size \div 2
     \/ base2_ = Base /\ base1_ = Base + Size \div 2

ClientSound ==
  /\ DOMAIN pointers_ \subseteq 1 .. pointer_id_ - 1
  /\ pointer_id_ \in 1 .. MaxId + 1
  /\ mem \in [Arena -> Data]
  /\ handle \in [Handles -> 0 .. pointer_id_ - 1]
  /\ thrown \in {"none", "NoMemory"}

IInv ==
  /\ HalvesSound
  /\ MemorySound(pointers_, free_blocks_, base1_, base1_ + memory_size1_)
  /\ ClientSound

(* Where the two halves of an even buffer lie, whichever is in use.        *)
LEMMA HalvesFacts ==
  ASSUME EvenSize, HalvesSound
  PROVE  /\ base1_ \in Nat /\ base2_ \in Nat /\ memory_size1_ \in Nat /\ memory_size2_ \in Nat
         /\ memory_size1_ = memory_size2_ /\ memory_size1_ <= Size
         /\ Base <= base1_ /\ Base <= base2_
         /\ base1_ + memory_size1_ <= Base + Size /\ base2_ + memory_size2_ <= Base + Size
         /\ base1_ + memory_size1_ \in Nat /\ base1_ <= base1_ + memory_size1_
         /\ (base1_ + memory_size1_) - base1_ = memory_size1_
<1> DEFINE n == Size \div 2
<1>1. n \in Nat /\ Size = n + n
  BY ConstantsAssumption DEF EvenSize
<1> HIDE DEF n
<1>2. /\ memory_size1_ = n /\ memory_size2_ = n
      /\ \/ base1_ = Base /\ base2_ = Base + n
         \/ base2_ = Base /\ base1_ = Base + n
  BY DEF HalvesSound, n
<1> QED
  BY <1>1, <1>2 DEF Base

(* A live block lies inside the half in use.                               *)
LEMMA LiveFacts ==
  ASSUME EvenSize, IInv, NEW id \in DOMAIN pointers_
  PROVE  /\ pointers_[id] \in BlockType
         /\ pointers_[id].begin \in Nat /\ pointers_[id].size \in Nat /\ pointers_[id].size > 0
         /\ getEnd(pointers_[id]) = pointers_[id].begin + pointers_[id].size
         /\ base1_ <= pointers_[id].begin
         /\ pointers_[id].begin + pointers_[id].size <= base1_ + memory_size1_
<1>1. /\ pointers_[id] \in BlockType /\ pointers_[id].size > 0
      /\ Within(pointers_[id], base1_, base1_ + memory_size1_)
  BY DEF IInv, MemorySound, TableSound
<1> QED
  BY <1>1, BlockFacts DEF Within

(* The constructor establishes the invariant.                              *)
LEMMA InitIInv ==
  ASSUME EvenSize, Init
  PROVE  IInv
<1>1. HalvesSound
  <2> DEFINE n == Size \div 2
  <2>1. n \in Nat /\ Size = n + n
    BY ConstantsAssumption DEF EvenSize
  <2> HIDE DEF n
  <2>2. Size - n = n
    BY <2>1
  <2> QED
    BY <2>2 DEF Init, HalvesSound, n
<1>2. ClientSound
  BY ConstantsAssumption DEF Init, ClientSound, Null
<1> DEFINE b == Block(Base, memory_size1_)
<1>3. b \in BlockType /\ b.begin = base1_ /\ getEnd(b) = base1_ + memory_size1_ /\ base1_ = Base
  <2>1. Base \in Base .. Base + Size /\ memory_size1_ \in 0 .. Size /\ base1_ = Base
    BY <1>1, HalvesFacts, ConstantsAssumption DEF Init, Base
  <2> QED
    BY <2>1, MakeBlock
<1>4. free_blocks_ = <<b>> /\ DOMAIN pointers_ = {}
  BY DEF Init
<1> HIDE DEF b
<1>5. free_blocks_ \in Seq(BlockType) /\ Len(free_blocks_) = 1 /\ free_blocks_[1] = b
  BY <1>3, <1>4
<1>6. FreeSound(free_blocks_, base1_, base1_ + memory_size1_, {})
  BY <1>1, <1>3, <1>5, HalvesFacts DEF FreeSound, LooseAt, Within
<1>7. Covered(pointers_, free_blocks_, base1_, base1_ + memory_size1_)
  BY <1>3, <1>5 DEF Covered, InFree, Cells
<1> QED
  BY <1>1, <1>2, <1>4, <1>6, <1>7 DEF IInv, MemorySound, TableSound

(* alloc, on whatever sound list and table it starts from. *)
LEMMA AllocFromSound ==
  ASSUME NEW fl, NEW ptrs, NEW h \in Handles, NEW left \in 0 .. pointer_id_ - 1, NEW N \in Requests,
         NEW lo \in Nat, NEW hi \in Nat, hi <= Base + Size,
         MemorySound(ptrs, fl, lo, hi), DOMAIN ptrs \subseteq 1 .. pointer_id_ - 1,
         pointer_id_ \in 1 .. MaxId, handle \in [Handles -> 0 .. pointer_id_ - 1],
         AllocFrom(fl, ptrs, h, left, N)
  PROVE  /\ MemorySound(pointers_', free_blocks_', lo, hi)
         /\ DOMAIN pointers_' \subseteq 1 .. pointer_id_' - 1
         /\ pointer_id_' \in 1 .. MaxId + 1
         /\ handle' \in [Handles -> 0 .. pointer_id_' - 1]
         /\ thrown' \in {"none", "NoMemory"}
         /\ handle'[h] = Null \/ handle'[h] = left
            \/ /\ handle'[h] \in DOMAIN pointers_'
               /\ pointers_'[handle'[h]].size = N
<1>0. N \in Nat /\ MaxId \in Nat /\ pointer_id_ \in Nat
  BY ConstantsAssumption
<1>1. CASE /\ N = 0
           /\ free_blocks_' = fl /\ pointers_' = ptrs
           /\ handle' = [handle EXCEPT ![h] = Null]
           /\ thrown' = "none"
           /\ UNCHANGED pointer_id_
  BY <1>0, <1>1 DEF Null
<1>2. ASSUME NEW i \in DOMAIN fl,
             N > 0, IsFirstFit(fl, i, N),
             free_blocks_' = splitBlock(fl, i, N),
             pointers_' = [id \in DOMAIN ptrs \cup {pointer_id_} |->
                             IF id = pointer_id_ THEN Block(fl[i].begin, N) ELSE ptrs[id]],
             pointer_id_' = pointer_id_ + 1,
             handle' = [handle EXCEPT ![h] = pointer_id_],
             thrown' = "none"
      PROVE  /\ MemorySound(pointers_', free_blocks_', lo, hi)
             /\ DOMAIN pointers_' \subseteq 1 .. pointer_id_' - 1
             /\ pointer_id_' \in 1 .. MaxId + 1
             /\ handle' \in [Handles -> 0 .. pointer_id_' - 1]
             /\ thrown' \in {"none", "NoMemory"}
             /\ handle'[h] \in DOMAIN pointers_'
             /\ pointers_'[handle'[h]].size = N
  <2>1. pointer_id_ \notin DOMAIN ptrs
    BY <1>0
  <2>2. i \in 1 .. Len(fl) /\ fl[i].size >= N
    BY <1>2, LenProperties DEF MemorySound, FreeSound, IsFirstFit
  <2>3. MemorySound(pointers_', free_blocks_', lo, hi)
    <3> DEFINE W == pointers_'
    <3>0. /\ N > 0
          /\ DOMAIN W = DOMAIN ptrs \cup {pointer_id_}
          /\ W[pointer_id_] = Block(fl[i].begin, N)
          /\ \A id \in DOMAIN ptrs : W[id] = ptrs[id]
      BY <1>2, <2>1
    <3> HIDE DEF W
    <3>1. MemorySound(W, splitBlock(fl, i, N), lo, hi)
      BY <1>0, <2>1, <2>2, <3>0, AllocKeepsSound
    <3> QED
      BY <3>1, <1>2 DEF W
  <2>4. handle' \in [Handles -> 0 .. pointer_id_' - 1] /\ handle'[h] = pointer_id_
    BY <1>0, <1>2
  <2>5. DOMAIN pointers_' = DOMAIN ptrs \cup {pointer_id_} /\ pointers_'[pointer_id_].size = N
    BY <1>2 DEF Block
  <2> QED
    BY <1>0, <1>2, <2>3, <2>4, <2>5
<1>3. CASE /\ N > 0 /\ \A i \in DOMAIN fl : fl[i].size < N
           /\ free_blocks_' = fl /\ pointers_' = ptrs
           /\ handle' = [handle EXCEPT ![h] = left]
           /\ thrown' = "NoMemory"
           /\ UNCHANGED pointer_id_
  BY <1>0, <1>3
<1> QED
  BY <1>1, <1>2, <1>3 DEF AllocFrom

(* memcpy from inside the buffer leaves bytes in the buffer.               *)
LEMMA MemcpyType ==
  ASSUME NEW m \in [Arena -> Data], NEW dst \in Int, NEW src \in Int, NEW n \in Int,
         \A a \in src .. src + n - 1 : a \in Arena
  PROVE  Memcpy(m, dst, src, n) \in [Arena -> Data]
<1> SUFFICES ASSUME NEW a \in Arena
             PROVE  (IF a \in dst .. dst + n - 1 THEN m[src + (a - dst)] ELSE m[a]) \in Data
  BY DEF Memcpy
<1>1. CASE a \in dst .. dst + n - 1
  <2>1. src + (a - dst) \in src .. src + n - 1
    BY <1>1
  <2> QED
    BY <1>1, <2>1
<1>2. CASE a \notin dst .. dst + n - 1
  BY <1>2
<1> QED
  BY <1>1, <1>2

(* A call of alloc preserves the invariant.                                *)
LEMMA AllocIInv ==
  ASSUME EvenSize, IInv, NEW h \in Handles, NEW N \in Requests, alloc(h, N)
  PROVE  IInv'
<1>1. /\ base1_ \in Nat /\ base1_ + memory_size1_ \in Nat
      /\ base1_ + memory_size1_ <= Base + Size
  BY HalvesFacts DEF IInv
<1>2. /\ MemorySound(pointers_, free_blocks_, base1_, base1_ + memory_size1_)
      /\ DOMAIN pointers_ \subseteq 1 .. pointer_id_ - 1
      /\ pointer_id_ \in 1 .. MaxId
      /\ handle \in [Handles -> 0 .. pointer_id_ - 1]
      /\ handle[h] \in 0 .. pointer_id_ - 1
      /\ AllocFrom(free_blocks_, pointers_, h, handle[h], N)
  BY ConstantsAssumption DEF IInv, ClientSound, alloc
<1>3. /\ MemorySound(pointers_', free_blocks_', base1_, base1_ + memory_size1_)
      /\ DOMAIN pointers_' \subseteq 1 .. pointer_id_' - 1
      /\ pointer_id_' \in 1 .. MaxId + 1
      /\ handle' \in [Handles -> 0 .. pointer_id_' - 1]
      /\ thrown' \in {"none", "NoMemory"}
  BY <1>1, <1>2, AllocFromSound
<1>4. UNCHANGED <<base1_, base2_, memory_size1_, memory_size2_, mem>>
  BY DEF alloc, halves
<1> QED
  BY <1>3, <1>4 DEF IInv, ClientSound, HalvesSound

(* A call of free preserves the invariant, through a live handle or a dead *)
(* one.                                                                    *)
LEMMA FreeIInv ==
  ASSUME EvenSize, IInv, NEW h \in Handles, free(h)
  PROVE  IInv'
<1>1. /\ base1_ \in Nat /\ base1_ + memory_size1_ \in Nat
      /\ (base1_ + memory_size1_) - base1_ <= Size
  BY HalvesFacts DEF IInv
<1>2. UNCHANGED <<base1_, base2_, memory_size1_, memory_size2_, mem, pointer_id_>> /\ thrown' = "none"
  BY DEF free, halves
<1>3. CASE Live(h)
  <2> DEFINE id == handle[h]
  <2>1. /\ id \in DOMAIN pointers_
        /\ free_blocks_' = Released(free_blocks_, pointers_[id])
        /\ pointers_' = Without(pointers_, id)
        /\ handle' = [handle EXCEPT ![h] = Null]
    BY <1>3 DEF free, Live, BlockOf
  <2> HIDE DEF id
  <2>2. MemorySound(Without(pointers_, id), Released(free_blocks_, pointers_[id]), base1_, base1_ + memory_size1_)
    BY <1>1, <2>1, FreeKeepsSound DEF IInv
  <2>3. DOMAIN pointers_' \subseteq DOMAIN pointers_
    BY <2>1 DEF Without
  <2>4. handle' \in [Handles -> 0 .. pointer_id_ - 1]
    BY <2>1 DEF IInv, ClientSound, Null
  <2> QED
    BY <1>2, <2>1, <2>2, <2>3, <2>4 DEF IInv, ClientSound, HalvesSound
<1>4. CASE ~ Live(h)
  <2>1. UNCHANGED <<free_blocks_, pointers_, handle>>
    BY <1>4 DEF free
  <2> QED
    BY <1>2, <2>1 DEF IInv, ClientSound, HalvesSound
<1> QED
  BY <1>3, <1>4

(* A call of realloc preserves the invariant: the free in its middle       *)
(* leaves a sound memory, which alloc then starts from; the scratch half   *)
(* has room for the block.                                                 *)
LEMMA ReallocIInv ==
  ASSUME EvenSize, IInv, NEW h \in Handles, NEW N \in Requests, realloc(h, N)
  PROVE  IInv'
<1>1. /\ base1_ \in Nat /\ base1_ + memory_size1_ \in Nat /\ base2_ \in Nat
      /\ base1_ + memory_size1_ <= Base + Size
      /\ (base1_ + memory_size1_) - base1_ <= Size
      /\ memory_size1_ \in Nat /\ memory_size2_ = memory_size1_
      /\ Base <= base1_ /\ Base <= base2_ /\ base2_ + memory_size2_ <= Base + Size
  BY HalvesFacts DEF IInv
<1>2. /\ DOMAIN pointers_ \subseteq 1 .. pointer_id_ - 1
      /\ pointer_id_ \in 1 .. MaxId
      /\ handle \in [Handles -> 0 .. pointer_id_ - 1]
      /\ mem \in [Arena -> Data] /\ N \in Nat
      /\ handle[h] \in 0 .. pointer_id_ - 1 /\ Null \in 0 .. pointer_id_ - 1
  BY ConstantsAssumption DEF IInv, ClientSound, realloc, Null
<1>3. UNCHANGED <<base1_, base2_, memory_size1_, memory_size2_>>
  BY DEF realloc, halves
<1>4. CASE Live(h)
  <2> DEFINE id == handle[h]
             old == pointers_[id]
             saved == Memcpy(mem, base2_, old.begin, old.size)
             kept == IF old.size <= N THEN old.size ELSE N
             W == Without(pointers_, id)
             R == Released(free_blocks_, old)
  <2>1. /\ id \in DOMAIN pointers_
        /\ AllocFrom(R, W, h, Null, N)
        /\ mem' = IF handle'[h] = Null THEN saved
                  ELSE Memcpy(saved, pointers_'[handle'[h]].begin, base2_, kept)
    BY <1>4 DEF realloc, Live, BlockOf
  <2>2. /\ old.begin \in Nat /\ old.size \in Nat
        /\ base1_ <= old.begin /\ old.begin + old.size <= base1_ + memory_size1_
    BY <2>1, LiveFacts
  <2>3. MemorySound(W, R, base1_, base1_ + memory_size1_)
    BY <1>1, <2>1, FreeKeepsSound DEF IInv
  <2>4. DOMAIN W \subseteq 1 .. pointer_id_ - 1
    BY <1>2 DEF Without
  <2> HIDE DEF W, R
  <2>5. /\ MemorySound(pointers_', free_blocks_', base1_, base1_ + memory_size1_)
        /\ DOMAIN pointers_' \subseteq 1 .. pointer_id_' - 1
        /\ pointer_id_' \in 1 .. MaxId + 1
        /\ handle' \in [Handles -> 0 .. pointer_id_' - 1]
        /\ thrown' \in {"none", "NoMemory"}
        /\ handle'[h] = Null \/ handle'[h] \in DOMAIN pointers_'
    BY <1>1, <1>2, <2>1, <2>3, <2>4, AllocFromSound
  <2>6. saved \in [Arena -> Data]
    <3>1. \A a \in old.begin .. old.begin + old.size - 1 : a \in Arena
      BY <1>1, <2>2, ConstantsAssumption DEF Arena, Base
    <3> HIDE DEF old
    <3> QED
      BY <1>1, <1>2, <2>2, <3>1, MemcpyType
  <2>7. mem' \in [Arena -> Data]
    <3>1. CASE handle'[h] = Null
      BY <2>1, <2>6, <3>1
    <3>2. CASE handle'[h] # Null
      <4> DEFINE dst == pointers_'[handle'[h]].begin
      <4>1. dst \in Int
        <5>1. pointers_'[handle'[h]] \in BlockType
          BY <2>5, <3>2 DEF MemorySound, TableSound
        <5> QED
          BY <5>1, BlockFacts
      <4>2. kept \in Nat /\ kept <= memory_size1_
        BY <1>1, <1>2, <2>2
      <4> HIDE DEF kept, saved, dst
      <4>3. \A a \in base2_ .. base2_ + kept - 1 : a \in Arena
        BY <1>1, <4>2, ConstantsAssumption DEF Arena, Base
      <4>4. Memcpy(saved, dst, base2_, kept) \in [Arena -> Data]
        BY <1>1, <2>6, <4>1, <4>2, <4>3, MemcpyType
      <4> QED
        BY <2>1, <3>2, <4>4 DEF dst
    <3> QED
      BY <3>1, <3>2
  <2> QED
    BY <1>3, <2>5, <2>7 DEF IInv, ClientSound, HalvesSound
<1>5. CASE ~ Live(h)
  <2>1. AllocFrom(free_blocks_, pointers_, h, handle[h], N) /\ UNCHANGED mem
    BY <1>5 DEF realloc
  <2>2. MemorySound(pointers_, free_blocks_, base1_, base1_ + memory_size1_)
    BY DEF IInv
  <2>3. /\ MemorySound(pointers_', free_blocks_', base1_, base1_ + memory_size1_)
        /\ DOMAIN pointers_' \subseteq 1 .. pointer_id_' - 1
        /\ pointer_id_' \in 1 .. MaxId + 1
        /\ handle' \in [Handles -> 0 .. pointer_id_' - 1]
        /\ thrown' \in {"none", "NoMemory"}
    BY <1>1, <1>2, <2>1, <2>2, AllocFromSound
  <2> QED
    BY <1>2, <1>3, <2>1, <2>3 DEF IInv, ClientSound, HalvesSound
<1> QED
  BY <1>4, <1>5

(* A call of defrag preserves the invariant: the halves change places.     *)
LEMMA DefragIInv ==
  ASSUME EvenSize, IInv, defrag
  PROVE  IInv'
<1>1. /\ base1_ \in Nat /\ base2_ \in Nat /\ memory_size1_ \in Nat /\ memory_size2_ \in Nat
      /\ memory_size2_ = (base1_ + memory_size1_) - base1_ /\ base1_ + memory_size1_ \in Nat
      /\ base1_ <= base1_ + memory_size1_
      /\ Base <= base1_ /\ base1_ + memory_size1_ <= Base + Size
      /\ Base <= base2_ /\ base2_ + memory_size2_ <= Base + Size
  BY HalvesFacts DEF IInv
<1>2. /\ free_blocks_' = Compacted(AllBytes)
      /\ pointers_' = temp_pointers
      /\ base1_' = base2_ /\ base2_' = base1_
      /\ memory_size1_' = memory_size2_ /\ memory_size2_' = memory_size1_
      /\ thrown' = "none" /\ pointer_id_' = pointer_id_ /\ handle' = handle
  BY DEF defrag, AllBytes, temp_pointers
<1>3. DOMAIN pointers_ \subseteq Nat
  BY DEF IInv, ClientSound
<1>4. /\ \A id \in DOMAIN pointers_ :
            /\ temp_pointers[id].begin = NewBegin(id)
            /\ temp_pointers[id].size = pointers_[id].size
      /\ MemorySound(temp_pointers, Compacted(AllBytes), base2_, base2_ + memory_size2_)
  <2>1. TableSound(pointers_, free_blocks_, base1_, base1_ + memory_size1_)
    BY DEF IInv, MemorySound
  <2> QED
    BY <1>1, <1>3, <2>1, DefragKeepsSound
<1>5. mem' \in [Arena -> Data]
  <2> DEFINE Lands(a) == {id \in DOMAIN pointers_ : a \in Cells(temp_pointers[id])}
             From(id, a) == pointers_[id].begin + (a - temp_pointers[id].begin)
  <2>1. mem' = [a \in Arena |-> IF Lands(a) = {} THEN mem[a]
                                ELSE mem[From(CHOOSE id \in Lands(a) : TRUE, a)]]
    BY DEF defrag, temp_pointers
  <2>2. ASSUME NEW a \in Arena, NEW id \in Lands(a)
        PROVE  From(id, a) \in Arena
    <3>1. /\ pointers_[id].begin \in Nat /\ pointers_[id].size \in Nat
          /\ base1_ <= pointers_[id].begin
          /\ pointers_[id].begin + pointers_[id].size <= base1_ + memory_size1_
      BY LiveFacts
    <3>2. /\ temp_pointers[id] \in BlockType
          /\ temp_pointers[id].size = pointers_[id].size
      BY <1>4 DEF MemorySound, TableSound, temp_pointers
    <3>3. /\ temp_pointers[id].begin <= a
          /\ a < temp_pointers[id].begin + pointers_[id].size
          /\ temp_pointers[id].begin \in Nat /\ a \in Int
      BY <3>1, <3>2, BlockFacts DEF Cells, Arena, Base
    <3> QED
      BY <1>1, <3>1, <3>3, ConstantsAssumption DEF Arena, Base
  <2>3. ASSUME NEW a \in Arena, Lands(a) # {}
        PROVE  (CHOOSE id \in Lands(a) : TRUE) \in Lands(a)
    BY <2>3
  <2> HIDE DEF Lands, From
  <2>4. mem \in [Arena -> Data]
    BY DEF IInv, ClientSound
  <2> QED
    BY <2>1, <2>2, <2>3, <2>4
<1>6. HalvesSound'
  BY <1>2 DEF IInv, HalvesSound
<1>7. MemorySound(pointers_', free_blocks_', base1_', base1_' + memory_size1_')
  BY <1>2, <1>4
<1>8. ClientSound'
  BY <1>2, <1>5 DEF IInv, ClientSound, temp_pointers
<1> QED
  BY <1>6, <1>7, <1>8 DEF IInv

(* The stores of the client and the copies of its handles preserve the     *)
(* invariant.                                                              *)
LEMMA ClientIInv ==
  ASSUME IInv, NEW h \in Handles,
         \/ \E i \in 0 .. Size - 1, d \in Data : write(h, i, d)
         \/ \E g \in Handles : copy(h, g)
  PROVE  IInv'
<1>1. CASE \E i \in 0 .. Size - 1, d \in Data : write(h, i, d)
  <2>1. PICK i \in 0 .. Size - 1, d \in Data : write(h, i, d)
    BY <1>1
  <2>2. mem' \in [Arena -> Data]
    BY <2>1 DEF write, IInv, ClientSound
  <2> QED
    BY <2>1, <2>2 DEF write, halves, IInv, ClientSound, HalvesSound
<1>2. CASE \E g \in Handles : copy(h, g)
  <2>1. PICK g \in Handles : copy(h, g)
    BY <1>2
  <2>2. handle' \in [Handles -> 0 .. pointer_id_ - 1]
    BY <2>1 DEF copy, IInv, ClientSound
  <2> QED
    BY <2>1, <2>2 DEF copy, halves, IInv, ClientSound, HalvesSound
<1> QED
  BY <1>1, <1>2

(* Every step preserves the invariant.                                     *)
LEMMA NextIInv ==
  ASSUME EvenSize, IInv, [Next]_vars
  PROVE  IInv'
<1>1. ASSUME NEW h \in Handles, NEW N \in Requests, alloc(h, N)
      PROVE  IInv'
  BY <1>1, AllocIInv
<1>2. ASSUME NEW h \in Handles, free(h)
      PROVE  IInv'
  BY <1>2, FreeIInv
<1>3. ASSUME NEW h \in Handles, NEW N \in Requests, realloc(h, N)
      PROVE  IInv'
  BY <1>3, ReallocIInv
<1>4. CASE defrag
  BY <1>4, DefragIInv
<1>5. ASSUME NEW h \in Handles,
             \/ \E i \in 0 .. Size - 1, d \in Data : write(h, i, d)
             \/ \E g \in Handles : copy(h, g)
      PROVE  IInv'
  BY <1>5, ClientIInv
<1>6. CASE UNCHANGED vars
  BY <1>6 DEF vars, halves, IInv, ClientSound, HalvesSound
<1> QED
  BY <1>1, <1>2, <1>3, <1>4, <1>5, <1>6 DEF Next

(* The inductive invariant holds in every state any sequence of alloc,     *)
(* free, realloc, defrag and stores reaches.                               *)
THEOREM Invariance ==
  ASSUME EvenSize
  PROVE  Spec => []IInv
<1>1. Init => IInv
  BY InitIInv
<1>2. IInv /\ [Next]_vars => IInv'
  BY NextIInv
<1> QED
  BY <1>1, <1>2, PTL DEF Spec

(* The inductive invariant contains the type invariant.                    *)
LEMMA IInvTypeOK ==
  ASSUME EvenSize, IInv
  PROVE  TypeOK
<1>1. free_blocks_ \in Seq(BlockType)
  BY DEF IInv, MemorySound, FreeSound
<1>2. \A id \in DOMAIN pointers_ : pointers_[id] \in BlockType /\ pointers_[id].size > 0
  BY DEF IInv, MemorySound, TableSound
<1>3. /\ base1_ \in Base .. Base + Size /\ base2_ \in Base .. Base + Size
      /\ memory_size1_ \in 0 .. Size /\ memory_size2_ \in 0 .. Size
  BY HalvesFacts, ConstantsAssumption DEF IInv, Base
<1> QED
  BY <1>1, <1>2, <1>3 DEF TypeOK, IInv, ClientSound

(* In a buffer of even size, of any length, the variables keep their       *)
(* types: no list entry, table entry or handle goes wrong through any      *)
(* sequence of alloc, free, realloc and defrag.                            *)
THEOREM TypeCorrect ==
  ASSUME EvenSize
  PROVE  Spec => []TypeOK
<1>1. IInv => TypeOK
  BY IInvTypeOK
<1> QED
  BY <1>1, Invariance, PTL

(* A block given to the client never reaches outside the buffer, when the  *)
(* size is even.                                                           *)
THEOREM BlocksInBuffer ==
  ASSUME EvenSize
  PROVE  Spec => []AllocInRange
<1>1. IInv => AllocInRange
  <2> SUFFICES ASSUME IInv, NEW id \in DOMAIN pointers_
               PROVE  Cells(pointers_[id]) \subseteq Arena
    BY DEF AllocInRange
  <2>1. /\ pointers_[id].begin \in Nat /\ pointers_[id].size \in Nat
        /\ getEnd(pointers_[id]) = pointers_[id].begin + pointers_[id].size
        /\ base1_ <= pointers_[id].begin
        /\ pointers_[id].begin + pointers_[id].size <= base1_ + memory_size1_
    BY LiveFacts
  <2>2. /\ base1_ \in Nat /\ memory_size1_ \in Nat /\ Base <= base1_
        /\ base1_ + memory_size1_ <= Base + Size
    BY HalvesFacts DEF IInv
  <2> QED
    BY <2>1, <2>2, ConstantsAssumption DEF Cells, Arena, Base
<1> QED
  BY <1>1, Invariance, PTL

(* Every byte of the half in use is in exactly one block, free or live,    *)
(* and no block reaches outside the half.                                  *)
THEOREM PartitionHolds ==
  ASSUME EvenSize
  PROVE  Spec => []BlocksPartitionHalf
<1>1. IInv => BlocksPartitionHalf
  <2> SUFFICES ASSUME IInv PROVE BlocksPartitionHalf
    OBVIOUS
  <2> DEFINE hi == base1_ + memory_size1_
  <2>1. base1_ \in Nat /\ hi \in Nat /\ memory_size1_ \in Nat
    BY HalvesFacts DEF IInv
  <2>2. /\ FreeSound(free_blocks_, base1_, hi, {})
        /\ TableSound(pointers_, free_blocks_, base1_, hi)
        /\ Covered(pointers_, free_blocks_, base1_, hi)
    BY DEF IInv, MemorySound
  <2> HIDE DEF hi
  <2>3. /\ Len(free_blocks_) \in Nat /\ DOMAIN free_blocks_ = 1 .. Len(free_blocks_)
        /\ \A i \in 1 .. Len(free_blocks_) : free_blocks_[i] \in BlockType
    BY <2>2, ElementOfSeq, LenProperties DEF FreeSound
  <2>4. \A b \in BlockType : /\ b.begin \in Nat /\ getEnd(b) \in Nat
                             /\ \A a \in Int : a \in Cells(b) <=> b.begin <= a /\ a < getEnd(b)
    BY BlockFacts DEF Cells
  <2>5. \A b \in BlockType : Within(b, base1_, hi) => Cells(b) \subseteq Half
    BY <2>1, <2>4 DEF Cells, Half, Within, hi
  <2>6. ASSUME NEW a \in Half
        PROVE  Cardinality(FreeAt(a)) + Cardinality(LiveAt(a)) = 1
    <3>0. a \in Int /\ a \in base1_ .. hi - 1
      BY <2>1 DEF Half, hi
    <3>1. \A i, j \in FreeAt(a) : i = j
      <4> SUFFICES ASSUME NEW i \in FreeAt(a), NEW j \in FreeAt(a), i < j
                   PROVE  FALSE
        BY <2>3 DEF FreeAt
      <4>1. /\ i \in 1 .. Len(free_blocks_) /\ j \in 1 .. Len(free_blocks_)
            /\ a \in Cells(free_blocks_[i]) /\ a \in Cells(free_blocks_[j])
        BY <2>3 DEF FreeAt
      <4>2. getEnd(free_blocks_[i]) < free_blocks_[j].begin
        BY <2>2, <4>1 DEF FreeSound, LooseAt
      <4>3. a < getEnd(free_blocks_[i]) /\ free_blocks_[j].begin <= a
        BY <2>3, <2>4, <3>0, <4>1
      <4>4. getEnd(free_blocks_[i]) \in Nat /\ free_blocks_[j].begin \in Nat
        BY <2>3, <2>4, <4>1
      <4> QED
        BY <3>0, <4>2, <4>3, <4>4
    <3>2. \A b, c \in BlockType : Disjoint(b, c) => ~ (a \in Cells(b) /\ a \in Cells(c))
      BY <2>4, <3>0 DEF Disjoint
    <3>3. \A id, jd \in LiveAt(a) : id = jd
      BY <2>2, <3>2 DEF LiveAt, TableSound
    <3>4. FreeAt(a) = {} \/ LiveAt(a) = {}
      BY <2>2, <2>3, <3>2 DEF FreeAt, LiveAt, TableSound, ApartFrom
    <3>5. FreeAt(a) # {} \/ LiveAt(a) # {}
      BY <2>2, <2>3, <3>0 DEF FreeAt, LiveAt, Covered, InFree
    <3>6. \A S : S # {} /\ (\A x, y \in S : x = y) => Cardinality(S) = 1
      <4> SUFFICES ASSUME NEW S, NEW x \in S, \A y, z \in S : y = z
                   PROVE  Cardinality(S) = 1
        OBVIOUS
      <4>1. S = {x}
        OBVIOUS
      <4> QED
        BY <4>1, FS_Singleton
    <3>7. CASE FreeAt(a) # {}
      <4>1. Cardinality(FreeAt(a)) = 1
        BY <3>1, <3>6, <3>7
      <4>2. Cardinality(LiveAt(a)) = 0
        BY <3>4, <3>7, FS_EmptySet
      <4> QED
        BY <4>1, <4>2
    <3>8. CASE LiveAt(a) # {}
      <4>1. Cardinality(LiveAt(a)) = 1
        BY <3>3, <3>6, <3>8
      <4>2. Cardinality(FreeAt(a)) = 0
        BY <3>4, <3>8, FS_EmptySet
      <4> QED
        BY <4>1, <4>2
    <3> QED
      BY <3>5, <3>7, <3>8
  <2>7. \A i \in DOMAIN free_blocks_ : Cells(free_blocks_[i]) \subseteq Half
    BY <2>2, <2>3, <2>5 DEF FreeSound
  <2>8. \A id \in DOMAIN pointers_ : Cells(pointers_[id]) \subseteq Half
    BY <2>2, <2>5 DEF TableSound
  <2> QED
    BY <2>6, <2>7, <2>8 DEF BlocksPartitionHalf
<1> QED
  BY <1>1, Invariance, PTL

(* alloc throws NoMemory only when every run of N bytes of the half leaves *)
(* it or meets a live block: neighbours of the free list are never left    *)
(* unjoined, whatever the history.                                         *)
THEOREM NoMemoryIsReal ==
  ASSUME EvenSize
  PROVE  Spec => NoMemoryMeansNoRoom
<1> DEFINE A == \A h \in Handles, N \in Requests :
                  thrown' = "NoMemory" /\ alloc(h, N) =>
                    \A a \in Half : \E x \in a .. a + N - 1 : x \notin Half \/ LiveAt(x) # {}
<1>1. IInv => A
  <2> SUFFICES ASSUME IInv, NEW h \in Handles, NEW N \in Requests,
                      thrown' = "NoMemory", alloc(h, N),
                      NEW a \in Half,
                      \A x \in a .. a + N - 1 : x \in Half /\ LiveAt(x) = {}
               PROVE  FALSE
    OBVIOUS
  <2> DEFINE hi == base1_ + memory_size1_
             fl == free_blocks_
  <2>1. base1_ \in Nat /\ hi \in Nat /\ memory_size1_ \in Nat /\ Half = base1_ .. hi - 1
    BY HalvesFacts DEF IInv, Half
  <2>2. /\ FreeSound(fl, base1_, hi, {})
        /\ Covered(pointers_, fl, base1_, hi)
    BY DEF IInv, MemorySound
  <2> HIDE DEF hi
  <2>3. /\ Len(fl) \in Nat /\ DOMAIN fl = 1 .. Len(fl)
        /\ \A i \in 1 .. Len(fl) : fl[i] \in BlockType
    BY <2>2, ElementOfSeq, LenProperties DEF FreeSound
  <2>4. \A i \in 1 .. Len(fl) : /\ fl[i].begin \in Nat /\ fl[i].size \in Nat /\ getEnd(fl[i]) \in Nat
                                /\ getEnd(fl[i]) = fl[i].begin + fl[i].size
    BY <2>3, BlockFacts
  <2>5. N \in Nat /\ N > 0 /\ \A i \in 1 .. Len(fl) : fl[i].size < N
    BY <2>3, ConstantsAssumption DEF alloc, AllocFrom
  <2>6. ASSUME NEW x \in a .. a + N - 1
        PROVE  \E i \in 1 .. Len(fl) : fl[i].begin <= x /\ x < getEnd(fl[i])
    <3>1. x \in Half /\ LiveAt(x) = {}
      OBVIOUS
    <3>2. InFree(x, fl)
      BY <2>1, <2>2, <3>1 DEF Covered, LiveAt
    <3>3. PICK i \in 1 .. Len(fl) : x \in Cells(fl[i])
      BY <3>2 DEF InFree
    <3> QED
      BY <2>4, <3>3 DEF Cells
  <2>7. a \in Int /\ a \in a .. a + N - 1
    BY <2>1, <2>5
  <2>8. PICK i \in 1 .. Len(fl) : fl[i].begin <= a /\ a < getEnd(fl[i])
    BY <2>6, <2>7
  <2> DEFINE e == getEnd(fl[i])
  <2>9. e \in a .. a + N - 1
    <3>1. /\ fl[i].begin \in Nat /\ fl[i].size \in Nat /\ e \in Nat
          /\ e = fl[i].begin + fl[i].size /\ fl[i].size < N
      BY <2>4, <2>5
    <3> HIDE DEF e
    <3> QED
      BY <2>5, <2>7, <2>8, <3>1 DEF e
  <2>10. PICK j \in 1 .. Len(fl) : fl[j].begin <= e /\ e < getEnd(fl[j])
    BY <2>6, <2>9
  <2>11. /\ fl[i].begin \in Nat /\ e \in Nat /\ fl[j].begin \in Nat /\ getEnd(fl[j]) \in Nat
    BY <2>4
  <2>12. i < j => e < fl[j].begin
    BY <2>2 DEF FreeSound, LooseAt
  <2>13. j < i => getEnd(fl[j]) < fl[i].begin
    BY <2>2 DEF FreeSound, LooseAt
  <2>14. i < j \/ j < i \/ i = j
    OBVIOUS
  <2> HIDE DEF e
  <2> QED
    BY <2>7, <2>8, <2>10, <2>11, <2>12, <2>13, <2>14 DEF e
<1>2. IInv => [A]_vars
  BY <1>1
<1> HIDE DEF A
<1>3. Spec => [][A]_vars
  BY <1>2, Invariance, PTL
<1> QED
  BY <1>3 DEF NoMemoryMeansNoRoom, A

(* defrag leaves one free block, of all the memory that is not live.       *)
THEOREM DefragGathers ==
  ASSUME EvenSize
  PROVE  Spec => DefragGathersFree
<1> DEFINE A == base1_' # base1_ =>
                  /\ Len(free_blocks_') = 1
                  /\ free_blocks_'[1].size = memory_size1_' - Cardinality(BytesOf(DOMAIN pointers_))'
<1>1. IInv /\ [Next]_vars => A
  <2> SUFFICES ASSUME IInv, [Next]_vars, base1_' # base1_
               PROVE  /\ Len(free_blocks_') = 1
                      /\ free_blocks_'[1].size = memory_size1_' - Cardinality(BytesOf(DOMAIN pointers_))'
    OBVIOUS
  <2>1. defrag
    BY DEF Next, vars, halves, alloc, free, realloc, write, copy
  <2>2. /\ free_blocks_' = Compacted(AllBytes) /\ memory_size1_' = memory_size2_
        /\ pointers_' = temp_pointers
    BY <2>1 DEF defrag, AllBytes, temp_pointers
  <2>3. /\ DOMAIN pointers_' = DOMAIN pointers_
        /\ \A id \in DOMAIN pointers_ : pointers_'[id].size = pointers_[id].size
    BY <2>2 DEF temp_pointers, Block
  <2>4. Cardinality(BytesOf(DOMAIN pointers_))' = AllBytes
    BY <2>3 DEF AllBytes, BytesOf
  <2>5. AllBytes <= memory_size2_
    <3>1. /\ base1_ \in Nat /\ base1_ + memory_size1_ \in Nat /\ base1_ <= base1_ + memory_size1_
          /\ memory_size2_ = (base1_ + memory_size1_) - base1_
      BY HalvesFacts DEF IInv
    <3>2. TableSound(pointers_, free_blocks_, base1_, base1_ + memory_size1_)
      BY DEF IInv, MemorySound
    <3> QED
      BY <3>1, <3>2, BytesFit
  <2> QED
    BY <2>2, <2>4, <2>5 DEF Compacted, SubSizeT, Block
<1>2. IInv /\ [Next]_vars => [A]_vars
  BY <1>1
<1> HIDE DEF A
<1>3. Spec => [][A]_vars
  BY <1>2, Invariance, PTL DEF Spec
<1> QED
  BY <1>3 DEF DefragGathersFree, A
=============================================================================
