----------------------------- MODULE HeapProofs -----------------------------
(***************************************************************************)
(* That the allocator is a Heap, for every even size, every set of         *)
(* requests and any number of handles; and that realloc uses the room it   *)
(* has just freed.                                                         *)
(*                                                                         *)
(* The invariant of AllocatorProofs says where the blocks are; the step    *)
(* from there to what is in them is that no copy of bytes writes into a    *)
(* block it is not meant for, as blocks lie apart and the scratch half     *)
(* beside the half in use.                                                 *)
(***************************************************************************)
EXTENDS AllocatorProofs

(* The halves lie beside each other. *)
LEMMA HalvesApart ==
  ASSUME EvenSize, HalvesSound
  PROVE  base1_ + memory_size1_ <= base2_ \/ base2_ + memory_size2_ <= base1_
<1> DEFINE n == Size \div 2
<1>1. n \in Nat
  BY ConstantsAssumption
<1> HIDE DEF n
<1> QED
  BY <1>1 DEF HalvesSound, Base, n

(* HalvesFacts, of the state after a step. *)
LEMMA HalvesPrimed ==
  ASSUME EvenSize, HalvesSound'
  PROVE  /\ base1_' \in Nat /\ base1_' + memory_size1_' \in Nat
         /\ Base <= base1_' /\ base1_' + memory_size1_' <= Base + Size
<1> DEFINE n == Size \div 2
<1>1. n \in Nat /\ Size = n + n
  BY ConstantsAssumption DEF EvenSize
<1> HIDE DEF n
<1>2. /\ memory_size1_' = n
      /\ base1_' = 1 \/ base1_' = 1 + n
  BY DEF HalvesSound, Base, n
<1> QED
  BY <1>1, <1>2 DEF Base

(* The bytes of a live block are bytes. *)
LEMMA BytesAreData ==
  ASSUME NEW ptrs, NEW fl, NEW lo \in Nat, NEW hi \in Nat, Base <= lo, hi <= Base + Size,
         TableSound(ptrs, fl, lo, hi), NEW m \in [Arena -> Data],
         NEW id \in DOMAIN ptrs, NEW i \in 0 .. ptrs[id].size - 1
  PROVE  m[ptrs[id].begin + i] \in Data
<1>1. ptrs[id] \in BlockType /\ Within(ptrs[id], lo, hi)
  BY DEF TableSound
<1>2. ptrs[id].begin + i \in Arena
  BY <1>1, BlockFacts, ConstantsAssumption DEF Within, Arena, Base
<1> QED
  BY <1>2

(* What the refinement mapping says of a block. *)
LEMMA ContentsOf ==
  /\ DOMAIN Contents = DOMAIN pointers_
  /\ \A id \in DOMAIN pointers_ :
       /\ DOMAIN Contents[id] = 0 .. pointers_[id].size - 1
       /\ \A i \in 0 .. pointers_[id].size - 1 : Contents[id][i] = mem[pointers_[id].begin + i]
  BY DEF Contents

(* A block keeps its contents when its bytes are where it is now. *)
LEMMA SameContents ==
  ASSUME NEW id, id \in DOMAIN pointers_, id \in DOMAIN pointers_',
         pointers_'[id].size = pointers_[id].size,
         \A i \in 0 .. pointers_[id].size - 1 :
           mem'[pointers_'[id].begin + i] = mem[pointers_[id].begin + i]
  PROVE  Contents'[id] = Contents[id]
  BY DEF Contents

(* The three ends of alloc: nothing asked for, a block given, no room.      *)
LEMMA AllocFromCases ==
  ASSUME NEW fl, NEW ptrs, NEW h, NEW left, NEW N,
         AllocFrom(fl, ptrs, h, left, N), pointer_id_ \notin DOMAIN ptrs
  PROVE  \/ /\ N = 0 /\ pointers_' = ptrs /\ pointer_id_' = pointer_id_
            /\ handle' = [handle EXCEPT ![h] = Null] /\ thrown' = "none"
         \/ /\ N > 0 /\ DOMAIN pointers_' = DOMAIN ptrs \cup {pointer_id_}
            /\ pointers_'[pointer_id_].size = N
            /\ \A id \in DOMAIN ptrs : pointers_'[id] = ptrs[id]
            /\ pointer_id_' = pointer_id_ + 1
            /\ handle' = [handle EXCEPT ![h] = pointer_id_] /\ thrown' = "none"
         \/ /\ N > 0 /\ pointers_' = ptrs /\ pointer_id_' = pointer_id_
            /\ handle' = [handle EXCEPT ![h] = left] /\ thrown' = "NoMemory"
  BY DEF AllocFrom, Block

(* alloc, on whatever list and table it starts from, does what Heap says,  *)
(* as long as the blocks of that table keep their contents.                *)
LEMMA AllocFromRefines ==
  ASSUME EvenSize, IInv, IInv', NEW h \in Handles, NEW N \in Requests,
         NEW fl, NEW ptrs, NEW left, pointer_id_ \in 1 .. MaxId,
         DOMAIN ptrs \subseteq DOMAIN pointers_,
         AllocFrom(fl, ptrs, h, left, N),
         \A id \in DOMAIN ptrs : Contents'[id] = Contents[id]
  PROVE  \/ N = 0 /\ H!Leave(h, Null, DOMAIN ptrs, "none")
         \/ /\ N > 0 /\ H!Give(h, N, DOMAIN ptrs)
            /\ handle'[h] = pointer_id_ /\ pointer_id_ \in DOMAIN pointers_'
            /\ pointers_'[pointer_id_].size = N
         \/ N > 0 /\ H!Leave(h, left, DOMAIN ptrs, "NoMemory")
<1>1. /\ DOMAIN pointers_ \subseteq 1 .. pointer_id_ - 1 /\ pointer_id_ \in Nat
      /\ handle \in [Handles -> 0 .. pointer_id_ - 1]
  BY ConstantsAssumption DEF IInv, ClientSound
<1>2. pointer_id_ \notin DOMAIN ptrs
  BY <1>1
<1>3. DOMAIN Contents' = DOMAIN pointers_'
  BY DEF Contents
<1>4. CASE /\ N = 0 /\ pointers_' = ptrs /\ pointer_id_' = pointer_id_
           /\ handle' = [handle EXCEPT ![h] = Null] /\ thrown' = "none"
  BY <1>3, <1>4 DEF H!Leave
<1>5. CASE /\ N > 0 /\ DOMAIN pointers_' = DOMAIN ptrs \cup {pointer_id_}
           /\ pointers_'[pointer_id_].size = N
           /\ \A id \in DOMAIN ptrs : pointers_'[id] = ptrs[id]
           /\ pointer_id_' = pointer_id_ + 1
           /\ handle' = [handle EXCEPT ![h] = pointer_id_] /\ thrown' = "none"
  <2>1. pointer_id_ \in (1 .. MaxId) \ (1 .. pointer_id_ - 1)
    BY <1>1
  <2>2. 1 .. pointer_id_' - 1 = (1 .. pointer_id_ - 1) \cup {pointer_id_}
    BY <1>1, <1>5
  <2>3. DOMAIN Contents'[pointer_id_] = 0 .. N - 1
    BY <1>5 DEF Contents
  <2>4. ASSUME NEW i \in 0 .. N - 1
        PROVE  Contents'[pointer_id_][i] \in Data
    <3>1. /\ base1_' \in Nat /\ base1_' + memory_size1_' \in Nat
          /\ Base <= base1_' /\ base1_' + memory_size1_' <= Base + Size
      <4>1. HalvesSound'
        BY DEF IInv
      <4> QED
        BY <4>1, HalvesPrimed
    <3>2. /\ TableSound(pointers_', free_blocks_', base1_', base1_' + memory_size1_')
          /\ mem' \in [Arena -> Data]
      BY DEF IInv, MemorySound, ClientSound
    <3>3. pointer_id_ \in DOMAIN pointers_' /\ i \in 0 .. pointers_'[pointer_id_].size - 1
      BY <1>5
    <3>4. mem'[pointers_'[pointer_id_].begin + i] \in Data
      BY <3>1, <3>2, <3>3, BytesAreData
    <3> QED
      BY <3>3, <3>4 DEF Contents
  <2>5. H!Give(h, N, DOMAIN ptrs)
    BY <1>3, <1>5, <2>1, <2>2, <2>3, <2>4 DEF H!Give
  <2> QED
    BY <1>1, <1>5, <2>5
<1>6. CASE /\ N > 0 /\ pointers_' = ptrs /\ pointer_id_' = pointer_id_
           /\ handle' = [handle EXCEPT ![h] = left] /\ thrown' = "NoMemory"
  BY <1>3, <1>6 DEF H!Leave
<1>7. \/ /\ N = 0 /\ pointers_' = ptrs /\ pointer_id_' = pointer_id_
         /\ handle' = [handle EXCEPT ![h] = Null] /\ thrown' = "none"
      \/ /\ N > 0 /\ DOMAIN pointers_' = DOMAIN ptrs \cup {pointer_id_}
         /\ pointers_'[pointer_id_].size = N
         /\ \A id \in DOMAIN ptrs : pointers_'[id] = ptrs[id]
         /\ pointer_id_' = pointer_id_ + 1
         /\ handle' = [handle EXCEPT ![h] = pointer_id_] /\ thrown' = "none"
      \/ /\ N > 0 /\ pointers_' = ptrs /\ pointer_id_' = pointer_id_
         /\ handle' = [handle EXCEPT ![h] = left] /\ thrown' = "NoMemory"
  BY <1>2, AllocFromCases, Zenon
<1> QED
  BY <1>4, <1>5, <1>6, <1>7, Zenon

-----------------------------------------------------------------------------
(* One lemma per call. *)

(* alloc writes no byte, so every block keeps its contents.                *)
LEMMA AllocRefines ==
  ASSUME EvenSize, IInv, IInv', NEW h \in Handles, NEW N \in Requests, alloc(h, N)
  PROVE  H!Alloc(h, N)
<1>1. /\ AllocFrom(free_blocks_, pointers_, h, handle[h], N)
      /\ pointer_id_ <= MaxId /\ UNCHANGED mem
  BY DEF alloc
<1>2. pointer_id_ \in 1 .. MaxId /\ pointer_id_ \notin DOMAIN pointers_
  BY <1>1, ConstantsAssumption DEF IInv, ClientSound
<1>3. \A id \in DOMAIN pointers_ : id \in DOMAIN pointers_' /\ pointers_'[id] = pointers_[id]
  BY <1>1, <1>2, AllocFromCases
<1>4. \A id \in DOMAIN pointers_ : Contents'[id] = Contents[id]
  BY <1>1, <1>3 DEF Contents
<1>5. DOMAIN Contents = DOMAIN pointers_
  BY ContentsOf
<1>6. \/ N = 0 /\ H!Leave(h, Null, DOMAIN pointers_, "none")
      \/ N > 0 /\ H!Give(h, N, DOMAIN pointers_)
      \/ N > 0 /\ H!Leave(h, handle[h], DOMAIN pointers_, "NoMemory")
  BY <1>1, <1>2, <1>4, AllocFromRefines
<1> QED
  BY <1>5, <1>6 DEF H!Alloc

(* free takes one block away and writes no byte.                           *)
LEMMA FreeRefines ==
  ASSUME EvenSize, IInv, NEW h \in Handles, free(h)
  PROVE  H!Free(h)
<1>1. DOMAIN Contents = DOMAIN pointers_ /\ DOMAIN Contents' = DOMAIN pointers_'
  BY DEF Contents
<1>2. UNCHANGED <<mem, pointer_id_>> /\ thrown' = "none"
  BY DEF free
<1>3. handle \in [Handles -> 0 .. pointer_id_ - 1]
  BY DEF IInv, ClientSound
<1>4. CASE Live(h)
  <2>1. /\ pointers_' = Without(pointers_, handle[h])
        /\ handle' = [handle EXCEPT ![h] = Null]
    BY <1>4 DEF free
  <2>2. /\ DOMAIN pointers_' = DOMAIN pointers_ \ {handle[h]}
        /\ \A id \in DOMAIN pointers_' : pointers_'[id] = pointers_[id]
    BY <2>1 DEF Without
  <2>3. \A id \in DOMAIN pointers_' : Contents'[id] = Contents[id]
    BY <1>2, <2>2 DEF Contents
  <2> QED
    BY <1>1, <1>2, <1>4, <2>1, <2>2, <2>3 DEF H!Free, H!Live, H!Leave, Live
<1>5. CASE ~Live(h)
  <2>1. UNCHANGED <<pointers_, handle>>
    BY <1>5 DEF free
  <2>2. Contents' = Contents
    BY <1>2, <2>1 DEF Contents
  <2>3. handle' = [handle EXCEPT ![h] = handle[h]]
    BY <1>3, <2>1
  <2> QED
    BY <1>1, <1>2, <1>5, <2>2, <2>3 DEF H!Free, H!Live, H!Leave, Live
<1> QED
  BY <1>4, <1>5

(* What memcpy leaves alone, and what it brings. *)
LEMMA MemcpyBytes ==
  ASSUME NEW m \in [Arena -> Data], NEW dst \in Int, NEW src \in Int, NEW n \in Nat
  PROVE  /\ \A a \in Arena : a < dst \/ dst + n <= a => Memcpy(m, dst, src, n)[a] = m[a]
         /\ \A i \in 0 .. n - 1 :
              dst + i \in Arena => Memcpy(m, dst, src, n)[dst + i] = m[src + i]
<1>1. Arena \subseteq Int /\ DOMAIN m = Arena
  BY ConstantsAssumption DEF Arena, Base
<1>2. ASSUME NEW a \in Arena, a < dst \/ dst + n <= a
      PROVE  Memcpy(m, dst, src, n)[a] = m[a]
  BY <1>1, <1>2 DEF Memcpy
<1>3. ASSUME NEW i \in 0 .. n - 1, dst + i \in Arena
      PROVE  Memcpy(m, dst, src, n)[dst + i] = m[src + i]
  <2>1. dst + i \in dst .. dst + n - 1 /\ src + ((dst + i) - dst) = src + i
    OBVIOUS
  <2> QED
    BY <1>1, <1>3, <2>1 DEF Memcpy
<1> QED
  BY <1>2, <1>3

(* The block survives realloc's two copies: into the scratch half, which   *)
(* no block is in, and from there into the new block, which no other block *)
(* meets.                                                                  *)
LEMMA ReallocKeepsBytes ==
  ASSUME EvenSize, IInv, IInv', NEW h \in Handles, NEW N \in Requests, realloc(h, N), Live(h)
  PROVE  /\ AllocFrom(Released(free_blocks_, BlockOf(h)), Without(pointers_, handle[h]), h, Null, N)
         /\ \A id \in DOMAIN pointers_ \ {handle[h]} : Contents'[id] = Contents[id]
         /\ handle'[h] = pointer_id_ /\ pointer_id_ \in DOMAIN pointers_'
              /\ pointers_'[pointer_id_].size = N =>
              \A i \in 0 .. BlockOf(h).size - 1 :
                i < N => Contents'[pointer_id_][i] = Contents[handle[h]][i]
<1> DEFINE o == handle[h]
           b == pointers_[o]
           W == Without(pointers_, o)
           saved == Memcpy(mem, base2_, b.begin, b.size)
           kept == IF b.size <= N THEN b.size ELSE N
           hi == base1_ + memory_size1_
<1>1. /\ o \in DOMAIN pointers_
      /\ AllocFrom(Released(free_blocks_, b), W, h, Null, N)
      /\ mem' = IF handle'[h] = Null THEN saved
                ELSE Memcpy(saved, pointers_'[handle'[h]].begin, base2_, kept)
  BY DEF realloc, Live, BlockOf
<1>2. /\ pointer_id_ \in 1 .. MaxId /\ DOMAIN pointers_ \subseteq 1 .. pointer_id_ - 1
      /\ handle \in [Handles -> 0 .. pointer_id_ - 1]
      /\ mem \in [Arena -> Data] /\ N \in Nat
  BY ConstantsAssumption DEF IInv, ClientSound, realloc
<1>3. /\ base1_ \in Nat /\ base2_ \in Nat /\ hi \in Nat /\ memory_size1_ \in Nat
      /\ memory_size2_ = memory_size1_
      /\ Base <= base1_ /\ hi <= Base + Size /\ Base <= base2_ /\ base2_ + memory_size2_ <= Base + Size
      /\ hi <= base2_ \/ base2_ + memory_size2_ <= base1_
  BY HalvesFacts, HalvesApart DEF IInv
<1>4. \A id \in DOMAIN pointers_ :
        /\ pointers_[id].begin \in Nat /\ pointers_[id].size \in Nat
        /\ base1_ <= pointers_[id].begin /\ pointers_[id].begin + pointers_[id].size <= hi
  BY LiveFacts
<1>5. /\ DOMAIN W = DOMAIN pointers_ \ {o}
      /\ \A id \in DOMAIN W : W[id] = pointers_[id]
  BY DEF Without
<1> HIDE DEF W
<1>6. \A id \in DOMAIN W : id \in DOMAIN pointers_' /\ pointers_'[id] = pointers_[id]
  <2>1. pointer_id_ \notin DOMAIN W
    BY <1>2, <1>5
  <2>2. \A id \in DOMAIN W : id \in DOMAIN pointers_' /\ pointers_'[id] = W[id]
    BY <1>1, <2>1, AllocFromCases
  <2> QED
    BY <1>5, <2>2
<1>7. \/ handle'[h] = Null
      \/ /\ handle'[h] = pointer_id_ /\ pointer_id_ \in DOMAIN pointers_'
         /\ pointers_'[pointer_id_].size = N
  <2>1. pointer_id_ \notin DOMAIN W
    BY <1>2, <1>5
  <2>2. \/ handle' = [handle EXCEPT ![h] = Null]
        \/ /\ handle' = [handle EXCEPT ![h] = pointer_id_]
           /\ pointer_id_ \in DOMAIN pointers_' /\ pointers_'[pointer_id_].size = N
    BY <1>1, <2>1, AllocFromCases
  <2> QED
    BY <1>2, <2>2
<1>8. /\ b.begin \in Nat /\ b.size \in Nat /\ b.size <= memory_size1_
      /\ base1_ <= b.begin /\ b.begin + b.size <= hi
  BY <1>1, <1>3, <1>4
<1>9. Arena = Base .. Base + Size - 1 /\ Size \in Nat /\ Base \in Nat
  BY ConstantsAssumption DEF Arena, Base
<1>10. /\ saved \in [Arena -> Data]
       /\ \A a \in base1_ .. hi - 1 : saved[a] = mem[a]
       /\ \A i \in 0 .. b.size - 1 : saved[base2_ + i] = mem[b.begin + i]
  <2> HIDE DEF b, hi
  <2>1. \A a \in b.begin .. b.begin + b.size - 1 : a \in Arena
    BY <1>3, <1>8, <1>9
  <2>2. saved \in [Arena -> Data]
    BY <1>2, <1>3, <1>8, <2>1, MemcpyType
  <2>3. /\ \A a \in Arena : a < base2_ \/ base2_ + b.size <= a => saved[a] = mem[a]
        /\ \A i \in 0 .. b.size - 1 :
             base2_ + i \in Arena => saved[base2_ + i] = mem[b.begin + i]
    BY <1>2, <1>3, <1>8, MemcpyBytes
  <2>4. ASSUME NEW a \in base1_ .. hi - 1
        PROVE  a \in Arena /\ (a < base2_ \/ base2_ + b.size <= a)
    BY <1>3, <1>8, <1>9
  <2>5. \A i \in 0 .. b.size - 1 : base2_ + i \in Arena
    BY <1>3, <1>8, <1>9
  <2> HIDE DEF saved
  <2> QED
    BY <2>2, <2>3, <2>4, <2>5
<1>11. kept \in Nat /\ kept <= N /\ kept <= b.size
  BY <1>2, <1>8
<1>12. ASSUME handle'[h] # Null
       PROVE  LET c == pointers_'[pointer_id_] IN
              /\ handle'[h] = pointer_id_ /\ pointer_id_ \in DOMAIN pointers_' /\ c.size = N
              /\ c.begin \in Nat /\ Base <= c.begin /\ c.begin + N <= Base + Size
              /\ \A a \in Arena : a < c.begin \/ c.begin + kept <= a => mem'[a] = saved[a]
              /\ \A i \in 0 .. kept - 1 : mem'[c.begin + i] = saved[base2_ + i]
  <2> DEFINE c == pointers_'[pointer_id_]
  <2>1. handle'[h] = pointer_id_ /\ pointer_id_ \in DOMAIN pointers_' /\ c.size = N
    BY <1>7, <1>12
  <2>2. /\ HalvesSound'
        /\ TableSound(pointers_', free_blocks_', base1_', base1_' + memory_size1_')
    BY DEF IInv, MemorySound
  <2>3. /\ base1_' \in Nat /\ base1_' + memory_size1_' \in Nat
        /\ Base <= base1_' /\ base1_' + memory_size1_' <= Base + Size
    BY <2>2, HalvesPrimed
  <2>4. c \in BlockType /\ Within(c, base1_', base1_' + memory_size1_')
    BY <2>1, <2>2 DEF TableSound
  <2> HIDE DEF c
  <2>5. c.begin \in Nat /\ Base <= c.begin /\ c.begin + N <= Base + Size
    BY <1>9, <2>1, <2>3, <2>4, BlockFacts DEF Within
  <2>6. mem' = Memcpy(saved, c.begin, base2_, kept)
    BY <1>1, <1>12, <2>1 DEF c
  <2> HIDE DEF saved, kept
  <2>7. /\ \A a \in Arena : a < c.begin \/ c.begin + kept <= a => mem'[a] = saved[a]
        /\ \A i \in 0 .. kept - 1 : c.begin + i \in Arena => mem'[c.begin + i] = saved[base2_ + i]
    <3> DEFINE dst == c.begin
    <3>1. saved \in [Arena -> Data] /\ dst \in Int /\ base2_ \in Int /\ kept \in Nat
      BY <1>3, <1>10, <1>11, <2>5
    <3>2. mem' = Memcpy(saved, dst, base2_, kept)
      BY <2>6
    <3> HIDE DEF dst
    <3>3. /\ \A a \in Arena : a < dst \/ dst + kept <= a => mem'[a] = saved[a]
          /\ \A i \in 0 .. kept - 1 : dst + i \in Arena => mem'[dst + i] = saved[base2_ + i]
      BY <3>1, <3>2, MemcpyBytes
    <3> QED
      BY <3>3 DEF dst
  <2>8. \A i \in 0 .. kept - 1 : c.begin + i \in Arena
    BY <1>2, <1>9, <1>11, <2>5
  <2> QED
    BY <2>1, <2>5, <2>7, <2>8 DEF c
<1> HIDE DEF saved, kept
<1>13. ASSUME NEW id \in DOMAIN W
       PROVE  Contents'[id] = Contents[id]
  <2>1. /\ id \in DOMAIN pointers_ /\ id \in DOMAIN pointers_' /\ pointers_'[id] = pointers_[id]
        /\ id # pointer_id_
    BY <1>2, <1>5, <1>6
  <2> DEFINE d == pointers_[id]
  <2>2. d.begin \in Nat /\ d.size \in Nat /\ base1_ <= d.begin /\ d.begin + d.size <= hi
    BY <1>4, <2>1
  <2>3. ASSUME NEW i \in 0 .. d.size - 1
        PROVE  mem'[d.begin + i] = mem[d.begin + i]
    <3> DEFINE a == d.begin + i
    <3>1. a \in base1_ .. hi - 1 /\ a \in Arena /\ a \in Nat
      <4> HIDE DEF d, hi
      <4> QED
        BY <1>3, <1>9, <2>2
    <3>2. saved[a] = mem[a]
      BY <1>10, <3>1
    <3>3. CASE handle'[h] = Null
      BY <1>1, <3>2, <3>3
    <3>4. CASE handle'[h] # Null
      <4> DEFINE c == pointers_'[pointer_id_]
      <4>1. /\ pointer_id_ \in DOMAIN pointers_' /\ c.size = N /\ c.begin \in Nat
            /\ \A x \in Arena : x < c.begin \/ c.begin + kept <= x => mem'[x] = saved[x]
        BY <1>12, <3>4
      <4>2. Disjoint(pointers_'[id], c)
        BY <2>1, <4>1 DEF IInv, MemorySound, TableSound
      <4>3. a < c.begin \/ c.begin + kept <= a
        <5> HIDE DEF c
        <5>1. d.begin + d.size <= c.begin \/ c.begin + N <= d.begin
          BY <2>1, <4>1, <4>2 DEF Disjoint, getEnd
        <5> HIDE DEF d
        <5> QED
          BY <1>2, <1>11, <2>2, <4>1, <5>1
      <4> HIDE DEF c, a
      <4>4. mem'[a] = saved[a]
        BY <3>1, <4>1, <4>3
      <4> QED
        BY <3>2, <4>4 DEF a
    <3> QED
      BY <3>3, <3>4
  <2> QED
    BY <2>1, <2>3, SameContents
<1>14. ASSUME handle'[h] = pointer_id_, pointer_id_ \in DOMAIN pointers_',
              pointers_'[pointer_id_].size = N,
              NEW i \in 0 .. b.size - 1, i < N
       PROVE  Contents'[pointer_id_][i] = Contents[o][i]
  <2>1. handle'[h] # Null
    BY <1>2, <1>14 DEF Null
  <2>2. i \in 0 .. kept - 1 /\ i \in 0 .. N - 1
    BY <1>2, <1>8, <1>14 DEF kept
  <2>3. mem'[pointers_'[pointer_id_].begin + i] = saved[base2_ + i]
    BY <1>12, <2>1, <2>2
  <2>4. saved[base2_ + i] = mem[b.begin + i]
    BY <1>10
  <2>5. Contents'[pointer_id_][i] = mem'[pointers_'[pointer_id_].begin + i]
    BY <1>14, <2>2 DEF Contents
  <2>6. Contents[o][i] = mem[b.begin + i]
    BY <1>1 DEF Contents
  <2> QED
    BY <2>3, <2>4, <2>5, <2>6
<1> QED
  BY <1>1, <1>5, <1>13, <1>14 DEF BlockOf, W

(* realloc keeps what fits of the block, or loses it when there is no room. *)
LEMMA ReallocRefines ==
  ASSUME EvenSize, IInv, IInv', NEW h \in Handles, NEW N \in Requests, realloc(h, N)
  PROVE  H!Realloc(h, N)
<1>1. pointer_id_ \in 1 .. MaxId
  BY ConstantsAssumption DEF IInv, ClientSound, realloc
<1>2. DOMAIN Contents = DOMAIN pointers_
  BY ContentsOf
<1>3. CASE Live(h)
  <2> DEFINE old == handle[h]
             W == Without(pointers_, old)
             others == DOMAIN Contents \ {old}
  <2>1. DOMAIN W = others /\ others \subseteq DOMAIN pointers_
    BY <1>2 DEF Without
  <2>2. /\ AllocFrom(Released(free_blocks_, BlockOf(h)), W, h, Null, N)
        /\ \A id \in DOMAIN W : Contents'[id] = Contents[id]
        /\ handle'[h] = pointer_id_ /\ pointer_id_ \in DOMAIN pointers_'
             /\ pointers_'[pointer_id_].size = N =>
             \A i \in 0 .. BlockOf(h).size - 1 :
               i < N => Contents'[pointer_id_][i] = Contents[old][i]
    BY <1>2, <1>3, <2>1, ReallocKeepsBytes
  <2> HIDE DEF W
  <2>3. \/ N = 0 /\ H!Leave(h, Null, DOMAIN W, "none")
        \/ /\ N > 0 /\ H!Give(h, N, DOMAIN W)
           /\ handle'[h] = pointer_id_ /\ pointer_id_ \in DOMAIN pointers_'
           /\ pointers_'[pointer_id_].size = N
        \/ N > 0 /\ H!Leave(h, Null, DOMAIN W, "NoMemory")
    BY <1>1, <2>1, <2>2, AllocFromRefines
  <2>4. DOMAIN Contents[old] = 0 .. BlockOf(h).size - 1
    BY <1>3, ContentsOf DEF Live, BlockOf
  <2>5. H!Live(h)
    BY <1>2, <1>3 DEF Live, H!Live
  <2>6. \/ N = 0 /\ H!Leave(h, Null, others, "none")
        \/ /\ N > 0 /\ H!Give(h, N, others)
           /\ \A i \in DOMAIN Contents[old] :
                i < N => Contents'[handle'[h]][i] = Contents[old][i]
        \/ N > 0 /\ H!Leave(h, Null, others, "NoMemory")
    <3>1. DOMAIN W = others
      BY <2>1
    <3> HIDE DEF others, old
    <3> QED
      BY <2>2, <2>3, <2>4, <3>1
  <2> QED
    BY <2>5, <2>6 DEF H!Realloc
<1>4. CASE ~Live(h)
  <2>1. alloc(h, N)
    BY <1>4 DEF realloc, alloc
  <2>2. H!Alloc(h, N)
    BY <2>1, AllocRefines
  <2> QED
    BY <1>2, <1>4, <2>2 DEF H!Realloc, H!Live, Live
<1> QED
  BY <1>3, <1>4

(* defrag brings every byte of a block to where the block is now, since    *)
(* the new blocks lie apart.                                               *)
LEMMA DefragRefines ==
  ASSUME EvenSize, IInv, IInv', defrag
  PROVE  H!Defrag
<1> DEFINE Lands(a) == {id \in DOMAIN pointers_ : a \in Cells(temp_pointers[id])}
           From(id, a) == pointers_[id].begin + (a - temp_pointers[id].begin)
<1>1. /\ mem' = [a \in Arena |-> IF Lands(a) = {} THEN mem[a]
                                 ELSE mem[From(CHOOSE id \in Lands(a) : TRUE, a)]]
      /\ pointers_' = temp_pointers
      /\ thrown' = "none" /\ pointer_id_' = pointer_id_ /\ handle' = handle
  BY DEF defrag, temp_pointers
<1>2. /\ DOMAIN temp_pointers = DOMAIN pointers_
      /\ \A id \in DOMAIN pointers_ : temp_pointers[id].size = pointers_[id].size
  BY DEF temp_pointers, Block
<1>3. /\ base1_' \in Nat /\ base1_' + memory_size1_' \in Nat
      /\ Base <= base1_' /\ base1_' + memory_size1_' <= Base + Size
  <2>1. HalvesSound'
    BY DEF IInv
  <2> QED
    BY <2>1, HalvesPrimed
<1>4. TableSound(temp_pointers, free_blocks_', base1_', base1_' + memory_size1_')
  BY <1>1 DEF IInv, MemorySound
<1>5. \A id \in DOMAIN pointers_ : pointers_[id].begin \in Nat /\ pointers_[id].size \in Nat
  BY LiveFacts
<1>6. \A id \in DOMAIN pointers_ :
        /\ temp_pointers[id].begin \in Nat
        /\ Cells(temp_pointers[id]) =
             temp_pointers[id].begin .. temp_pointers[id].begin + pointers_[id].size - 1
        /\ Cells(temp_pointers[id]) \subseteq Arena
  <2> SUFFICES ASSUME NEW id \in DOMAIN pointers_
               PROVE  LET t == temp_pointers[id] IN
                      /\ t.begin \in Nat
                      /\ Cells(t) = t.begin .. t.begin + pointers_[id].size - 1
                      /\ Cells(t) \subseteq Arena
    OBVIOUS
  <2> DEFINE t == temp_pointers[id]
  <2>1. t \in BlockType /\ Within(t, base1_', base1_' + memory_size1_') /\ t.size = pointers_[id].size
    BY <1>2, <1>4 DEF TableSound
  <2> HIDE DEF t
  <2>2. /\ t.begin \in Nat /\ getEnd(t) = t.begin + t.size /\ t.size \in Nat
        /\ base1_' <= t.begin /\ t.begin + t.size <= base1_' + memory_size1_'
    BY <2>1, BlockFacts DEF Within
  <2>3. Cells(t) = t.begin .. t.begin + pointers_[id].size - 1
    BY <2>1, <2>2 DEF Cells
  <2>4. Cells(t) \subseteq Arena
    BY <1>3, <2>1, <2>2, <2>3, ConstantsAssumption DEF Arena, Base
  <2> QED
    BY <2>2, <2>3, <2>4 DEF t
<1>7. ASSUME NEW id \in DOMAIN pointers_, NEW i \in 0 .. pointers_[id].size - 1
      PROVE  mem'[temp_pointers[id].begin + i] = mem[pointers_[id].begin + i]
  <2> DEFINE a == temp_pointers[id].begin + i
  <2>1. a \in Cells(temp_pointers[id]) /\ a \in Arena /\ a \in Nat
    BY <1>5, <1>6
  <2>2. Lands(a) = {id}
    <3> SUFFICES ASSUME NEW jd \in DOMAIN pointers_, a \in Cells(temp_pointers[jd]), jd # id
                 PROVE  FALSE
      BY <2>1
    <3>1. Disjoint(temp_pointers[id], temp_pointers[jd])
      BY <1>2, <1>4 DEF TableSound
    <3> DEFINE t == temp_pointers[id].begin
               u == temp_pointers[jd].begin
    <3>2. t + pointers_[id].size <= u \/ u + pointers_[jd].size <= t
      BY <1>2, <3>1 DEF Disjoint, getEnd
    <3>3. /\ t \in Nat /\ u \in Nat /\ pointers_[id].size \in Nat /\ pointers_[jd].size \in Nat
          /\ a \in t .. t + pointers_[id].size - 1 /\ a \in u .. u + pointers_[jd].size - 1
      BY <1>5, <1>6, <2>1
    <3> HIDE DEF t, u, a
    <3> QED
      BY <3>2, <3>3
  <2>3. (CHOOSE jd \in Lands(a) : TRUE) = id
    BY <2>2
  <2>4. From(id, a) = pointers_[id].begin + i
    BY <1>5, <1>6
  <2> HIDE DEF Lands, From, a
  <2>5. mem'[a] = mem[From(id, a)]
    BY <1>1, <2>1, <2>2, <2>3
  <2> QED
    BY <2>4, <2>5 DEF a
<1>8. Contents' = Contents
  <2>1. DOMAIN Contents' = DOMAIN pointers_ /\ DOMAIN Contents = DOMAIN pointers_
    BY <1>1, <1>2 DEF Contents
  <2>2. \A id \in DOMAIN pointers_ : Contents'[id] = Contents[id]
    BY <1>1, <1>2, <1>7, SameContents
  <2>3. /\ Contents = [id \in DOMAIN pointers_ |-> Contents[id]]
        /\ Contents' = [id \in DOMAIN pointers_ |-> Contents'[id]]
    BY <1>1, <1>2 DEF Contents
  <2> QED
    BY <2>2, <2>3
<1> QED
  BY <1>1, <1>8 DEF H!Defrag

(* A store changes one byte of one block. *)
LEMMA WriteRefines ==
  ASSUME EvenSize, IInv, NEW h \in Handles, NEW i \in 0 .. Size - 1, NEW d \in Data, write(h, i, d)
  PROVE  H!Live(h) /\ i \in DOMAIN Contents[handle[h]] /\ H!Write(h, i, d)
<1> DEFINE o == handle[h]
<1>1. /\ o \in DOMAIN pointers_ /\ i \in 0 .. pointers_[o].size - 1
      /\ mem' = [mem EXCEPT ![pointers_[o].begin + i] = d]
      /\ UNCHANGED <<pointers_, pointer_id_, handle, thrown>>
  BY DEF write, Live, BlockOf
<1>2. mem \in [Arena -> Data]
  BY DEF IInv, ClientSound
<1>3. \A id \in DOMAIN pointers_ : pointers_[id].begin \in Nat /\ pointers_[id].size \in Nat
  BY LiveFacts
<1>4. \A id \in DOMAIN pointers_ : \A j \in 0 .. pointers_[id].size - 1 :
        pointers_[id].begin + j \in Arena
  <2>1. /\ base1_ \in Nat /\ base1_ + memory_size1_ \in Nat
        /\ Base <= base1_ /\ base1_ + memory_size1_ <= Base + Size
    BY HalvesFacts DEF IInv
  <2>2. \A id \in DOMAIN pointers_ : /\ base1_ <= pointers_[id].begin
                                     /\ pointers_[id].begin + pointers_[id].size <= base1_ + memory_size1_
    BY LiveFacts
  <2> QED
    BY <1>3, <2>1, <2>2, ConstantsAssumption DEF Arena, Base
<1>5. ASSUME NEW id \in DOMAIN pointers_, NEW j \in 0 .. pointers_[id].size - 1
      PROVE  mem'[pointers_[id].begin + j] =
               IF id = o /\ j = i THEN d ELSE mem[pointers_[id].begin + j]
  <2>1. CASE id = o
    BY <1>1, <1>2, <1>3, <1>4, <2>1
  <2>2. CASE id # o
    <3>1. Disjoint(pointers_[id], pointers_[o])
      BY <1>1, <2>2 DEF IInv, MemorySound, TableSound
    <3>2. pointers_[id].begin + j # pointers_[o].begin + i
      BY <1>1, <1>3, <3>1 DEF Disjoint, getEnd
    <3> QED
      BY <1>1, <1>2, <1>4, <2>2, <3>2
  <2> QED
    BY <2>1, <2>2
<1> HIDE DEF o
<1>6. Contents' = [Contents EXCEPT ![o] = [@ EXCEPT ![i] = d]]
  <2>1. Contents' = [id \in DOMAIN pointers_ |->
                       [j \in 0 .. pointers_[id].size - 1 |->
                          IF id = o /\ j = i THEN d ELSE mem[pointers_[id].begin + j]]]
    BY <1>1, <1>5 DEF Contents
  <2>2. [Contents EXCEPT ![o] = [@ EXCEPT ![i] = d]]
          = [id \in DOMAIN pointers_ |->
               [j \in 0 .. pointers_[id].size - 1 |->
                  IF id = o /\ j = i THEN d ELSE mem[pointers_[id].begin + j]]]
    BY <1>1 DEF Contents
  <2> QED
    BY <2>1, <2>2
<1>7. o \in DOMAIN Contents /\ DOMAIN Contents[o] = 0 .. pointers_[o].size - 1
  BY <1>1, ContentsOf
<1> QED
  BY <1>1, <1>6, <1>7 DEF H!Live, H!Write, o

(* A Pointer that is copied changes no block.                              *)
LEMMA CopyRefines ==
  ASSUME NEW h \in Handles, NEW g \in Handles, copy(h, g)
  PROVE  H!Copy(h, g)
<1>1. Contents' = Contents
  BY DEF copy, Contents
<1> QED
  BY <1>1 DEF copy, H!Copy

(* Both begin without a block.                                             *)
LEMMA InitRefines == Init => H!Init
<1> SUFFICES ASSUME Init PROVE H!Init
  OBVIOUS
<1>1. DOMAIN pointers_ = {}
  BY DEF Init
<1>2. Contents = [id \in {} |-> {}]
  BY <1>1 DEF Contents
<1>3. 1 .. pointer_id_ - 1 = {}
  BY DEF Init
<1> QED
  BY <1>2, <1>3 DEF Init, H!Init

(* Every step is a step of a Heap, or none.                                *)
LEMMA NextRefines ==
  ASSUME EvenSize, IInv, IInv', [Next]_vars
  PROVE  [H!Next]_(H!hvars)
<1>1. ASSUME NEW h \in Handles, NEW N \in Requests, alloc(h, N)
      PROVE  H!Next
  BY <1>1, AllocRefines DEF H!Next
<1>2. ASSUME NEW h \in Handles, free(h)
      PROVE  H!Next
  BY <1>2, FreeRefines DEF H!Next
<1>3. ASSUME NEW h \in Handles, NEW N \in Requests, realloc(h, N)
      PROVE  H!Next
  BY <1>3, ReallocRefines DEF H!Next
<1>4. CASE defrag
  BY <1>4, DefragRefines DEF H!Next
<1>5. ASSUME NEW h \in Handles, NEW i \in 0 .. Size - 1, NEW d \in Data, write(h, i, d)
      PROVE  H!Next
  BY <1>5, WriteRefines DEF H!Next
<1>6. ASSUME NEW h \in Handles, NEW g \in Handles, copy(h, g)
      PROVE  H!Next
  BY <1>6, CopyRefines DEF H!Next
<1>7. CASE UNCHANGED vars
  BY <1>7 DEF vars, H!hvars, Contents
<1> QED
  BY <1>1, <1>2, <1>3, <1>4, <1>5, <1>6, <1>7 DEF Next

(* The allocator is a Heap: through any history of alloc, free, realloc    *)
(* and defrag the bytes of a block change only by a store through a handle *)
(* to it, and a handle to a freed block never names another.               *)
THEOREM AllocatorIsHeap ==
  ASSUME EvenSize
  PROVE  Spec => ImplementsHeap
<1>1. Init => H!Init
  BY InitRefines
<1>2. IInv /\ IInv' /\ [Next]_vars => [H!Next]_(H!hvars)
  BY NextRefines
<1> QED
  BY <1>1, <1>2, Invariance, PTL DEF Spec, ImplementsHeap, H!Spec

-----------------------------------------------------------------------------
(* Where realloc puts the block. *)

(* As entries of the list never touch, a run of free bytes is in one.      *)
LEMMA RunInOneBlock ==
  ASSUME NEW fl, NEW lo \in Nat, NEW hi \in Nat, FreeSound(fl, lo, hi, {}),
         NEW a \in Nat, NEW n \in Nat \ {0}, \A x \in a .. a + n - 1 : InFree(x, fl)
  PROVE  \E i \in 1 .. Len(fl) : fl[i].begin <= a /\ a + n <= fl[i].begin + fl[i].size
<1>1. Len(fl) \in Nat /\ \A i \in 1 .. Len(fl) : fl[i] \in BlockType
  BY ElementOfSeq, LenProperties DEF FreeSound
<1>2. \A i \in 1 .. Len(fl) : /\ fl[i].begin \in Nat /\ fl[i].size \in Nat
                              /\ getEnd(fl[i]) = fl[i].begin + fl[i].size
  BY <1>1, BlockFacts
<1>3. ASSUME NEW x \in a .. a + n - 1
      PROVE  \E i \in 1 .. Len(fl) : fl[i].begin <= x /\ x < fl[i].begin + fl[i].size
  <2>1. PICK i \in 1 .. Len(fl) : x \in Cells(fl[i])
    BY DEF InFree
  <2> QED
    BY <1>2, <2>1 DEF Cells
<1>4. PICK i \in 1 .. Len(fl) : fl[i].begin <= a /\ a < fl[i].begin + fl[i].size
  <2>1. a \in a .. a + n - 1
    OBVIOUS
  <2> QED
    BY <1>3, <2>1
<1>5. CASE a + n <= fl[i].begin + fl[i].size
  BY <1>4, <1>5
<1>6. CASE fl[i].begin + fl[i].size < a + n
  <2> DEFINE e == fl[i].begin + fl[i].size
  <2>1. e \in a .. a + n - 1
    BY <1>2, <1>4, <1>6
  <2>2. PICK j \in 1 .. Len(fl) : fl[j].begin <= e /\ e < fl[j].begin + fl[j].size
    BY <1>3, <2>1
  <2>3. i < j => e < fl[j].begin
    BY <1>2 DEF FreeSound, LooseAt
  <2>4. j < i => fl[j].begin + fl[j].size < fl[i].begin
    BY <1>2 DEF FreeSound, LooseAt
  <2>5. i < j \/ j < i \/ i = j
    OBVIOUS
  <2>6. CASE i = j
    <3>1. e < e /\ e \in Nat
      BY <1>2, <2>2, <2>6
    <3> HIDE DEF e
    <3> QED
      BY <3>1
  <2>7. CASE i < j
    BY <1>2, <2>2, <2>3, <2>7
  <2>8. CASE j < i
    <3> DEFINE ei == fl[i].begin
               ej == fl[j].begin + fl[j].size
    <3>1. e \in Nat /\ ei \in Nat /\ ej \in Nat
      BY <1>2
    <3>2. ei <= a /\ a < e /\ e < ej /\ ej < ei
      BY <1>4, <2>2, <2>4, <2>8
    <3> HIDE DEF e, ei, ej
    <3> QED
      BY <3>1, <3>2
  <2> QED
    BY <2>5, <2>6, <2>7, <2>8
<1>7. a + n <= fl[i].begin + fl[i].size \/ fl[i].begin + fl[i].size < a + n
  BY <1>2
<1> QED
  BY <1>5, <1>6, <1>7

(* The first entry that fits is not behind any other that does.            *)
LEMMA FirstFitIsFirst ==
  ASSUME NEW fl, NEW lo \in Nat, NEW hi \in Nat, FreeSound(fl, lo, hi, {}),
         NEW N \in Nat, NEW i \in 1 .. Len(fl), fl[i].size >= N,
         NEW j \in 1 .. Len(fl), IsFirstFit(fl, j, N)
  PROVE  fl[j].begin <= fl[i].begin
<1>1. fl[i] \in BlockType /\ fl[j] \in BlockType
  BY ElementOfSeq, LenProperties DEF FreeSound
<1>2. /\ fl[i].begin \in Nat /\ fl[j].begin \in Nat /\ fl[i].size \in Nat /\ fl[j].size \in Nat
      /\ getEnd(fl[j]) = fl[j].begin + fl[j].size
  BY <1>1, BlockFacts
<1>3. i \in Nat /\ j \in Nat
  OBVIOUS
<1>4. ~(i < j)
  <2> SUFFICES ASSUME i < j PROVE FALSE
    OBVIOUS
  <2>1. i \in 1 .. j - 1
    BY <1>3
  <2> QED
    BY <1>2, <2>1 DEF IsFirstFit
<1>5. j < i => fl[j].begin + fl[j].size <= fl[i].begin
  BY <1>2 DEF FreeSound, LooseAt
<1> QED
  BY <1>2, <1>3, <1>4, <1>5

(* All of the room of a live block is free once the block is.              *)
LEMMA RoomIsFree ==
  ASSUME EvenSize, IInv, NEW id \in DOMAIN pointers_
  PROVE  LET b == pointers_[id] IN
         /\ RoomAt(b) \in Nat
         /\ FreeSound(Released(free_blocks_, b), base1_, base1_ + memory_size1_, {})
         /\ \A x \in b.begin .. b.begin + RoomAt(b) - 1 : InFree(x, Released(free_blocks_, b))
<1> DEFINE b == pointers_[id]
           fl == free_blocks_
           R == Released(fl, b)
           lo == base1_
           hi == base1_ + memory_size1_
           next == {i \in DOMAIN fl : fl[i].begin = getEnd(b)}
<1>1. lo \in Nat /\ hi \in Nat /\ hi - lo <= Size
  BY HalvesFacts DEF IInv
<1>2. FreeSound(fl, lo, hi, {}) /\ b \in BlockType /\ b.size > 0 /\ Within(b, lo, hi) /\ ApartFrom(b, fl)
  BY DEF IInv, MemorySound, TableSound
<1>3. b.begin \in Nat /\ b.size \in Nat /\ getEnd(b) = b.begin + b.size
  BY <1>2, BlockFacts
<1> HIDE DEF b, R, lo, hi
<1>4. /\ FreeSound(R, lo, hi, {})
      /\ \A x \in Int : InFree(x, R) <=> InFree(x, fl) \/ x \in Cells(b)
  BY <1>1, <1>2, ReleasedSound DEF R
<1>5. Cells(b) = b.begin .. b.begin + b.size - 1
  BY <1>3 DEF Cells
<1>6. CASE next = {}
  <2>1. RoomAt(b) = b.size
    BY <1>3, <1>6 DEF RoomAt
  <2> QED
    BY <1>3, <1>4, <1>5, <2>1 DEF b, R, lo, hi
<1>7. CASE next # {}
  <2> DEFINE k == CHOOSE i \in next : TRUE
  <2>1. k \in DOMAIN fl /\ fl[k].begin = getEnd(b)
    BY <1>7
  <2>2. RoomAt(b) = b.size + fl[k].size
    BY <1>7 DEF RoomAt
  <2> HIDE DEF k
  <2>3. k \in 1 .. Len(fl) /\ fl[k] \in BlockType
    BY <1>2, <2>1, ElementOfSeq, LenProperties DEF FreeSound
  <2>4. fl[k].size \in Nat /\ Cells(fl[k]) = b.begin + b.size .. b.begin + b.size + fl[k].size - 1
    BY <1>3, <2>1, <2>3, BlockFacts DEF Cells
  <2>5. ASSUME NEW x \in b.begin .. b.begin + RoomAt(b) - 1
        PROVE  InFree(x, R)
    <3>1. x \in Cells(b) \/ x \in Cells(fl[k])
      BY <1>3, <1>5, <2>2, <2>4
    <3>2. x \in Cells(fl[k]) => InFree(x, fl)
      BY <2>3 DEF InFree
    <3>3. x \in Int
      BY <1>3, <2>2, <2>4
    <3> QED
      BY <1>4, <3>1, <3>2, <3>3
  <2> QED
    BY <1>3, <1>4, <2>2, <2>4, <2>5 DEF b, R, lo, hi
<1> QED
  BY <1>6, <1>7

(* A realloc that fits where the block is succeeds, and does not move the  *)
(* block up.                                                               *)
THEOREM ReallocGetsItsRoom ==
  ASSUME EvenSize
  PROVE  Spec => ReallocUsesOwnRoom
<1> DEFINE A == \A h \in Handles, N \in Requests :
                  Live(h) /\ N \in 1 .. RoomAt(BlockOf(h)) /\ realloc(h, N) =>
                    /\ thrown' = "none"
                    /\ pointers_'[handle'[h]].begin <= BlockOf(h).begin
<1>1. IInv => A
  <2> SUFFICES ASSUME IInv, NEW h \in Handles, NEW N \in Requests,
                      Live(h), N \in 1 .. RoomAt(BlockOf(h)), realloc(h, N)
               PROVE  /\ thrown' = "none"
                      /\ pointers_'[handle'[h]].begin <= BlockOf(h).begin
    OBVIOUS
  <2> DEFINE id == handle[h]
             b == pointers_[id]
             R == Released(free_blocks_, b)
  <2>1. id \in DOMAIN pointers_ /\ b = BlockOf(h) /\ AllocFrom(R, Without(pointers_, id), h, Null, N)
    BY DEF Live, BlockOf, realloc
  <2>2. /\ base1_ \in Nat /\ base1_ + memory_size1_ \in Nat
        /\ handle \in [Handles -> 0 .. pointer_id_ - 1]
    BY HalvesFacts DEF IInv, ClientSound
  <2>3. /\ RoomAt(b) \in Nat
        /\ FreeSound(R, base1_, base1_ + memory_size1_, {})
        /\ \A x \in b.begin .. b.begin + RoomAt(b) - 1 : InFree(x, R)
    BY <2>1, RoomIsFree
  <2>4. b.begin \in Nat
    BY <2>1, LiveFacts
  <2> HIDE DEF R, b, id
  <2>5. N \in Nat \ {0} /\ \A x \in b.begin .. b.begin + N - 1 : InFree(x, R)
    BY <2>1, <2>3, <2>4
  <2>6. PICK i \in 1 .. Len(R) : R[i].begin <= b.begin /\ b.begin + N <= R[i].begin + R[i].size
    BY <2>2, <2>3, <2>4, <2>5, RunInOneBlock
  <2>7. DOMAIN R = 1 .. Len(R) /\ R[i].begin \in Nat /\ R[i].size \in Nat
    <3>1. R[i] \in BlockType /\ DOMAIN R = 1 .. Len(R)
      BY <2>3, ElementOfSeq, LenProperties DEF FreeSound
    <3> QED
      BY <3>1, BlockFacts
  <2>8. R[i].size >= N
    BY <2>4, <2>5, <2>6, <2>7
  <2>9. PICK j \in DOMAIN R :
          /\ IsFirstFit(R, j, N)
          /\ pointers_'[pointer_id_] = Block(R[j].begin, N)
          /\ handle' = [handle EXCEPT ![h] = pointer_id_]
          /\ thrown' = "none"
    <3>1. N # 0 /\ ~\A k \in DOMAIN R : R[k].size < N
      BY <2>5, <2>7, <2>8
    <3> QED
      BY <2>1, <3>1 DEF AllocFrom
  <2>10. R[j].begin <= R[i].begin
    BY <2>2, <2>3, <2>5, <2>7, <2>8, <2>9, FirstFitIsFirst
  <2>11. R[j].begin \in Nat
    <3>1. R[j] \in BlockType
      BY <2>3, <2>7, <2>9, ElementOfSeq, LenProperties DEF FreeSound
    <3> QED
      BY <3>1, BlockFacts
  <2>12. pointers_'[handle'[h]].begin = R[j].begin
    BY <2>2, <2>9 DEF Block
  <2> QED
    BY <2>1, <2>4, <2>6, <2>7, <2>9, <2>10, <2>11, <2>12
<1>2. IInv => [A]_vars
  BY <1>1
<1> HIDE DEF A
<1>3. Spec => [][A]_vars
  BY <1>2, Invariance, PTL
<1> QED
  BY <1>3 DEF ReallocUsesOwnRoom, A
=============================================================================
