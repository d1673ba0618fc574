----------------------------- MODULE Allocator ------------------------------
(***************************************************************************)
(* p1/allocator.{h,cpp}: a first-fit allocator with handles over half of a *)
(* caller's buffer.  base1_ is the half blocks live in, base2_ the other   *)
(* half: scratch for realloc, and the half defrag copies every block to    *)
(* before it swaps the two.  One thread; each call is one action.          *)
(*                                                                         *)
(* pointers_[id] is the block of a live id; a Pointer is modelled by its   *)
(* id, and Pointer() by Null.  Addresses start at Base = 1, so that 0 is   *)
(* nullptr.                                                                *)
(***************************************************************************)
EXTENDS Integers, Sequences, SequencesExt, FiniteSets

CONSTANTS
  Size,      \* the size given to Allocator::Allocator
  SizeMod,   \* 2^w, the number of values of a size_t
  Requests,  \* the N of alloc and realloc
  Handles,   \* the client's Pointer variables
  Data,      \* the values of a byte
  MaxId      \* bound: how many blocks are ever given out

ASSUME ConstantsAssumption ==
  /\ Size \in Nat /\ SizeMod \in Nat /\ MaxId \in Nat
  /\ Requests \subseteq Nat
  /\ Data # {}

VARIABLES
  free_blocks_, pointers_,
  base1_, base2_, memory_size1_, memory_size2_,
  pointer_id_,
  mem,       \* the buffer's bytes
  handle,    \* Handles -> id_ of the Pointer
  thrown     \* the AllocErrorType the last call threw, or "none"

halves == <<base1_, base2_, memory_size1_, memory_size2_>>
vars == <<free_blocks_, pointers_, halves, pointer_id_, mem, handle, thrown>>

Base == 1
Null == 0
Arena == Base .. Base + Size - 1

Block(b, s) == [begin |-> b, size |-> s]
getEnd(b) == b.begin + b.size
Cells(b) == b.begin .. getEnd(b) - 1

(* size_t subtraction wraps. *)
SubSizeT(a, b) == IF b <= a THEN a - b ELSE a - b + SizeMod

-----------------------------------------------------------------------------
(* The free list, as functions of the list and a position in it. *)

splitBlock_KeepsSize(fl, i, N) ==            \* mutant: the rest keeps its old size
  IF fl[i].size = N THEN RemoveAt(fl, i)
  ELSE [fl EXCEPT ![i] = Block(@.begin + N, @.size)]

(* Cut N bytes off the front of block i; a block cut to nothing goes. *)
splitBlock(fl, i, N) ==
  IF fl[i].size = N THEN RemoveAt(fl, i)
  ELSE [fl EXCEPT ![i] = Block(@.begin + N, @.size - N)]

findNearestFreeBlock_AtEnd(fl, b) ==         \* mutant: the list is not kept in order
  Len(fl) + 1

(* The first free block after b, else the end of the list. *)
findNearestFreeBlock(fl, b) ==
  IF \E i \in DOMAIN fl : getEnd(b) <= fl[i].begin
  THEN CHOOSE i \in DOMAIN fl : /\ getEnd(b) <= fl[i].begin
                                /\ \A j \in 1 .. i - 1 : fl[j].begin < getEnd(b)
  ELSE Len(fl) + 1

merge2Blocks_NoExtend(fl, i) ==              \* mutant: extendBlock is forgotten
  RemoveAt(fl, i + 1)

(* Block i absorbs block i+1. *)
merge2Blocks(fl, i) ==
  LET grown == [fl EXCEPT ![i] = Block(@.begin, @.size + fl[i + 1].size)]
  IN RemoveAt(grown, i + 1)

(* Blocks i and i+1 become one if they touch.  When i is last the code     *)
(* reads the list's end node as if it were a block and compares its word   *)
(* with an address: in the list of libstdc++ that word is the length,      *)
(* which is no address of the buffer, so nothing is merged.                *)
Join(fl, i) ==
  IF i \in 1 .. Len(fl) - 1 /\ getEnd(fl[i]) = fl[i + 1].begin
  THEN merge2Blocks(fl, i) ELSE fl

mergeBlocks_RightOnly(fl, i) ==              \* mutant: the block before is not looked at
  Join(fl, i)

mergeBlocks(fl, i) == Join(Join(fl, i), i - 1)

(* What free(p) does to the list: addFreeBlock (which inserts no empty     *)
(* block), then mergeBlocks.                                               *)
Released(fl, b) ==
  LET i == findNearestFreeBlock(fl, b)
  IN IF b.size = 0 THEN mergeBlocks(fl, 1)
     ELSE mergeBlocks(InsertAt(fl, i, b), i)

IsFirstFit(fl, i, N) ==
  /\ fl[i].size >= N
  /\ \A j \in 1 .. i - 1 : fl[j].size < N

-----------------------------------------------------------------------------
Live(h) == handle[h] \in DOMAIN pointers_      \* p.get() != nullptr
BlockOf(h) == pointers_[handle[h]]

Without(f, x) == [y \in DOMAIN f \ {x} |-> f[y]]

Memcpy_OneShort(m, dst, src, n) ==           \* mutant: the last byte is not copied
  [a \in DOMAIN m |-> IF a \in dst .. dst + n - 2 THEN m[src + (a - dst)] ELSE m[a]]

(* memcpy between ranges that do not overlap. *)
Memcpy(m, dst, src, n) ==
  [a \in DOMAIN m |-> IF a \in dst .. dst + n - 1 THEN m[src + (a - dst)] ELSE m[a]]

Init ==
  /\ free_blocks_ = <<Block(Base, Size \div 2)>>
  /\ pointers_ = [id \in {} |-> {}]
  /\ base1_ = Base /\ base2_ = Base + Size \div 2
  /\ memory_size1_ = Size \div 2 /\ memory_size2_ = Size - Size \div 2
  /\ pointer_id_ = 1
  /\ mem \in [Arena -> Data] /\ \A a, b \in Arena : mem[a] = mem[b]
  /\ handle = [h \in Handles |-> Null]
  /\ thrown = "none"

(* alloc(N), its result assigned to h, on the list fl and the table ptrs.   *)
(* When it throws nothing is assigned and h is what the caller left in it.  *)
AllocFrom(fl, ptrs, h, left, N) ==
  \/ /\ N = 0
     /\ free_blocks_' = fl /\ pointers_' = ptrs
     /\ handle' = [handle EXCEPT ![h] = Null]
     /\ thrown' = "none"
     /\ UNCHANGED pointer_id_
  \/ \E i \in DOMAIN fl :
     /\ N > 0 /\ IsFirstFit(fl, i, N)
     /\ free_blocks_' = splitBlock(fl, i, N)
     /\ pointers_' = [id \in DOMAIN ptrs \cup {pointer_id_} |->
                        IF id = pointer_id_ THEN Block(fl[i].begin, N) ELSE ptrs[id]]
     /\ pointer_id_' = pointer_id_ + 1
     /\ handle' = [handle EXCEPT ![h] = pointer_id_]
     /\ thrown' = "none"
  \/ /\ N > 0 /\ \A i \in DOMAIN fl : fl[i].size < N
     /\ free_blocks_' = fl /\ pointers_' = ptrs
     /\ handle' = [handle EXCEPT ![h] = left]
     /\ thrown' = "NoMemory"
     /\ UNCHANGED pointer_id_

alloc(h, N) ==
  /\ pointer_id_ <= MaxId
  /\ AllocFrom(free_blocks_, pointers_, h, handle[h], N)
  /\ UNCHANGED <<halves, mem>>

free(h) ==
  /\ thrown' = "none"
  /\ IF Live(h)
     THEN /\ free_blocks_' = Released(free_blocks_, BlockOf(h))
          /\ pointers_' = Without(pointers_, handle[h])
          /\ handle' = [handle EXCEPT ![h] = Null]
     ELSE UNCHANGED <<free_blocks_, pointers_, handle>>
  /\ UNCHANGED <<halves, pointer_id_, mem>>

(* The old block is saved in the scratch half and freed before the new one *)
(* is looked for, so a realloc that throws has lost the block.             *)
realloc(h, N) ==
  /\ pointer_id_ <= MaxId
  /\ IF Live(h)
     THEN LET old == BlockOf(h)
              saved == Memcpy(mem, base2_, old.begin, old.size)
              kept == IF old.size <= N THEN old.size ELSE N
          IN /\ AllocFrom(Released(free_blocks_, old), Without(pointers_, handle[h]), h, Null, N)
             /\ mem' = IF handle'[h] = Null THEN saved
                       ELSE Memcpy(saved, pointers_'[handle'[h]].begin, base2_, kept)
     ELSE /\ AllocFrom(free_blocks_, pointers_, h, handle[h], N)
          /\ UNCHANGED mem
  /\ UNCHANGED halves

(* The bytes of the blocks of ids, told apart by block and offset. *)
BytesOf(ids) == UNION {{id} \X (0 .. pointers_[id].size - 1) : id \in ids}

(* Where defrag puts block id: after the blocks with a smaller id. *)
NewBegin(id) == base2_ + Cardinality(BytesOf({j \in DOMAIN pointers_ : j < id}))

Compacted_NotCleared(all_size) ==            \* mutant: free_blocks_.clear() is forgotten
  Append(free_blocks_, Block(base2_ + all_size, SubSizeT(memory_size2_, all_size)))

(* The free list defrag leaves: all that follows the blocks. *)
Compacted(all_size) ==
  <<Block(base2_ + all_size, SubSizeT(memory_size2_, all_size))>>

defrag ==
  LET all_size == Cardinality(BytesOf(DOMAIN pointers_))
      temp_pointers == [id \in DOMAIN pointers_ |-> Block(NewBegin(id), pointers_[id].size)]
      Lands(a) == {id \in DOMAIN pointers_ : a \in Cells(temp_pointers[id])}
      From(id, a) == pointers_[id].begin + (a - temp_pointers[id].begin)
  IN /\ mem' = [a \in Arena |-> IF Lands(a) = {} THEN mem[a]
                                ELSE mem[From(CHOOSE id \in Lands(a) : TRUE, a)]]
     /\ free_blocks_' = Compacted(all_size)
     /\ pointers_' = temp_pointers
     /\ base1_' = base2_ /\ base2_' = base1_
     /\ memory_size1_' = memory_size2_ /\ memory_size2_' = memory_size1_
     /\ thrown' = "none"
     /\ UNCHANGED <<pointer_id_, handle>>

-----------------------------------------------------------------------------
(* The client: it stores through p.get(), and copies Pointer objects. *)

write(h, i, d) ==
  /\ Live(h) /\ i \in 0 .. BlockOf(h).size - 1
  /\ mem' = [mem EXCEPT ![BlockOf(h).begin + i] = d]
  /\ UNCHANGED <<free_blocks_, pointers_, halves, pointer_id_, handle, thrown>>

copy(h, g) ==
  /\ handle' = [handle EXCEPT ![g] = handle[h]]
  /\ UNCHANGED <<free_blocks_, pointers_, halves, pointer_id_, mem, thrown>>

Next ==
  \/ \E h \in Handles, N \in Requests : alloc(h, N)
  \/ \E h \in Handles : free(h)
  \/ \E h \in Handles, N \in Requests : realloc(h, N)
  \/ defrag
  \/ \E h \in Handles, i \in 0 .. Size - 1, d \in Data : write(h, i, d)
  \/ \E h, g \in Handles : copy(h, g)

Spec == Init /\ [][Next]_vars

-----------------------------------------------------------------------------
BlockType == [begin : Base .. Base + Size, size : 0 .. Size]

(* The variables keep their types; a Pointer holds an id that was given    *)
(* out, or none, and every live id was given out.                          *)
TypeOK ==
  /\ free_blocks_ \in Seq(BlockType)
  /\ DOMAIN pointers_ \subseteq 1 .. pointer_id_ - 1
  /\ \A id \in DOMAIN pointers_ : pointers_[id] \in BlockType /\ pointers_[id].size > 0
  /\ base1_ \in Base .. Base + Size /\ base2_ \in Base .. Base + Size
  /\ memory_size1_ \in 0 .. Size /\ memory_size2_ \in 0 .. Size
  /\ pointer_id_ \in 1 .. MaxId + 1
  /\ mem \in [Arena -> Data]
  /\ handle \in [Handles -> 0 .. pointer_id_ - 1]
  /\ thrown \in {"none", "NoMemory"}

Half == base1_ .. base1_ + memory_size1_ - 1

FreeAt(a) == {i \in DOMAIN free_blocks_ : a \in Cells(free_blocks_[i])}
LiveAt(a) == {id \in DOMAIN pointers_ : a \in Cells(pointers_[id])}

(* Every byte of the half in use belongs to one block, free or live, and   *)
(* no block holds a byte outside it: no two blocks overlap and, whatever   *)
(* the order of splits and merges, no byte is leaked.                      *)
BlocksPartitionHalf ==
  /\ \A a \in Half : Cardinality(FreeAt(a)) + Cardinality(LiveAt(a)) = 1
  /\ \A i \in DOMAIN free_blocks_ : Cells(free_blocks_[i]) \subseteq Half
  /\ \A id \in DOMAIN pointers_ : Cells(pointers_[id]) \subseteq Half

(* What the test AllocInRange says: a block given to the client lies in    *)
(* the buffer.                                                             *)
AllocInRange ==
  \A id \in DOMAIN pointers_ : Cells(pointers_[id]) \subseteq Arena

(* alloc throws NoMemory only when no N bytes in a row are free: free      *)
(* neighbours never stay apart in the list.                                *)
NoMemoryMeansNoRoom ==
  [][\A h \in Handles, N \in Requests :
       thrown' = "NoMemory" /\ alloc(h, N) =>
         \A a \in Half : \E x \in a .. a + N - 1 : x \notin Half \/ LiveAt(x) # {}]_vars

(* The bytes a block could have without moving. *)
RoomAt(b) ==
  b.size + LET next == {i \in DOMAIN free_blocks_ : free_blocks_[i].begin = getEnd(b)}
           IN IF next = {} THEN 0 ELSE free_blocks_[CHOOSE i \in next : TRUE].size

(* A realloc that fits where the block is (shrinking, or growing into the  *)
(* free block after it) never throws, though it frees the block first, and *)
(* never moves it up: the tests ReallocGrowInplace and ReallocShrink, in   *)
(* every state.                                                            *)
ReallocUsesOwnRoom ==
  [][\A h \in Handles, N \in Requests :
       Live(h) /\ N \in 1 .. RoomAt(BlockOf(h)) /\ realloc(h, N) =>
         /\ thrown' = "none"
         /\ pointers_'[handle'[h]].begin <= BlockOf(h).begin]_vars

(* After defrag, which swaps the halves, all memory that is not live is    *)
(* one free block, so a request that fits it is served: the test           *)
(* DefragAvailable.                                                        *)
DefragGathersFree ==
  [][base1_' # base1_ =>
       /\ Len(free_blocks_') = 1
       /\ free_blocks_'[1].size = memory_size1_' - Cardinality(BytesOf(DOMAIN pointers_))']_vars

Contents ==
  [id \in DOMAIN pointers_ |->
     [i \in 0 .. pointers_[id].size - 1 |-> mem[pointers_[id].begin + i]]]

H == INSTANCE Heap WITH Ids <- 1 .. MaxId, blocks <- Contents, used <- 1 .. pointer_id_ - 1

(* Through splits, merges, moves and copies a block's bytes change only    *)
(* when the client stores through a handle to it, and a handle to a freed  *)
(* block never comes to name another: the allocator is a Heap.             *)
ImplementsHeap == H!Spec
=============================================================================
