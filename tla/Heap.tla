-------------------------------- MODULE Heap --------------------------------
(***************************************************************************)
(* What p1/allocator promises its client, with no addresses in it: a       *)
(* handle names a block, a block is the bytes last stored in it, and       *)
(* neither moving blocks (defrag) nor any call on another block changes    *)
(* them.  An identifier is never given out twice, so a handle whose block  *)
(* was freed through a copy of it stays dead.                              *)
(***************************************************************************)
EXTENDS Naturals

CONSTANTS
  Handles,   \* the client's Pointer variables
  Ids,       \* identifiers a block may get
  Null,      \* the value of Pointer()
  Requests,  \* the sizes a client asks for
  Data       \* the values of a byte

VARIABLES
  blocks,    \* live identifier -> contents, a function on 0 .. size-1
  used,      \* every identifier given out so far
  handle,    \* Handles -> identifier or Null
  thrown     \* what the last call threw

hvars == <<blocks, used, handle, thrown>>

Live(h) == handle[h] \in DOMAIN blocks

Init ==
  /\ blocks = [id \in {} |-> {}]
  /\ used = {}
  /\ handle = [h \in Handles |-> Null]
  /\ thrown = "none"

(* h names a new block of n bytes, and the blocks of S stay as they were. *)
Give(h, n, S) ==
  \E id \in Ids \ used :
    /\ used' = used \cup {id}
    /\ handle' = [handle EXCEPT ![h] = id]
    /\ thrown' = "none"
    /\ DOMAIN blocks' = S \cup {id}
    /\ \A s \in S : blocks'[s] = blocks[s]
    /\ DOMAIN blocks'[id] = 0 .. n - 1
    /\ \A i \in 0 .. n - 1 : blocks'[id][i] \in Data

(* The call leaves h as v and drops every block outside S. *)
Leave(h, v, S, outcome) ==
  /\ handle' = [handle EXCEPT ![h] = v]
  /\ DOMAIN blocks' = S
  /\ \A s \in S : blocks'[s] = blocks[s]
  /\ thrown' = outcome
  /\ UNCHANGED used

Alloc(h, n) ==
  \/ n = 0 /\ Leave(h, Null, DOMAIN blocks, "none")
  \/ n > 0 /\ Give(h, n, DOMAIN blocks)
  \/ n > 0 /\ Leave(h, handle[h], DOMAIN blocks, "NoMemory")

Free(h) ==
  IF Live(h) THEN Leave(h, Null, DOMAIN blocks \ {handle[h]}, "none")
             ELSE Leave(h, handle[h], DOMAIN blocks, "none")

(* The bytes both sizes have in common survive, or the call throws and the *)
(* block is gone.                                                          *)
Realloc(h, n) ==
  LET old == handle[h]
      others == DOMAIN blocks \ {old}
  IN IF ~Live(h) THEN Alloc(h, n)
     ELSE \/ n = 0 /\ Leave(h, Null, others, "none")
          \/ /\ n > 0
             /\ Give(h, n, others)
             /\ \A i \in DOMAIN blocks[old] :
                  i < n => blocks'[handle'[h]][i] = blocks[old][i]
          \/ n > 0 /\ Leave(h, Null, others, "NoMemory")

Write(h, i, d) ==
  /\ Live(h) /\ i \in DOMAIN blocks[handle[h]]
  /\ blocks' = [blocks EXCEPT ![handle[h]] = [@ EXCEPT ![i] = d]]
  /\ UNCHANGED <<used, handle, thrown>>

Copy(h, g) ==
  /\ handle' = [handle EXCEPT ![g] = handle[h]]
  /\ UNCHANGED <<blocks, used, thrown>>

(* defrag moves every block and shows the client nothing of it. *)
Defrag ==
  /\ thrown' = "none"
  /\ UNCHANGED <<blocks, used, handle>>

Next ==
  \/ \E h \in Handles : \/ Free(h)
                        \/ \E n \in Requests : Alloc(h, n) \/ Realloc(h, n)
                        \/ \E g \in Handles : Copy(h, g)
                        \/ Live(h) /\ \E i \in DOMAIN blocks[handle[h]], d \in Data : Write(h, i, d)
  \/ Defrag

Spec == Init /\ [][Next]_hvars
=============================================================================
