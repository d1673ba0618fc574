----------------------------- MODULE MCAllocator ----------------------------
(***************************************************************************)
(* TLC's instances of Allocator: the client's handles and the values of a  *)
(* byte are model values, and either may be permuted.                      *)
(***************************************************************************)
EXTENDS Allocator, TLC

CONSTANTS p, q, x, y

TwoHandles == {p, q}
OneByte == {x}
TwoBytes == {x, y}

Symmetry == Permutations(TwoHandles) \cup Permutations(TwoBytes)

Requests0to3 == 0 .. 3
=============================================================================
