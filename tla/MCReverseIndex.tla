--------------------------- MODULE MCReverseIndex ---------------------------
(***************************************************************************)
(* TLC's instances of ReverseIndex: small input files.                     *)
(***************************************************************************)
EXTENDS ReverseIndex

(* Files of n documents with ascending numbers and a word list of lists    *)
(* each.                                                                   *)
Files(n, lists) ==
  {[i \in 1 .. n |-> [docid |-> i, words |-> f[i]]] : f \in [1 .. n -> lists]}

(* Each word at most once in a document, in any order, as test4.py writes. *)
DistinctWords(S) == UNION {SetToSeqs(T) : T \in SUBSET S}

ThreeDocs == UNION {Files(n, DistinctWords(1 .. 3)) : n \in 0 .. 3}

(* A word may come twice in a document. *)
Repeats == Files(2, BoundedSeq(1 .. 2, 3))
=============================================================================
