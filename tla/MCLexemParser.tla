--------------------------- MODULE MCLexemParser ----------------------------
(***************************************************************************)
(* TLC's instance of LexemParser: every line of at most MaxLength          *)
(* characters.  Characters that are no operators are all alike to parse,   *)
(* so one letter stands for them.                                          *)
(***************************************************************************)
EXTENDS LexemParser, SequencesExt

CONSTANT MaxLength

ShortLines == BoundedSeq({"&", "|", "<", ">", " ", "x"}, MaxLength)
=============================================================================
