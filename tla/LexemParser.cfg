\* All lines of up to six characters.
SPECIFICATION Spec
CONSTANTS
  MaxLength = 6
  Inputs <- ShortLines
INVARIANTS
  TypeOK
  LexemsCoverLine
  LexemsAreLongest
CHECK_DEADLOCK FALSE
