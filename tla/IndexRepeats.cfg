\* Two documents in which a word may come twice.
SPECIFICATION Spec
CONSTANTS
  Inputs <- Repeats
  max_pairs_ = 2
  UINT64_MAX = 9
  UINT32_MOD = 3
INVARIANTS
  IndexIsRight
CHECK_DEADLOCK FALSE
