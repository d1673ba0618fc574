\* Up to three documents of three words, none twice in a document; runs of two pairs; 3 for 2^32.
SPECIFICATION Spec
CONSTANTS
  Inputs <- ThreeDocs
  max_pairs_ = 2
  UINT64_MAX = 9
  UINT32_MOD = 3
INVARIANTS
  TypeOK
  MergeKeepsPairs
  MergeIsSorted
  IndexIsRight
CHECK_DEADLOCK FALSE
