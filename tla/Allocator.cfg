\* An even buffer, two handles, two byte values.
SPECIFICATION Spec
CONSTANTS
  p = p
  q = q
  x = x
  y = y
  Handles <- TwoHandles
  Requests <- Requests0to3
  Size = 8
  SizeMod = 64
  Data <- TwoBytes
  MaxId = 3
SYMMETRY Symmetry
INVARIANTS
  TypeOK
  BlocksPartitionHalf
PROPERTIES
  NoMemoryMeansNoRoom
  ReallocUsesOwnRoom
  DefragGathersFree
  ImplementsHeap
