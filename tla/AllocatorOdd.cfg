\* A buffer of odd size: its halves differ, and the test's claim fails.
SPECIFICATION Spec
CONSTANTS
  p = p
  q = q
  x = x
  y = y
  Handles <- TwoHandles
  Requests <- Requests0to3
  Size = 5
  SizeMod = 64
  Data <- OneByte
  MaxId = 3
INVARIANTS
  AllocInRange
