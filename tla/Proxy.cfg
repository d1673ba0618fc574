\* A kernel that takes one byte at a time, peers that may stop reading.
SPECIFICATION FairSpec
CONSTANTS
  k1 = k1
  Conns <- OneClient
  temp_size = 2
  Capacity = 1
  MaxSent <- Sends2And2
INVARIANTS
  TypeOK
  RelaysInOrder
  OneTaskPerDirection
  NoEntryLeft
  WholeReply
PROPERTIES
  EndIsPassedOn
CHECK_DEADLOCK FALSE
