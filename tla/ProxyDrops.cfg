\* A client that sends three bytes to a server that reads slowly.
SPECIFICATION Spec
CONSTANTS
  k1 = k1
  Conns <- OneClient
  temp_size = 2
  Capacity = 1
  MaxSent <- Sends3And0
PROPERTIES
  DropsOnlyWhatWasSent
CHECK_DEADLOCK FALSE
