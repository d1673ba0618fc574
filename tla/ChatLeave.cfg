\* One byte each: a line sent just before the client leaves.
SPECIFICATION Spec
CONSTANTS
  c1 = c1
  c2 = c2
  NoFd = NoFd
  Listen = Listen
  Clients <- TwoClients
  max_buf_size_ = 2
  Room = 9
  MaxFds = 2
  MaxAtOnce = 2
  MaxSent <- Sends1And1
INVARIANTS
  SentBeforeLeavingIsPrinted
CHECK_DEADLOCK FALSE
