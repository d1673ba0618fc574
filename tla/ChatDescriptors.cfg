\* One descriptor and two clients one after the other.
SPECIFICATION Spec
CONSTANTS
  c1 = c1
  c2 = c2
  NoFd = NoFd
  Listen = Listen
  Clients <- TwoClients
  max_buf_size_ = 2
  Room = 9
  MaxFds = 1
  MaxAtOnce = 1
  MaxSent <- Sends0And0
INVARIANTS
  AcceptedAreClients
CHECK_DEADLOCK FALSE
