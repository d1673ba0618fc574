\* A client runs the program, the other sends what it likes; lines of two pieces, room for one line and a byte.
SPECIFICATION FairChat
CONSTANTS
  c1 = c1
  c2 = c2
  NoFd = NoFd
  Listen = Listen
  Clients <- TwoClients
  Programs <- OneProgram
  Line <- ThreeBytes
  MaxTyped = 2
  MaxTogether = 1
  max_buf_size_ = 2
  Room = 4
  MaxFds = 2
  MaxAtOnce = 2
  MaxSent <- Sends6And1
INVARIANTS
  TypeOK
  PrintsWholeLines
  EverybodyHearsAll
  TerminatedOnce
  ClientTypeOK
  LinesLeaveInOrder
  
  ScreensShowWholeLines
PROPERTIES
  TypedLinesAreSent
  PrintedIsShown
  LinesArePrinted
  LeaversAreDropped
  LossIsTold
CHECK_DEADLOCK FALSE
