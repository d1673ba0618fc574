\* Lines with pipes, && and ||, redirections and background jobs; ^C once.
SPECIFICATION FairSpec
CONSTANTS
  Scripts <- SomeScripts
  Seekable = FALSE
  Output <- Writes
  Readers <- ReadToEnd
  Statuses = {0, 71}
  PipeSize = 1
  MaxSigints = 1
  MaxLines = 3
  MaxProcs = 6
INVARIANTS
  TypeOK
  ChildrenAreWaitedFor
  NoPipeIsLeft
  AndOrDecide
  JobsAreToldOnce
PROPERTIES
  SigintEndsTheLine
  ShellEnds
CHECK_DEADLOCK FALSE
