\* The input is a file with a background job and a line after it.
SPECIFICATION Spec
CONSTANTS
  Scripts <- BackgroundFirst
  Seekable = TRUE
  Output <- Writes
  Readers <- ReadToEnd
  Statuses = {0, 71}
  PipeSize = 1
  MaxSigints = 0
  MaxLines = 4
  MaxProcs = 6
INVARIANTS
  LinesRunOnce
CHECK_DEADLOCK FALSE
