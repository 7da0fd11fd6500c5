SPECIFICATION Spec
CONSTANTS
  MaxSent = 4
  BufSize = 2
  RepLen = 2
  SndCap = 3
CHECK_DEADLOCK FALSE
INVARIANT FreedMeansClosed
