SPECIFICATION Spec
CONSTANTS
  TextSize = 4
  Lengths <- MCLengths
  MaxHeaders = 2
  MaxBody = 3
CHECK_DEADLOCK FALSE
INVARIANT FirstSegmentVerdict
