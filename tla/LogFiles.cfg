SPECIFICATION Spec
CONSTANTS
  MinFiles = 2
  MaxFiles = 3
  SizeLimit = 1
  MaxSwitches = 2
  MaxTime = 3
  MaxMsg = 7
  NoFile = NoFile
CHECK_DEADLOCK FALSE
INVARIANTS CountIsLength ListedOldestFirst OpenFileOnDisk MessagesInOrder
PROPERTY OldestGoesFirst
