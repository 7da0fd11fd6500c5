SPECIFICATION Spec
CONSTANTS
  Threads = {t1, t2}
  Blocks = {b1, b2, b3, b4}
  ChunkCount = 2
  MinSize = 2
  MaxSize = 4
  Requests = {1, 3, 4, 5}
  Preallocated = 1
  None = None
  Garbage = Garbage
SYMMETRY Symmetry
CHECK_DEADLOCK FALSE
INVARIANTS FreeListSound NotHandedOutTwice MemoryLargeEnough NoBlockLost ReleasedCompletely
PROPERTY Implements
