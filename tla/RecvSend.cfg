SPECIFICATION FairSpec
CONSTANTS
  MaxSent = 4
  BufSize = 2
  RepLen = 2
  SndCap = 3
CHECK_DEADLOCK FALSE
INVARIANTS StreamKept HandledText FreedOnlyAtEnd RepliesKept
PROPERTIES CallbackReturns SentIsHandled
