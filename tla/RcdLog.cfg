SPECIFICATION FairSpec
CONSTANTS
  Keys = 3
  Batch = 2
  MaxFlag = 0
  Recs = {r1, r2, r3}
CHECK_DEADLOCK FALSE
INVARIANTS StoredOnce
PROPERTIES KeysServed StopEnds
