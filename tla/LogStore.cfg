SPECIFICATION FairSpec
CONSTANTS
  e1 = e1  e2 = e2  e3 = e3  f1 = f1  None = None
  Events <- ThreeEvents
  Old <- OldOnes
  Flushers <- OneFlusher
  Capacity = 1
INVARIANTS LogTypeOK FlushHonest RetentionKept
PROPERTIES FlushReturns
CHECK_DEADLOCK FALSE
