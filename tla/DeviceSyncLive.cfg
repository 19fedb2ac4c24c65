SPECIFICATION FairSyncSpec
CONSTANTS
  i1 = i1  k1 = k1  None = None
  Instances <- OneInstance
  Devices <- TwoDevices
  Owner <- OneOwner
  Caps <- OneCap
  Keys <- OneKey
  SeedKeys <- SeedOne
  MaxStale = 0
  MaxFields = 1
  MaxDevices = 2
  MaxRev = 3
  MaxGen = 2
  DeltaLimit = 1
  PageLimit = 1
  MaxEpoch = 2
INVARIANTS ExactUpToCursor
PROPERTIES Converges
CHECK_DEADLOCK FALSE
