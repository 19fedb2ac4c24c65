SPECIFICATION FairSpec
CONSTANTS
  d1 = d1  d2 = d2  s1 = s1  Nobody = Nobody
  Commanders <- NoCommander
  Dispatchers <- TwoDispatchers
  Stoppers <- OneStopper
  QueueCap = 2
  MaxRestarts = 2
INVARIANTS StopIsFinal ReapedStaysClean InFlightCounted
PROPERTIES LifecycleFollowed EveryCallReturns
CHECK_DEADLOCK FALSE
