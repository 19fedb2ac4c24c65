SPECIFICATION FairSpec
CONSTANTS
  i1 = i1  i2 = i2  p1 = p1  p2 = p2  s1 = s1  s2 = s2  None = None
  Ids <- TwoIds
  Plugins <- OnePlugin
  Starters <- OneStarter
  Declared <- Undeclared
  MaxSpawned = 3
  MaxStops = 2
INVARIANTS RegistryTypeOK Exclusive NothingLeftBehind
PROPERTIES OwnEntriesKept DrainEnds
CHECK_DEADLOCK FALSE
