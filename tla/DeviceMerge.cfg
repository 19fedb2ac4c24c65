SPECIFICATION StateSpec
CONSTANTS
  i1 = i1  k1 = k1  k2 = k2  k3 = k3  None = None
  Instances <- OneInstance
  Devices <- OneDevice
  Owner <- OneOwner
  Caps <- TwoCaps
  Keys <- ThreeKeys
  SeedKeys <- SeedTwo
  MaxStale = 1
  MaxFields = 2
  MaxDevices = 1
  MaxRev = 4
  MaxGen = 2
SYMMETRY KeySymmetry
INVARIANTS FreshIsLive FieldsOfThisLife RevisionsDistinct StaleBounded
PROPERTIES NothingTruncated NoSilentChange
CHECK_DEADLOCK FALSE
