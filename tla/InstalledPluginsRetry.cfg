SPECIFICATION Spec
CONSTANTS
  p1 = p1  v1 = v1  v2 = v2  r1 = r1  r2 = r2  None = None
  Plugins <- OnePlugin
  Dirs <- OwnAndCopy
  Home <- OwnDir
  Versions <- TwoVersions
  Requests <- TwoRequests
  MaxUuid = 2
  MaxEdits = 2
SYMMETRY RequestSymmetry
INVARIANT RetryConverges
CHECK_DEADLOCK FALSE
