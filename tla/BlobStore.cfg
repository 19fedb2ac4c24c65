SPECIFICATION Spec
CONSTANTS
  w1 = w1  w2 = w2  r1 = r1  n1 = n1  n2 = n2  None = None
  Writers <- TwoWriters
  Readers <- OneReader
  Names <- TwoNames
  Sizes <- BothSizes
  Quotas = {3}
  MaxBlobs = 2
  MaxFaults = 1
SYMMETRY BlobSymmetry
INVARIANTS BlobsTypeOK RowHasFile NothingOrphaned ReadsAnswered
PROPERTIES QuotaKept
CHECK_DEADLOCK FALSE
