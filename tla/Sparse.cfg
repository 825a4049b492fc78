SPECIFICATION Spec
CONSTANTS
  SparseImages <- MCSparseImages
  RawImages <- MCRawImages
  BlockSize = 2
  LastBlock = 4
  MaxWrite = 4
  MaxImages = 3
  MaxFaults = 2
CHECK_DEADLOCK FALSE
INVARIANTS
  FlashedWhole
  OldOrNew
  AcceptsFitting
  InPartition
