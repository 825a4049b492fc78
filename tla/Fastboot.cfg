SPECIFICATION FairSpec
CONSTANTS
  sparse1 = sparse1
  raw1 = raw1
  Images <- SparseAndRaw
  Sparse <- SparseImages
  SizeOf <- AllSizes
  Transfers = 2
  MaxReplugs = 1
CHECK_DEADLOCK FALSE
INVARIANTS FlashBufferStable FlashWritesDownload FailureStops SessionSurvives
PROPERTIES Answered OneSendAtATime
