SPECIFICATION FairSpec
CONSTANTS
  Ptns = {"boot", "system"}
  LunOf <- OneUnit
  MaxLuns = 1
  MaxRetry = 1
  Images <- SomeImages
  InitTable <- BothProven
  MaxIndex = 1
  MaxInstalls = 2
  MaxMishaps = 2
INVARIANTS
  LockedRunsVerified
  FallbackVerifies
PROPERTIES
  AlwaysBoots
