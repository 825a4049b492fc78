SPECIFICATION Spec
CONSTANTS
  Display = TRUE
  SecureBoot = TRUE
  UserBuild = TRUE
  BootKeys = TRUE
  MaxFaults = 2
  MaxCuts = 1
INVARIANTS
  LockBitsStored
  KeysFollowLock
  
  AnswersTrue
PROPERTIES
  OnlyConfirmedChanges
