SPECIFICATION Spec
CONSTANTS
  Ptns = {"boot", "system"}
  LunOf <- OneUnit
  MaxLuns = 1
  MaxRetry = 1
  Layouts <- StartLayouts
  Images <- HostImages
  MaxFlashes = 2
  MaxMishaps = 1
CHECK_DEADLOCK FALSE
INVARIANTS
  TableReadable
  RamFollowsDisk
  TablesWhole
  VarsFollowTable
  BootLunFollowsActive
PROPERTIES
  FlashedTablePresented
  SetActiveAnswered
