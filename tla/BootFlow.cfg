SPECIFICATION FairFlow
CONSTANTS
  Ptns = {"boot", "system"}
  LunOf <- OneUnit
  MaxLuns = 1
  MaxRetry = 1
  IsUfs = FALSE
  UserVariant = TRUE
  InitTables <- DeviceTables
  MaxFaults = 2
\* A device that has lost its tables does not come up.
CHECK_DEADLOCK FALSE
INVARIANTS
  ActiveSlotFound
  LunReadable
PROPERTIES
  FallbackBoots
  TrialsEnd
  UnbootableDeserved
