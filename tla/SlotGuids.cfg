SPECIFICATION Spec
CONSTANTS
  Ptns = {"boot", "system"}
  LunOf <- TwoUnits
  MaxLuns = 2
  MaxRetry = 2
  IsUfs = TRUE
  UserVariant = FALSE
  InitTables <- DeviceTables
  MaxFaults = 1
INVARIANTS
  FoundGuidsValid
