SPECIFICATION Spec
CONSTANTS
  Ptns = {"boot", "system"}
  LunOf <- TwoUnits
  MaxLuns = 2
  MaxRetry = 2
  IsUfs = TRUE
  UserVariant = FALSE
  InitTables <- AllTables
  MaxFaults = 1
INVARIANTS
  TypeOK
  SelectionSane
  CacheCurrent
  SlotsCoherent
  SetActiveEstablishes
  AttemptsBounded
PROPERTIES
  ImplementsStore
