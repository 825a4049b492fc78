SPECIFICATION FairSpec
CONSTANTS
  Changes = {unlock, unlockCritical}
  MaxReturns = 2
PROPERTIES
  ConfirmedOnScreen
  WarningEnds
  PauseOffered
\* The loader ends, hands over or turns the device off.
CHECK_DEADLOCK FALSE
