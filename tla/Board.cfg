SPECIFICATION FairSpec
CONSTANTS
  MaxTrouble = 5
  NULL = NULL
INVARIANTS
  TypeOK
  WakeUpNotLost
  NoWorkWithoutAddress
  ShutdownIsClean
PROPERTIES
  ComesOnline
CHECK_DEADLOCK FALSE
