SPECIFICATION FairSpec
CONSTANTS
  HasMisc = TRUE
  Requests <- MCRequests
  MaxRequests = 2
  MaxMishaps = 2
INVARIANTS
  TypeOK
  NoHalfDone
  FirmwareSafe
  CacheRepaired
  IntentDelivered
  WipeOnce
PROPERTIES
  FirmwareAfterInstall
  RecoveryEnds
CHECK_DEADLOCK FALSE
