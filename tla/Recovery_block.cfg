SPECIFICATION FairSpec
CONSTANTS
  HasMisc = FALSE
  Requests <- MCRequests
  MaxRequests = 2
  MaxMishaps = 3
INVARIANTS
  WipeOnce
PROPERTY RecoveryEnds
CHECK_DEADLOCK FALSE
