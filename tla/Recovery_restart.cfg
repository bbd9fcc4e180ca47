SPECIFICATION Spec
CONSTANTS
  HasMisc = FALSE
  Requests <- MCRequests
  MaxRequests = 1
  MaxMishaps = 1
INVARIANTS
  RestartableAtAnyPoint
CHECK_DEADLOCK FALSE
