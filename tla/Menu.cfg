SPECIFICATION FairSpec
CONSTANTS
  Sizes = {1, 4}
  QueueMax = 2
  MaxInputs = 3
  Rows = {0, 1, 4}
  MaxMenus = 2
INVARIANTS
  TypeOK
  SelectionValid
  AsTyped
PROPERTY MenuReturns
CHECK_DEADLOCK FALSE
