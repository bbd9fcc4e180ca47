SPECIFICATION FairSpec
CONSTANTS
  Free = Free
  MaxFd = 12
  MaxDialogues = 1
  MaxRounds = 2
  MaxFaults = 1
INVARIANTS
  OwnDescriptors
  NothingLeft
PROPERTIES
  DialogueEnds
  UiDoneEnds
CHECK_DEADLOCK FALSE
