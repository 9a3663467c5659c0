CONSTANTS
  NumThreads = 2
  MaxTasks = 3
  Immediate = FALSE
  CreateMayFail = FALSE
  AllocMayFail = FALSE
  Spurious = FALSE
SPECIFICATION FairSpec
CHECK_DEADLOCK FALSE
PROPERTY DestroyReturns
