CONSTANTS
  NumThreads = 3
  MaxTasks = 3
  Immediate = FALSE
  CreateMayFail = FALSE
  AllocMayFail = TRUE
  Spurious = FALSE
SPECIFICATION FairSpec
CHECK_DEADLOCK FALSE
PROPERTY EveryTaskRuns
