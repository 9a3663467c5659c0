CONSTANTS
  NumThreads = 3
  MaxTasks = 3
  Immediate = FALSE
  CreateMayFail = TRUE
  AllocMayFail = FALSE
  Spurious = TRUE
SPECIFICATION Spec
CHECK_DEADLOCK FALSE
INVARIANTS TypeOK CountersExact WaitSafe NoRaceOnSize NoTaskLost DestroyComplete
PROPERTY ImplementsService
