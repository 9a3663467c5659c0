CONSTANT NumThreads = 4
SPECIFICATION Spec
CHECK_DEADLOCK FALSE
INVARIANTS ReleasesOnlyHeld FullyUp ReleasedInOrder NothingLeft
