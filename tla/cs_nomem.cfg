CONSTANTS
  Conns = {a, b}
  Workers = {w1}
  Main = main
  NULL = null
  UserName <- DistinctNames
  NameLen <- TwoLengths
  TIMEOUT = 1
  Env = {"timer", "nomem"}
  ClientMsgs = {"REGISTER"}
  Compliant = TRUE
  MaxMsgs <- OneEach
  MaxBeats = 1
SPECIFICATION Spec
CONSTRAINT AuditsFirst
CHECK_DEADLOCK FALSE
INVARIANTS PendingExact DeliverConserved SendMsgHasJob WaitForStatus WalkSafe
