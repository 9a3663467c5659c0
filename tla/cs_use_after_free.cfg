CONSTANTS
  Conns = {a}
  Workers = {w1, w2}
  Main = main
  NULL = null
  UserName <- DistinctNames
  NameLen <- OneLength
  TIMEOUT = 1
  Env = {"timer", "hangup"}
  ClientMsgs = {"REGISTER"}
  Compliant = TRUE
  MaxMsgs <- OneEach
  MaxBeats = 1
SPECIFICATION Spec
CHECK_DEADLOCK FALSE
INVARIANT NoUseAfterFree
