CONSTANTS
  Conns = {a}
  Workers = {w1, w2}
  Main = main
  NULL = null
  UserName <- DistinctNames
  NameLen <- OneLength
  TIMEOUT = 1
  Env = {}
  ClientMsgs = {"REGISTER", "SEND"}
  Compliant = TRUE
  MaxMsgs <- TwoEach
  MaxBeats = 1
SPECIFICATION Spec
CHECK_DEADLOCK FALSE
INVARIANT EverySendAcknowledged
