CONSTANTS
  Conns = {a}
  Workers = {w1}
  Main = main
  NULL = null
  UserName <- DistinctNames
  NameLen <- OneLength
  TIMEOUT = 1
  Env = {"timer", "hangup", "shortread"}
  ClientMsgs = {"REGISTER", "SEND"}
  Compliant = FALSE
  MaxMsgs <- ThreeEach
  MaxBeats = 1
SPECIFICATION ClientSpec
CHECK_DEADLOCK FALSE
INVARIANTS ClientTypeOK PromptMeansAnswered AckComing
