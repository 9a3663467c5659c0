CONSTANTS
  Conns = {a}
  Workers = {w1}
  Main = main
  NULL = null
  UserName <- DistinctNames
  NameLen <- OneLength
  TIMEOUT = 1
  Env = {"timer", "hangup", "sendfail", "shortread"}
  ClientMsgs = {"REGISTER", "SEND", "OTHER"}
  Compliant = FALSE
  MaxMsgs <- OneEach
  MaxBeats = 1
SPECIFICATION FairSpec
CHECK_DEADLOCK FALSE
PROPERTY SilentClientsLeave
