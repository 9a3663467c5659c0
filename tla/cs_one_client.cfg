CONSTANTS
  Conns = {a}
  Workers = {w1, w2}
  Main = main
  NULL = null
  UserName <- DistinctNames
  NameLen <- OneLength
  TIMEOUT = 1
  Env = {"timer", "hangup", "sendfail", "emfile"}
  ClientMsgs = {"REGISTER", "UNKNOWN", "SEND", "REFUSED", "STATUS_GOOD", "STATUS_BAD", "OTHER"}
  Compliant = FALSE
  MaxMsgs <- OneEach
  MaxBeats = 1
SPECIFICATION Spec
SYMMETRY Symmetry
CHECK_DEADLOCK FALSE
INVARIANTS TypeOK PendingExact StatusOwed SocketClosedOnce NoLostEdge
PROPERTY DepartsAsListed
