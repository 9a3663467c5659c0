CONSTANTS
  Conns = {a, b}
  Workers = {w1}
  Main = main
  NULL = null
  UserName <- DistinctNames
  NameLen <- OneLength
  TIMEOUT = 1
  Env = {"sigint", "eintr", "sendfail"}
  ClientMsgs = {"REGISTER", "SEND"}
  Compliant = TRUE
  MaxMsgs <- TwoFromFirstOnly
  MaxBeats = 1
SPECIFICATION FairSpec
CHECK_DEADLOCK FALSE
INVARIANTS StatusOwed DeliverConserved WaitForStatus
PROPERTIES DepartsAsListed ListeningKept DrainEndsOrWaits
