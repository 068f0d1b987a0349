SPECIFICATION Spec
CONSTANTS
  Scripts <- TripleScripts
  Paths <- MCPaths
  Disks <- MCDisks
  TlsChoices = {TRUE, FALSE}
  PeerFaults = {"fin", "reset"}
  DiskFaults = {"remove", "truncate"}
  BufSize = 5
  IoSize = 1
  ResponseSize = 2
  MaxInFlight = 3
  MaxRecord = 2
  MaxResponses = 4
INVARIANTS TypeOK AnswersInOrder NotInterleaved NoStrandedInput StreamIntact ServerStaysUp
CHECK_DEADLOCK FALSE
