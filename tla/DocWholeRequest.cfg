SPECIFICATION Spec
CONSTANTS
  Scripts <- OneGet
  Paths <- MCPaths
  Disks <- MCDisks
  TlsChoices = {FALSE}
  PeerFaults = {}
  DiskFaults = {}
  BufSize = 4
  IoSize = 1
  ResponseSize = 1
  MaxInFlight = 2
  MaxRecord = 1
  MaxResponses = 2
INVARIANT AnswersWholeRequests
CHECK_DEADLOCK FALSE
