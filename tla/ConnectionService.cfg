SPECIFICATION Spec
CONSTANTS
  Scripts <- AllScripts
  Paths <- MCPaths
  Disks <- MCDisks
  TlsChoices = {FALSE}
  PeerFaults = {"fin", "reset"}
  DiskFaults = {}
  BufSize = 5
  IoSize = 2
  ResponseSize = 2
  MaxInFlight = 3
  MaxRecord = 2
  MaxResponses = 4
INVARIANT OwnStatus
PROPERTIES RequestsServed ImplementsPipeline
CHECK_DEADLOCK FALSE
