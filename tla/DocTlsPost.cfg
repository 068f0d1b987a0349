SPECIFICATION Spec
CONSTANTS
  Scripts <- LongPost
  Paths <- MCPaths
  Disks <- MCDisks
  TlsChoices = {TRUE}
  PeerFaults = {}
  DiskFaults = {}
  BufSize = 4
  IoSize = 1
  ResponseSize = 1
  MaxInFlight = 6
  MaxRecord = 6
  MaxResponses = 3
PROPERTY SubmittedIsServed
CHECK_DEADLOCK FALSE
