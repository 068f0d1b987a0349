SPECIFICATION Spec
CONSTANTS
  Clients = {c1, c2}
  MaxConnections = 14
  Ports = {4, 5}
  Requests <- CgiOnly
  Hellos = {"ok"}
  Departures = {"reset"}
  AcceptErrors = FALSE
  MaxSends = 1
  MaxChunks = 1
INVARIANT AliveAfterDisconnect
CHECK_DEADLOCK FALSE
