SPECIFICATION Spec
CONSTANTS
  Clients = {c1, c2, c3}
  MaxConnections = 11
  Ports = {4}
  Requests <- CgiOnly
  Hellos = {"ok"}
  Departures = {"fin", "reset"}
  AcceptErrors = TRUE
  MaxSends = 1
  MaxChunks = 1
SYMMETRY Symmetry
INVARIANTS CounterExact LimitHolds
PROPERTY ClosedNotWatched
CHECK_DEADLOCK FALSE
