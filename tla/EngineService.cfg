SPECIFICATION Spec
CONSTANTS
  Clients = {c1, c2}
  MaxConnections = 10
  Ports = {4, 5}
  Requests <- StaticRequests
  Hellos = {"ok", "bad"}
  Departures = {"fin", "reset"}
  AcceptErrors = FALSE
  MaxSends = 2
  MaxChunks = 1
INVARIANTS TypeOK SnapshotStable WatchExact WriteAfterRead
PROPERTY ImplementsSessions
CHECK_DEADLOCK FALSE
