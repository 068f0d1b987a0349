SPECIFICATION Spec
CONSTANTS
  Clients = {c1, c2, c3}
  MaxConnections = 8
  Ports = {4, 5}
  Requests <- LastOnly
  Hellos = {"ok"}
  Departures = {"fin"}
  AcceptErrors = FALSE
  MaxSends = 1
  MaxChunks = 1
SYMMETRY Symmetry
INVARIANT DeferredAtLimit
CHECK_DEADLOCK FALSE
