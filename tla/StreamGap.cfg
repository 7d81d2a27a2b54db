\* Two writers, one connection.
SPECIFICATION Spec
\* With the EventSource closed and nothing left to insert or delete, the system rests.
CHECK_DEADLOCK FALSE
CONSTANTS
  Wells = {w1}
  MaxAlert = 3
  MaxInFlight = 2
  SinceIds = {}
  NoSince = NoSince
  HeartbeatEvery = 2
  ProxyReadTimeout = 3
  MaxConnects = 1
INVARIANTS
  StreamHasNoGaps
