\* One writer at a time, so ids become visible in order; the client reconnects.
SPECIFICATION Spec
\* With the EventSource closed and nothing left to insert or delete, the system rests.
CHECK_DEADLOCK FALSE
CONSTANTS
  Wells = {w1}
  MaxAlert = 3
  MaxInFlight = 1
  SinceIds = {}
  NoSince = NoSince
  HeartbeatEvery = 2
  ProxyReadTimeout = 3
  MaxConnects = 2
INVARIANTS
  ResumesWithoutGaps
