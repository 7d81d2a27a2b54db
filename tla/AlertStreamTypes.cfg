\* Types, and what AlertLog promises of ids and rows.
SPECIFICATION FairSpec
\* With the EventSource closed and nothing left to insert or delete, the system rests.
CHECK_DEADLOCK FALSE
CONSTANTS
  Wells = {w1, w2}
  MaxAlert = 3
  MaxInFlight = 2
  SinceIds = {2}
  NoSince = NoSince
  HeartbeatEvery = 2
  ProxyReadTimeout = 3
  MaxConnects = 3
INVARIANTS
  TypeOK
PROPERTIES
  IdsAreNeverReused
  GoneOnlyWithWell
