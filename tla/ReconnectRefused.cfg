\* One alert, one broken connection whose reconnect may be refused.
SPECIFICATION FairSpec
\* With the EventSource closed and nothing left to insert or delete, the system rests.
CHECK_DEADLOCK FALSE
CONSTANTS
  Wells = {w1, w2}
  MaxAlert = 1
  MaxInFlight = 1
  SinceIds = {}
  NoSince = NoSince
  HeartbeatEvery = 2
  ProxyReadTimeout = 3
  MaxConnects = 2
PROPERTY
  ReconnectsByItself
