\* A response that was under way undoes the merge of a streamed alert.
SPECIFICATION PanelSpec
CONSTANTS
  Wells = {w1}
  MaxAlert = 1
  MaxInFlight = 1
  SinceIds = {}
  NoSince = NoSince
  HeartbeatEvery = 1
  ProxyReadTimeout = 2
  MaxConnects = 1
  AllWells = AllWells
  ViewedWells = {}
  NoData = NoData
INVARIANT
  NewAlertsAreMerged
