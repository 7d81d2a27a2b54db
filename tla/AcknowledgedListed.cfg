\* A dismissed alert is listed again.
SPECIFICATION PanelSpec
CONSTANTS
  Wells = {w1}
  MaxAlert = 1
  MaxInFlight = 1
  SinceIds = {}
  NoSince = NoSince
  HeartbeatEvery = 1
  ProxyReadTimeout = 2
  MaxConnects = 1
  AllWells = AllWells
  ViewedWells = {}
  NoData = NoData
PROPERTY
  AddsOnlyUnacknowledged
