\* The panel over all wells: two alerts, two connections (safety and DismissEnds).
SPECIFICATION FairPanelSpec
CONSTANTS
  Wells = {w1}
  MaxAlert = 2
  MaxInFlight = 1
  SinceIds = {}
  NoSince = NoSince
  HeartbeatEvery = 1
  ProxyReadTimeout = 2
  MaxConnects = 2
  AllWells = AllWells
  ViewedWells = {}
  NoData = NoData
INVARIANTS
  PanelTypeOK
  NoAlertTwice
  DismissedStaysAway
  StreamedIsListed
PROPERTY
  DismissEnds
