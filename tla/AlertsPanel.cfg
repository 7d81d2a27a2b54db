\* The operator switches between all wells and one of two: one alert, one connection.
SPECIFICATION FairPanelSpec
CONSTANTS
  Wells = {w1, w2}
  MaxAlert = 1
  MaxInFlight = 1
  SinceIds = {}
  NoSince = NoSince
  HeartbeatEvery = 1
  ProxyReadTimeout = 2
  MaxConnects = 1
  AllWells = AllWells
  ViewedWells = {w1}
  NoData = NoData
INVARIANTS
  NoAlertTwice
  OnlyItsWell
  DismissedStaysAway
  StreamedIsListed
PROPERTY
  DismissEnds
