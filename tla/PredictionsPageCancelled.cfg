\* Three runs on one well: the fetches that the first waits for are cancelled twice.
SPECIFICATION Spec
CONSTANTS
  WellIds = {"w1"}
  PredictionIds = {1, 2, 3}
  NULL = NULL
  History = {}
  NoData = NoData
  MaxVisits = 5
  MaxPicks = 0
  MaxRuns = 3
  MaxEvents = 0
PROPERTY
  RunIsInHistory
CHECK_DEADLOCK FALSE
