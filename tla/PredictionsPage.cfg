\* Two wells; one other user.
SPECIFICATION Spec
CONSTANTS
  WellIds = {"w1", "w2"}
  PredictionIds = {1, 2}
  NULL = NULL
  History = {"w1"}
  NoData = NoData
  MaxVisits = 2
  MaxPicks = 1
  MaxRuns = 2
  MaxEvents = 1
INVARIANTS
  ReadsItsWrites
  ChartIsOfItsWell
PROPERTIES
  RunIsInHistory
  RunsEnd
CHECK_DEADLOCK FALSE
