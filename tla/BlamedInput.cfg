\* A run for a well that is gone: the form blames its input (expected to fail).
SPECIFICATION Spec
CONSTANTS
  WellIds = {"w1", "w2"}
  PredictionIds = {1}
  NULL = NULL
  History = {}
  NoData = NoData
  MaxVisits = 1
  MaxPicks = 0
  MaxRuns = 1
  MaxEvents = 1
INVARIANTS
  TypeOK
  InputIsBlamedRightly
CHECK_DEADLOCK FALSE
