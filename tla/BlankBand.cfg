\* A blank typed into a number field is stored as 0 (expected to fail).
SPECIFICATION Spec
CONSTANTS
  WellIds = {1}
  ConfigIds = {1, 2}
  FirstConfigs <- OneConfig
  BandNames = {"warning_max", "critical_max"}
  Texts = {"", " ", "x", "2"}
  FirstWell = 1
  NULL = NULL
  NoData = NoData
  HistoryLength = 1
  MaxVisits = 0
  MaxInputs = 1
  MaxSaves = 1
  MaxEvents = 0
INVARIANT NumbersWereTyped
CHECK_DEADLOCK FALSE
