\* Types; saves end, whatever fails.
SPECIFICATION Spec
CONSTANTS
  WellIds = {1, 2}
  ConfigIds = {1, 2}
  FirstConfigs <- OneConfig
  BandNames = {"warning_max", "critical_max"}
  Texts = {"2"}
  FirstWell = 1
  NULL = NULL
  NoData = NoData
  HistoryLength = 1
  MaxVisits = 1
  MaxInputs = 1
  MaxSaves = 1
  MaxEvents = 1
INVARIANT TypeOK
PROPERTY SavesEnd
CHECK_DEADLOCK FALSE
