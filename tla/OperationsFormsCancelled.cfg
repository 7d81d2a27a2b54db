\* Three saves on one well: the fetch that the first waits for is cancelled twice.
SPECIFICATION Spec
CONSTANTS
  WellIds = {1}
  ConfigIds = {1, 2}
  FirstConfigs <- OneConfig
  BandNames = {"warning_max"}
  Texts = {"2"}
  FirstWell = 1
  NULL = NULL
  NoData = NoData
  HistoryLength = 1
  MaxVisits = 0
  MaxInputs = 0
  MaxSaves = 3
  MaxEvents = 0
PROPERTIES
  SavesEnd
  SavedIsShown
CHECK_DEADLOCK FALSE
