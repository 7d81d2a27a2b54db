\* Readings, acknowledgements and the deletion of the well, with one config.
SPECIFICATION Spec
CONSTANTS
  Workers = {t1, t2, t3}
  Wells = {w1}
  Metrics = {pressure}
  Values = {0, 1, 2}
  Bands <- UpperBand
  Patches <- NoPatch
  None = None
  MaxReading = 2
  MaxConfig = 1
SYMMETRY WorkerSymmetry
INVARIANTS
  NoOrphans
  AlertPerAbnormalReading
  AnswersMatchTables
PROPERTIES
  ImplementsAlertLog
