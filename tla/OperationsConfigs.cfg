\* Threshold configs: concurrent creates, patches and deletes.
SPECIFICATION FairSpec
CONSTANTS
  Workers = {t1, t2}
  Wells = {w1}
  Metrics = {pressure}
  Values = {0, 1, 2}
  Bands <- OverlappingBands
  Patches <- FieldPatches
  None = None
  MaxReading = 1
  MaxConfig = 2
INVARIANTS
  OneConfigPerMetric
  StatusIsWorstBand
PROPERTIES
  PatchTouchesOnlyItsFields
  EveryRequestIsAnswered
