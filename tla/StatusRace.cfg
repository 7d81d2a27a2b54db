\* A reading against one change of the config.
SPECIFICATION FairSpec
CONSTANTS
  Workers = {t1, t2}
  Wells = {w1}
  Metrics = {pressure}
  Values = {2}
  Bands <- UpperBand
  Patches <- NoPatch
  None = None
  MaxReading = 1
  MaxConfig = 1
PROPERTIES
  StatusReflectsThresholdsInEffect
