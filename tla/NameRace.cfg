\* Two creates find the same name free.
SPECIFICATION Spec
CONSTANTS
  Workers = {t1, t2}
  Names = {n1, n2}
  Details <- OneDetail
  RigPatches <- NoPatch
  WellPatches <- NoPatch
  None = None
  MaxRig = 0
  MaxWell = 2
PROPERTY
  BrokenRulesAreExplained
