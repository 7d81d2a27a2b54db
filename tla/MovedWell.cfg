\* A well is moved to another rig while its old rig is deleted.
SPECIFICATION Spec
CONSTANTS
  Workers = {t1, t2}
  Names = {n1, n2}
  Details <- OneDetail
  RigPatches <- NoPatch
  WellPatches <- Assignments
  None = None
  MaxRig = 2
  MaxWell = 1
PROPERTY
  OnlyItsWellsAreCleared
