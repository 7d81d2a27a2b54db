\* Wells move between rigs while rigs are deleted.
SPECIFICATION Spec
CONSTANTS
  Workers = {t1, t2}
  Names = {n1, n2}
  Details <- OneDetail
  RigPatches <- Renames
  WellPatches <- RenamesEditsAssignments
  None = None
  MaxRig = 2
  MaxWell = 1
INVARIANTS
  NoDanglingRig
  NamesAreUnique
PROPERTY
  ChangesWereAskedFor
SYMMETRY WorkerSymmetry
