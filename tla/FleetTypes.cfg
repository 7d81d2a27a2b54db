\* Types; a deleted id stays unused.
SPECIFICATION Spec
CONSTANTS
  Workers = {t1, t2}
  Names = {n1, n2}
  Details <- OneDetail
  RigPatches <- Renames
  WellPatches <- RenamesEditsAssignments
  None = None
  MaxRig = 2
  MaxWell = 1
INVARIANTS
  TypeOK
  DeletedStaysDeleted
