\* Types; an edit page whose row is cached has its form.
SPECIFICATION Spec
CONSTANTS
  RigIds = {1, 2}
  WellIds = {1, 2}
  FirstRows <- OneWell
  Names = {"a", "b"}
  RigStatuses = {"active"}
  Searches = {"", "b"}
  NULL = NULL
  NoData = NoData
  Roles = {"admin", "engineer", "viewer"}
  FirstPlaces <- NewWell
  History <- BothEditPages
  MaxVisits = 2
  MaxSaves = 2
  MaxEvents = 1
INVARIANTS
  TypeOK
  NeverBlank
  RefusalsAreTrue
CHECK_DEADLOCK FALSE
