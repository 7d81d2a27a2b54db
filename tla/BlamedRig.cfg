\* A date whose year has five digits is refused, and the form blames the rig (expected to fail).
SPECIFICATION Spec
CONSTANTS
  RigIds = {1, 2}
  WellIds = {1, 2}
  FirstRows <- OneWell
  Names = {"a", "b"}
  RigStatuses = {"active"}
  Searches = {"", "b"}
  NULL = NULL
  NoData = NoData
  Roles = {"admin", "engineer", "viewer"}
  FirstPlaces <- NewWell
  History <- BothEditPages
  MaxVisits = 0
  MaxSaves = 1
  MaxEvents = 0
INVARIANT RigIsBlamedRightly
CHECK_DEADLOCK FALSE
