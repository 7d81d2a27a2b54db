\* From one edit page to the other through the history: the first form stays (expected to fail).
SPECIFICATION Spec
CONSTANTS
  RigIds = {1}
  WellIds = {1, 2}
  FirstRows <- TwoWells
  Names = {"a", "b"}
  RigStatuses = {"active"}
  Searches = {"", "b"}
  NULL = NULL
  NoData = NoData
  Roles = {"admin", "engineer", "viewer"}
  FirstPlaces <- AllWells
  History <- BothEditPages
  MaxVisits = 3
  MaxSaves = 0
  MaxEvents = 0
INVARIANT FormIsOfItsPage
CHECK_DEADLOCK FALSE
