\* A rig with a well, one of each that may be created; two roles (FleetPagesTypes.cfg has all three), one other user.
SPECIFICATION Spec
CONSTANTS
  RigIds = {1, 2}
  WellIds = {1, 2}
  FirstRows <- OneWell
  Names = {"a", "b"}
  RigStatuses = {"active"}
  Searches = {"", "b"}
  NULL = NULL
  NoData = NoData
  Roles = {"admin", "viewer"}
  FirstPlaces <- NewWell
  History <- BothEditPages
  MaxVisits = 2
  MaxSaves = 2
  MaxEvents = 1
INVARIANTS
  ReadsItsWrites
  ShowsWhatItsUrlNames
  RefusalsAreTrue
PROPERTIES
  OnlyTypedFieldsChange
  OnlyItsPageNavigates
CHECK_DEADLOCK FALSE
