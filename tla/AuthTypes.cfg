\* Types; nothing of the user is stored; the outcome of the last login or logout is shown.
SPECIFICATION Spec
CONSTANTS
  Users = {u1, u2}
  Unknown = Unknown
  Nobody = Nobody
  MaxSession = 2
  MaxReload = 1
INVARIANTS
  TypeOK
  UserIsNeverRemembered
  ShowsTheOutcome
