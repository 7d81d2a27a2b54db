\* A question asked before a login is answered after it.
SPECIFICATION Spec
CONSTANTS
  Users = {u1}
  Unknown = Unknown
  Nobody = Nobody
  MaxSession = 1
  MaxReload = 0
INVARIANT
  LoginShowsAtOnceAndLasts

