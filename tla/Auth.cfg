\* Two users, two logins, a reload.
SPECIFICATION FairSpec
CONSTANTS
  Users = {u1, u2}
  Unknown = Unknown
  Nobody = Nobody
  MaxSession = 2
  MaxReload = 1
INVARIANTS
  RedirectsOnlyWhenAnswered
  LogoutForgets
  LoggedOutForGood
PROPERTY
  LoadingEnds
