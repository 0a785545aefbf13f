SPECIFICATION MCSpec
CONSTANTS
  None = None
  Users = {alice, bob}
  Tokens = {t1, t2}
  Logins = {login, login2fa}
  Logouts = {l1}
  MaxTries = 3
  Ids = {m1, m2, m3}
  Calls = {c1, c2}
CHECK_DEADLOCK FALSE
INVARIANTS
  ShowsSessionUser
  CopiesExcused
  ShownIsNamed
PROPERTIES
  AuthLoadingEnds
