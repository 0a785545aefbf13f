SPECIFICATION FairSpec
CONSTANTS
  w1 = w1
  w2 = w2
  t1 = t1
  s1 = s1
  s2 = s2
  None = None
  Workers = {w1,w2}
  Tokens = {t1}
  Secrets = {s1,s2}
  Endpoints = {"status", "logout", "setup", "enable", "disable"}
  MaxFailedLogins = 2
  LockoutSeconds = 1
  SessionTtl = 2
  MaxTime = 2
INVARIANTS
  TypeOK
  NotEnabledUntilVerified
PROPERTIES
  DeactivatedAccountFrozen
  EveryRequestAnswered
