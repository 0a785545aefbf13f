SPECIFICATION Spec
CONSTANTS
  w1 = w1
  w2 = w2
  t1 = t1
  t2 = t2
  t3 = t3
  s1 = s1
  None = None
  Workers = {w1,w2}
  Tokens = {t1,t2,t3}
  Secrets = {s1}
  Endpoints = {"setup", "enable", "disable"}
  MaxFailedLogins = 2
  LockoutSeconds = 1
  SessionTtl = 1
  MaxTime = 1
SYMMETRY Symmetry
VIEW View
INVARIANTS
  LimitReachedLocks
  LockHasCause
PROPERTIES
  OnlyAcceptedLoginUnlocks
  StepSpentOnce
  ImplementsAccount
