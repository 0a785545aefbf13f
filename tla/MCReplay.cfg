SPECIFICATION SpecReplay
CONSTANTS
  w1 = w1
  t1 = t1
  t2 = t2
  t3 = t3
  s1 = s1
  None = None
  Workers = {w1}
  Tokens = {t1,t2,t3}
  Secrets = {s1}
  Endpoints = {"setup", "enable"}
  MaxFailedLogins = 2
  LockoutSeconds = 1
  SessionTtl = 2
  MaxTime = 1
INVARIANT
  StepUsedOnce
