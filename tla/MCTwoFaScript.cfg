SPECIFICATION ScriptSpec
CONSTANTS
  w1 = w1
  t1 = t1
  t2 = t2
  t3 = t3
  s1 = s1
  None = None
  Worker = w1
  Workers = {w1}
  Tokens = {t1,t2,t3}
  Secrets = {s1}
  Endpoints = {"status", "logout", "setup", "enable"}
  MaxFailedLogins = 2
  LockoutSeconds = 1
  SessionTtl = 20
  MaxTime = 12
CHECK_DEADLOCK FALSE
PROPERTY
  ScriptEndsOK
