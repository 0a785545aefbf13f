SPECIFICATION Spec
CONSTANTS
  w1 = w1
  t1 = t1
  s1 = s1
  None = None
  Workers = {w1}
  Tokens = {t1}
  Secrets = {s1}
  Endpoints = {"logout"}
  MaxFailedLogins = 2
  LockoutSeconds = 1
  SessionTtl = 2
  MaxTime = 2
INVARIANT
  UniformAuthenticationError
