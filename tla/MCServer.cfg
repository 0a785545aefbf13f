SPECIFICATION MCSpec
CONSTANTS
  None = None
  Servers = {a, b, c}
  Script <- MCScript
  MaxFaults = 2
  Logins = {l1}
  Readers = {r1}
  Sends = {s1, s2}
  Threads = 2
  Connections = 1
  Production = TRUE
  LoginLimit = 10
  MaxFailedLogins = 10
  MaxTries = 50
  MaxMinutes = 3
CHECK_DEADLOCK FALSE
INVARIANTS
  ServesCompleteSchema
  ExhaustedByLoad
  StallHasCause
  AnsweredInFull
  ForeignWritesStopped
PROPERTIES
  NothingLost
  StartupAllServe
  PoolRequestsAnswered
  ChecksEndOK
