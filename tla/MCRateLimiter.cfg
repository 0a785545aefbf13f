SPECIFICATION MCSpec
CONSTANTS
  Closed = Closed
  Keys = {k1, k2, k3}
  WindowSeconds = 2
  MaxRequests = 2
  MaxBuckets = 1
  MaxTime = 4
  address = address
  email = email
  Threads = {t1, t2}
  SharedKeys = {address, email}
  Requests <- AddressThenEmail
  SharedWindow = 1
  SharedLimit = 2
  SharedMaxBuckets = 0
  SharedMaxTime = 2
  MaxAdmissions = 3
SYMMETRY Symmetry
INVARIANTS
  TypeOK
  BurstBounded
PROPERTIES
  MemoryBounded
  ImplementsFixedWindow
  RefusalJustified
CHECK_DEADLOCK FALSE
