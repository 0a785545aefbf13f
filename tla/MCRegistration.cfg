SPECIFICATION Spec
CONSTANTS
  None = None
  Workers = {w1, w2, w3}
  Spellings = {"ann@x", "Ann@x", "bob@x"}
  Lower <- MCLower
  Usernames = {u1, u2}
  Ids = {i1, i2, i3}
  RegisterLimit = 1
SYMMETRY Symmetry
VIEW View
INVARIANTS
  LookupsUnambiguous
  AcknowledgedReachable
PROPERTIES
  ImplementsDirectory
