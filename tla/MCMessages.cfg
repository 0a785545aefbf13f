SPECIFICATION MCSpec
CONSTANTS
  None = None
  Workers = {w1, w2}
  Users = {alice, bob, carol}
  Ids = {m1}
  Files = {f1}
  MaxLeft = 1
  MaxRecipients = 25
  MaxAttachments = 3
  MaxText = 100
  Base = 2
  Width = 2
  MaxChunks = 3
  MaxChunk = 4
  MaxFiles = 2
  MaxBytes = 5
  Piece = 2
  Largest = 10
SYMMETRY Symmetry
VIEW View
INVARIANTS
  TypeOK
  ReadIffVerified
  EncodingRoundTrip
  Unambiguous
  UploadLimitsHold
PROPERTIES
  AlwaysAuthentic
  SendAnswerTruthful
  DeletedStaysGone
  ImplementsMailbox
CHECK_DEADLOCK FALSE
