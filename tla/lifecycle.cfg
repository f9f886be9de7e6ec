SPECIFICATION Spec
CONSTANTS
  Request = {r1, r2}
  Sweep = {w1}
  MaxEnvelopes = 1
  Kind <- SameKind
  Key = {k1}
  None = None
  StaleAge = 1
  MaxStaleAge = 2
  Window = 1
  MaxOps = 0
SYMMETRY Symmetry
INVARIANTS
  RecordedHashOnLedger
  SuccessOnLedger
  JournalPostsOnce
CHECK_DEADLOCK FALSE
