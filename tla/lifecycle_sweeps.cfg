SPECIFICATION Spec
CONSTANTS
  Request = {r1}
  Sweep = {w1, w2}
  MaxEnvelopes = 1
  Kind <- SameKind
  Key = {}
  None = None
  StaleAge = 1
  MaxStaleAge = 3
  Window = 2
  MaxOps = 2
PROPERTIES
  FinalRowsMoveOnlyByFailureWrite
CHECK_DEADLOCK FALSE
