SPECIFICATION AskingSpec
CONSTANTS
  c1 = c1
  c2 = c2
  p1 = p1
  Call = {c1, c2, c3}
  Fingerprint = {p1, p2}
  None = None
INVARIANTS
  OneSubmissionPerKey
  OtherRequestsAreRefused
  ToldOfReservedPayment
PROPERTIES
  WaitersAreAnswered
CHECK_DEADLOCK FALSE
