SPECIFICATION PlacedSpec
CONSTANTS
  c1 = c1
  h1 = h1
  Call = {c1, c2}
  Host = {h1, h2}
  MaxAttempts = 2
INVARIANTS
  TypeOK
  SerializedCallsDoNotCollide
  SecondPaymentFollowsAMissedLookup
PROPERTIES
  KeepsContract
  EveryCallReturns
CHECK_DEADLOCK FALSE
