SPECIFICATION FairSpec
CONSTANTS
  s1 = s1
  s2 = s2
  Sender = {s1, s2}
  Drain = {d1, d2}
  MaxCalls = 2
  MaxAttempts = 2
  Scene <- Scenes12
  Shared = Shared
  None = None
INVARIANTS
  TypeOK
  NotSentTwice
PROPERTIES
  RowNeverGoesBack
  SendsAndReportsSettle
CHECK_DEADLOCK FALSE
