SPECIFICATION FairSpec
CONSTANTS
  Message = {1, 2, 3}
  Script <- Conversations
  MaxAttempts = 2
  MaxFaults = 1
  MaxExpiries = 1
  Orphan = Orphan
  None = None
INVARIANTS
  OneAtATime
  EachRequestEndsOnce
  RiskySendsAreConfirmed
PROPERTIES
  EveryMessageIsSettled
CHECK_DEADLOCK FALSE
