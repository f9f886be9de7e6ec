SPECIFICATION FairSpec
CONSTANTS
  Poller = {p1, p2}
  PageSize = 2
  MaxAttempts = 2
  Scene <- Scenes4
  None = None
INVARIANTS
  TypeOK
  NoDepositSkipped
  DepositToldOnce
PROPERTIES
  EveryDepositIsSettled
CHECK_DEADLOCK FALSE
