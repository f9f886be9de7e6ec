SPECIFICATION Spec
CONSTANTS
  Poller = {p1, p2}
  PageSize = 2
  MaxAttempts = 2
  Scene <- Scenes4
  None = None
INVARIANT DeliveredMeansTold
CHECK_DEADLOCK FALSE
