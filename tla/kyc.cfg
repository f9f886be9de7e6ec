SPECIFICATION FairSpec
CONSTANTS
  o1 = o1  o2 = o2  o3 = o3
  c1 = c1  c2 = c2  d1 = d1  d2 = d2  p1 = p1  p2 = p2
  Operator = {o1, o2, o3}
  Customer = {c1, c2}
  Delivery = {d1, d2}
  Payment = {p1, p2}
  Scene <- Scenes3
  None = None
INVARIANTS
  CopiesAgree
PROPERTIES
  OverridesTakeTwo
  BlocksAreKept
  PendingIsDecided
CHECK_DEADLOCK FALSE
