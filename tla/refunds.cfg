SPECIFICATION RefundSpec
CONSTANTS
  Requests = 3
  Amount = 2
  Envelopes = 2
  Incoming <- One
  Scenes <- TwoScenes
INVARIANTS
  OverRefundExplained
  JournalFollowsTheRow
CHECK_DEADLOCK FALSE
