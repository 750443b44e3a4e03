SPECIFICATION Spec
CONSTANTS
  Content = {}
  Broadcast = {b1}
  Other = {}
  Worker = {w1, w2}
  None = None
  NumUsers = 2
  PageSize = 1
  ClaimSize = 1
  Concurrency = 1
  MaxAttempts = 2
  MaxStalls = 1
  MaxCrashes = 0
SYMMETRY Symmetry
INVARIANT CursorBehindDelivery
