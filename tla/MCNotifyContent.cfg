SPECIFICATION FairSpec
CONSTANTS
  Content = {c1}
  Broadcast = {}
  Other = {}
  Worker = {w1, w2}
  None = None
  NumUsers = 2
  PageSize = 1
  ClaimSize = 2
  Concurrency = 1
  MaxAttempts = 2
  MaxStalls = 2
  MaxCrashes = 1
INVARIANT ProcessedMeansNotified
PROPERTY EverySettles
