SPECIFICATION Spec
CONSTANTS
  Event = {e1, e2}
  Worker = {w1, w2}
  None = None
  NumBooks = 1
  PageSize = 1
  ClaimSize = 2
  Concurrency = 2
  MaxAttempts = 1
  MaxVersion = 2
  MaxStalls = 1
  MaxCrashes = 1
  MaxScans = 1
SYMMETRY Symmetry
INVARIANT ProcessedIsApplied
INVARIANT ConvergesWithoutOverlap
PROPERTY SettledIsFinal
CHECK_DEADLOCK FALSE
