SPECIFICATION FairSpec
CONSTANTS
  Schedule = {s1}
  Book = {b1}
  Chapter = {}
  Worker = {w1}
  Admin = {a1, a2}
  None = None
  MaxRetries = 2
  MaxTime = 1
  MaxRestarts = 1
INVARIANT AttemptsBounded
PROPERTY FirstAttemptHappens
CHECK_DEADLOCK FALSE
