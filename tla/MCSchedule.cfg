SPECIFICATION Spec
CONSTANTS
  Schedule = {s1, s2}
  Book = {}
  Chapter = {c1}
  Worker = {w1}
  Admin = {a1, a2}
  None = None
  MaxRetries = 2
  MaxTime = 0
  MaxRestarts = 0
SYMMETRY Symmetry
INVARIANT SingleClaimer
INVARIANT PublishedIsAnnounced
CHECK_DEADLOCK FALSE
