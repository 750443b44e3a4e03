SPECIFICATION FairSpec
CONSTANTS
  Request = {u1, u2, u3}
  Reader = {r1}
  None = None
  Given = u3
  MaxAttempts = 2
  MaxStalls = 0
  MaxStops = 1
  MaxReads = 1
  MaxEdits = 1
INVARIANT ContentIsReadable
INVARIANT ProcessingHasJob
INVARIANT CachedManifestIsCurrent
INVARIANT OnlyOvertakenIsSkipped
PROPERTY ProcessingEnds
CHECK_DEADLOCK FALSE
