SPECIFICATION Spec
CONSTANTS
  here = here
  there = there
  elsewhere = elsewhere
  Process = {here}
  Reader = {r1, r2}
  ProcessOf <- MCProcessOf
  Fixed = Fixed
  None = None
  MaxChanges = 2
  MaxFailures = 1
SYMMETRY Symmetry
INVARIANT VersionedReadsAreFresh
INVARIANT DeletedKeysAreFresh
