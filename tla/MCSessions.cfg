SPECIFICATION Spec
CONSTANTS
  User = {u1}
  Admin = {}
  Device = {d1, d2}
  Process = {p1, p2}
  None = None
  UserMaxDevices = 2
  AdminMaxDevices = 1
  MaxSessions = 2
  MaxTokens = 3
  MaxChanges = 1
SYMMETRY Symmetry
INVARIANT TypeOK
INVARIANT TokenExchangedOnce
INVARIANT RevokedIsOut
INVARIANT CopyIsCurrent
INVARIANT DeviceLimitKept
CHECK_DEADLOCK FALSE
