SPECIFICATION Spec
CONSTANTS
  r1 = r1
  r2 = r2
  NoRequest = NoRequest
  Requests <- MCRequests
  Registered <- MCRegistered
  Attempts = 2
  MaxDrops = 2
INVARIANT ExitsCleanly
CHECK_DEADLOCK FALSE
