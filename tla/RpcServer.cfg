SPECIFICATION FairSpec
CONSTANTS
  r1 = r1
  r2 = r2
  NoRequest = NoRequest
  Requests <- MCRequests
  Registered <- MCRegistered
  Attempts = 2
  MaxDrops = 2
PROPERTIES RefinesRequestService ShutdownReturns LossHandled
CHECK_DEADLOCK FALSE
