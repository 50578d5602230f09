SPECIFICATION FairSpec
CONSTANTS
  c1 = c1
  c2 = c2
  s1 = s1
  s2 = s2
  None = None
  Calls <- MCCalls
  Registered <- MCRegistered
  Servers <- MCServers
PROPERTIES RefinesRemoteCalls ShutdownEndsQuiet
CHECK_DEADLOCK FALSE
