SPECIFICATION FairSpec
CONSTANTS
  c1 = c1
  c2 = c2
  s1 = s1
  Calls <- TwoCalls
  Servers <- OneServer
  Attempts = 2
  MaxDrops = 1
INVARIANTS NoPendingLeak PanicsHaveCauses
PROPERTIES RefinesRemoteCalls CallsReturn ShutdownCompletes
CHECK_DEADLOCK FALSE
