SPECIFICATION FairSpec
CONSTANTS
  r1 = r1
  c1 = c1
  Requests <- OneRequest
  Calls <- OneCall
  Attempts = 2
  Configs <- ThreeConfigs
INVARIANTS UsersBeforeResources NothingLeftRunning ServesMigrated
PROPERTIES DeathNoticed OnlyTheSelectWaits
