SPECIFICATION FairSpec
CONSTANTS
  e1 = e1
  e2 = e2
  w1 = w1
  w2 = w2
  Events <- MCEvents
  Workers <- TwoWorkers
  CreatedAt <- InOrder
  BatchSize = 2
  MaxRetries = 2
  MaxDisruptions = 2
INVARIANTS TypeOK RetryBound DuplicatesBounded
PROPERTIES RefinesHandoff StopTerminates EventuallySettled
