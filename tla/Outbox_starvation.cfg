SPECIFICATION FairSpec
CONSTANTS
  e1 = e1
  e2 = e2
  w1 = w1
  w2 = w2
  Events <- MCEvents
  Workers <- OneWorker
  CreatedAt <- InOrder
  BatchSize = 1
  MaxRetries = 1
  MaxDisruptions = 1
PROPERTY EventuallyTried
