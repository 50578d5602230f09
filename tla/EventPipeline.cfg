SPECIFICATION PFairSpec
CONSTANTS
  e1 = e1
  e2 = e2
  w1 = w1
  None = None
  Events <- TwoEvents
  Workers <- OneWorker
  CreatedAt <- InOrder
  BatchSize = 2
  MaxRetries = 1
  MaxDisruptions = 1
  MaxLosses = 1
  Copies <- TwoOfEach
INVARIANTS LossHasCause RepeatsMultiply
PROPERTIES RefinesDelivery EventuallyHandled
