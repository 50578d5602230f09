SPECIFICATION CFairSpec
CONSTANTS
  e1 = e1
  e2 = e2
  Events <- TwoEvents
  Copies <- Duplicates
  None = None
  MaxLosses = 2
INVARIANTS NothingLostOutsideHandler RepeatsNeedRestarts KeepsOrder
PROPERTIES HandledUnlessDisturbed CancelEndsBoth
CHECK_DEADLOCK FALSE
