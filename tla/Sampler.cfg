SPECIFICATION Spec
CONSTANTS
  p1 = p1
  p2 = p2
  p3 = p3
  Procs <- ThreeProcs
  Rate = 1
  Interval = 1
  MaxTime = 5
  MaxCalls = 5
INVARIANTS LongRunRate AllowedBounded WindowBurst
SYMMETRY Symmetry
CHECK_DEADLOCK FALSE
