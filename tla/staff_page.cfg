SPECIFICATION Spec
CONSTANTS
  t1 = t1
  t2 = t2
  c1 = c1
  c2 = c2
  Tasks <- TwoTasks
  Calls <- TwoCalls
  MaxQueue = 1
  MaxTaps = 2
  Elsewhere = {}
  None = None
SYMMETRY Symmetry
CHECK_DEADLOCK FALSE
INVARIANTS UnconfirmedMarked BusyBacked
