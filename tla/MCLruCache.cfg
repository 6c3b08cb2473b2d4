SPECIFICATION FairSpec
CONSTANTS
  k1 = k1  k2 = k2  k3 = k3  p1 = p1  p2 = p2
  None = None
  Keys = {k1, k2, k3}
  Procs = {p1, p2}
  maxItemCount = 1
  ttl = 1
  Intervals = {1, 2}
  MaxTime = 2
  MaxSteps = 6
INVARIANTS SizeBound RealTimeOrder
PROPERTY StartedGcCollects
CHECK_DEADLOCK FALSE
