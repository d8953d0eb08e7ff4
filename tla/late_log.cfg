CONSTANTS
  c1 = c1  c2 = c2  s1 = s1
  p1 = p1  p2 = p2  w1 = w1  w2 = w2
  None = None
  Calls = {c1, c2}
  Rpc <- AddIndexes
  Pollers = {p1, p2}
  Workers = {w1}
  MaxQueue = 1
  MaxBatches = 1
SPECIFICATION Spec
INVARIANTS HandlersLive
CHECK_DEADLOCK FALSE
