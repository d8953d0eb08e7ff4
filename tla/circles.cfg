CONSTANTS
  i1 = i1  i2 = i2  v1 = v1  v2 = v2  t1 = t1  t2 = t2  t3 = t3
  NoThread = NoThread
  Nil = Nil
  Libcxx = TRUE
  Ids = {i1}
  Vals = {v1}
  Threads = {t1, t2, t3}
  Names <- MCNames
  Requests <- AllMix
  Loaded <- LoadedNone
  Threshold = 2
  TopK = 1
  MaxCount = 2
SYMMETRY Symmetry
SPECIFICATION Spec
INVARIANTS CirclesKnown
CHECK_DEADLOCK FALSE
