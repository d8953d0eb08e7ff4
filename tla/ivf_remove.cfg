CONSTANTS
  i1 = i1  i2 = i2  v1 = v1  v2 = v2  t1 = t1  t2 = t2  t3 = t3
  NoThread = NoThread
  Nil = Nil
  Libcxx = FALSE
  Ids = {i1, i2}
  Vals = {v1, v2}
  Threads = {t1, t2}
  Names <- MCNames
  Requests <- IvfRemoveMix
  Loaded <- LoadedIvf
  Threshold = 3
  TopK = 1
  MaxCount = 2
SYMMETRY Symmetry
SPECIFICATION Spec
INVARIANTS TypeOK IvfCatchesUp
PROPERTIES ImplementsVectorStore
CHECK_DEADLOCK FALSE
