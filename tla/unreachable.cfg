CONSTANTS
  Ids = {1, 2, 3, 4, 5, 6}
  Vals = {1, 2, 3, 4, 5, 6}
  Nil = Nil
  Far = 100
  M = 2
  MaxLevel = 0
  K = 1
  Threshold = 1
  MaxIterations = 1
  Places <- OwnPlaces
  Batches <- OneBatch
  MaxUpdates <- OneUpdate
SPECIFICATION Spec
INVARIANTS FindsNearest
CHECK_DEADLOCK FALSE
