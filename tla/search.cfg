CONSTANTS
  Ids = {0, 1, 2, 3}
  Vals = {0, 1, 2, 3}
  Nil = Nil
  Far = 100
  M = 2
  MaxLevel = 1
  K = 2
  Threshold = 4
  MaxIterations = 4
  Places <- OwnPlaces
  MaxUpdates <- SomeUpdates
  Batches <- SomeBatches
SPECIFICATION Spec
INVARIANTS TypeOK HnswExact HnswDegree WithinIndices KMeansRests KMeansNoCircle IvfFindsStored IvfExact
PROPERTIES GoesAstray
CHECK_DEADLOCK FALSE
