CONSTANTS
  n1 = n1  n2 = n2  i1 = i1  w1 = w1  w2 = w2
  NoThread = NoThread
  Libcxx = TRUE
  Names = {n1, n2}
  Ids = {i1}
  Workers = {w1, w2}
  Main = Main
  Absent = Absent
  Torn <- TornFile
SYMMETRY Symmetry
SPECIFICATION Spec
INVARIANTS TypeOK InsideExists RestoresSaved
PROPERTIES FilesWhole ImplementsDurableTable
