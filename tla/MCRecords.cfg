CONSTANTS
  Requests = {r1, r2}
  Titles = {1, 2}
  Categories = {1, 2}
  MaxRecords = 4
  MaxOps = 2
  Contents <- SomeContents
  Bulks <- SomeBulks
  Withdrawn = {2}
  Seeds <- TwoSeeds
  LastDay = 2
  ListMax = 1
  AnalyticsMax = 2
  Queries <- ClientQueries
  None = None
SPECIFICATION Spec
CHECK_DEADLOCK FALSE
SYMMETRY RequestSymmetry
INVARIANTS IInv PageAgrees WalkComplete WholeRows
PROPERTIES DeletedIsFinal
