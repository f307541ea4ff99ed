SPECIFICATION Spec
CONSTANTS
  c1 = c1
  x1 = x1
  x2 = x2
  f1 = f1
  f2 = f2
  f3 = f3
  Creators = {c1}
  Cancelers = {x1, x2}
  Fillers = {f1, f2, f3}
  Terms <- FillTerms
  FillSizes = {0, 1, 2, 4}
  PoolSize = 3
INVARIANTS
  TypeOK
  StoredRowsConsistent
  OutboxMatchesOrders
  LoserLearnsWhy
  FillsConserved
  AnnouncedRemainingNotLow
PROPERTIES
  LifecycleRespected
SYMMETRY Symmetry
CHECK_DEADLOCK FALSE
