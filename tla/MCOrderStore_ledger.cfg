SPECIFICATION Spec
CONSTANTS
  c1 = c1
  c2 = c2
  x1 = x1
  f1 = f1
  f2 = f2
  Creators = {c1, c2}
  Cancelers = {x1}
  Fillers = {f1, f2}
  Terms <- RaceTerms
  FillSizes = {1, 2}
  PoolSize = 2
INVARIANTS
  AcknowledgedIsDurable
  IInv
PROPERTIES
  RefinesLedger
SYMMETRY Symmetry
CHECK_DEADLOCK FALSE
