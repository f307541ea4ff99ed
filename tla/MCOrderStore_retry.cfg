SPECIFICATION Spec
CONSTANTS
  c1 = c1
  c2 = c2
  c3 = c3
  x1 = x1
  Creators = {c1, c2, c3}
  Cancelers = {x1}
  Fillers = {}
  Terms <- RetryTerms
  FillSizes = {1}
  PoolSize = 2
INVARIANTS
  OneOrderPerKey
  RetryGetsSameOrder
  CreateGetsOwnTerms
SYMMETRY Symmetry
CHECK_DEADLOCK FALSE
