SPECIFICATION FairSpec
CONSTANTS
  c1 = c1
  c2 = c2
  x1 = x1
  f1 = f1
  Creators = {c1, c2}
  Cancelers = {x1}
  Fillers = {f1}
  Terms <- OneKey
  FillSizes = {1, 2}
  PoolSize = 1
PROPERTIES
  RequestsAnswered
CHECK_DEADLOCK FALSE
