SPECIFICATION Spec
CONSTANTS
  a = a
  b = b
  None = None
  w1 = w1
  Workers = {w1}
  NumEvents = 2
  OrderOf <- SameOrder
  BatchSize = 2
  NumPartitions = 1
  Poison = {}
  MaxFaults = 0
INVARIANTS
  PerOrderOrder
CHECK_DEADLOCK FALSE
