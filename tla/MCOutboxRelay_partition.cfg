SPECIFICATION Spec
CONSTANTS
  a = a
  b = b
  None = None
  w1 = w1
  Workers = {w1}
  NumEvents = 2
  OrderOf <- SameOrder
  BatchSize = 2
  NumPartitions = 3
  Poison = {}
  MaxFaults = 0
INVARIANTS
  KeyToOnePartition
CHECK_DEADLOCK FALSE
