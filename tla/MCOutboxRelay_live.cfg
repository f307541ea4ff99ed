SPECIFICATION FairSpec
CONSTANTS
  a = a
  b = b
  None = None
  w1 = w1
  w2 = w2
  Workers = {w1, w2}
  NumEvents = 3
  OrderOf <- Interleaved
  BatchSize = 2
  NumPartitions = 1
  Poison = {1}
  MaxFaults = 1
PROPERTIES
  EventuallyPublished
CHECK_DEADLOCK FALSE
