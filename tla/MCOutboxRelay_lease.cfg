SPECIFICATION Spec
CONSTANTS
  a = a
  b = b
  None = None
  w1 = w1
  w2 = w2
  Workers = {w1, w2}
  NumEvents = 3
  OrderOf <- Interleaved
  BatchSize = 2
  NumPartitions = 1
  Poison = {}
  MaxFaults = 2
INVARIANTS
  TypeOK
  PublishedImpliesLogged
  DuplicateOnlyIfSuspect
  IInv
  OvertakenOnlyIfStalled
PROPERTIES
  LeaseFencing
  PublishedIsFinal
  RefinesAtLeastOnce
SYMMETRY Symmetry
CHECK_DEADLOCK FALSE
