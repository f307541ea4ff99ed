SPECIFICATION FairPipelineSpec
CONSTANTS
  Creators = {"c1"}
  Cancelers = {}
  Fillers = {"f1", "f2"}
  Terms <- OneOrder
  FillSizes = {1}
  PoolSize = 2
  ByAge <- ItsRows
  Workers = {"w1", "w2"}
  BatchSize = 2
  NumPartitions = 1
  Poison = {}
  MaxFaults = 1
  None = None
INVARIANTS
  TopicTellsTruth
PROPERTIES
  AnnouncedInTheEnd
  RefinesRelay
CHECK_DEADLOCK FALSE
