SPECIFICATION FairSpec
CONSTANTS
  Calls = {"r1"}
  NumRows = 2
  NotANumber = NotANumber
  Settings <- Environments
INVARIANTS
  TypeOK
  HandlersFinish
  ExitTruthful
  PublisherGoesOn
  StopLeavesAtMostABatch
  IInv
PROPERTIES
  Terminates
CHECK_DEADLOCK FALSE
