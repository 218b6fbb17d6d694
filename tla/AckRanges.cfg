SPECIFICATION FairSpec
CONSTANTS
  MaxNo = 5
  Lists <- ArrivalOrders
  LastNos <- AnyLast
INVARIANTS
  TypeOK
  RangesExact
  RangesApart
  CountExact
  CompletionExact
PROPERTIES
  Terminates
CHECK_DEADLOCK FALSE
