SPECIFICATION Spec
CONSTANTS
  MaxMsg = 3
  MaxCalls = 3
  MaxRun = 1
  SeqIds = {s1}
  NoSeq = NoSeq
  Spec10 = FALSE
  Handlers = {h1, h2}
  Requests <- AppRequests
  MaxCrashes = 0
INVARIANT DeliveredAtMostOnce
CHECK_DEADLOCK FALSE
