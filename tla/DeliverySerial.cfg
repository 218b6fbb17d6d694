SPECIFICATION FairSpec
CONSTANTS
  MaxMsg = 3
  MaxCalls = 3
  MaxRun = 1
  SeqIds = {s1}
  NoSeq = NoSeq
  Spec10 = FALSE
  Handlers = {h1}
  Requests <- AllRequests
  MaxCrashes = 1
INVARIANTS
  DeliveredAtMostOnce
  HighestCoversRecorded
  AckedIsAccountedFor
PROPERTIES
  AtomicUntilCrash
  EventuallyAcked
CHECK_DEADLOCK FALSE
