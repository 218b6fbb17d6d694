SPECIFICATION FairSpec
CONSTANTS
  MaxMsg = 3
  MaxCalls = 3
  MaxRun = 1
  SeqIds = {s1, s2}
  NoSeq = NoSeq
  Spec10 = FALSE
  MaxAttempts = 1
  InactivityTimeout = FALSE
  CreateInline = TRUE
  Sequential = TRUE
  UserNumbers = FALSE
  Bodiless = FALSE
  BadResponses = FALSE
  ReuseKey = FALSE
  Crashes = TRUE
  Lossy = FALSE
INVARIANTS
  NoMessageLost
  TerminateOnlyWhenComplete
  LastInIsHighest
PROPERTIES
  SendReturns
CHECK_DEADLOCK FALSE
