SPECIFICATION Spec
CONSTANTS
  MaxMsg = 2
  MaxCalls = 2
  MaxRun = 1
  SeqIds = {s1}
  NoSeq = NoSeq
  Spec10 = FALSE
  MaxAttempts = 1
  InactivityTimeout = FALSE
  CreateInline = TRUE
  Sequential = FALSE
  UserNumbers = FALSE
  Bodiless = FALSE
  BadResponses = FALSE
  ReuseKey = FALSE
  Crashes = FALSE
  Lossy = FALSE
INVARIANTS
  NoMessageLost
CHECK_DEADLOCK FALSE
