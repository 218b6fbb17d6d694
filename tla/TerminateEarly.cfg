SPECIFICATION Spec
CONSTANTS
  MaxMsg = 2
  MaxCalls = 2
  MaxRun = 1
  SeqIds = {s1}
  NoSeq = NoSeq
  Spec10 = TRUE
  MaxAttempts = 1
  InactivityTimeout = FALSE
  CreateInline = FALSE
  Sequential = TRUE
  UserNumbers = FALSE
  Bodiless = FALSE
  BadResponses = FALSE
  ReuseKey = FALSE
  Crashes = FALSE
  Lossy = FALSE
INVARIANTS
  TerminateOnlyWhenComplete
CHECK_DEADLOCK FALSE
