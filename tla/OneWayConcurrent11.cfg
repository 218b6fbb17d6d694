SPECIFICATION Spec
CONSTANTS
  MaxMsg = 2
  MaxCalls = 2
  MaxRun = 1
  SeqIds = {s1}
  NoSeq = NoSeq
  Spec10 = FALSE
  MaxAttempts = 0
  InactivityTimeout = TRUE
  CreateInline = FALSE
  Sequential = FALSE
  UserNumbers = TRUE
  Bodiless = FALSE
  BadResponses = TRUE
  ReuseKey = FALSE
  Crashes = TRUE
  Lossy = FALSE
INVARIANTS
  ConfirmedNumberDelivered
  LastInIsHighest
PROPERTIES
  FinalAckIsFinal
CHECK_DEADLOCK FALSE
