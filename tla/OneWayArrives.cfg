SPECIFICATION FairChannelSpec
CONSTANTS
  MaxMsg = 2
  MaxCalls = 2
  MaxRun = 1
  SeqIds = {s1}
  NoSeq = NoSeq
  Spec10 = FALSE
  MaxAttempts = 0
  InactivityTimeout = FALSE
  CreateInline = FALSE
  Sequential = TRUE
  UserNumbers = FALSE
  Bodiless = FALSE
  BadResponses = FALSE
  ReuseKey = FALSE
  Crashes = FALSE
  Lossy = TRUE
PROPERTIES
  EventuallyConfirmed
CHECK_DEADLOCK FALSE
