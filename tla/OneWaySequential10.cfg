SPECIFICATION Spec
CONSTANTS
  MaxMsg = 3
  MaxCalls = 3
  MaxRun = 1
  SeqIds = {s1, s2}
  NoSeq = NoSeq
  Spec10 = TRUE
  MaxAttempts = 1
  InactivityTimeout = TRUE
  CreateInline = TRUE
  Sequential = TRUE
  UserNumbers = FALSE
  Bodiless = FALSE
  BadResponses = FALSE
  ReuseKey = FALSE
  Crashes = TRUE
  Lossy = FALSE
SYMMETRY SeqSymmetry
INVARIANTS
  TypeOK
  NoMessageLost
  LastInIsHighest
PROPERTIES
  ImplementsReliableDelivery
CHECK_DEADLOCK FALSE
