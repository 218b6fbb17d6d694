SPECIFICATION Spec
CONSTANTS
  MaxMsg = 2
  MaxCalls = 3
  MaxRun = 2
  SeqIds = {s1, s2}
  NoSeq = NoSeq
  Spec10 = TRUE
  MaxAttempts = 1
  InactivityTimeout = FALSE
  CreateInline = TRUE
  Sequential = TRUE
  UserNumbers = TRUE
  Bodiless = FALSE
  BadResponses = TRUE
  ReuseKey = TRUE
  Crashes = TRUE
  Lossy = FALSE
SYMMETRY SeqSymmetry
INVARIANTS
  DeliveredAtMostOnce
  IndInv
CHECK_DEADLOCK FALSE
