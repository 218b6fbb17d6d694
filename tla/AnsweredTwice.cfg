SPECIFICATION Spec
CONSTANTS
  Threads = {t1}
  Requests = {1}
  SeqIds = {s1, s2}
  Offer = s1
  NoSeq = NoSeq
  Settings <- UnofferedSettings
  MaxAttempts = 1
INVARIANT AnsweredOnce
CHECK_DEADLOCK FALSE
