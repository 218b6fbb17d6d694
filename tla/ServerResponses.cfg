SPECIFICATION FairSpec
CONSTANTS
  Threads = {t1}
  Requests = {1, 2}
  SeqIds = {s1, s2}
  Offer = s1
  NoSeq = NoSeq
  Settings <- AllSettings
  MaxAttempts = 1
INVARIANTS
  TypeOK
  NoResponseLost
  AckKept
  SecondAnswerIsBare
PROPERTIES
  ResponsesReliable
  EndsWhenReceived
  Answered
  WorkersEnd
CHECK_DEADLOCK FALSE
