SPECIFICATION RepeatingSpec
CONSTANTS
  Threads = {t1}
  Requests = {1, 2, 3}
  SeqIds = {s1, s2}
  Offer = s1
  NoSeq = NoSeq
  Settings <- UnofferedSettings
  MaxAttempts = 1
PROPERTY RequestsAcknowledged
CHECK_DEADLOCK FALSE
