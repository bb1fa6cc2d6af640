\* A draft is processed in spite of losses.
SPECIFICATION FairSpec
CONSTANTS
  w1 = w1
  w2 = w2
  r1 = r1
  r2 = r2
  Workers = {w1, w2}
  NoWorker = NoWorker
  Requests = {r1}
  MaxAttempts <- TwoAttempts
  Limit <- ProcessLimit
CHECK_DEADLOCK FALSE
PROPERTIES
  DraftIsProcessed
