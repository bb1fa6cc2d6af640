\* A send requeued after BullMQ's last attempt.
SPECIFICATION Spec
CONSTANTS
  w1 = w1
  w2 = w2
  r1 = r1
  r2 = r2
  Workers = {w1, w2}
  NoWorker = NoWorker
  Requests = {r1}
  MaxAttempts <- TwoAttempts
  Limit <- TwoFailures
CHECK_DEADLOCK FALSE
PROPERTIES
  RequeuedSendIsRetried
