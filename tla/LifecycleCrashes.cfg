\* Crashes, lost enqueues and aborted sweeps.
SPECIFICATION Spec
CONSTANTS
  w1 = w1
  w2 = w2
  r1 = r1
  r2 = r2
  Workers = {w1, w2}
  NoWorker = NoWorker
  Requests = {r1}
  MaxAttempts <- TwoAttempts
  Limit <- CrashLimit
SYMMETRY Replicas
CHECK_DEADLOCK FALSE
INVARIANTS
  AtMostOneMail
