\* Two requests in progress against the workers and recovery.
SPECIFICATION Spec
CONSTANTS
  w1 = w1
  w2 = w2
  r1 = r1
  r2 = r2
  Workers = {w1}
  NoWorker = NoWorker
  Requests = {r1, r2}
  MaxAttempts <- TwoAttempts
  Limit <- CommandsLimit
SYMMETRY Replicas
CHECK_DEADLOCK FALSE
INVARIANTS
  TypeOK
  CompletedSendMeansMailed
  JobHasRow
  ReviewReasonMatchesStatus
  WorkIsWatched
PROPERTIES
  AttemptsAreHistory
