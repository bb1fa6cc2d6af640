\* Locks lost under live workers, errors after the effect, expiry of finished jobs.
SPECIFICATION Spec
CONSTANTS
  w1 = w1
  w2 = w2
  r1 = r1
  r2 = r2
  Workers = {w1, w2}
  NoWorker = NoWorker
  Requests = {r1}
  MaxAttempts <- TwoAttempts
  Limit <- TroubleLimit
SYMMETRY Replicas
CHECK_DEADLOCK FALSE
INVARIANTS
  ExclusiveClaim
PROPERTIES
  ImplementsWorkflow
