------------------------------ MODULE BullQueue ------------------------------
(***************************************************************************)
(* The two BullMQ queues in Redis, seen from one application: each holds   *)
(* at most one job, because both enqueue functions use a deterministic job *)
(* id.  BullMQ is a library, so its side (locks, attempts, stalled jobs,   *)
(* retention) is modelled from how the queue modules configure it.         *)
(*                                                                         *)
(* "waiting" stands for waiting and delayed: every check in the code       *)
(* treats them alike.                                                      *)
(***************************************************************************)
EXTENDS ApplicationStore

CONSTANTS
  Workers,       \* worker replicas; each runs one job per queue at a time
  NoWorker,      \* the owner of a job nobody holds the lock of
  MaxAttempts    \* attempts configured per queue

ASSUME WorkersAssumption == NoWorker \notin Workers
ASSUME AttemptsAssumption == MaxAttempts \in [Types -> Nat \ {0}]

VARIABLE bull

BullState == {"none", "waiting", "active", "completed", "failed"}

Bull == [state : BullState,
         made  : Nat,                      \* attemptsMade
         stalls: Nat,                      \* BullMQ's stalled counter
         owner : Workers \cup {NoWorker}]  \* holder of the job lock

NoJob == [state |-> "none", made |-> 0, stalls |-> 0, owner |-> NoWorker]

NewJob == [NoJob EXCEPT !.state = "waiting"]

BullTypeOK == bull \in [Types -> Bull]

InFlight(type) == bull[type].state \in {"waiting", "active"}

(* bullmqIsTerminalFailure *)
TerminalFailure(type) ==
  /\ bull[type].state = "failed"
  /\ bull[type].made >= MaxAttempts[type]

(***************************************************************************)
(* enqueueProcessApplicationJob / enqueueSendJob: a job that is waiting,   *)
(* delayed or active is left alone by the code; one that is completed or   *)
(* failed but still retained is left alone by Queue.add, which ignores an  *)
(* id that exists.                                                         *)
(***************************************************************************)
Enqueue(type) ==
  bull' = IF bull[type].state = "none" THEN [bull EXCEPT ![type] = NewJob] ELSE bull

(* A worker takes the waiting job and its lock. *)
TakeJob(type, w) ==
  /\ bull[type].state = "waiting"
  /\ bull' = [bull EXCEPT ![type].state = "active", ![type].owner = w]

(* process-application removes completed jobs; send-application keeps them. *)
AfterCompletion(job, type) ==
  IF type = "ai_process" THEN NoJob
  ELSE [job EXCEPT !.state = "completed", !.owner = NoWorker]

(* A retryable error waits for its next attempt until attempts run out. *)
AfterFailure(job, type, recoverable) ==
  [job EXCEPT !.state = IF recoverable /\ job.made + 1 < MaxAttempts[type]
                          THEN "waiting" ELSE "failed",
              !.made  = @ + 1,
              !.owner = NoWorker]

(***************************************************************************)
(* The processor of worker w returned ("ok") or threw ("transient",        *)
(* "permanent").  Without the lock the outcome is refused.                 *)
(***************************************************************************)
FinishJob(type, w, outcome) ==
  LET job == bull[type]
  IN  bull' = IF job.state # "active" \/ job.owner # w THEN bull
              ELSE [bull EXCEPT ![type] =
                      IF outcome = "ok" THEN AfterCompletion(job, type)
                      ELSE AfterFailure(job, type, outcome = "transient")]

(***************************************************************************)
(* The lock of an active job was not renewed: the job goes back to the     *)
(* queue, and fails when it stalls more often than BullMQ allows (once).   *)
(***************************************************************************)
StallJob(type) ==
  /\ bull[type].state = "active"
  /\ bull' = [bull EXCEPT ![type] =
                IF @.stalls = 0
                  THEN [@ EXCEPT !.state = "waiting", !.stalls = 1, !.owner = NoWorker]
                  ELSE AfterFailure(@, type, FALSE)]

(* Only send-application gives a retention age to its finished jobs. *)
ExpireJob ==
  /\ bull["send_email"].state \in {"completed", "failed"}
  /\ bull' = [bull EXCEPT !["send_email"] = NoJob]
=============================================================================
