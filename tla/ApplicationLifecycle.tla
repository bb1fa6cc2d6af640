------------------------- MODULE ApplicationLifecycle -------------------------
(***************************************************************************)
(* The life of one application: API requests, worker replicas and the      *)
(* recovery job act on the same Postgres rows and BullMQ jobs.  The model  *)
(* starts where the transaction of startAutoApply has committed and its    *)
(* request still has to enqueue the process job.                           *)
(***************************************************************************)
EXTENDS Recovery

vars == <<app, jobs, spent, bull, run, mails, reqs, rec>>

Init ==
  /\ app \in {[status |-> "draft", review |-> FALSE, subject |-> s, retries |-> 0]
                : s \in BOOLEAN}
  /\ jobs = [type \in Types |-> IF type = "ai_process" THEN <<"queued">> ELSE <<>>]
  /\ spent = [kind \in Kinds |-> 0]
  /\ bull = [type \in Types |-> NoJob]
  /\ run = [type \in Types |-> [w \in Workers |-> Idle]]
  /\ mails = 0
  /\ \E creator \in Requests :
       reqs = [r \in Requests |-> IF r = creator
                                    THEN [NoRequest EXCEPT !.pc = "enqueue"]
                                    ELSE NoRequest]
  /\ rec = NoSweep

WorkersAct == WorkerNext /\ UNCHANGED <<reqs, rec>>

RequestsAct == CommandNext /\ UNCHANGED <<run, mails, rec>>

RecoveryActs == RecoveryNext /\ UNCHANGED <<run, mails, reqs>>

Next == WorkersAct \/ RequestsAct \/ RecoveryActs

Spec == Init /\ [][Next]_vars

(***************************************************************************)
(* Fairness: each call that was begun goes on (workers and API processes   *)
(* run, and are restarted when they die), the lock of a dead worker runs   *)
(* out, and each recovery sweep handles every row that its query returns.  *)
(***************************************************************************)
AbandonedLockExpires(type) ==
  /\ LockExpires(type)
  /\ At(type, bull[type].owner, "idle")
  /\ UNCHANGED <<reqs, rec>>

Fairness ==
  /\ \A w \in Workers : /\ WF_vars(ProcessStep(w) /\ UNCHANGED <<reqs, rec>>)
                        /\ WF_vars(SendStep(w) /\ UNCHANGED <<reqs, rec>>)
  /\ \A type \in Types : /\ WF_vars(AbandonedLockExpires(type))
                         /\ SF_vars(RecPick(type) /\ UNCHANGED <<run, mails, reqs>>)
  /\ \A r \in Requests : WF_vars(RequestStep(r) /\ UNCHANGED <<run, mails, rec>>)
  /\ WF_vars(RecoveryStep /\ UNCHANGED <<run, mails, reqs>>)

FairSpec == Spec /\ Fairness

-----------------------------------------------------------------------------
(* Invariants                                                              *)

(* Every variable of the composition keeps its type. *)
TypeOK == StoreTypeOK /\ BullTypeOK /\ RunTypeOK /\ ReqTypeOK /\ RecTypeOK

(* A call that has won its claim and has not returned. *)
Executing(type, w) == run[type][w].pc \in {"work", "enqueue", "mark", "finish",
                                           "requeue", "failrow", "failapp"}

(***************************************************************************)
(* Whatever BullMQ delivers twice, no two calls execute the same job row:  *)
(* the claim queued -> processing in application_jobs decides, and no      *)
(* requeue, repair or retry makes a row claimable that is being executed.  *)
(***************************************************************************)
ExclusiveClaim ==
  \A type \in Types : \A w, v \in Workers :
    Executing(type, w) /\ Executing(type, v) /\ run[type][w].row = run[type][v].row
      => w = v

(***************************************************************************)
(* Database before queue: whenever BullMQ holds a job of either type, or   *)
(* somebody is about to enqueue one, the row its worker will look up       *)
(* exists, so "No send_email job row" is never thrown.                     *)
(***************************************************************************)
JobHasRow ==
  /\ \A type \in Types : bull[type].state # "none" => LatestRow(type) > 0
  /\ \A r \in Requests : reqs[r].pc = "enqueue" => LatestRow(reqs[r].type) > 0
  /\ \A w \in Workers : At("ai_process", w, "enqueue") => LatestRow("send_email") > 0
  /\ ~RecAt("idle") => LatestRow(rec.type) > 0

(***************************************************************************)
(* The recipient gets one mail: requests, recovery and worker replicas in  *)
(* any order, crashes between delivery and bookkeeping included.           *)
(***************************************************************************)
AtMostOneMail == mails <= 1

(***************************************************************************)
(* "Completed send job blocks duplicate SMTP": continue, manual send and   *)
(* the send worker answer "already sent" when they see a completed send    *)
(* row, so there must be a mail behind it.                                 *)
(***************************************************************************)
CompletedSendMeansMailed == HasCompletedSendJob => mails > 0

(***************************************************************************)
(* review_reason is set exactly in needs_review: retry and both recovery   *)
(* queries test it in addition to the status.                              *)
(***************************************************************************)
ReviewReasonMatchesStatus == app.review <=> app.status = "needs_review"

-----------------------------------------------------------------------------
(* Action properties                                                       *)

(***************************************************************************)
(* application_jobs is the execution history: a retry, a requeue or a      *)
(* repair adds rows and may move active ones, but no row disappears and an *)
(* attempt that ended keeps its outcome.                                   *)
(***************************************************************************)
AttemptsAreHistory ==
  [][\A type \in Types : \A i \in DOMAIN jobs[type] :
       /\ i \in DOMAIN jobs'[type]
       /\ jobs[type][i] \notin ActiveRow => jobs'[type][i] = jobs[type][i]]_vars

(***************************************************************************)
(* What the project's documents say and the code does not keep: each of    *)
(* the next properties is refuted by a run of its own, which the README    *)
(* explains.                                                               *)
(***************************************************************************)

(* A cancelled application sends nothing more. *)
CancelStopsMail == [][mails' > mails => app.status # "cancelled"]_vars

(* When the send worker counts on another attempt, BullMQ schedules one. *)
RequeuedSendIsRetried ==
  [][\A w \in Workers :
       LET call == run["send_email"][w]
           job == bull["send_email"]
       IN  /\ call.pc = "settle" /\ call.outcome = "transient"
           /\ job.state = "active" /\ job.owner = w
           /\ run'["send_email"][w].pc = "idle" /\ job # bull'["send_email"]
           => bull'["send_email"].state = "waiting"]_vars

-----------------------------------------------------------------------------
(* Refinement                                                              *)

Workflow == INSTANCE ApplicationWorkflow WITH
  status   <- app.status,
  prepared <- app.subject,
  ordered  <- jobs["send_email"] # <<>>,
  copies   <- mails

(* Every step of the implementation is a step of the business workflow. *)
ImplementsWorkflow == Workflow!Spec

-----------------------------------------------------------------------------
(* Liveness                                                                *)

(***************************************************************************)
(* A draft is eventually processed: by its first attempt, by a later one,  *)
(* or by the recovery job when the attempt, the enqueue or the worker was  *)
(* lost.                                                                   *)
(***************************************************************************)
DraftIsProcessed == app.status = "draft" ~> app.status # "draft"

(* An ordered send comes to an end: the application leaves "generated".    *)
OrderedSendSettles ==
  app.status = "generated" /\ HasActiveJob("send_email") ~> app.status # "generated"

(***************************************************************************)
(* What the documents say and a run refutes: recovery requeues or fails a  *)
(* process row that is stuck in processing.                                *)
(***************************************************************************)
LatestIsProcessing == jobs["ai_process"][LatestRow("ai_process")] = "processing"

StuckProcessingIsResolved == LatestIsProcessing ~> ~LatestIsProcessing

(***************************************************************************)
(* What the documents say and a run refutes: the user retries a failed     *)
(* application and it is processed again.                                  *)
(***************************************************************************)
RetryIsProcessed ==
  app.status = "draft" /\ app.retries > 0 ~> app.status # "draft"
=============================================================================
