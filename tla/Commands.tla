------------------------------ MODULE Commands ------------------------------
(***************************************************************************)
(* The HTTP commands on one application: auto-apply (which creates it),    *)
(* continue, retry, send and cancel.  Each checks, then writes, then       *)
(* enqueues, with nothing held in between; several requests may be in      *)
(* progress at once, in the same API process or in different ones.         *)
(*                                                                         *)
(* A request that is refused by its first check changes nothing and is     *)
(* not a step.  The 60 second duplicate filter of continue only refuses    *)
(* requests, so it is left out, as are quotas and rate limits.             *)
(***************************************************************************)
EXTENDS Workers

CONSTANT Requests     \* slots for requests in progress

VARIABLE reqs

cmdVars == <<app, jobs, spent, bull, reqs>>

Request == [pc   : {"idle", "check", "count", "continue", "reopen", "sendcheck",
                    "create", "enqueue"},
            type : Types,         \* the type of the row it creates
            seen : AppStatus]     \* application_status as checked

NoRequest == [pc |-> "idle", type |-> "ai_process", seen |-> "draft"]

ReqTypeOK == reqs \in [Requests -> Request]

Free(r) == reqs[r].pc = "idle"

Proceed(r, pc, type) ==
  reqs' = [reqs EXCEPT ![r] = [pc |-> pc, type |-> type, seen |-> app.status]]

Advance(r, pc) == reqs' = [reqs EXCEPT ![r].pc = pc]

Done(r) == reqs' = [reqs EXCEPT ![r] = NoRequest]

-----------------------------------------------------------------------------
(* retryApplication *)

RetryTarget == IF app.status = "failed" \/ ~app.subject THEN "ai_process" ELSE "send_email"

RetryRead(r) ==
  /\ Free(r)
  /\ Spend("retry")
  /\ app.status \notin {"sent", "cancelled", "needs_review"}
  /\ ~app.review
  /\ Proceed(r, "check", RetryTarget)
  /\ UNCHANGED <<app, jobs, bull>>

(* assertNoActiveExecution, after the application was read. *)
RetryCheck(r) ==
  /\ reqs[r].pc = "check"
  /\ IF \E type \in Types : HasActiveJob(type) THEN Done(r) ELSE Advance(r, "count")
  /\ UNCHANGED <<app, jobs, spent, bull>>

(* retry_count is raised whatever follows. *)
RetryCount(r) ==
  /\ reqs[r].pc = "count"
  /\ app' = [app EXCEPT !.retries = @ + 1]
  /\ Advance(r, "reopen")
  /\ UNCHANGED <<jobs, spent, bull>>

(***************************************************************************)
(* A failed application must still be failed to become a draft again; a    *)
(* revive checks nothing; a draft that has its email is refused only here. *)
(***************************************************************************)
RetryReopen(r) ==
  LET was == reqs[r].seen
      refused == \/ was = "failed" /\ app.status # "failed"
                 \/ was = "draft" /\ reqs[r].type = "send_email"
  IN  /\ reqs[r].pc = "reopen"
      /\ IF was = "failed" THEN CasApp({"failed"}, "draft", FALSE) ELSE UNCHANGED app
      /\ IF refused THEN Done(r) ELSE Advance(r, "create")
      /\ UNCHANGED <<jobs, spent, bull>>

(* createJob, also the last write of a manual send. *)
CreateRow(r) ==
  /\ reqs[r].pc = "create"
  /\ CreateJob(reqs[r].type)
  /\ Advance(r, "enqueue")
  /\ UNCHANGED <<app, spent, bull>>

(* The enqueue that ends continue, retry, send and auto-apply. *)
EnqueueRow(r) ==
  /\ reqs[r].pc = "enqueue"
  /\ Enqueue(reqs[r].type)
  /\ Done(r)
  /\ UNCHANGED <<app, jobs, spent>>

-----------------------------------------------------------------------------
(* continueApplication *)

ContinueCheck(r) ==
  /\ Free(r)
  /\ Spend("continue")
  /\ app.status = "needs_review"
  /\ app.review
  /\ ~HasActiveJob("send_email")
  /\ ~HasCompletedSendJob
  /\ Proceed(r, "continue", "send_email")
  /\ UNCHANGED <<app, jobs, bull>>

(* Faulty variant: clearReviewReason is forgotten. *)
ContinueKeepsReview(r) ==
  /\ reqs[r].pc = "continue"
  /\ app.status = "needs_review"
  /\ CasApp({"needs_review"}, "generated", app.review)
  /\ CreateJob("send_email")
  /\ Advance(r, "enqueue")
  /\ UNCHANGED <<spent, bull>>

(* One transaction: needs_review -> generated and the send row, or neither. *)
ContinueCommit(r) ==
  /\ reqs[r].pc = "continue"
  /\ app.status = "needs_review"
  /\ CasApp({"needs_review"}, "generated", FALSE)
  /\ CreateJob("send_email")
  /\ Advance(r, "enqueue")
  /\ UNCHANGED <<spent, bull>>

ContinueConflict(r) ==
  /\ reqs[r].pc = "continue"
  /\ app.status # "needs_review"
  /\ Done(r)
  /\ UNCHANGED <<app, jobs, spent, bull>>

-----------------------------------------------------------------------------
(* sendApplication (manual send of an email that is ready) *)

SendRead(r) ==
  /\ Free(r)
  /\ Spend("send")
  /\ app.status = "generated"
  /\ app.subject
  /\ ~HasCompletedSendJob
  /\ Proceed(r, "sendcheck", "send_email")
  /\ UNCHANGED <<app, jobs, bull>>

(* Faulty variant: the job is enqueued before its row is created. *)
SendCheckSkipsRow(r) ==
  /\ reqs[r].pc = "sendcheck"
  /\ IF HasActiveJob("send_email") THEN Done(r) ELSE Advance(r, "enqueue")
  /\ UNCHANGED <<app, jobs, spent, bull>>

(* The second of two queries: the first looked for a completed row. *)
SendCheck(r) ==
  /\ reqs[r].pc = "sendcheck"
  /\ IF HasActiveJob("send_email") THEN Done(r) ELSE Advance(r, "create")
  /\ UNCHANGED <<app, jobs, spent, bull>>

-----------------------------------------------------------------------------
(* cancelApplication: one CAS; job rows and BullMQ jobs stay as they are. *)

Cancellable == {"draft", "generated", "needs_review", "failed"}

Cancel ==
  /\ app.status \in Cancellable
  /\ Spend("cancel")
  /\ CasApp(Cancellable, "cancelled", FALSE)
  /\ UNCHANGED <<jobs, bull, reqs>>

-----------------------------------------------------------------------------
(* The API process dies, or its enqueue fails: the request ends there. *)
RequestDies(r) ==
  /\ ~Free(r)
  /\ Spend("drop")
  /\ Done(r)
  /\ UNCHANGED <<app, jobs, bull>>

RequestStep(r) ==
  \/ RetryCheck(r)
  \/ RetryCount(r)
  \/ RetryReopen(r)
  \/ SendCheck(r)
  \/ CreateRow(r)
  \/ EnqueueRow(r)
  \/ ContinueCommit(r)
  \/ ContinueConflict(r)

CommandNext ==
  \/ \E r \in Requests : \/ RequestStep(r)
                         \/ RequestDies(r)
                         \/ RetryRead(r)
                         \/ ContinueCheck(r)
                         \/ SendRead(r)
  \/ Cancel
=============================================================================
