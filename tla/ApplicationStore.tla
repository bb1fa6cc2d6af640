-------------------------- MODULE ApplicationStore --------------------------
(***************************************************************************)
(* The Postgres rows that drive one job application: the applications row  *)
(* and its append-only application_jobs rows, together with the            *)
(* compare-and-swap primitives every writer goes through.                  *)
(*                                                                         *)
(* One application is enough: no statement of the lifecycle code touches   *)
(* two of them.  Columns no guard of the lifecycle reads (timestamps,      *)
(* last_error, orchestration_version and _epoch, the generated text) are   *)
(* left out; a job row is its status, because that is all anybody reads.   *)
(***************************************************************************)
EXTENDS Naturals, Sequences

CONSTANT Limit   \* budget of each kind of event the environment may cause

Types == {"ai_process", "send_email"}

AppStatus == {"draft", "generated", "needs_review", "sent", "failed", "cancelled"}

RowStatus == {"queued", "processing", "retrying", "completed", "failed"}

ActiveRow == {"queued", "processing", "retrying"}

(***************************************************************************)
(* What the environment does a bounded number of times:                    *)
(*   users issue the commands retry, continue, send and cancel;            *)
(*   a worker process dies (crash) or stops renewing its lock (stall);     *)
(*   an enqueue after a commit is lost with its caller (drop);             *)
(*   a recovery sweep ends early (abort);                                  *)
(*   a provider refuses, this time (transient) or for good (permanent);    *)
(*   an error is thrown that its own code calls not retryable, but not by  *)
(*   one of the classes the failure decision knows (unclassified);         *)
(*   a statement fails, or has its effect and reports an error (fault);    *)
(*   Redis drops a finished job whose retention is over (expire).          *)
(***************************************************************************)
Kinds == {"retry", "continue", "send", "cancel", "crash", "stall", "drop",
          "abort", "transient", "permanent", "unclassified", "fault", "expire"}

ASSUME LimitAssumption == Limit \in [Kinds -> Nat]

VARIABLES
  app,     \* the applications row
  jobs,    \* the application_jobs rows of each type, in creation order
  spent    \* how much of each budget is used up

storeVars == <<app, jobs, spent>>

App == [status  : AppStatus,
        review  : BOOLEAN,      \* review_reason IS NOT NULL
        subject : BOOLEAN,      \* email_subject and email_body are present
        retries : Nat]          \* applications.retry_count

StoreTypeOK ==
  /\ app \in App
  /\ jobs \in [Types -> Seq(RowStatus)]
  /\ spent \in [Kinds -> Nat]

Spend(kind) ==
  /\ spent[kind] < Limit[kind]
  /\ spent' = [spent EXCEPT ![kind] = @ + 1]

-----------------------------------------------------------------------------
(* Reads *)

RowsOf(type) == {jobs[type][i] : i \in DOMAIN jobs[type]}

HasActiveJob(type) == RowsOf(type) \cap ActiveRow # {}

HasCompletedSendJob == "completed" \in RowsOf("send_email")

(* getLatestJobByType, as the position of the row; 0 when there is none.   *)
LatestRow(type) == Len(jobs[type])

-----------------------------------------------------------------------------
(* Writes.  Each is one SQL statement; a conflict leaves the row alone.    *)

CasApp(expected, next, review) ==
  app' = IF app.status \in expected
           THEN [app EXCEPT !.status = next, !.review = review]
           ELSE app

RowAfterCas(status, expected, next) ==
  IF status \in expected THEN next ELSE status

CasJob(type, row, expected, next) ==
  jobs' = [jobs EXCEPT ![type][row] = RowAfterCas(@, expected, next)]

(* Faulty variant: a default status that no reader knows. *)
CreateJobPending(type) == jobs' = [jobs EXCEPT ![type] = Append(@, "pending")]

CreateJob(type) == jobs' = [jobs EXCEPT ![type] = Append(@, "queued")]
=============================================================================
