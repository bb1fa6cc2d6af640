------------------------------- MODULE Workers -------------------------------
(***************************************************************************)
(* The process worker (AI generation) and the send worker (mail delivery). *)
(* A step is one database statement or one call to an external service, so *)
(* anything else may happen between two steps of one handler.  Statements  *)
(* inside a transaction form one step: the transaction holds the lock on   *)
(* the applications row from its first update to COMMIT.                   *)
(*                                                                         *)
(* Control points of a runner:                                             *)
(*   idle -> claim -> work -> ... -> settle -> idle                        *)
(*   work -> enqueue             process worker, after COMMIT              *)
(*   work -> mark -> finish      send worker, after the mail is out        *)
(*   ...  -> requeue             send worker, retryable failure            *)
(*   ...  -> failrow -> failapp  terminal failure                          *)
(***************************************************************************)
EXTENDS BullQueue

VARIABLES
  run,     \* the processor call in progress, per queue and worker
  mails    \* history: how many times the message reached the provider

workVars == <<app, jobs, spent, bull, run, mails>>

Outcome == {"ok", "transient", "permanent"}

Runner == [pc      : {"idle", "claim", "work", "enqueue", "mark", "finish",
                      "requeue", "failrow", "failapp", "settle"},
           row     : Nat,         \* the job row this call looked up
           made    : Nat,         \* job.attemptsMade
           seen    : AppStatus,   \* application_status as read at the start
           email   : BOOLEAN,     \* the row had an email before generation
           outcome : Outcome]     \* what the call returns or throws

Idle == [pc |-> "idle", row |-> 0, made |-> 0, seen |-> "draft",
         email |-> FALSE, outcome |-> "ok"]

RunTypeOK ==
  /\ run \in [Types -> [Workers -> Runner]]
  /\ mails \in Nat

At(type, w, pc) == run[type][w].pc = pc

Goto(type, w, pc) == run' = [run EXCEPT ![type][w].pc = pc]

EndWith(type, w, outcome) ==
  run' = [run EXCEPT ![type][w].pc = "settle", ![type][w].outcome = outcome]

(* What the first reads of a processor leave in its local variables. *)
Loaded(type) ==
  [pc |-> "claim", row |-> LatestRow(type), made |-> bull[type].made,
   seen |-> app.status, email |-> app.subject, outcome |-> "ok"]

Rejected(outcome) == [Idle EXCEPT !.pc = "settle", !.outcome = outcome]

-----------------------------------------------------------------------------
(* Failure handling shared by both catch blocks.                           *)

WillBullMqRetry(type, made) == made < MaxAttempts[type]

(***************************************************************************)
(* The catch block: a retryable error leaves the application alone, any    *)
(* other is persisted.  Only the send worker puts its row back to queued.  *)
(***************************************************************************)
Catch(type, w, recoverable) ==
  IF ~recoverable \/ ~WillBullMqRetry(type, run[type][w].made)
    THEN Goto(type, w, "failrow")
  ELSE IF type = "send_email"
    THEN Goto(type, w, "requeue")
  ELSE EndWith(type, w, "transient")

(* safePersistApplicationFailure: the job row, then the application. *)
FailRow(type, w) ==
  /\ At(type, w, "failrow")
  /\ CasJob(type, run[type][w].row, ActiveRow, "failed")
  /\ Goto(type, w, "failapp")
  /\ UNCHANGED <<app, spent, bull, mails>>

(* Faulty variant: the application is failed whatever has become of it. *)
FailableFromAny(type) == AppStatus

FailableFrom(type) ==
  IF type = "ai_process" THEN {"draft"} ELSE {"draft", "generated"}

FailApp(type, w) ==
  /\ At(type, w, "failapp")
  /\ CasApp(FailableFrom(type), "failed", FALSE)
  /\ EndWith(type, w, "permanent")
  /\ UNCHANGED <<jobs, spent, bull, mails>>

(***************************************************************************)
(* An error of either statement is logged and swallowed; one of recordEvent *)
(* after them is not, and takes the place of the error that was caught.    *)
(***************************************************************************)
PersistFault(type, w) ==
  /\ Spend("fault")
  /\ \/ At(type, w, "failrow") /\ Goto(type, w, "failapp") /\ UNCHANGED app
     \/ At(type, w, "failapp") /\ EndWith(type, w, "permanent") /\ UNCHANGED app
     \/ At(type, w, "failapp") /\ EndWith(type, w, "transient")
        /\ CasApp(FailableFrom(type), "failed", FALSE)
  /\ UNCHANGED <<jobs, bull, mails>>

(* The catch block throws before its first write: Redis or a read failed. *)
CatchFault(type, w) ==
  /\ run[type][w].pc \in {"failrow", "requeue"}
  /\ Spend("fault")
  /\ EndWith(type, w, "transient")
  /\ UNCHANGED <<app, jobs, bull, mails>>

(* The processor promise settles and BullMQ records the attempt. *)
Settle(type, w) ==
  /\ At(type, w, "settle")
  /\ FinishJob(type, w, run[type][w].outcome)
  /\ run' = [run EXCEPT ![type][w] = Idle]
  /\ UNCHANGED <<app, jobs, spent, mails>>

(* An error of the kind the environment decides on, caught by the handler. *)
Fails(type, w) ==
  \E kind \in {"transient", "permanent"} :
    /\ Spend(kind)
    /\ Catch(type, w, kind = "transient")

-----------------------------------------------------------------------------
(* Claiming the row: queued -> processing, by whoever comes first.         *)

(* Faulty variant: a row that is being executed may be claimed again. *)
RowIsClaimable(type, w) == jobs[type][run[type][w].row] \in {"queued", "processing"}

RowIsQueued(type, w) == jobs[type][run[type][w].row] = "queued"

ClaimWins(type, w) ==
  /\ At(type, w, "claim")
  /\ RowIsQueued(type, w)
  /\ CasJob(type, run[type][w].row, {"queued"}, "processing")
  /\ Goto(type, w, "work")
  /\ UNCHANGED <<app, spent, bull, mails>>

ClaimLost(type, w) ==
  /\ At(type, w, "claim")
  /\ ~RowIsQueued(type, w)
  /\ EndWith(type, w, "ok")
  /\ UNCHANGED <<app, jobs, spent, bull, mails>>

(* The started event cannot be recorded: thrown outside the try block. *)
ClaimThenFault(type, w) ==
  /\ At(type, w, "claim")
  /\ RowIsQueued(type, w)
  /\ CasJob(type, run[type][w].row, {"queued"}, "processing")
  /\ Spend("fault")
  /\ EndWith(type, w, "transient")
  /\ UNCHANGED <<app, bull, mails>>

-----------------------------------------------------------------------------
(* Process worker                                                          *)

(***************************************************************************)
(* For an application that is no longer a draft the skip path reads jobId  *)
(* before its const declaration, so the call throws a ReferenceError       *)
(* instead of returning.                                                   *)
(***************************************************************************)
ProcessLoad(w) ==
  /\ At("ai_process", w, "idle")
  /\ TakeJob("ai_process", w)
  /\ run' = [run EXCEPT !["ai_process"][w] =
               IF app.status = "draft" THEN Loaded("ai_process")
               ELSE Rejected("transient")]
  /\ UNCHANGED <<app, jobs, spent, mails>>

ProcessFails(w) ==
  /\ At("ai_process", w, "work")
  /\ Fails("ai_process", w)
  /\ UNCHANGED <<app, jobs, bull, mails>>

(***************************************************************************)
(* parseJobDescription sets retryable = false on any error that is not a   *)
(* RetryableError.  classifyJdParseFailure believes the flag and ends the  *)
(* BullMQ job; shouldPersistTerminalFailure looks at classes only.         *)
(***************************************************************************)
ProcessFailsUnclassified(w) ==
  /\ At("ai_process", w, "work")
  /\ Spend("unclassified")
  /\ IF WillBullMqRetry("ai_process", run["ai_process"][w].made)
       THEN EndWith("ai_process", w, "permanent")
       ELSE Goto("ai_process", w, "failrow")
  /\ UNCHANGED <<app, jobs, bull, mails>>

(* The CAS inside the transaction misses: rollback and a retryable error. *)
ProcessConflict(w) ==
  /\ At("ai_process", w, "work")
  /\ app.status # "draft"
  /\ Catch("ai_process", w, TRUE)
  /\ UNCHANGED <<app, jobs, spent, bull, mails>>

(***************************************************************************)
(* The transaction: generated fields, the job row, the status, and, when   *)
(* the mail goes out without review, the send row.  Whether a contact was  *)
(* found and which apply mode the user has is the environment's choice; an *)
(* email the user wrote beforehand always goes out.                        *)
(***************************************************************************)
ProcessCommit(w, next, sendNow) ==
  LET row == run["ai_process"][w].row
      done == [jobs EXCEPT !["ai_process"][row] =
                 RowAfterCas(@, {"processing"}, "completed")]
  IN  /\ At("ai_process", w, "work")
      /\ app.status = "draft"
      /\ next = "generated" /\ run["ai_process"][w].email => sendNow
      /\ app' = [app EXCEPT !.status = next, !.subject = TRUE,
                            !.review = (next = "needs_review")]
      /\ jobs' = IF sendNow
                   THEN [done EXCEPT !["send_email"] = Append(@, "queued")]
                   ELSE done
      /\ IF sendNow THEN Goto("ai_process", w, "enqueue")
         ELSE EndWith("ai_process", w, "ok")
      /\ UNCHANGED <<spent, bull, mails>>

ProcessNeedsReview(w) == ProcessCommit(w, "needs_review", FALSE)

ProcessGenerates(w) == \E sendNow \in BOOLEAN : ProcessCommit(w, "generated", sendNow)

ProcessEnqueuesSend(w) ==
  /\ At("ai_process", w, "enqueue")
  /\ Enqueue("send_email")
  /\ EndWith("ai_process", w, "ok")
  /\ UNCHANGED <<app, jobs, spent, mails>>

(* Redis refuses after COMMIT: the catch block runs, its ROLLBACK undoes nothing. *)
ProcessEnqueueFault(w) ==
  /\ At("ai_process", w, "enqueue")
  /\ Spend("drop")
  /\ Catch("ai_process", w, TRUE)
  /\ UNCHANGED <<app, jobs, bull, mails>>

-----------------------------------------------------------------------------
(* Send worker                                                             *)

SendEntry ==
  CASE app.status = "sent" -> Rejected("ok")
    [] app.status \in {"cancelled", "needs_review"} -> Rejected("permanent")
    [] OTHER -> IF HasCompletedSendJob THEN Rejected("ok") ELSE Loaded("send_email")

SendLoad(w) ==
  /\ At("send_email", w, "idle")
  /\ TakeJob("send_email", w)
  /\ run' = [run EXCEPT !["send_email"][w] = SendEntry]
  /\ UNCHANGED <<app, jobs, spent, mails>>

MaySend(w) == At("send_email", w, "work") /\ run["send_email"][w].seen = "generated"

SendRejects(w) ==
  /\ At("send_email", w, "work")
  /\ run["send_email"][w].seen # "generated"
  /\ Catch("send_email", w, FALSE)
  /\ UNCHANGED <<app, jobs, spent, bull, mails>>

SendFails(w) ==
  /\ MaySend(w)
  /\ Fails("send_email", w)
  /\ UNCHANGED <<app, jobs, bull, mails>>

Deliver(w) ==
  /\ MaySend(w)
  /\ mails' = mails + 1
  /\ Goto("send_email", w, "mark")
  /\ UNCHANGED <<app, jobs, spent, bull>>

(* The message is out but the delivery call still throws. *)
DeliverThenFault(w) ==
  /\ MaySend(w)
  /\ mails' = mails + 1
  /\ Spend("fault")
  /\ Catch("send_email", w, TRUE)
  /\ UNCHANGED <<app, jobs, bull>>

(* Faulty variant: the compare-and-swap expects a status it never finds. *)
MarkSentFromDraft(w) ==
  /\ At("send_email", w, "mark")
  /\ CasApp({"draft"}, "sent", app.review)
  /\ IF app.status \in {"draft", "sent"}
       THEN Goto("send_email", w, "finish")
       ELSE Catch("send_email", w, TRUE)
  /\ UNCHANGED <<jobs, spent, bull, mails>>

(* markSentFromGenerated; a miss is fine only when somebody else marked it. *)
MarkSent(w) ==
  /\ At("send_email", w, "mark")
  /\ CasApp({"generated"}, "sent", app.review)
  /\ IF app.status \in {"generated", "sent"}
       THEN Goto("send_email", w, "finish")
       ELSE Catch("send_email", w, TRUE)
  /\ UNCHANGED <<jobs, spent, bull, mails>>

(* A statement of markSentFromGenerated fails, before or after the CAS. *)
MarkSentFault(w) ==
  /\ At("send_email", w, "mark")
  /\ Spend("fault")
  /\ CasApp({"generated"}, "sent", app.review) \/ UNCHANGED app
  /\ Catch("send_email", w, TRUE)
  /\ UNCHANGED <<jobs, bull, mails>>

FinishSend(w) ==
  /\ At("send_email", w, "finish")
  /\ CasJob("send_email", run["send_email"][w].row, {"processing"}, "completed")
  /\ \/ EndWith("send_email", w, "ok") /\ UNCHANGED spent
     \/ Spend("fault") /\ Catch("send_email", w, TRUE)   \* quota accounting fails
  /\ UNCHANGED <<app, bull, mails>>

(* Faulty variant: the row is left in processing for the next attempt. *)
RequeueKeepsRow(w) ==
  /\ At("send_email", w, "requeue")
  /\ EndWith("send_email", w, "transient")
  /\ UNCHANGED <<app, jobs, spent, bull, mails>>

Requeue(w) ==
  /\ At("send_email", w, "requeue")
  /\ CasJob("send_email", run["send_email"][w].row, {"processing"}, "queued")
  /\ EndWith("send_email", w, "transient")
  /\ UNCHANGED <<app, spent, bull, mails>>

-----------------------------------------------------------------------------
(* Worker replicas fail                                                    *)

(* A replica dies: both of its calls are gone, their locks are not. *)
WorkerCrash(w) ==
  /\ \E type \in Types : ~At(type, w, "idle")
  /\ Spend("crash")
  /\ run' = [type \in Types |-> [run[type] EXCEPT ![w] = Idle]]
  /\ UNCHANGED <<app, jobs, bull, mails>>

(* A lock is not renewed: its holder is dead, or alive but stalled. *)
LockExpires(type) ==
  /\ StallJob(type)
  /\ IF At(type, bull[type].owner, "idle") THEN UNCHANGED spent ELSE Spend("stall")
  /\ UNCHANGED <<app, jobs, run, mails>>

(* Retention outlives any call in progress: a day at least. *)
FinishedJobExpires ==
  /\ ExpireJob
  /\ \A w \in Workers : At("send_email", w, "idle")
  /\ Spend("expire")
  /\ UNCHANGED <<app, jobs, run, mails>>

SharedStep(type, w) ==
  \/ ClaimWins(type, w)
  \/ ClaimLost(type, w)
  \/ FailRow(type, w)
  \/ FailApp(type, w)
  \/ Settle(type, w)

ProcessStep(w) ==
  \/ SharedStep("ai_process", w)
  \/ ProcessLoad(w)
  \/ ProcessConflict(w)
  \/ ProcessNeedsReview(w)
  \/ ProcessGenerates(w)
  \/ ProcessEnqueuesSend(w)

SendStep(w) ==
  \/ SharedStep("send_email", w)
  \/ SendLoad(w)
  \/ SendRejects(w)
  \/ Deliver(w)
  \/ MarkSent(w)
  \/ FinishSend(w)
  \/ Requeue(w)

WorkerTrouble(w) ==
  \/ \E type \in Types : ClaimThenFault(type, w) \/ PersistFault(type, w) \/ CatchFault(type, w)
  \/ ProcessFails(w)
  \/ ProcessFailsUnclassified(w)
  \/ ProcessEnqueueFault(w)
  \/ SendFails(w)
  \/ DeliverThenFault(w)
  \/ MarkSentFault(w)
  \/ WorkerCrash(w)

WorkerNext ==
  \/ \E w \in Workers : ProcessStep(w) \/ SendStep(w) \/ WorkerTrouble(w)
  \/ \E type \in Types : LockExpires(type)
  \/ FinishedJobExpires
=============================================================================
