------------------------------ MODULE Recovery ------------------------------
(***************************************************************************)
(* The recovery job: every five minutes the process that gets the Postgres *)
(* advisory lock looks for job rows that are stuck, compares them with     *)
(* BullMQ and repairs one after the other.  One sweep runs at a time, so   *)
(* one record holds its progress.                                          *)
(*                                                                         *)
(* Control points:                                                         *)
(*   idle -> inspect -> sync | enqueue -> idle                             *)
(*                   -> failrow -> failapp -> idle                         *)
(*                   -> reset -> create -> enqueue -> idle                 *)
(***************************************************************************)
EXTENDS Commands

VARIABLE rec

recVars == <<app, jobs, spent, bull, rec>>

Sweep == [pc     : {"idle", "inspect", "sync", "enqueue", "failrow", "failapp",
                    "reset", "create"},
          type   : Types,
          row    : Nat,          \* the row the query returned
          status : RowStatus,    \* its status at that time
          worn   : BOOLEAN]      \* its retry_count has reached the maximum

NoSweep == [pc |-> "idle", type |-> "ai_process", row |-> 0,
            status |-> "queued", worn |-> FALSE]

RecTypeOK == rec \in Sweep

RecAt(pc) == rec.pc = pc

RecGoto(pc) == rec' = [rec EXCEPT !.pc = pc]

RecDone == rec' = NoSweep

(* resolveExecutionState: applicationIsTerminal *)
AppIsTerminal == app.status \in {"failed", "cancelled", "sent"}

(***************************************************************************)
(* Age of a stuck row, the only use of time: a queued row is looked at     *)
(* five minutes after its creation, when the request or worker that        *)
(* created it has enqueued it or has died.  A processing row may be looked *)
(* at any time: a call may well last longer than fifteen minutes.          *)
(***************************************************************************)
EnqueuePending(type) ==
  \/ \E r \in Requests : reqs[r].pc = "enqueue" /\ reqs[r].type = type
  \/ type = "send_email" /\ \E w \in Workers : At("ai_process", w, "enqueue")

(***************************************************************************)
(* findRecoverableStuckQueuedJobs and findRecoverableStuckProcessingJobs:  *)
(* only the latest row of its type.  The retry_count that reaches the      *)
(* sweep is the one of the application, selected after the one of the row. *)
(***************************************************************************)
RecPick(type) ==
  LET row == LatestRow(type)
  IN  /\ RecAt("idle")
      /\ row > 0
      /\ \/ jobs[type][row] = "queued" /\ ~EnqueuePending(type)
         \/ jobs[type][row] = "processing"
      /\ app.status \notin {"sent", "cancelled", "needs_review"}
      /\ ~app.review
      /\ rec' = [pc |-> "inspect", type |-> type, row |-> row,
                 status |-> jobs[type][row],
                 worn |-> app.retries >= MaxAttempts[type]]
      /\ UNCHANGED <<app, jobs, spent, bull>>

-----------------------------------------------------------------------------
(* The decision: BullMQ first, then the application.                       *)

(* Faulty variant: a failed BullMQ job is taken for a finished one. *)
QueuedVerdictSyncsFailed ==
  IF InFlight(rec.type) THEN "idle"
  ELSE IF bull[rec.type].state \in {"completed", "failed"} THEN "sync"
  ELSE IF AppIsTerminal THEN "idle" ELSE "enqueue"

QueuedVerdict ==
  IF InFlight(rec.type) THEN "idle"
  ELSE IF bull[rec.type].state = "completed" THEN "sync"
  ELSE IF AppIsTerminal THEN "idle" ELSE "enqueue"

(* Faulty variant: stuck rows are failed but never requeued. *)
ProcessingVerdictOnlyFails ==
  IF InFlight(rec.type) \/ AppIsTerminal THEN "idle"
  ELSE IF TerminalFailure(rec.type) \/ (bull[rec.type].state = "none" /\ rec.worn) THEN "failrow"
  ELSE "idle"

ProcessingVerdict ==
  IF InFlight(rec.type) \/ AppIsTerminal THEN "idle"
  ELSE IF TerminalFailure(rec.type) \/ (bull[rec.type].state = "none" /\ rec.worn) THEN "failrow"
  ELSE IF bull[rec.type].state = "failed" THEN "idle" ELSE "reset"

Verdict == IF rec.status = "queued" THEN QueuedVerdict ELSE ProcessingVerdict

RecInspect ==
  /\ RecAt("inspect")
  /\ IF Verdict = "idle" THEN RecDone ELSE RecGoto(Verdict)
  /\ UNCHANGED <<app, jobs, spent, bull>>

-----------------------------------------------------------------------------
(* The repairs                                                             *)

RecSync ==
  /\ RecAt("sync")
  /\ CasJob(rec.type, rec.row, ActiveRow, "completed")
  /\ RecDone
  /\ UNCHANGED <<app, spent, bull>>

RecEnqueue ==
  /\ RecAt("enqueue")
  /\ Enqueue(rec.type)
  /\ RecDone
  /\ UNCHANGED <<app, jobs, spent>>

RecFailRow ==
  /\ RecAt("failrow")
  /\ CasJob(rec.type, rec.row, {"processing"}, "failed")
  /\ RecGoto("failapp")
  /\ UNCHANGED <<app, spent, bull>>

RecFailApp ==
  /\ RecAt("failapp")
  /\ CasApp({"draft", "generated"}, "failed", app.review)
  /\ RecDone
  /\ UNCHANGED <<jobs, spent, bull>>

(* Faulty variant: an update without the expected status. *)
RecResetUnconditionally ==
  /\ RecAt("reset")
  /\ CasJob(rec.type, rec.row, RowStatus, "retrying")
  /\ RecGoto("create")
  /\ UNCHANGED <<app, spent, bull>>

(* The result of this CAS is not looked at: a new row follows in any case. *)
RecReset ==
  /\ RecAt("reset")
  /\ CasJob(rec.type, rec.row, {"processing"}, "retrying")
  /\ RecGoto("create")
  /\ UNCHANGED <<app, spent, bull>>

RecCreate ==
  /\ RecAt("create")
  /\ CreateJob(rec.type)
  /\ RecGoto("enqueue")
  /\ UNCHANGED <<app, spent, bull>>

(* The process dies, or a statement fails and the sweep gives up. *)
RecAborts ==
  /\ ~RecAt("idle")
  /\ Spend("abort")
  /\ RecDone
  /\ UNCHANGED <<app, jobs, bull>>

RecoveryStep ==
  \/ RecInspect
  \/ RecSync
  \/ RecEnqueue
  \/ RecFailRow
  \/ RecFailApp
  \/ RecReset
  \/ RecCreate

RecoveryNext ==
  \/ \E type \in Types : RecPick(type)
  \/ RecoveryStep
  \/ RecAborts
=============================================================================
