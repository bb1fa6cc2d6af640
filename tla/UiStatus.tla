------------------------------- MODULE UiStatus -------------------------------
(***************************************************************************)
(* What the dashboard is told about an application: one status and a set   *)
(* of capabilities, computed from the application row and the latest job   *)
(* row of each type whenever somebody asks.  The client polls an           *)
(* application only while it is pollable.                                  *)
(***************************************************************************)
EXTENDS ApplicationLifecycle

(* Faulty variant: the first row of a type, as after ORDER BY created_at. *)
OldestJobStatus(type) ==
  IF jobs[type] = <<>> THEN "none" ELSE jobs[type][1]

LatestJobStatus(type) ==
  IF jobs[type] = <<>> THEN "none" ELSE jobs[type][LatestRow(type)]

ShownActive(type) == LatestJobStatus(type) \in ActiveRow

AnyShownActive == \E type \in Types : ShownActive(type)

-----------------------------------------------------------------------------
(* The rules, first match wins.                                            *)

IsTerminalState == app.status \in {"sent", "cancelled"}

IsReviewState == app.status = "needs_review" /\ app.review

(* A retrying row is an active one: the two tests of the code before the   *)
(* last add nothing to it.                                                 *)
IsFailedState == app.status = "failed" /\ ~AnyShownActive

IsRetryState ==
  \/ \E type \in Types : LatestJobStatus(type) = "retrying"
  \/ app.status = "failed" /\ AnyShownActive

IsSendingState == app.status = "generated" /\ ShownActive("send_email")

IsProcessingState == ShownActive("ai_process") /\ LatestJobStatus("ai_process") # "retrying"

(* A row nobody has claimed is shown as queued, whichever type it has. *)
StageOf(type, shown) == IF LatestJobStatus(type) = "queued" THEN "queued" ELSE shown

ResolveUiStatus ==
  CASE IsTerminalState -> app.status
    [] IsReviewState   -> "needs_review"
    [] OTHER ->
         IF IsFailedState THEN "failed"
         ELSE IF IsRetryState THEN "retrying"
         ELSE IF IsSendingState THEN StageOf("send_email", "sending")
         ELSE IF IsProcessingState THEN StageOf("ai_process", "processing")
         ELSE IF app.status = "generated" THEN "generated"
         ELSE "draft"

-----------------------------------------------------------------------------
(* Capabilities                                                            *)

UiTerminal == ResolveUiStatus \in {"sent", "failed", "cancelled"}

Pollable ==
  /\ ~UiTerminal
  /\ ResolveUiStatus # "needs_review"
  /\ app.status # "needs_review"
  /\ AnyShownActive \/ ResolveUiStatus \in {"processing", "sending", "queued", "retrying"}

CanContinue == app.status = "needs_review" /\ app.review

CanRetry == app.status = "failed" /\ LatestJobStatus("send_email") # "completed"

(* Dashboard submissions have no manual send. *)
CanSend(viaDashboard) ==
  app.status = "generated" /\ app.subject /\ ~ShownActive("send_email") /\ ~viaDashboard

(* shouldPoll of the client, before it gives up after too many attempts. *)
ShouldPoll ==
  ~UiTerminal /\ Pollable /\ ResolveUiStatus \notin {"sent", "failed", "cancelled", "needs_review"}

-----------------------------------------------------------------------------
(***************************************************************************)
(* While a worker executes a job row, the dashboard keeps asking: only the *)
(* latest row of a type is looked at, so no recovery, retry or repeated    *)
(* send may put another row before one that is being executed, and no      *)
(* "failed" may be shown over it.  A user who cancelled, whose mail is     *)
(* out, or who has to answer first is not kept waiting.                    *)
(***************************************************************************)
WorkIsWatched ==
  (\E type \in Types, w \in Workers :
     run[type][w].pc \in {"work", "enqueue", "mark", "requeue", "failrow"})
  => ShouldPoll \/ app.status \in {"sent", "cancelled", "needs_review"}
=============================================================================
