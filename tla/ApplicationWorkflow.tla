-------------------------- MODULE ApplicationWorkflow --------------------------
(***************************************************************************)
(* What one job application promises its user, whatever queues, workers,   *)
(* requests and recovery sweeps do below: the business states of           *)
(* docs/architecture/state-model.md, the order in which a mail is          *)
(* prepared, ordered and delivered, and the steps that exist between them. *)
(*                                                                         *)
(* A mail may go out in any business state: cancelling does not reach a    *)
(* delivery that has begun.  It never goes out before a send was ordered,  *)
(* and "sent" is never claimed before a mail went out.                     *)
(***************************************************************************)
EXTENDS Naturals

VARIABLES
  status,     \* the business state
  prepared,   \* there is a subject and a body
  ordered,    \* a send was ordered at least once
  copies      \* mails handed to the provider

vars == <<status, prepared, ordered, copies>>

Init ==
  /\ status = "draft"
  /\ prepared \in BOOLEAN
  /\ ordered = FALSE
  /\ copies = 0

Become(from, to) == status \in from /\ status' = to

(* The email is ready; ordering the send may be part of the same step. *)
Generate ==
  /\ Become({"draft"}, "generated")
  /\ prepared' = TRUE
  /\ ordered' \in {ordered, TRUE}
  /\ UNCHANGED copies

Hold ==
  /\ Become({"draft"}, "needs_review")
  /\ prepared' = TRUE
  /\ UNCHANGED <<ordered, copies>>

(* The user supplies the missing contact, which orders the send. *)
Release ==
  /\ Become({"needs_review"}, "generated")
  /\ ordered' = TRUE
  /\ UNCHANGED <<prepared, copies>>

Order ==
  /\ prepared
  /\ ordered' = TRUE
  /\ UNCHANGED <<status, prepared, copies>>

Deliver ==
  /\ ordered
  /\ copies' = copies + 1
  /\ UNCHANGED <<status, prepared, ordered>>

Finish ==
  /\ copies > 0
  /\ Become({"generated"}, "sent")
  /\ UNCHANGED <<prepared, ordered, copies>>

Fail ==
  /\ Become({"draft", "generated"}, "failed")
  /\ UNCHANGED <<prepared, ordered, copies>>

Reopen ==
  /\ Become({"failed"}, "draft")
  /\ UNCHANGED <<prepared, ordered, copies>>

Cancel ==
  /\ Become({"draft", "generated", "needs_review", "failed"}, "cancelled")
  /\ UNCHANGED <<prepared, ordered, copies>>

Next ==
  \/ Generate
  \/ Hold
  \/ Release
  \/ Order
  \/ Deliver
  \/ Finish
  \/ Fail
  \/ Reopen
  \/ Cancel

Spec == Init /\ [][Next]_vars
=============================================================================
