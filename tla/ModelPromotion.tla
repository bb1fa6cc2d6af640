---------------------------- MODULE ModelPromotion ----------------------------
(***************************************************************************)
(* The page on which administrators certify models and promote them into   *)
(* the product's choice: runs under way and the runs in the history, the   *)
(* result on screen, the promotion of that result, the withdrawal of a     *)
(* model.  What a run is worth is Certification's matter: here it passed   *)
(* or it did not.                                                          *)
(***************************************************************************)
EXTENDS Naturals, FiniteSets

CONSTANTS CertRuns, Candidates, Desks,
          CandidateOf,   \* run -> the model it tries
          DeskOf,        \* run -> the page, and the administrator, it belongs to
          NoRun,
          MaxDeskClicks  \* bound: promotions and withdrawals asked for

ASSUME PromotionAssumption ==
  /\ CandidateOf \in [CertRuns -> Candidates] /\ DeskOf \in [CertRuns -> Desks]
  /\ NoRun \notin CertRuns /\ MaxDeskClicks \in Nat

VARIABLES runRows,     \* model_certification_runs
          choice,      \* curated_ai_models: the run a model was promoted from, whether it is offered
          desk,        \* page -> what it shows, and its run
          deskCalls,   \* page -> promotions, withdrawals and loads under way
          confirmed,   \* runs promoted below the threshold, on the administrator's word
          deskClicks

promotionVars == <<runRows, choice, desk, deskCalls, confirmed, deskClicks>>

AnyRun == CertRuns \cup {NoRun}

Verdicts == {"passed", "failed"}

LoadReasons == {"open", "run", "promote", "remove"}

Lists == [reason : LoadReasons, runs : SUBSET CertRuns, models : SUBSET Candidates]

PromotionTypeOK ==
  /\ runRows \in [CertRuns -> {"none", "running", "lost"} \cup Verdicts]
  /\ choice \in [Candidates -> [run : AnyRun, offered : BOOLEAN]]
  /\ desk \in [Desks -> [pc : {"idle", "asked", "told"}, running : AnyRun, result : AnyRun,
                         history : SUBSET CertRuns, listed : SUBSET Candidates,
                         removing : SUBSET Candidates]]
  /\ deskCalls \in [Desks -> [promote : SUBSET CertRuns, remove : SUBSET Candidates,
                              load : SUBSET LoadReasons, answer : SUBSET Lists]]
  /\ confirmed \in SUBSET CertRuns
  /\ deskClicks \in 0..MaxDeskClicks

PromotionInit ==
  /\ runRows = [r \in CertRuns |-> "none"]
  /\ choice = [m \in Candidates |-> [run |-> NoRun, offered |-> FALSE]]
  /\ desk = [d \in Desks |-> [pc |-> "idle", running |-> NoRun, result |-> NoRun,
                              history |-> {}, listed |-> {}, removing |-> {}]]
  /\ deskCalls = [d \in Desks |-> [promote |-> {}, remove |-> {}, load |-> {"open"}, answer |-> {}]]
  /\ confirmed = {} /\ deskClicks = 0

-----------------------------------------------------------------------------
(* A run *)

(* handleRun: the result shown so far goes. *)
StartCertification(d, r) ==
  /\ desk[d].pc = "idle" /\ runRows[r] = "none" /\ DeskOf[r] = d
  /\ desk' = [desk EXCEPT ![d].pc = "asked", ![d].running = r, ![d].result = NoRun]
  /\ runRows' = [runRows EXCEPT ![r] = "running"]
  /\ UNCHANGED <<choice, deskCalls, confirmed, deskClicks>>

(* createRun, after the attempts; or an error before it or of it. *)
StoreRun(r, end) ==
  /\ runRows[r] = "running"
  /\ runRows' = [runRows EXCEPT ![r] = end]
  /\ UNCHANGED <<choice, desk, deskCalls, confirmed, deskClicks>>

AskLists(d, reason) == [deskCalls EXCEPT ![d].load = @ \cup {reason}]

(* The answer is shown, whatever row of the history was chosen meanwhile,  *)
(* and the lists are loaded before the next run may start.                 *)
RunAnswered(d) ==
  /\ desk[d].pc = "asked" /\ runRows[desk[d].running] \in Verdicts
  /\ desk' = [desk EXCEPT ![d].pc = "told", ![d].result = desk[d].running]
  /\ deskCalls' = AskLists(d, "run")
  /\ UNCHANGED <<runRows, choice, confirmed, deskClicks>>

(* A timeout or a lost connection: the server goes on with the run. *)
RunGivenUp(d) ==
  /\ desk[d].pc = "asked"
  /\ desk' = [desk EXCEPT ![d].pc = "idle", ![d].running = NoRun]
  /\ UNCHANGED <<runRows, choice, deskCalls, confirmed, deskClicks>>

-----------------------------------------------------------------------------
(* The lists: an administrator's own runs, everybody's models.  Both are   *)
(* read at once here; no property relates them.                            *)

ReadLists(d, reason) ==
  /\ reason \in deskCalls[d].load
  /\ deskCalls' = [deskCalls EXCEPT
       ![d].load = @ \ {reason},
       ![d].answer = @ \cup {[reason |-> reason,
                              runs |-> {r \in CertRuns : DeskOf[r] = d /\ runRows[r] \in Verdicts},
                              models |-> {m \in Candidates : choice[m].offered}]}]
  /\ UNCHANGED <<runRows, choice, desk, confirmed, deskClicks>>

(* What waits for the load goes on after it. *)
Released(d, reason) ==
  [desk[d] EXCEPT !.pc = IF reason = "run" THEN "idle" ELSE @,
                  !.running = IF reason = "run" THEN NoRun ELSE @,
                  !.removing = IF reason = "remove" THEN {} ELSE @]

(* Answers are shown as they come, not as they were asked for. *)
ShowLists(d, lists) ==
  /\ lists \in deskCalls[d].answer
  /\ deskCalls' = [deskCalls EXCEPT ![d].answer = @ \ {lists}]
  /\ desk' = [desk EXCEPT ![d] = [Released(d, lists.reason) EXCEPT !.history = lists.runs,
                                                                !.listed = lists.models]]
  /\ UNCHANGED <<runRows, choice, confirmed, deskClicks>>

(* A failed load is not even reported. *)
ListsFail(d, reason) ==
  /\ reason \in deskCalls[d].load
  /\ deskCalls' = [deskCalls EXCEPT ![d].load = @ \ {reason}]
  /\ desk' = [desk EXCEPT ![d] = Released(d, reason)]
  /\ UNCHANGED <<runRows, choice, confirmed, deskClicks>>

SelectHistory(d, r) ==
  /\ r \in desk[d].history
  /\ desk' = [desk EXCEPT ![d].result = r]
  /\ UNCHANGED <<runRows, choice, deskCalls, confirmed, deskClicks>>

-----------------------------------------------------------------------------
(* Promotion and withdrawal *)

DeskClick == deskClicks < MaxDeskClicks /\ deskClicks' = deskClicks + 1

(* historyRowToResult: the verdict of the row. *)
NeedsWord(r) == runRows[r] # "passed"

(* handlePromote, of the result on screen.  The button stays enabled. *)
AskPromotion(d) ==
  /\ DeskClick /\ desk[d].result # NoRun
  /\ confirmed' = IF NeedsWord(desk[d].result) THEN confirmed \cup {desk[d].result} ELSE confirmed
  /\ deskCalls' = [deskCalls EXCEPT ![d].promote = @ \cup {desk[d].result}]
  /\ UNCHANGED <<runRows, choice, desk>>

(* The server looks for a run of this administrator, not for its verdict.  *)
Promotable(d, r) == DeskOf[r] = d /\ runRows[r] \in Verdicts

(* An error after the statement leaves the lists as they are. *)
Promote(d, r) ==
  /\ r \in deskCalls[d].promote /\ Promotable(d, r)
  /\ choice' = [choice EXCEPT ![CandidateOf[r]] = [run |-> r, offered |-> TRUE]]
  /\ \E heard \in BOOLEAN :
       deskCalls' = [deskCalls EXCEPT ![d].promote = @ \ {r},
                                      ![d].load = IF heard THEN @ \cup {"promote"} ELSE @]
  /\ UNCHANGED <<runRows, desk, confirmed, deskClicks>>

PromotionFails(d, r) ==
  /\ r \in deskCalls[d].promote
  /\ deskCalls' = [deskCalls EXCEPT ![d].promote = @ \ {r}]
  /\ UNCHANGED <<runRows, choice, desk, confirmed, deskClicks>>

(* handleRemoveCurated: one button at a time is disabled. *)
AskRemoval(d, m) ==
  /\ DeskClick /\ m \in desk[d].listed \ desk[d].removing
  /\ desk' = [desk EXCEPT ![d].removing = {m}]
  /\ deskCalls' = [deskCalls EXCEPT ![d].remove = @ \cup {m}]
  /\ UNCHANGED <<runRows, choice, confirmed>>

Withdraw(d, m) ==
  /\ m \in deskCalls[d].remove
  /\ choice' = [choice EXCEPT ![m].offered = FALSE]
  /\ deskCalls' = [deskCalls EXCEPT ![d].remove = @ \ {m}, ![d].load = @ \cup {"remove"}]
  /\ UNCHANGED <<runRows, desk, confirmed, deskClicks>>

(* The statement may have been made all the same. *)
RemovalFails(d, m) ==
  /\ m \in deskCalls[d].remove
  /\ \E gone \in BOOLEAN : choice' = [choice EXCEPT ![m].offered = @ /\ ~gone]
  /\ deskCalls' = [deskCalls EXCEPT ![d].remove = @ \ {m}]
  /\ desk' = [desk EXCEPT ![d].removing = {}]
  /\ UNCHANGED <<runRows, confirmed, deskClicks>>

DeskStep(d) ==
  \/ \E r \in CertRuns : StartCertification(d, r) \/ SelectHistory(d, r)
                         \/ Promote(d, r) \/ PromotionFails(d, r)
  \/ RunAnswered(d) \/ RunGivenUp(d) \/ AskPromotion(d)
  \/ \E reason \in LoadReasons : ReadLists(d, reason) \/ ListsFail(d, reason)
  \/ \E lists \in deskCalls[d].answer : ShowLists(d, lists)
  \/ \E m \in Candidates : AskRemoval(d, m) \/ Withdraw(d, m) \/ RemovalFails(d, m)

PromotionNext ==
  \/ \E d \in Desks : DeskStep(d)
  \/ \E r \in CertRuns, end \in Verdicts \cup {"lost"} : StoreRun(r, end)

PromotionSpec == PromotionInit /\ [][PromotionNext]_promotionVars

-----------------------------------------------------------------------------
(* Properties *)

(* "Passing models can be promoted": a model users may choose has a run of *)
(* its own that passed, or that an administrator promoted although it had  *)
(* not; and the result on screen is one the server will find.              *)
PromotedIsEarned ==
  /\ \A m \in Candidates : choice[m].offered =>
       \E r \in CertRuns : /\ choice[m].run = r /\ CandidateOf[r] = m
                           /\ runRows[r] = "passed" \/ r \in confirmed
  /\ \A d \in Desks : desk[d].result # NoRun => Promotable(d, desk[d].result)
=============================================================================
