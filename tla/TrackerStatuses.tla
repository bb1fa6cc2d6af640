--------------------------- MODULE TrackerStatuses ---------------------------
(***************************************************************************)
(* The user's own labels for applications.  The list of custom statuses is *)
(* one JSON value of the users row.  Whoever looks at it, the workers      *)
(* included, writes back what was read (the options read and the options   *)
(* to store never have their fields in the same order), and creating and   *)
(* deleting writes a whole new list after that; each is a statement of its *)
(* own.  A cell of the table (or the bulk bar) sends one request at a      *)
(* time; other cells and tabs do not wait for it.                          *)
(***************************************************************************)
EXTENDS Naturals, FiniteSets

CONSTANTS TrackedApps, CustomStatuses, Cells,
          MaxEdits        \* bound: requests of the cells, and the ones cut short

VARIABLES statusList,     \* users.tracker_status_options, the custom ones; or Unset
          trackerOf,      \* applications.tracker_status_id
          progressOf,     \* applications.application_status, as far as it matters here
          edit,           \* the request of each cell
          everCreated,    \* ids are never used again
          labelling,      \* a worker's automatic label: where it is, the list it read
          strayed,        \* history: statuses a write of an older list dropped, that
                          \* were given when gone, or whose deletion was cut short
          editsLeft

trackerVars == <<statusList, trackerOf, progressOf, edit, everCreated, labelling, strayed, editsLeft>>

EmailReady == "Email Ready"
EmailSent == "Email Sent"
NoTracker == "no status"
Deleted == "deleted row"

Unset == {"unset"}

SystemStatuses == {EmailReady, EmailSent}

(* A status of the user's has an id of its own. *)
ASSUME TrackerAssumption ==
  /\ MaxEdits \in Nat
  /\ CustomStatuses \cap (SystemStatuses \cup Unset \cup {NoTracker, Deleted}) = {}

NoEdit == [what |-> "none", pc |-> "idle", status |-> NoTracker, on |-> {}, seen |-> {}]

NoLabelling == [pc |-> "none", seen |-> {}]

TrackerTypeOK ==
  /\ statusList = Unset \/ statusList \subseteq CustomStatuses
  /\ trackerOf \in [TrackedApps -> CustomStatuses \cup SystemStatuses \cup {NoTracker, Deleted}]
  /\ progressOf \in [TrackedApps -> {"draft", "generated", "sent"}]
  /\ \A c \in Cells :
       /\ edit[c].what \in {"none", "list", "create", "delete", "assign", "remove"}
       /\ edit[c].pc \in {"idle", "read", "persist", "sync", "write", "clear", "assign"}
       /\ edit[c].on \subseteq TrackedApps
  /\ everCreated \cup strayed \subseteq CustomStatuses
  /\ \A a \in TrackedApps : labelling[a].pc \in {"none", "hold", "read", "persist", "sync", "label"}
  /\ editsLeft \in 0..MaxEdits

TrackerInit ==
  /\ statusList = Unset
  /\ trackerOf = [a \in TrackedApps |-> NoTracker]
  /\ progressOf = [a \in TrackedApps |-> "draft"]
  /\ edit = [c \in Cells |-> NoEdit]
  /\ everCreated = {} /\ strayed = {}
  /\ labelling = [a \in TrackedApps |-> NoLabelling]
  /\ editsLeft = MaxEdits

CustomList == statusList \ Unset

-----------------------------------------------------------------------------
(* What a cell asks for *)

(* assign: one application, or the selected ones of the bulk bar; remove   *)
(* deletes applications; list only looks.                                  *)
Ask(c, what, status, on) ==
  /\ edit[c].pc = "idle" /\ editsLeft > 0
  /\ editsLeft' = editsLeft - 1
  /\ LET needsList == what # "remove" /\ (what = "assign" => status # NoTracker)
     IN edit' = [edit EXCEPT ![c] = [what |-> what, status |-> status, on |-> on, seen |-> {},
                                     pc |-> IF needsList THEN "read" ELSE "assign"]]
  /\ UNCHANGED <<statusList, trackerOf, progressOf, everCreated, labelling, strayed>>

AskFor(c) ==
  \/ Ask(c, "list", NoTracker, {})
  \/ \E s \in everCreated : Ask(c, "delete", s, {})
  \/ \E on \in SUBSET TrackedApps \ {{}} :
       \/ \E s \in CustomStatuses \ (everCreated \cup {edit[d].status : d \in Cells}) :
            Cardinality(on) = 1 /\ Ask(c, "create", s, on)
       \/ \E s \in everCreated \cup {EmailSent, NoTracker} : Ask(c, "assign", s, on)
       \/ Ask(c, "remove", NoTracker, on)

-----------------------------------------------------------------------------
(* getTrackerStatusOptions: read the list; write it back, or the default   *)
(* one when there is none; give applications without a status the one      *)
(* their progress calls for.                                               *)

ReadList(c) ==
  /\ edit[c].pc = "read"
  /\ edit' = [edit EXCEPT ![c].pc = "persist", ![c].seen = statusList]
  /\ UNCHANGED <<statusList, trackerOf, progressOf, everCreated, labelling, strayed, editsLeft>>

(* The whole value: what is in the list by now and not in this one is      *)
(* lost, if it was not meant to go.                                        *)
WriteList(list, meant) ==
  /\ statusList' = list
  /\ strayed' = strayed \cup (CustomList \ (list \cup meant))

PersistList(c) ==
  /\ edit[c].pc = "persist"
  /\ WriteList(edit[c].seen \ Unset, {})
  /\ edit' = [edit EXCEPT ![c].pc = "sync", ![c].seen = edit[c].seen \ Unset]
  /\ UNCHANGED <<trackerOf, progressOf, everCreated, labelling, editsLeft>>

DefaultTracker(a) ==
  IF trackerOf[a] # NoTracker THEN trackerOf[a]
  ELSE CASE progressOf[a] = "sent" -> EmailSent
         [] progressOf[a] = "generated" -> EmailReady
         [] OTHER -> NoTracker

Known(c) == edit[c].status \in edit[c].seen \cup SystemStatuses

(* Faulty variant: a status leaves the applications before it leaves the list. *)
FaultyFirstWrite(what) == CASE what = "delete" -> "clear" [] what = "assign" -> "assign" [] OTHER -> "write"

(* What follows the look at the list. *)
FirstWrite(what) == IF what = "assign" THEN "assign" ELSE "write"

(* A status that is not in the list is refused. *)
SyncDefaults(c) ==
  /\ edit[c].pc = "sync"
  /\ trackerOf' = [a \in TrackedApps |-> DefaultTracker(a)]
  /\ edit' = [edit EXCEPT ![c] =
       IF edit[c].what = "list" \/ (edit[c].what # "create" /\ ~Known(c)) THEN NoEdit
       ELSE [@ EXCEPT !.pc = FirstWrite(edit[c].what)]]
  /\ UNCHANGED <<statusList, progressOf, everCreated, labelling, strayed, editsLeft>>

-----------------------------------------------------------------------------
(* The writes *)

(* createTrackerStatusOption: the cell goes on to assign what it created. *)
WriteCreated(c) ==
  /\ edit[c].pc = "write" /\ edit[c].what = "create"
  /\ WriteList(edit[c].seen \cup {edit[c].status}, {})
  /\ everCreated' = everCreated \cup {edit[c].status}
  /\ edit' = [edit EXCEPT ![c].what = "assign", ![c].pc = "read"]
  /\ UNCHANGED <<trackerOf, progressOf, labelling, editsLeft>>

(* The part of deleteTrackerStatusOption that comes after the list, or     *)
(* nothing more.                                                           *)
AfterList(c) == IF FirstWrite("delete") = "write" THEN "clear" ELSE "idle"

WriteDeleted(c) ==
  /\ edit[c].pc = "write" /\ edit[c].what = "delete"
  /\ WriteList(edit[c].seen \ {edit[c].status}, {edit[c].status})
  /\ edit' = [edit EXCEPT ![c].pc = AfterList(c)]
  /\ UNCHANGED <<trackerOf, progressOf, everCreated, labelling, editsLeft>>

ClearDeleted(c) ==
  /\ edit[c].pc = "clear"
  /\ trackerOf' = [a \in TrackedApps |-> IF trackerOf[a] = edit[c].status THEN NoTracker ELSE trackerOf[a]]
  /\ edit' = [edit EXCEPT ![c].pc = IF AfterList(c) = "clear" THEN "idle" ELSE "write"]
  /\ UNCHANGED <<statusList, progressOf, everCreated, labelling, strayed, editsLeft>>

(* setApplicationTrackerStatus and bulkSetApplicationTrackerStatus; rows   *)
(* that are gone by now are not updated.                                   *)
Assign(c) ==
  /\ edit[c].pc = "assign" /\ edit[c].what = "assign"
  /\ trackerOf' = [a \in TrackedApps |->
       IF a \in edit[c].on /\ trackerOf[a] # Deleted THEN edit[c].status ELSE trackerOf[a]]
  /\ strayed' = strayed \cup ({edit[c].status} \cap (CustomStatuses \ CustomList))
  /\ edit' = [edit EXCEPT ![c] = NoEdit]
  /\ UNCHANGED <<statusList, progressOf, everCreated, labelling, editsLeft>>

(* bulkDeleteApplications *)
RemoveApplications(c) ==
  /\ edit[c].pc = "assign" /\ edit[c].what = "remove"
  /\ trackerOf' = [a \in TrackedApps |-> IF a \in edit[c].on THEN Deleted ELSE trackerOf[a]]
  /\ edit' = [edit EXCEPT ![c] = NoEdit]
  /\ UNCHANGED <<statusList, progressOf, everCreated, labelling, strayed, editsLeft>>

(* A statement fails or the process dies: what was written stays. *)
CutShort(c) ==
  /\ edit[c].pc # "idle" /\ editsLeft > 0
  /\ editsLeft' = editsLeft - 1
  /\ strayed' = IF edit[c].pc = "clear" THEN strayed \cup {edit[c].status} ELSE strayed
  /\ edit' = [edit EXCEPT ![c] = NoEdit]
  /\ UNCHANGED <<statusList, trackerOf, progressOf, everCreated, labelling>>

-----------------------------------------------------------------------------
(* The workers *)

Labelling(a, pc, seen) == labelling' = [labelling EXCEPT ![a] = [pc |-> pc, seen |-> seen]]

(* Generated and held for the user: the list is looked at in the           *)
(* transaction; what the transaction writes is there when it commits, and  *)
(* from the first of its writes to then the rows are locked.               *)
LookForHold(a) ==
  /\ progressOf[a] = "draft" /\ labelling[a].pc = "none"
  /\ Labelling(a, "hold", statusList)
  /\ UNCHANGED <<statusList, trackerOf, progressOf, edit, everCreated, strayed, editsLeft>>

HoldGenerated(a) ==
  /\ labelling[a].pc = "hold" /\ trackerOf[a] # Deleted
  /\ progressOf' = [progressOf EXCEPT ![a] = "generated"]
  /\ WriteList(labelling[a].seen \ Unset, {})
  /\ trackerOf' = [b \in TrackedApps |-> IF b = a THEN EmailReady ELSE DefaultTracker(b)]
  /\ labelling' = [labelling EXCEPT ![a] = NoLabelling]
  /\ UNCHANGED <<edit, everCreated, editsLeft>>

(* Sent at once: nothing is labelled before the mail is out. *)
GenerateToSend(a) ==
  /\ progressOf[a] = "draft" /\ trackerOf[a] # Deleted /\ labelling[a].pc = "none"
  /\ progressOf' = [progressOf EXCEPT ![a] = "generated"]
  /\ UNCHANGED <<statusList, trackerOf, edit, everCreated, labelling, strayed, editsLeft>>

(* markSentFromGenerated on the pool: the transition, then the label, each *)
(* statement committed by itself.                                          *)
MarkSent(a) ==
  /\ progressOf[a] = "generated" /\ trackerOf[a] # Deleted
  /\ progressOf' = [progressOf EXCEPT ![a] = "sent"]
  /\ Labelling(a, "read", {})
  /\ UNCHANGED <<statusList, trackerOf, edit, everCreated, strayed, editsLeft>>

LabelReads(a) ==
  /\ labelling[a].pc = "read"
  /\ Labelling(a, "persist", statusList)
  /\ UNCHANGED <<statusList, trackerOf, progressOf, edit, everCreated, strayed, editsLeft>>

LabelPersists(a) ==
  /\ labelling[a].pc = "persist"
  /\ WriteList(labelling[a].seen \ Unset, {})
  /\ Labelling(a, "sync", {})
  /\ UNCHANGED <<trackerOf, progressOf, edit, everCreated, editsLeft>>

LabelSyncs(a) ==
  /\ labelling[a].pc = "sync"
  /\ trackerOf' = [b \in TrackedApps |-> DefaultTracker(b)]
  /\ Labelling(a, "label", {})
  /\ UNCHANGED <<statusList, progressOf, edit, everCreated, strayed, editsLeft>>

LabelSent(a) ==
  /\ labelling[a].pc = "label"
  /\ trackerOf' = [trackerOf EXCEPT ![a] = IF @ = Deleted THEN Deleted ELSE EmailSent]
  /\ labelling' = [labelling EXCEPT ![a] = NoLabelling]
  /\ UNCHANGED <<statusList, progressOf, edit, everCreated, strayed, editsLeft>>

(* A statement fails, the row is gone, or the process dies: a transaction  *)
(* is rolled back, and nobody labels what was sent.                        *)
LabellingStops(a) ==
  /\ labelling[a].pc # "none"
  /\ labelling' = [labelling EXCEPT ![a] = NoLabelling]
  /\ UNCHANGED <<statusList, trackerOf, progressOf, edit, everCreated, strayed, editsLeft>>

TrackerNext ==
  \/ \E c \in Cells :
       \/ AskFor(c) \/ ReadList(c) \/ PersistList(c) \/ SyncDefaults(c)
       \/ WriteCreated(c) \/ WriteDeleted(c) \/ ClearDeleted(c)
       \/ Assign(c) \/ RemoveApplications(c) \/ CutShort(c)
  \/ \E a \in TrackedApps :
       \/ LookForHold(a) \/ HoldGenerated(a) \/ GenerateToSend(a) \/ MarkSent(a)
       \/ LabelReads(a) \/ LabelPersists(a) \/ LabelSyncs(a) \/ LabelSent(a) \/ LabellingStops(a)

TrackerSpec == TrackerInit /\ [][TrackerNext]_trackerVars

-----------------------------------------------------------------------------
(***************************************************************************)
(* An application is labelled with a status the list does not have only    *)
(* while that status is being deleted, or when the status has strayed: a   *)
(* write of an older list dropped it (any look at the list writes it back, *)
(* the automatic labels' as well), it was given after it had gone, or its  *)
(* deletion was cut short.  Creating, assigning, deleting and automatic    *)
(* labels that do not cross that way leave no unknown label.               *)
(***************************************************************************)
LabelsAreListed ==
  \A a \in TrackedApps :
     trackerOf[a] \in CustomStatuses \ CustomList
     => trackerOf[a] \in strayed \/ \E c \in Cells : edit[c].pc = "clear" /\ edit[c].status = trackerOf[a]
=============================================================================
