-------------------------- MODULE ApplicationsPage --------------------------
(***************************************************************************)
(* The list of applications in the browser: one cached list for each       *)
(* setting of the filters, fetched again and again, the selection and the  *)
(* bulk actions on it.  A list that was never fetched shows the rows of    *)
(* the one before it until its first answer comes.                         *)
(***************************************************************************)
EXTENDS Naturals

CONSTANTS Rows, Views,
          MaxRefreshes,   \* bound: fetches from elsewhere (events, mount, reconnect)
          MaxSwitches,    \* bound: changes of the filters
          MaxBulks        \* bound: bulk requests

(* Two views stand for them all: the one on the screen and one that has    *)
(* been or will be.                                                        *)
ASSUME PageAssumption ==
  /\ {MaxRefreshes, MaxSwitches, MaxBulks} \subseteq Nat
  /\ \E v, w \in Views : v # w /\ Views = {v, w}

VARIABLES view,           \* the filters of the moment
          listed,         \* the cached list of each view
          fetches,       \* the fetch of each view: none, asked, or what was read
          applications,         \* the applications of the server: what each can do, or gone
          selection, bulk,
          joinedFirst,    \* history: a refresh joined a list's first fetch
          spent

pageVars == <<view, listed, fetches, applications, selection, bulk, joinedFirst, spent>>

Nothing == [r \in Rows |-> "none"]
Absent == [r \in Rows |-> "absent"]
Asked == [r \in Rows |-> "asked"]
RowStates == {"gone", "sendable", "ordered"}
NoBulk == [what |-> "none", pc |-> "idle", ids |-> {}, queued |-> FALSE, on |-> "no view"]

PageTypeOK ==
  /\ view \in Views
  /\ listed \in [Views -> [Rows -> RowStates] \cup {Absent}]
  /\ fetches \in [Views -> [Rows -> RowStates] \cup {Nothing, Asked}]
  /\ applications \in [Rows -> RowStates]
  /\ selection \subseteq Rows /\ bulk.ids \subseteq Rows
  /\ bulk.what \in {"none", "delete", "send"}
  /\ bulk.pc \in {"idle", "confirm", "server", "answer", "refresh"}
  /\ joinedFirst \in BOOLEAN /\ bulk.queued \in BOOLEAN

PageInit ==
  /\ view \in Views
  /\ listed = [v \in Views |-> Absent]
  /\ fetches = [v \in Views |-> IF v = view THEN Asked ELSE Nothing]
  /\ applications = [r \in Rows |-> "sendable"]
  /\ selection = {} /\ bulk = NoBulk /\ joinedFirst = FALSE
  /\ spent = [refreshes |-> 0, switches |-> 0, bulks |-> 0]

Spends(what, max) == spent[what] < max /\ spent' = [spent EXCEPT ![what] = @ + 1]

Has(v) == listed[v] # Absent
OtherView(v) == CHOOSE w \in Views : w # v
(* placeholderData: keepPreviousData *)
Shown == IF Has(view) THEN listed[view] ELSE listed[OtherView(view)]
Visible == {r \in Rows : Shown[r] \in {"sendable", "ordered"}}
Selected == selection \cap Visible
Sendable == {r \in Selected : Shown[r] = "sendable"}

-----------------------------------------------------------------------------
(* Fetches *)

ReadRows(v) ==
  /\ fetches[v] = Asked
  /\ fetches' = [fetches EXCEPT ![v] = applications]
  /\ UNCHANGED <<view, listed, applications, selection, bulk, joinedFirst, spent>>

FetchAnswer(v) ==
  /\ fetches[v] \notin {Nothing, Asked}
  /\ listed' = [listed EXCEPT ![v] = fetches[v]]
  /\ fetches' = [fetches EXCEPT ![v] = Nothing]
  /\ UNCHANGED <<view, applications, selection, bulk, joinedFirst, spent>>

FetchFails(v) ==
  /\ fetches[v] # Nothing /\ Has(v)
  /\ Spends("refreshes", MaxRefreshes)
  /\ fetches' = [fetches EXCEPT ![v] = Nothing]
  /\ UNCHANGED <<view, listed, applications, selection, bulk, joinedFirst>>

(* Faulty variant: a fetch on its way is good enough. *)
FaultyRefetched(v) == IF fetches[v] # Nothing THEN fetches[v] ELSE Asked

(* refetchQueries: the fetch on its way is dropped for a new one, unless   *)
(* it is the list's first.                                                 *)
Refetched(v) == IF fetches[v] # Nothing /\ ~Has(v) THEN fetches[v] ELSE Asked

(* Only the list on the screen is refreshed. *)
RefreshList == fetches' = [fetches EXCEPT ![view] = Refetched(view)]

Refresh ==
  /\ Spends("refreshes", MaxRefreshes)
  /\ RefreshList
  /\ UNCHANGED <<view, listed, applications, selection, bulk, joinedFirst>>

(* The fetch of the view that is left is aborted; the new one is fetched   *)
(* when it has no rows or old ones.  A change of page clears the           *)
(* selection, a change of the filters keeps it.                            *)
SwitchView ==
  /\ Spends("switches", MaxSwitches)
  /\ view' = OtherView(view)
  /\ \E old \in BOOLEAN :
       fetches' = [v \in Views |->
         IF v # view /\ (old \/ ~Has(v)) THEN Asked ELSE Nothing]
  /\ \E paged \in BOOLEAN : selection' = IF paged THEN {} ELSE selection
  /\ UNCHANGED <<listed, applications, bulk, joinedFirst>>

-----------------------------------------------------------------------------
(* Selection and bulk actions *)

Select(r) ==
  /\ r \in Visible \ selection /\ bulk.pc = "idle"
  /\ selection' = selection \cup {r}
  /\ UNCHANGED <<view, listed, fetches, applications, bulk, joinedFirst, spent>>

AskDelete ==
  /\ bulk.pc = "idle" /\ Selected # {} /\ Spends("bulks", MaxBulks)
  /\ bulk' = [NoBulk EXCEPT !.what = "delete", !.pc = "confirm"]
  /\ UNCHANGED <<view, listed, fetches, applications, selection, joinedFirst>>

(* What is deleted is what is selected and visible at this moment. *)
ConfirmDelete ==
  /\ bulk.pc = "confirm"
  /\ bulk' = IF Selected = {} THEN NoBulk ELSE [bulk EXCEPT !.pc = "server", !.ids = Selected]
  /\ UNCHANGED <<view, listed, fetches, applications, selection, joinedFirst, spent>>

(* One row that is gone makes the whole request fail. *)
BulkDelete ==
  /\ bulk.what = "delete" /\ bulk.pc = "server"
  /\ IF \E r \in bulk.ids : applications[r] = "gone"
     THEN bulk' = NoBulk /\ UNCHANGED applications
     ELSE /\ applications' = [r \in Rows |-> IF r \in bulk.ids THEN "gone" ELSE applications[r]]
          /\ bulk' = [bulk EXCEPT !.pc = "answer"]
  /\ UNCHANGED <<view, listed, fetches, selection, joinedFirst, spent>>

(* removeApplicationsFromList touches the list on the screen, if there is one. *)
ListWithout(list, ids) ==
  IF list = Absent THEN Absent ELSE [r \in Rows |-> IF r \in ids THEN "gone" ELSE list[r]]

DeleteAnswer ==
  /\ bulk.what = "delete" /\ bulk.pc = "answer"
  /\ listed' = [listed EXCEPT ![view] = ListWithout(@, bulk.ids)]
  /\ RefreshList
  /\ joinedFirst' = (joinedFirst \/ ~Has(view))
  /\ bulk' = [bulk EXCEPT !.pc = "refresh", !.on = view]
  /\ UNCHANGED <<view, applications, selection, spent>>

(* The mutation ends, and the selection with it, when the refresh does, or *)
(* when its fetch is aborted because the view is left.                     *)
BulkEnds ==
  /\ bulk.pc = "refresh" /\ (view # bulk.on \/ fetches[view] = Nothing)
  /\ bulk' = NoBulk /\ selection' = {}
  /\ UNCHANGED <<view, listed, fetches, applications, joinedFirst, spent>>

AskSend ==
  /\ bulk.pc = "idle" /\ Sendable # {} /\ Spends("bulks", MaxBulks)
  /\ bulk' = [NoBulk EXCEPT !.what = "send", !.pc = "server", !.ids = Sendable]
  /\ UNCHANGED <<view, listed, fetches, applications, selection, joinedFirst>>

(* One request after the other; a refused one does not stop the rest.  The *)
(* selection is kept when none was accepted.                               *)
BulkSend(r) ==
  /\ bulk.what = "send" /\ r \in bulk.ids
  /\ IF applications[r] = "sendable"
     THEN /\ applications' = [applications EXCEPT ![r] = "ordered"]
          /\ listed' = IF Has(view) /\ listed[view][r] # "gone"
                       THEN [listed EXCEPT ![view][r] = "ordered"] ELSE listed
     ELSE UNCHANGED <<applications, listed>>
  /\ LET queued == bulk.queued \/ applications[r] = "sendable"
         last == bulk.ids = {r}
     IN /\ bulk' = IF last THEN NoBulk ELSE [bulk EXCEPT !.ids = @ \ {r}, !.queued = queued]
        /\ selection' = IF last /\ queued THEN {} ELSE selection
  /\ UNCHANGED <<view, fetches, joinedFirst, spent>>

PageNext ==
  \/ \E v \in Views : ReadRows(v) \/ FetchAnswer(v) \/ FetchFails(v)
  \/ Refresh \/ SwitchView
  \/ \E r \in Rows : Select(r) \/ BulkSend(r)
  \/ AskDelete \/ ConfirmDelete \/ BulkDelete \/ DeleteAnswer \/ BulkEnds \/ AskSend

PageSpec == PageInit /\ [][PageNext]_pageVars

-----------------------------------------------------------------------------
(***************************************************************************)
(* Rows whose deletion was answered do not come back to the list on the    *)
(* screen: fetches that read them before are dropped, whatever asked for   *)
(* them - unless the deletion was answered while the list still waited for *)
(* its very first rows, whose fetch is kept.                               *)
(***************************************************************************)
DeletedStayGone ==
  [][\A r \in Rows :
       (Has(view) /\ listed[view][r] = "gone" /\ applications[r] = "gone" /\ view' = view)
       => (listed'[view][r] = "gone" \/ joinedFirst)]_pageVars
=============================================================================
