----------------------------- MODULE ClientStore -----------------------------
(***************************************************************************)
(* What the leading tab knows and shows of one application: the            *)
(* orchestration registry, the gate that admits events into it, the row in *)
(* the list cache with its own guard, and the ways around them: polls,     *)
(* hydration, targeted status fetches, the convergence watchdog, list      *)
(* refetches and the user's own actions.                                   *)
(*                                                                         *)
(* The server's state is a snapshot: version, epoch, terminal.  The stream *)
(* may deliver any published snapshot at any time, in any order and again. *)
(***************************************************************************)
EXTENDS Naturals, Sequences, FiniteSets

CONSTANTS MaxVersion,     \* bound: changes at the server
          MaxUserActions, \* bound: retries, continues and sends by the user
          MaxEarly        \* bound: frames during a hydration, below PRE_HYDRATION_BUFFER_MAX

ASSUME StoreAssumption ==
  {MaxVersion, MaxUserActions, MaxEarly} \subseteq Nat

VARIABLES truth,       \* the server's snapshot
          published,   \* every snapshot there was
          registry,    \* the orchestration registry's entry
          hydrated,
          early,       \* preHydrationBuffer
          toPresent,   \* pending in the batch processor
          listRow,     \* the row of the list cache, with the snapshot it shows
          converged,   \* lastConvergedAt has the row
          healing,     \* the answer to the request of the watchdog, if any
          patching,    \* a user's action whose row patch is to come
          actionsLeft

storeVars == <<truth, published, registry, hydrated, early, toPresent, listRow, converged,
               healing, patching, actionsLeft>>

Snapshots == [v : 0..MaxVersion, e : 0..MaxVersion, t : BOOLEAN]

First == [v |-> 0, e |-> 0, t |-> FALSE]

NoEntry == [v |-> 0, e |-> 0, t |-> FALSE, pruned |-> FALSE, here |-> FALSE]

EntryOf(snap) == [v |-> snap.v, e |-> snap.e, t |-> snap.t, pruned |-> snap.t, here |-> TRUE]

StoreTypeOK ==
  /\ truth \in Snapshots /\ published \subseteq Snapshots
  /\ registry \in [v : 0..MaxVersion, e : 0..MaxVersion + MaxUserActions, t : BOOLEAN,
                   pruned : BOOLEAN, here : BOOLEAN]
  /\ early \in Seq(Snapshots)
  /\ toPresent \subseteq Snapshots /\ Cardinality(toPresent) <= 1
  /\ listRow \in Snapshots
  /\ healing \subseteq Snapshots
  /\ {hydrated, converged, patching} \subseteq BOOLEAN
  /\ actionsLeft \in 0..MaxUserActions

StoreInit ==
  /\ truth = First /\ published = {First}
  /\ registry = EntryOf(First) /\ hydrated = TRUE /\ early = <<>>
  /\ toPresent = {}
  /\ listRow = First /\ converged = FALSE
  /\ healing = {} /\ patching = FALSE /\ actionsLeft = MaxUserActions

-----------------------------------------------------------------------------
(* The server: a step of the workflow, its end, and the two ways out of a  *)
(* terminal status: retry and continue begin an epoch, send does not.      *)
ServerChanges ==
  /\ truth.v < MaxVersion
  /\ \E t \in BOOLEAN, de \in {0, 1} :
       /\ de = 1 => truth.t /\ ~t
       /\ truth' = [v |-> truth.v + 1, e |-> truth.e + de, t |-> t]
  /\ published' = published \cup {truth'}
  /\ UNCHANGED <<registry, hydrated, early, toPresent, listRow, converged,
                 healing, patching, actionsLeft>>

-----------------------------------------------------------------------------
(* The registry *)

Highest(m, n) == IF m > n THEN m ELSE n

(* shouldApplyOrchestrationEvent; an event of an application the registry  *)
(* does not know is admitted.                                              *)
Admits(entry, snap) ==
  entry.here =>
    /\ snap.v >= entry.v
    /\ snap.e >= entry.e
    /\ entry.t /\ ~snap.t => snap.e > entry.e
    /\ entry.pruned => snap.e > entry.e

(* applyAcceptedEvent and upsertFromPoll: versions and epochs never fall,  *)
(* the status is the snapshot's.                                           *)
Upserted(entry, snap) ==
  [EntryOf(snap) EXCEPT !.v = Highest(entry.v, snap.v), !.e = Highest(entry.e, snap.e)]

(* The batch keeps one snapshot, the newer of two (pickNewer). *)
Newer(old, snap) ==
  IF \E other \in old : other.v > snap.v \/ (other.v = snap.v /\ other.e > snap.e)
  THEN old ELSE {snap}

(* applyEvent on what it changes *)
Applied(store, snap) ==
  IF Admits(store.entry, snap)
  THEN [entry |-> Upserted(store.entry, snap), batch |-> Newer(store.batch, snap)]
  ELSE store

Becomes(store) == registry' = store.entry /\ toPresent' = store.batch

Store == [entry |-> registry, batch |-> toPresent]

(* Frames that arrive while the registry is being hydrated wait. *)
StreamDelivers(snap) ==
  /\ IF hydrated THEN Becomes(Applied(Store, snap)) /\ UNCHANGED early
     ELSE /\ Len(early) < MaxEarly
          /\ early' = Append(early, snap)
          /\ UNCHANGED <<registry, toPresent>>
  /\ UNCHANGED <<truth, published, hydrated, listRow, converged, healing, patching, actionsLeft>>

(* The answers of runTier2TargetedHeal and runPerAppStatusRecovery do not  *)
(* wait; they may have been read at any time.                              *)
StatusAnswer(snap) ==
  /\ ~hydrated
  /\ Becomes(Applied(Store, snap))
  /\ UNCHANGED <<truth, published, hydrated, early, listRow, converged, healing, patching,
                 actionsLeft>>

(* ReconciliationHealth: the third reject in its window throws the entry   *)
(* away; the window is left open here.                                     *)
RejectStorm(snap) ==
  /\ ~Admits(registry, snap)
  /\ registry' = NoEntry
  /\ UNCHANGED <<truth, published, hydrated, early, toPresent, listRow, converged, healing,
                 patching, actionsLeft>>

-----------------------------------------------------------------------------
(* The row *)

(* A plausible bug: whatever is below the registry's epoch is refused. *)
FaultyRowEpochs(snap) == snap.e >= registry.e /\ (listRow.t /\ ~snap.t => snap.e > registry.e)

(* shouldApplyOrchestrationRowPatch: a row leaves a terminal status only   *)
(* for an epoch above the registry's.                                      *)
RowAdmits(snap) ==
  listRow.t /\ ~snap.t => snap.e > (IF registry.here THEN registry.e ELSE 0)

(* applyRealtimeEventsToCache marks the row as converged either way. *)
PatchRow(snap) ==
  /\ listRow' = IF RowAdmits(snap) THEN snap ELSE listRow
  /\ converged' = TRUE

(* The timers of the batch processor and of the cache batcher; what was    *)
(* presented before, which is not kept here, is not presented again        *)
(* (lastProcessedKeys).                                                    *)
PresentBatch(again) ==
  /\ \E snap \in toPresent :
       IF again THEN UNCHANGED <<listRow, converged>> ELSE PatchRow(snap)
  /\ toPresent' = {}
  /\ UNCHANGED <<truth, published, registry, hydrated, early, healing, patching, actionsLeft>>

(* syncFromPresentation, after a render of the list *)
SyncFromPresentation ==
  /\ registry' = [registry EXCEPT !.here = TRUE, !.t = listRow.t,
                    !.pruned = @ \/ listRow.t]
  /\ UNCHANGED <<truth, published, hydrated, early, toPresent, listRow,
                 converged, healing, patching, actionsLeft>>

-----------------------------------------------------------------------------
(* Requests.  The watchdog asks for rows that have converged once; the    *)
(* server's snapshot is read as it answers.                                *)
AskHeal ==
  /\ healing = {} /\ converged
  /\ healing' = {truth}
  /\ UNCHANGED <<truth, published, registry, hydrated, early, toPresent, listRow, converged,
                 patching, actionsLeft>>

(* hydrateApplicationStatuses writes the row past the registry. *)
HealAnswer ==
  /\ \E snap \in healing : PatchRow(snap)
  /\ healing' = {}
  /\ UNCHANGED <<truth, published, registry, hydrated, early, toPresent, patching,
                 actionsLeft>>

HealFails ==
  /\ healing # {}
  /\ healing' = {}
  /\ UNCHANGED <<truth, published, registry, hydrated, early, toPresent, listRow, converged,
                 patching, actionsLeft>>

(* The poll, asked whenever, raises the registry, whatever came meanwhile, *)
(* then the row.                                                           *)
PollAnswer(snap) ==
  /\ registry' = Upserted(registry, snap)
  /\ listRow' = IF listRow.t /\ ~snap.t /\ snap.e <= registry'.e THEN listRow ELSE snap
  /\ converged' = TRUE
  /\ UNCHANGED <<truth, published, hydrated, early, toPresent, healing, patching, actionsLeft>>

(* The poller gives up after so many attempts (markTerminal). *)
PollGivesUp ==
  /\ registry.here /\ ~registry.t
  /\ registry' = [registry EXCEPT !.t = TRUE, !.pruned = TRUE]
  /\ UNCHANGED <<truth, published, hydrated, early, toPresent, listRow,
                 converged, healing, patching, actionsLeft>>

(* evictInactive *)
EvictInactive ==
  /\ registry.t /\ registry.pruned
  /\ registry' = NoEntry
  /\ UNCHANGED <<truth, published, hydrated, early, toPresent, listRow,
                 converged, healing, patching, actionsLeft>>

(* drainPreHydrationBuffer: the frames are applied in the order they came. *)
Drained(store, frames) ==
  LET after[n \in 0..Len(frames)] ==
        IF n = 0 THEN store ELSE Applied(after[n - 1], frames[n])
  IN  after[Len(frames)]

(* A plausible bug: the buffer is drained before the snapshot is in place. *)
FaultyAfterHydration(snap) == [Drained(Store, early) EXCEPT !.entry = EntryOf(snap)]

(* hydrateFromServer puts the snapshot in the entry's place, then what     *)
(* waited is applied.                                                      *)
AfterHydration(snap) == Drained([Store EXCEPT !.entry = EntryOf(snap)], early)

(* A hydration begins; until one succeeds the registry stays unhydrated. *)
Hydrate ==
  /\ hydrated
  /\ hydrated' = FALSE
  /\ UNCHANGED <<truth, published, registry, early, toPresent, listRow, converged, healing,
                 patching, actionsLeft>>

HydrateAnswer(snap) ==
  /\ ~hydrated
  /\ Becomes(AfterHydration(snap))
  /\ hydrated' = TRUE /\ early' = <<>>
  /\ UNCHANGED <<truth, published, listRow, converged, healing, patching, actionsLeft>>

(* A list refetch replaces the row by what the server read at some time. *)
ListAnswer(snap) ==
  /\ listRow' = snap
  /\ UNCHANGED <<truth, published, registry, hydrated, early, toPresent, converged, healing,
                 patching, actionsLeft>>

-----------------------------------------------------------------------------
(* handleRetry, handleContinue and handleSend: the registry enters an      *)
(* epoch the server may never reach (broadcastRevive) ...                  *)
UserRevives ==
  /\ actionsLeft > 0 /\ ~patching
  /\ actionsLeft' = actionsLeft - 1
  /\ registry' = [registry EXCEPT !.here = TRUE, !.t = FALSE, !.pruned = FALSE, !.e = @ + 1]
  /\ patching' = TRUE
  /\ UNCHANGED <<truth, published, hydrated, early, toPresent, listRow,
                 converged, healing>>

(* ... and the row is patched once the request has succeeded, if it does   *)
(* (patchApplicationAfterMutation).                                        *)
UserPatch(succeeds) ==
  /\ patching
  /\ patching' = FALSE
  /\ listRow' = IF succeeds THEN [listRow EXCEPT !.t = FALSE] ELSE listRow
  /\ UNCHANGED <<truth, published, registry, hydrated, early, toPresent,
                 converged, healing, actionsLeft>>

-----------------------------------------------------------------------------
StoreNext ==
  \/ ServerChanges
  \/ \E snap \in published :
       \/ StreamDelivers(snap) \/ StatusAnswer(snap) \/ RejectStorm(snap)
       \/ ListAnswer(snap) \/ PollAnswer(snap) \/ HydrateAnswer(snap)
  \/ \E again \in BOOLEAN : PresentBatch(again)
  \/ SyncFromPresentation
  \/ AskHeal \/ HealAnswer \/ HealFails
  \/ PollGivesUp \/ EvictInactive
  \/ Hydrate
  \/ UserRevives
  \/ \E succeeds \in BOOLEAN : UserPatch(succeeds)

(* The watchdog runs every 30 seconds on the leading tab, and its requests *)
(* are answered often enough.                                              *)
StoreSpec == /\ StoreInit /\ [][StoreNext]_storeVars
             /\ WF_storeVars(AskHeal) /\ SF_storeVars(HealAnswer)

-----------------------------------------------------------------------------
(* The ordering truth of the registry never falls back, however late a     *)
(* poll or an event is; only hydration may replace it by an older snapshot *)
(* (upsertFromPoll, applyAcceptedEvent, revive, syncFromPresentation).     *)
RegistryVersionMonotone ==
  [][registry.here /\ registry'.here =>
       registry'.v >= registry.v \/ hydrated' # hydrated]_storeVars

(* Hydration loses nothing that arrived while its request was under way:   *)
(* no waiting frame is left newer than the registry and admissible.        *)
HydrationLosesNothing ==
  [][~hydrated /\ hydrated' =>
       \A i \in DOMAIN early :
         early[i].v > registry'.v => ~Admits(registry', early[i])]_storeVars

(* While the registry knows of the epoch a row shows, a row with a         *)
(* terminal status shows an active one again only for a later epoch, by    *)
(* the user's own action or from a refetched list.                         *)
NoPassiveDowngrade ==
  [][registry.here /\ registry.e >= listRow.e /\ listRow.t /\ ~listRow'.t =>
       listRow'.e > listRow.e \/ UserPatch(TRUE)
         \/ \E snap \in published : ListAnswer(snap)]_storeVars

(* The client's registry and row: no old version takes the place of a new  *)
(* one, hydration loses nothing, an ended application is not shown active. *)
RegistryIsSound == RegistryVersionMonotone /\ HydrationLosesNothing /\ NoPassiveDowngrade

(* A row that has once converged comes to show that the application ended, *)
(* whatever was lost, rejected or overwritten (the watchdog).              *)
TerminalIsShown == truth.t /\ converged ~> listRow.t \/ ~truth.t
=============================================================================
