--------------------------- MODULE PublishPipeline ---------------------------
(***************************************************************************)
(* How a change of an application row becomes a realtime event, inside one *)
(* process: the post-commit queue collects an entry per application while  *)
(* transactions run, a flush or the sweep hands entries to the batch       *)
(* processor, and a batch is published entry by entry: read the row again, *)
(* check for duplicates, append to the replay stream, fan out.             *)
(*                                                                         *)
(* Time is abstract: the ages at which the sweep and an overflow drop or   *)
(* recover an entry are reached at any moment.                             *)
(***************************************************************************)
EXTENDS Naturals, Sequences, FiniteSets

CONSTANTS Applications,
          Publishers,     \* flushBatch calls in progress at the same time
          MaxPending,     \* MAX_PENDING
          MaxChanges      \* bound: changes begun, over all applications

ASSUME PublishAssumption ==
  /\ MaxPending \in Nat \ {0}
  /\ MaxChanges \in Nat

VARIABLES changesLeft,  \* bound on the environment
          pubRow,       \* the committed row: version, and whether it is terminal
          openTx,       \* the row as an open transaction has updated it
          toAnnounce,   \* transactions committed but not yet announced
          pending,      \* postCommitPublishQueue: one entry per application
          flush,        \* the running flush: the entries it has still to hand over
          batch,        \* publishBatchProcessor: application -> options
          publishing,   \* the flushBatch calls
          emitted,      \* publishDedupeRegistry
          lastPublished,
          seen,         \* history: latest version clients were told of
          unheard,       \* history: latest version whose publication was lost
          announced     \* history: version an announcement found an entry for

pubVars == <<changesLeft, pubRow, openTx, toAnnounce, pending, flush, batch, publishing,
             emitted, lastPublished, seen, unheard, announced>>

Row == [version : 0..MaxChanges, terminal : BOOLEAN]

(* force: the options enteringTerminal or forceRevive of a publish. *)
Entry == [committed : BOOLEAN, force : BOOLEAN]

NoTx == [version |-> 0, terminal |-> FALSE]

(* A flushBatch call: the items it has still to publish, and the one it is *)
(* at with what it has read of the row.                                    *)
IdlePublisher == [pc |-> "idle", items |-> {}, at |-> <<>>, version |-> 0,
                  terminal |-> FALSE]

PartialFunctions(S, T) == UNION {[D -> T] : D \in SUBSET S}

Without(f, x) == [y \in DOMAIN f \ {x} |-> f[y]]

With(f, x, value) == [y \in DOMAIN f \cup {x} |-> IF y = x THEN value ELSE f[y]]

PublishTypeOK ==
  /\ changesLeft \in 0..MaxChanges
  /\ pubRow \in [Applications -> Row]
  /\ openTx \in [Applications -> Row]
  /\ toAnnounce \in [Applications -> BOOLEAN]
  /\ pending \in PartialFunctions(Applications, Entry)
  /\ flush.on \in BOOLEAN
  /\ batch \in PartialFunctions(Applications, BOOLEAN)
  /\ \A p \in Publishers :
       publishing[p].pc \in {"idle", "next", "loaded", "append"}
  /\ emitted \subseteq Applications \X (0..MaxChanges)
  /\ \A a \in Applications : lastPublished[a] \in Row /\ {seen[a], unheard[a], announced[a]} \subseteq 0..MaxChanges

PublishInit ==
  /\ changesLeft = MaxChanges
  /\ pubRow = [a \in Applications |-> NoTx]
  /\ openTx = [a \in Applications |-> NoTx]
  /\ toAnnounce = [a \in Applications |-> FALSE]
  /\ pending = <<>>
  /\ flush = [on |-> FALSE, entries |-> {}, publisher |-> {}]
  /\ batch = <<>>
  /\ publishing = [p \in Publishers |-> IdlePublisher]
  /\ emitted = {}
  /\ lastPublished = [a \in Applications |-> NoTx]
  /\ seen = [a \in Applications |-> 0]
  /\ unheard = [a \in Applications |-> 0]
  /\ announced = [a \in Applications |-> 0]

-----------------------------------------------------------------------------
(* The post-commit queue *)

(* mergeEntry: what is committed stays committed, a forced publish forced. *)
Merge(entry, force) == [committed |-> entry.committed,
                        force     |-> entry.force \/ force]

(* A plausible bug: what is committed is evicted as well. *)
FaultyEvictable(queue) == DOMAIN queue

(* evictForOverflow: uncommitted entries only, expired ones and low        *)
(* priorities first; which one that is depends on ages and is left open.   *)
Evictable(queue) == {a \in DOMAIN queue : ~queue[a].committed}

Overflows(queue) == Cardinality(DOMAIN queue) > MaxPending

(* enqueuePostCommitPublish; queue is the queue afterwards. *)
Enqueued(a, force, queue) ==
  IF a \in DOMAIN pending
  THEN queue = [pending EXCEPT ![a] = Merge(pending[a], force)]
  ELSE LET longer == With(pending, a, [committed |-> FALSE, force |-> force])
       IN  IF Overflows(longer) /\ Evictable(longer) # {}
           THEN \E victim \in Evictable(longer) : queue = Without(longer, victim)
           ELSE queue = longer

(* markApplicationPublishCommitted *)
Marked(a, queue) ==
  IF a \in DOMAIN queue THEN [queue EXCEPT ![a].committed = TRUE] ELSE queue

(* flushPostCommitPublishes up to its first await: a flush that is running *)
(* makes the call a no-op, else the committed entries are collected.  The  *)
(* collected entries keep the options they have now.                       *)
StartFlush(queue) ==
  IF flush.on THEN UNCHANGED flush
  ELSE flush' = [on        |-> TRUE,
                 entries   |-> {[app |-> a, force |-> queue[a].force] :
                                a \in {b \in DOMAIN queue : queue[b].committed}},
                 publisher |-> {}]

(* enqueuePublishBatch *)
Batched(a, force) ==
  batch' = With(batch, a, (IF a \in DOMAIN batch THEN batch[a] ELSE FALSE) \/ force)

-----------------------------------------------------------------------------
(* Changes of the row *)

(* A change enters a terminal status, revives the application or touches a *)
(* job only; the first two are published whatever was published before.    *)
Changes == {"enter", "revive", "job"}

Changed(a, kind) ==
  [version  |-> pubRow[a].version + 1,
   terminal |-> CASE kind = "enter" -> TRUE
                  [] kind = "revive" -> FALSE
                  [] kind = "job" -> pubRow[a].terminal]

Change(a) ==
  /\ openTx[a] = NoTx
  /\ changesLeft > 0
  /\ changesLeft' = changesLeft - 1

(* transitionApplicationState or transitionJobState on a transaction's     *)
(* client: the row is locked until the end, the entry is queued at once.   *)
TxUpdate(a, kind) ==
  /\ Change(a)
  /\ openTx' = [openTx EXCEPT ![a] = Changed(a, kind)]
  /\ Enqueued(a, kind # "job", pending')
  /\ UNCHANGED <<pubRow, toAnnounce, flush, batch, publishing, emitted,
                 lastPublished, seen, unheard, announced>>

TxCommit(a) ==
  /\ openTx[a] # NoTx
  /\ ~toAnnounce[a]
  /\ pubRow' = [pubRow EXCEPT ![a] = openTx[a]]
  /\ openTx' = [openTx EXCEPT ![a] = NoTx]
  /\ toAnnounce' = [toAnnounce EXCEPT ![a] = TRUE]
  /\ UNCHANGED <<changesLeft, pending, flush, batch, publishing, emitted, lastPublished,
                 seen, unheard, announced>>

(* The entry of a transaction that rolls back stays in the queue. *)
TxRollback(a) ==
  /\ openTx[a] # NoTx
  /\ openTx' = [openTx EXCEPT ![a] = NoTx]
  /\ UNCHANGED <<changesLeft, pubRow, toAnnounce, pending, flush, batch, publishing, emitted,
                 lastPublished, seen, unheard, announced>>

(* flushRealtimeAfterDbCommit([a]) *)
Announce(a) ==
  /\ toAnnounce[a]
  /\ toAnnounce' = [toAnnounce EXCEPT ![a] = FALSE]
  /\ pending' = Marked(a, pending)
  /\ StartFlush(pending')
  /\ announced' = [announced EXCEPT ![a] =
                     IF a \in DOMAIN pending THEN pubRow[a].version ELSE @]
  /\ UNCHANGED <<changesLeft, pubRow, openTx, batch, publishing, emitted, lastPublished,
                 seen, unheard>>

(* transitionApplicationState on the pool: every statement commits by      *)
(* itself, and the entry is queued, marked and flushed in one go.          *)
PoolTransition(a, kind) ==
  /\ Change(a)
  /\ kind # "job"
  /\ pubRow' = [pubRow EXCEPT ![a] = Changed(a, kind)]
  /\ \E queue \in PartialFunctions(Applications, Entry) :
       /\ Enqueued(a, TRUE, queue)
       /\ pending' = Marked(a, queue)
       /\ announced' = [announced EXCEPT ![a] =
                          IF a \in DOMAIN queue THEN pubRow'[a].version ELSE @]
  /\ StartFlush(pending')
  /\ UNCHANGED <<openTx, toAnnounce, batch, publishing, emitted, lastPublished, seen, unheard>>

(* transitionJobState on the pool: queued, but neither marked nor flushed. *)
PoolJobTransition(a) ==
  /\ Change(a)
  /\ pubRow' = [pubRow EXCEPT ![a] = Changed(a, "job")]
  /\ Enqueued(a, FALSE, pending')
  /\ UNCHANGED <<openTx, toAnnounce, flush, batch, publishing, emitted,
                 lastPublished, seen, unheard, announced>>

-----------------------------------------------------------------------------
(* Flush, sweep and publication *)

DatabaseUnchanged == UNCHANGED <<changesLeft, pubRow, openTx, toAnnounce, announced>>

HistoryUnchanged == UNCHANGED <<emitted, lastPublished, seen, unheard>>

(* flushOne: it runs to its end without an await. *)
FlushOne ==
  /\ \E entry \in flush.entries :
       /\ Batched(entry.app, entry.force)
       /\ pending' = Without(pending, entry.app)
       /\ flush' = [flush EXCEPT !.entries = @ \ {entry}]
  /\ UNCHANGED publishing /\ DatabaseUnchanged /\ HistoryUnchanged

(* flushBatch takes all there is and publishes it one by one. *)
StartPublisher(p) ==
  /\ publishing[p].pc = "idle"
  /\ publishing' = [publishing EXCEPT ![p] =
       [IdlePublisher EXCEPT !.pc = "next",
          !.items = {[app |-> a, force |-> batch[a]] : a \in DOMAIN batch}]]
  /\ batch' = <<>>

NoFlush == [on |-> FALSE, entries |-> {}, publisher |-> {}]

(* A flush ends with a flushBatch call of its own and waits for it ... *)
FlushBatchNow ==
  /\ flush.on /\ flush.entries = {} /\ flush.publisher = {}
  /\ IF batch = <<>>
     THEN flush' = NoFlush /\ UNCHANGED <<publishing, batch>>
     ELSE \E p \in Publishers :
            StartPublisher(p) /\ flush' = [flush EXCEPT !.publisher = {p}]
  /\ UNCHANGED pending /\ DatabaseUnchanged /\ HistoryUnchanged

(* ... unless the timer of the batch processor comes first. *)
BatchTimer ==
  /\ batch # <<>>
  /\ \E p \in Publishers : StartPublisher(p)
  /\ UNCHANGED <<pending, flush>> /\ DatabaseUnchanged /\ HistoryUnchanged

(* sweepOrphans: an uncommitted entry that is too old is dropped ... *)
SweepDrop(a) ==
  /\ a \in DOMAIN pending
  /\ ~pending[a].committed
  /\ pending' = Without(pending, a)
  /\ UNCHANGED <<flush, batch, publishing>> /\ DatabaseUnchanged /\ HistoryUnchanged

(* A plausible bug: the sweep hands nothing over. *)
FaultySweepRecover(a) == a \in DOMAIN pending /\ ~pending[a].committed /\ SweepDrop(a)

(* ... and a committed one that no flush took is handed over. *)
SweepRecover(a) ==
  /\ a \in DOMAIN pending
  /\ pending[a].committed
  /\ Batched(a, pending[a].force)
  /\ pending' = Without(pending, a)
  /\ UNCHANGED <<flush, publishing>> /\ DatabaseUnchanged /\ HistoryUnchanged

(* Publisher p is done with an item: on to the next, or the batch is done, *)
(* and with it the flush that waits for it.                                *)
GoOn(p, items) ==
  /\ publishing' = [publishing EXCEPT ![p] =
       IF items = {} THEN IdlePublisher
       ELSE [IdlePublisher EXCEPT !.pc = "next", !.items = items]]
  /\ flush' = IF items = {} /\ flush.publisher = {p} THEN NoFlush ELSE flush

Goto(p, next) == publishing' = [publishing EXCEPT ![p] = next] /\ UNCHANGED flush

Later(v, w) == IF v > w THEN v ELSE w

(* Forced items come first. *)
MayBeNext(p, item) ==
  /\ publishing[p].pc = "next"
  /\ item \in publishing[p].items
  /\ \A other \in publishing[p].items : other.force => item.force

(* loadPublishMeta; clients that saw a terminal state are not told of a    *)
(* change within it, nor are those that were to see it and did not.        *)
LoadMeta(p) ==
  \E item \in publishing[p].items :
    LET a    == item.app
        rest == publishing[p].items \ {item}
        row  == pubRow[a]
        skip == row.terminal /\ ~item.force /\ lastPublished[a].terminal
        knows == seen[a] >= lastPublished[a].version
    IN  /\ MayBeNext(p, item)
        /\ IF skip THEN GoOn(p, rest)
           ELSE Goto(p, [publishing[p] EXCEPT !.pc = "loaded", !.items = rest,
                           !.at = <<item>>, !.version = row.version])
        /\ seen' = [seen EXCEPT ![a] = IF skip /\ knows THEN Later(@, row.version) ELSE @]
        /\ unheard' = [unheard EXCEPT ![a] = IF skip /\ ~knows THEN Later(@, row.version) ELSE @]
        /\ UNCHANGED <<pending, batch, emitted, lastPublished>> /\ DatabaseUnchanged

(* loadSerializedForPublish reads the row once more; then isPublishWorthy  *)
(* and shouldEmitPublish decide on the version of the first read.          *)
LoadBundle(p) ==
  /\ publishing[p].pc = "loaded"
  /\ LET item  == publishing[p].at[1]
         v     == publishing[p].version
         worth == item.force \/ v # lastPublished[item.app].version
     IN  IF worth /\ <<item.app, v>> \notin emitted
         THEN Goto(p, [publishing[p] EXCEPT !.pc = "append",
                         !.terminal = pubRow[item.app].terminal])
         ELSE GoOn(p, publishing[p].items)
  /\ UNCHANGED <<pending, batch>> /\ DatabaseUnchanged /\ HistoryUnchanged

(* Of a publication that does not read its row, what was announced by now  *)
(* is lost; the entry it came from is gone.                                *)
LostRead(a, v) ==
  unheard' = [unheard EXCEPT ![a] = Later(@, IF v > announced[a] THEN announced[a] ELSE v)]

(* One of the two reads is rejected, or finds no row: publication of the   *)
(* item ends there, and the batch goes on.                                 *)
ReadFails(p) ==
  /\ \/ \E item \in publishing[p].items :
          MayBeNext(p, item) /\ LostRead(item.app, pubRow[item.app].version)
                            /\ GoOn(p, publishing[p].items \ {item})
     \/ /\ publishing[p].pc = "loaded"
        /\ LostRead(publishing[p].at[1].app, publishing[p].version)
        /\ GoOn(p, publishing[p].items)
  /\ UNCHANGED <<pending, batch, emitted, lastPublished, seen>> /\ DatabaseUnchanged

(* fanOutRealtimePayload asks the registry once more, in the same step in  *)
(* which publishApplicationUpdate records the emission.                    *)
FansOut(a, v) == <<a, v>> \notin emitted

(* Over Redis an event may get lost after that (publishToRedis).           *)
FanOut(p) ==
  /\ publishing[p].pc = "append"
  /\ \E arrives \in BOOLEAN :
       LET a == publishing[p].at[1].app
           v == publishing[p].version
       IN  /\ seen' = [seen EXCEPT ![a] = IF FansOut(a, v) /\ arrives THEN Later(@, v) ELSE @]
           /\ unheard' = [unheard EXCEPT ![a] = IF FansOut(a, v) /\ ~arrives THEN Later(@, v) ELSE @]
           /\ emitted' = emitted \cup {<<a, v>>}
           /\ lastPublished' = [lastPublished EXCEPT ![a] =
                [version |-> v, terminal |-> publishing[p].terminal]]
  /\ GoOn(p, publishing[p].items)
  /\ UNCHANGED <<pending, batch>> /\ DatabaseUnchanged

-----------------------------------------------------------------------------
PublisherStep(p) == LoadMeta(p) \/ LoadBundle(p) \/ ReadFails(p) \/ FanOut(p)

FlushStep == FlushOne \/ FlushBatchNow

Requests ==
  \E a \in Applications :
    \/ \E kind \in Changes : TxUpdate(a, kind) \/ PoolTransition(a, kind)
    \/ PoolJobTransition(a)
    \/ TxCommit(a)
    \/ TxRollback(a)
    \/ Announce(a)

Sweep == \E a \in Applications : SweepRecover(a)

PublishNext ==
  \/ Requests
  \/ FlushStep
  \/ BatchTimer
  \/ Sweep
  \/ \E a \in Applications : SweepDrop(a)
  \/ \E p \in Publishers : PublisherStep(p)

(* The event loop runs every timer and continuation some day. *)
PublishSpec ==
  /\ PublishInit /\ [][PublishNext]_pubVars
  /\ WF_pubVars(FlushStep) /\ WF_pubVars(BatchTimer) /\ WF_pubVars(Sweep)
  /\ \A p \in Publishers : WF_pubVars(PublisherStep(p))

-----------------------------------------------------------------------------
(* Whatever overflows and expires, an entry whose change is committed      *)
(* leaves the queue only into the batch (evictForOverflow, sweepOrphans).  *)
CommittedIsHandedOver ==
  [][\A a \in DOMAIN pending :
       pending[a].committed /\ a \notin DOMAIN pending' => a \in DOMAIN batch']_pubVars

(* Once the announcement of a commit has found an entry, clients are told  *)
(* of that version or a later one, or know a terminal state that the       *)
(* version did not leave (flushPostCommitPublishes, which is a no-op while *)
(* another flush runs; sweepOrphans; the terminal skip), unless a          *)
(* publication that could have told them was lost: its reads were rejected *)
(* (publishApplicationUpdate drops the event), or Redis did.               *)
AnnouncedIsSeen ==
  \A a \in Applications : \A v \in 1..MaxChanges :
     announced[a] >= v ~> seen[a] >= v \/ unheard[a] >= v
=============================================================================
