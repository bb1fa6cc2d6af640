---- MODULE PlatformTypes ----
(*****************************************************************************)
(* The types of the components beside the application lifecycle, part by     *)
(* part, and of all of them in the run that puts them side by side: the type *)
(* invariant of MCPlatform.  Where a part's types need more than the         *)
(* invariant of its safety proof holds, that is stated and kept here.        *)
(*****************************************************************************)
EXTENDS PlatformProofs, MCPlatform

-----------------------------------------------------------------------------
(*****************************************************************************)
(* The publish pipeline.                                                     *)
(*****************************************************************************)

(* What is queued of an application.                                       *)
PublishItem == [app : Applications, force : BOOLEAN]

(* A publisher at work on the items of one flush.                          *)
PublisherRow ==
  [pc : {"idle", "next", "loaded", "append"}, items : SUBSET PublishItem,
   at : {<<>>} \cup {<<i>> : i \in PublishItem}, version : 0..MaxChanges, terminal : BOOLEAN]

(* A version counts the changes of its row, of which no more have begun    *)
(* than changesLeft tells.                                                 *)
VersionsFit ==
  /\ changesLeft \in 0..MaxChanges
  /\ pubRow \in [Applications -> Row] /\ openTx \in [Applications -> Row]
  /\ \A a \in Applications : /\ pubRow[a].version + changesLeft <= MaxChanges
                             /\ openTx[a].version + changesLeft <= MaxChanges

(* What waits for the batch timer, and the flush under way.                *)
QueuesFit ==
  /\ pending \in PartialFunctions(Applications, Entry)
  /\ batch \in PartialFunctions(Applications, BOOLEAN)
  /\ flush.on \in BOOLEAN
  /\ flush \in [on : BOOLEAN, entries : SUBSET PublishItem, publisher : SUBSET Publishers]

(* A publisher that has read a row knows the item it read it for.          *)
PublishersFit ==
  /\ publishing \in [Publishers -> PublisherRow]
  /\ \A p \in Publishers : publishing[p].pc \in {"loaded", "append"} => publishing[p].at # <<>>

(* What clients and processes were told.                                   *)
AnnouncedFits ==
  /\ emitted \subseteq Applications \X (0..MaxChanges)
  /\ lastPublished \in [Applications -> Row]
  /\ seen \in [Applications -> 0..MaxChanges] /\ announced \in [Applications -> 0..MaxChanges]
  /\ unheard \in [Applications -> 0..MaxChanges]

(* What the types of the pipeline rest on.                                 *)
PublishInv ==
  /\ VersionsFit /\ toAnnounce \in [Applications -> BOOLEAN]
  /\ QueuesFit /\ PublishersFit /\ AnnouncedFits

(* A queue with nothing in it is a queue.                                  *)
LEMMA EmptyQueue ==
  ASSUME NEW S, NEW T PROVE <<>> \in PartialFunctions(S, T)
<1>1. <<>> \in [{} -> T]
  OBVIOUS
<1> QED
  BY <1>1 DEF PartialFunctions

(* The functions With and Without stay partial functions.                  *)
LEMMA PartialIs ==
  ASSUME NEW S, NEW T, NEW f
  PROVE  f \in PartialFunctions(S, T) <=> DOMAIN f \subseteq S /\ f \in [DOMAIN f -> T]
<1>1. ASSUME f \in PartialFunctions(S, T) PROVE DOMAIN f \subseteq S /\ f \in [DOMAIN f -> T]
  BY <1>1 DEF PartialFunctions
<1>2. ASSUME DOMAIN f \subseteq S, f \in [DOMAIN f -> T] PROVE f \in PartialFunctions(S, T)
  <2>1. DOMAIN f \in SUBSET S
    BY <1>2
  <2>2. [DOMAIN f -> T] \in {[D -> T] : D \in SUBSET S}
    BY <2>1
  <2> QED
    BY <1>2, <2>2 DEF PartialFunctions
<1> QED
  BY <1>1, <1>2

(* So is one that loses an entry ...                                       *)
LEMMA WithoutIs ==
  ASSUME NEW S, NEW T, NEW f \in PartialFunctions(S, T), NEW x
  PROVE  Without(f, x) \in PartialFunctions(S, T)
<1>1. DOMAIN f \subseteq S /\ f \in [DOMAIN f -> T]
  BY PartialIs
<1>2. DOMAIN Without(f, x) = DOMAIN f \ {x}
  BY DEF Without
<1>3. Without(f, x) \in [DOMAIN f \ {x} -> T]
  BY <1>1 DEF Without
<1> QED
  BY <1>1, <1>2, <1>3, PartialIs

(* ... and one that gains an entry or has it replaced.                     *)
LEMMA WithIs ==
  ASSUME NEW S, NEW T, NEW f \in PartialFunctions(S, T), NEW x \in S, NEW v \in T
  PROVE  With(f, x, v) \in PartialFunctions(S, T)
<1>1. DOMAIN f \subseteq S /\ f \in [DOMAIN f -> T]
  BY PartialIs
<1>2. DOMAIN With(f, x, v) = DOMAIN f \cup {x}
  BY DEF With
<1>3. With(f, x, v) \in [DOMAIN f \cup {x} -> T]
  BY <1>1 DEF With
<1> QED
  BY <1>1, <1>2, <1>3, PartialIs

(* enqueue leaves a queue: an entry merged, or another one evicted for it. *)
LEMMA EnqueuedIs ==
  ASSUME pending \in PartialFunctions(Applications, Entry), NEW a \in Applications,
         NEW force \in BOOLEAN, NEW queue, Enqueued(a, force, queue)
  PROVE  queue \in PartialFunctions(Applications, Entry)
<1>1. DOMAIN pending \subseteq Applications /\ pending \in [DOMAIN pending -> Entry]
  BY PartialIs
<1>2. CASE a \in DOMAIN pending
  <2>1. Merge(pending[a], force) \in Entry
    BY <1>1, <1>2 DEF Merge, Entry
  <2>2. queue = [pending EXCEPT ![a] = Merge(pending[a], force)]
    BY <1>2 DEF Enqueued
  <2>3. DOMAIN queue = DOMAIN pending /\ queue \in [DOMAIN pending -> Entry]
    BY <1>1, <2>1, <2>2
  <2> QED
    BY <1>1, <2>3, PartialIs
<1>3. CASE a \notin DOMAIN pending
  <2>1. PICK longer : /\ longer = With(pending, a, [committed |-> FALSE, force |-> force])
                      /\ \/ \E victim \in Evictable(longer) : queue = Without(longer, victim)
                         \/ queue = longer
    BY <1>3 DEF Enqueued
  <2>2. [committed |-> FALSE, force |-> force] \in Entry
    BY DEF Entry
  <2>3. longer \in PartialFunctions(Applications, Entry)
    BY <2>1, <2>2, WithIs
  <2> QED
    BY <2>1, <2>3, WithoutIs
<1> QED
  BY <1>2, <1>3

(* Marking an entry leaves a queue.                                        *)
LEMMA MarkedIs ==
  ASSUME NEW queue \in PartialFunctions(Applications, Entry), NEW a
  PROVE  Marked(a, queue) \in PartialFunctions(Applications, Entry)
<1>1. DOMAIN queue \subseteq Applications /\ queue \in [DOMAIN queue -> Entry]
  BY PartialIs
<1>2. DOMAIN Marked(a, queue) = DOMAIN queue /\ Marked(a, queue) \in [DOMAIN queue -> Entry]
  BY <1>1 DEF Marked, Entry
<1> QED
  BY <1>1, <1>2, PartialIs

(* A flush that begins takes items of the applications.                    *)
LEMMA StartFlushFits ==
  ASSUME QueuesFit, NEW queue \in PartialFunctions(Applications, Entry), StartFlush(queue)
  PROVE  flush' \in [on : BOOLEAN, entries : SUBSET PublishItem, publisher : SUBSET Publishers]
<1>1. DOMAIN queue \subseteq Applications /\ queue \in [DOMAIN queue -> Entry]
  BY PartialIs
<1>2. \A a \in DOMAIN queue : [app |-> a, force |-> queue[a].force] \in PublishItem
  BY <1>1 DEF PublishItem, Entry
<1>3. CASE flush.on
  BY <1>3 DEF StartFlush, QueuesFit
<1>4. CASE ~flush.on
  <2> DEFINE taken == {[app |-> a, force |-> queue[a].force] : a \in {b \in DOMAIN queue : queue[b].committed}}
  <2>1. taken \subseteq PublishItem
    BY <1>2
  <2>2. flush' = [on |-> TRUE, entries |-> taken, publisher |-> {}]
    BY <1>4 DEF StartFlush
  <2> HIDE DEF taken
  <2> QED
    BY <2>1, <2>2
<1> QED
  BY <1>3, <1>4

(* A change takes one of the changes that are left.                        *)
LEMMA ChangeFits ==
  ASSUME VersionsFit, NEW a \in Applications, NEW kind \in Changes, Change(a)
  PROVE  /\ changesLeft' \in 0..MaxChanges
         /\ Changed(a, kind) \in Row /\ Changed(a, kind).version + changesLeft' <= MaxChanges
         /\ \A b \in Applications : /\ pubRow[b].version + changesLeft' <= MaxChanges
                                   /\ openTx[b].version + changesLeft' <= MaxChanges
<1>1. PICK left \in Nat : left = changesLeft /\ left > 0 /\ changesLeft' = left - 1 /\ MaxChanges \in Nat /\ left <= MaxChanges
  BY PublishAssumption DEF VersionsFit, Change
<1>2. ASSUME NEW v \in Nat, v + left <= MaxChanges
      PROVE  v + (left - 1) <= MaxChanges /\ v + 1 + (left - 1) <= MaxChanges /\ v + 1 \in 0..MaxChanges
  BY <1>1, <1>2
<1>3. \A b \in Applications : pubRow[b].version \in Nat /\ openTx[b].version \in Nat
  BY PublishAssumption DEF VersionsFit, Row
<1>4. Changed(a, kind).version = pubRow[a].version + 1
  BY DEF Changed
<1>5. Changed(a, kind).terminal \in BOOLEAN
  BY DEF Changed, Changes, VersionsFit, Row
<1>6. PICK over : Changed(a, kind) = [version |-> pubRow[a].version + 1, terminal |-> over]
  BY DEF Changed
<1>7. \A b \in Applications : /\ pubRow[b].version + left <= MaxChanges
                            /\ openTx[b].version + left <= MaxChanges
  BY <1>1 DEF VersionsFit
<1>8. changesLeft' \in 0..MaxChanges
  BY <1>1
<1>9. pubRow[a].version + 1 \in 0..MaxChanges /\ pubRow[a].version + 1 + changesLeft' <= MaxChanges
  BY <1>1, <1>2, <1>3, <1>7
<1>10. Changed(a, kind) \in Row
  BY <1>4, <1>5, <1>6, <1>9 DEF Row
<1> QED
  BY <1>1, <1>2, <1>3, <1>4, <1>7, <1>8, <1>9, <1>10

(* A process that has published nothing of an application remembers a row. *)
LEMMA NoTxIsRow == NoTx \in Row /\ NoTx.version = 0
  BY PublishAssumption DEF NoTx, Row

(* Every transaction raises a version within its bound.                    *)
LEMMA VersionsStep ==
  ASSUME VersionsFit, [PublishNext]_pubVars
  PROVE  VersionsFit'
<1>0. changesLeft \in Nat /\ MaxChanges \in Nat /\ changesLeft <= MaxChanges
  BY PublishAssumption DEF VersionsFit
<1>1. ASSUME NEW a \in Applications, NEW kind \in Changes, TxUpdate(a, kind) PROVE VersionsFit'
  <2>1. openTx' = [openTx EXCEPT ![a] = Changed(a, kind)] /\ pubRow' = pubRow /\ Change(a)
    BY <1>1 DEF TxUpdate
  <2> QED
    BY <2>1, ChangeFits DEF VersionsFit
<1>2. ASSUME NEW a \in Applications, NEW kind \in Changes,
             Change(a), pubRow' = [pubRow EXCEPT ![a] = Changed(a, kind)], openTx' = openTx
      PROVE  VersionsFit'
  BY <1>2, ChangeFits DEF VersionsFit
<1>3. ASSUME NEW a \in Applications, TxCommit(a) PROVE VersionsFit'
  <2>1. /\ pubRow' = [pubRow EXCEPT ![a] = openTx[a]] /\ openTx' = [openTx EXCEPT ![a] = NoTx]
        /\ changesLeft' = changesLeft
    BY <1>3 DEF TxCommit
  <2> QED
    BY <1>0, <2>1, NoTxIsRow DEF VersionsFit
<1>4. ASSUME NEW a \in Applications, TxRollback(a) PROVE VersionsFit'
  <2>1. pubRow' = pubRow /\ openTx' = [openTx EXCEPT ![a] = NoTx] /\ changesLeft' = changesLeft
    BY <1>4 DEF TxRollback
  <2> QED
    BY <1>0, <2>1, NoTxIsRow DEF VersionsFit
<1>5. ASSUME UNCHANGED <<changesLeft, pubRow, openTx>> PROVE VersionsFit'
  BY <1>5 DEF VersionsFit
<1>6. ASSUME NEW a \in Applications, NEW kind \in Changes, PoolTransition(a, kind) PROVE VersionsFit'
  BY <1>2, <1>6 DEF PoolTransition
<1>7. ASSUME NEW a \in Applications, PoolJobTransition(a) PROVE VersionsFit'
  BY <1>2, <1>7 DEF PoolJobTransition, Changes
<1>8. ASSUME NEW a \in Applications, Announce(a) \/ SweepDrop(a) \/ SweepRecover(a) PROVE VersionsFit'
  BY <1>5, <1>8 DEF Announce, SweepDrop, SweepRecover, DatabaseUnchanged
<1>9. ASSUME NEW p \in Publishers, PublisherStep(p) PROVE VersionsFit'
  BY <1>5, <1>9 DEF PublisherStep, LoadMeta, LoadBundle, ReadFails, FanOut, DatabaseUnchanged
<1>10. ASSUME FlushStep \/ BatchTimer PROVE VersionsFit'
  BY <1>5, <1>10 DEF FlushStep, FlushOne, FlushBatchNow, BatchTimer, DatabaseUnchanged
<1> QED
  BY <1>1, <1>3, <1>4, <1>5, <1>6, <1>7, <1>8, <1>9, <1>10 DEF PublishNext, Requests, Sweep, pubVars

(* A publisher that goes on has read nothing yet.                          *)
LEMMA NextPublisher ==
  ASSUME NEW items \in SUBSET PublishItem
  PROVE  /\ [IdlePublisher EXCEPT !.pc = "next", !.items = items] \in PublisherRow
         /\ [IdlePublisher EXCEPT !.pc = "next", !.items = items].pc = "next"
<1>1. PICK idle : idle = IdlePublisher /\ idle \in PublisherRow
  <2>1. IdlePublisher \in PublisherRow
    BY PublishAssumption DEF IdlePublisher, PublisherRow
  <2> QED
    BY <2>1
<1>2. /\ [idle EXCEPT !.pc = "next", !.items = items] \in PublisherRow
      /\ [idle EXCEPT !.pc = "next", !.items = items].pc = "next"
  BY <1>1 DEF PublisherRow
<1> QED
  BY <1>1, <1>2

(* A publisher takes the batch, or goes on with what it has left.          *)
LEMMA StartPublisherFits ==
  ASSUME QueuesFit, PublishersFit, NEW p \in Publishers, StartPublisher(p)
  PROVE  PublishersFit' /\ batch' \in PartialFunctions(Applications, BOOLEAN)
<1>1. DOMAIN batch \subseteq Applications /\ batch \in [DOMAIN batch -> BOOLEAN]
  BY PartialIs DEF QueuesFit
<1> DEFINE taken == {[app |-> a, force |-> batch[a]] : a \in DOMAIN batch}
<1>2. taken \subseteq PublishItem
  BY <1>1 DEF PublishItem
<1>3. publishing' = [publishing EXCEPT ![p] = [IdlePublisher EXCEPT !.pc = "next", !.items = taken]]
  BY DEF StartPublisher
<1> HIDE DEF taken
<1>4. PICK row : /\ publishing' = [publishing EXCEPT ![p] = row] /\ row \in PublisherRow /\ row.pc = "next"
  BY <1>2, <1>3, NextPublisher
<1> QED
  BY <1>4, EmptyQueue DEF StartPublisher, PublishersFit

(* A publisher goes on with what is left of its items, or is done.         *)
LEMMA GoOnFits ==
  ASSUME QueuesFit, PublishersFit, NEW p \in Publishers, NEW items \in SUBSET PublishItem,
         GoOn(p, items)
  PROVE  /\ PublishersFit'
         /\ flush' \in [on : BOOLEAN, entries : SUBSET PublishItem, publisher : SUBSET Publishers]
<1>1. IdlePublisher \in PublisherRow /\ IdlePublisher.pc = "idle"
  BY PublishAssumption DEF IdlePublisher, PublisherRow
<1>2. /\ [IdlePublisher EXCEPT !.pc = "next", !.items = items] \in PublisherRow
      /\ [IdlePublisher EXCEPT !.pc = "next", !.items = items].pc = "next"
  BY NextPublisher
<1>3. PICK row : publishing' = [publishing EXCEPT ![p] = row] /\ row \in PublisherRow /\ row.pc \in {"idle", "next"}
  BY <1>1, <1>2 DEF GoOn
<1>4. PublishersFit'
  BY <1>3 DEF PublishersFit
<1> QED
  BY <1>4 DEF GoOn, QueuesFit, NoFlush

(* A publisher goes to its next step.                                      *)
LEMMA GotoFits ==
  ASSUME QueuesFit, PublishersFit, NEW p \in Publishers, NEW row \in PublisherRow, row.at # <<>>,
         Goto(p, row)
  PROVE  /\ PublishersFit'
         /\ flush' \in [on : BOOLEAN, entries : SUBSET PublishItem, publisher : SUBSET Publishers]
  BY DEF Goto, PublishersFit, QueuesFit

(* The first read of the row.                                              *)
LEMMA LoadMetaFits ==
  ASSUME PublishInv, NEW p \in Publishers, LoadMeta(p)
  PROVE  PublishInv'
<1>0. PICK item \in publishing[p].items : \E rest, row, skip, knows :
        /\ rest = publishing[p].items \ {item} /\ row = pubRow[item.app]
        /\ IF skip THEN GoOn(p, rest)
           ELSE Goto(p, [publishing[p] EXCEPT !.pc = "loaded", !.items = rest,
                           !.at = <<item>>, !.version = row.version])
        /\ seen' = [seen EXCEPT ![item.app] = IF skip /\ knows THEN Later(@, row.version) ELSE @]
        /\ unheard' = [unheard EXCEPT ![item.app] = IF skip /\ ~knows THEN Later(@, row.version) ELSE @]
        /\ UNCHANGED <<pending, batch, emitted, lastPublished>> /\ DatabaseUnchanged
  BY DEF LoadMeta
<1>1. PICK rest, row, skip, knows :
        /\ rest = publishing[p].items \ {item} /\ row = pubRow[item.app]
        /\ IF skip THEN GoOn(p, rest)
           ELSE Goto(p, [publishing[p] EXCEPT !.pc = "loaded", !.items = rest,
                           !.at = <<item>>, !.version = row.version])
        /\ seen' = [seen EXCEPT ![item.app] = IF skip /\ knows THEN Later(@, row.version) ELSE @]
        /\ unheard' = [unheard EXCEPT ![item.app] = IF skip /\ ~knows THEN Later(@, row.version) ELSE @]
        /\ UNCHANGED <<pending, batch, emitted, lastPublished>> /\ DatabaseUnchanged
  BY <1>0
<1>2. UNCHANGED <<pending, batch, emitted, lastPublished>> /\ DatabaseUnchanged
  BY <1>1
<1>3. publishing[p] \in PublisherRow /\ publishing[p].items \subseteq PublishItem /\ item \in PublishItem
  BY <1>1 DEF PublishInv, PublishersFit, PublisherRow
<1>4. item.app \in Applications /\ row \in Row /\ row.version \in 0..MaxChanges
  BY <1>1, <1>3 DEF PublishInv, VersionsFit, PublishItem, Row
<1>5. PICK old : old = publishing[p]
  OBVIOUS
<1>6. PICK loaded : /\ loaded = [old EXCEPT !.pc = "loaded", !.items = rest, !.at = <<item>>, !.version = row.version]
                    /\ loaded \in PublisherRow /\ loaded.at = <<item>>
  <2>1. rest \subseteq PublishItem
    BY <1>1, <1>3
  <2>2. old \in PublisherRow
    BY <1>3, <1>5
  <2>3. \A at : at \in {<<i>> : i \in PublishItem}
        => /\ [old EXCEPT !.pc = "loaded", !.items = rest, !.at = at, !.version = row.version] \in PublisherRow
           /\ [old EXCEPT !.pc = "loaded", !.items = rest, !.at = at, !.version = row.version].at = at
    BY <2>1, <2>2, <1>4 DEF PublisherRow
  <2> QED
    BY <2>3, <1>3
<1>7. /\ PublishersFit'
      /\ flush' \in [on : BOOLEAN, entries : SUBSET PublishItem, publisher : SUBSET Publishers]
  <2>1. QueuesFit /\ PublishersFit
    BY DEF PublishInv
  <2>2. rest \in SUBSET PublishItem
    BY <1>1, <1>3
  <2>3. loaded.at # <<>>
    BY <1>6
  <2>4. GoOn(p, rest) \/ Goto(p, loaded)
    BY <1>1, <1>5, <1>6
  <2> QED
    BY <2>1, <2>2, <2>3, <2>4, <1>6, GoOnFits, GotoFits
<1>8. AnnouncedFits'
  <2>1. \A v, w \in 0..MaxChanges : Later(v, w) \in 0..MaxChanges
    BY DEF Later
  <2> QED
    BY <1>1, <1>2, <1>4, <2>1 DEF PublishInv, AnnouncedFits, DatabaseUnchanged
<1>9. VersionsFit'
  BY <1>2 DEF PublishInv, VersionsFit, DatabaseUnchanged
<1> QED
  BY <1>2, <1>7, <1>8, <1>9 DEF PublishInv, QueuesFit, DatabaseUnchanged

(* The second read of the row.                                             *)
LEMMA LoadBundleFits ==
  ASSUME PublishInv, NEW p \in Publishers, LoadBundle(p)
  PROVE  PublishInv'
<1>1. /\ \/ GoOn(p, publishing[p].items)
         \/ \E over \in BOOLEAN : Goto(p, [publishing[p] EXCEPT !.pc = "append", !.terminal = over])
      /\ publishing[p].pc = "loaded"
      /\ UNCHANGED <<pending, batch>> /\ DatabaseUnchanged /\ HistoryUnchanged
  <2>1. publishing[p].pc = "loaded" /\ publishing[p] \in PublisherRow /\ publishing[p].at # <<>>
    BY DEF LoadBundle, PublishInv, PublishersFit
  <2>2. PICK item \in PublishItem : publishing[p].at = <<item>>
    BY <2>1 DEF PublisherRow
  <2>3. pubRow[item.app].terminal \in BOOLEAN /\ publishing[p].at[1] = item
    BY <2>2 DEF PublishItem, PublishInv, VersionsFit, Row
  <2> QED
    BY <2>1, <2>3 DEF LoadBundle
<1>2. QueuesFit /\ PublishersFit /\ publishing[p] \in PublisherRow /\ publishing[p].at # <<>>
  BY <1>1 DEF PublishInv, PublishersFit
<1>3. publishing[p].items \in SUBSET PublishItem
  BY <1>2 DEF PublisherRow
<1>4. ASSUME NEW over \in BOOLEAN
      PROVE  /\ [publishing[p] EXCEPT !.pc = "append", !.terminal = over] \in PublisherRow
             /\ [publishing[p] EXCEPT !.pc = "append", !.terminal = over].at = publishing[p].at
  BY <1>2 DEF PublisherRow
<1>5. /\ PublishersFit'
      /\ flush' \in [on : BOOLEAN, entries : SUBSET PublishItem, publisher : SUBSET Publishers]
  BY <1>1, <1>2, <1>3, <1>4, GoOnFits, GotoFits
<1> QED
  BY <1>1, <1>5 DEF PublishInv, QueuesFit, VersionsFit, AnnouncedFits, DatabaseUnchanged, HistoryUnchanged

(* A read that is rejected ends the publication of its item.               *)
LEMMA ReadFailsFits ==
  ASSUME PublishInv, NEW p \in Publishers, ReadFails(p)
  PROVE  PublishInv'
<1>1. QueuesFit /\ PublishersFit /\ AnnouncedFits /\ VersionsFit /\ publishing[p] \in PublisherRow
  BY DEF PublishInv, PublishersFit
<1>2. publishing[p].items \in SUBSET PublishItem /\ publishing[p].version \in 0..MaxChanges
  BY <1>1 DEF PublisherRow
<1>3. PICK a \in Applications, v \in 0..MaxChanges, items \in SUBSET PublishItem :
        LostRead(a, v) /\ GoOn(p, items)
  <2>1. CASE publishing[p].pc = "loaded"
    <3>1. PICK item \in PublishItem : publishing[p].at = <<item>>
      BY <1>1, <2>1 DEF PublishersFit, PublisherRow
    <3>2. publishing[p].at[1] = item /\ item.app \in Applications
      BY <3>1 DEF PublishItem
    <3> QED
      BY <1>2, <2>1, <3>2 DEF ReadFails, MayBeNext
  <2>2. CASE publishing[p].pc # "loaded"
    <3>1. PICK item \in publishing[p].items :
            LostRead(item.app, pubRow[item.app].version) /\ GoOn(p, publishing[p].items \ {item})
      BY <2>2 DEF ReadFails, MayBeNext
    <3>2. item.app \in Applications /\ publishing[p].items \ {item} \in SUBSET PublishItem
      BY <1>2 DEF PublishItem
    <3>3. pubRow[item.app].version \in 0..MaxChanges
      BY <1>1, <3>2 DEF VersionsFit, Row
    <3> QED
      BY <3>1, <3>2, <3>3
  <2> QED
    BY <2>1, <2>2
<1>4. /\ PublishersFit'
      /\ flush' \in [on : BOOLEAN, entries : SUBSET PublishItem, publisher : SUBSET Publishers]
  BY <1>1, <1>3, GoOnFits
<1>5. UNCHANGED <<pending, batch, emitted, lastPublished, seen>> /\ DatabaseUnchanged
  BY DEF ReadFails
<1>6. unheard' \in [Applications -> 0..MaxChanges]
  <2>1. \A w, x \in 0..MaxChanges : Later(w, x) \in 0..MaxChanges
    BY DEF Later
  <2>2. PICK w \in 0..MaxChanges : unheard' = [unheard EXCEPT ![a] = Later(@, w)]
    BY <1>1, <1>3 DEF LostRead, AnnouncedFits
  <2> QED
    BY <1>1, <2>1, <2>2 DEF AnnouncedFits
<1> QED
  BY <1>1, <1>4, <1>5, <1>6 DEF PublishInv, QueuesFit, VersionsFit, AnnouncedFits, DatabaseUnchanged

(* The event goes out, with the version of the first read.                 *)
LEMMA FanOutFits ==
  ASSUME PublishInv, NEW p \in Publishers, FanOut(p)
  PROVE  PublishInv'
<1>1. /\ publishing[p].pc = "append" /\ GoOn(p, publishing[p].items)
      /\ UNCHANGED <<pending, batch>> /\ DatabaseUnchanged
  BY DEF FanOut
<1>2. QueuesFit /\ PublishersFit /\ publishing[p] \in PublisherRow /\ publishing[p].at # <<>>
  BY <1>1 DEF PublishInv, PublishersFit
<1>3. publishing[p].items \in SUBSET PublishItem /\ publishing[p].version \in 0..MaxChanges
      /\ publishing[p].terminal \in BOOLEAN
  BY <1>2 DEF PublisherRow
<1>4. /\ PublishersFit'
      /\ flush' \in [on : BOOLEAN, entries : SUBSET PublishItem, publisher : SUBSET Publishers]
  BY <1>1, <1>2, <1>3, GoOnFits
<1>5. PICK item \in PublishItem : publishing[p].at = <<item>>
  BY <1>2 DEF PublisherRow
<1>6. PICK a \in Applications, v \in 0..MaxChanges, over \in BOOLEAN, arrives \in BOOLEAN :
        /\ seen' = [seen EXCEPT ![a] = IF FansOut(a, v) /\ arrives THEN Later(@, v) ELSE @]
        /\ unheard' = [unheard EXCEPT ![a] = IF FansOut(a, v) /\ ~arrives THEN Later(@, v) ELSE @]
        /\ emitted' = emitted \cup {<<a, v>>}
        /\ lastPublished' = [lastPublished EXCEPT ![a] = [version |-> v, terminal |-> over]]
  <2>1. item.app \in Applications /\ publishing[p].at[1] = item
    BY <1>5 DEF PublishItem
  <2> QED
    BY <1>3, <2>1 DEF FanOut
<1>7. AnnouncedFits'
  <2>1. \A w, x \in 0..MaxChanges : Later(w, x) \in 0..MaxChanges
    BY DEF Later
  <2>2. [version |-> v, terminal |-> over] \in Row
    BY DEF Row
  <2> QED
    <3>1. /\ emitted \subseteq Applications \X (0..MaxChanges) /\ lastPublished \in [Applications -> Row]
          /\ seen \in [Applications -> 0..MaxChanges] /\ announced \in [Applications -> 0..MaxChanges]
          /\ unheard \in [Applications -> 0..MaxChanges]
      BY DEF PublishInv, AnnouncedFits
    <3>2. emitted' \subseteq Applications \X (0..MaxChanges)
      BY <1>6, <3>1
    <3>3. lastPublished' \in [Applications -> Row]
      BY <1>6, <2>2, <3>1
    <3>4. seen' \in [Applications -> 0..MaxChanges] /\ unheard' \in [Applications -> 0..MaxChanges]
      BY <1>6, <2>1, <3>1
    <3> QED
      BY <1>1, <3>1, <3>2, <3>3, <3>4 DEF AnnouncedFits, DatabaseUnchanged
<1> QED
  BY <1>1, <1>4, <1>7 DEF PublishInv, QueuesFit, VersionsFit, DatabaseUnchanged

(* The flushes, the batch timer and the sweep of what was left behind.     *)
LEMMA FlushFits ==
  ASSUME PublishInv,
         \/ FlushStep \/ BatchTimer \/ \E a \in Applications : SweepRecover(a) \/ SweepDrop(a)
  PROVE  PublishInv'
<1>0. /\ QueuesFit /\ PublishersFit /\ VersionsFit /\ AnnouncedFits /\ toAnnounce \in [Applications -> BOOLEAN]
      /\ DOMAIN batch \subseteq Applications /\ batch \in [DOMAIN batch -> BOOLEAN]
      /\ DOMAIN pending \subseteq Applications /\ pending \in [DOMAIN pending -> Entry]
  BY PartialIs DEF PublishInv, QueuesFit
<1>1. DatabaseUnchanged /\ HistoryUnchanged
  BY DEF FlushStep, FlushOne, FlushBatchNow, BatchTimer, SweepRecover, SweepDrop
<1>2. VersionsFit' /\ AnnouncedFits' /\ (toAnnounce \in [Applications -> BOOLEAN])'
  BY <1>0, <1>1 DEF VersionsFit, AnnouncedFits, DatabaseUnchanged, HistoryUnchanged
<1>3. ASSUME NEW a \in Applications, NEW force \in BOOLEAN, Batched(a, force)
      PROVE  batch' \in PartialFunctions(Applications, BOOLEAN)
  BY <1>0, <1>3, WithIs DEF Batched, QueuesFit
<1>4. CASE FlushOne
  <2>1. PICK entry \in flush.entries :
          /\ Batched(entry.app, entry.force) /\ pending' = Without(pending, entry.app)
          /\ flush' = [flush EXCEPT !.entries = @ \ {entry}] /\ publishing' = publishing
    BY <1>4 DEF FlushOne
  <2>2. entry.app \in Applications /\ entry.force \in BOOLEAN
    BY <1>0, <2>1 DEF QueuesFit, PublishItem
  <2>3. batch' \in PartialFunctions(Applications, BOOLEAN)
    BY <1>3, <2>1, <2>2
  <2>4. pending' \in PartialFunctions(Applications, Entry)
    BY <1>0, <2>1, WithoutIs DEF QueuesFit
  <2> QED
    BY <1>0, <1>2, <2>1, <2>3, <2>4 DEF PublishInv, QueuesFit, PublishersFit
<1>5. CASE FlushBatchNow \/ BatchTimer
  <2>1. pending' = pending
    BY <1>5 DEF FlushBatchNow, BatchTimer
  <2>2. \/ flush' \in {flush, NoFlush} /\ publishing' = publishing /\ batch' = batch
        \/ \E p \in Publishers : /\ StartPublisher(p)
                                 /\ flush' = flush \/ flush' = [flush EXCEPT !.publisher = {p}]
    BY <1>5 DEF FlushBatchNow, BatchTimer
  <2>3. PublishersFit' /\ batch' \in PartialFunctions(Applications, BOOLEAN)
    BY <1>0, <2>2, StartPublisherFits DEF PublishersFit, QueuesFit
  <2>4. flush' \in [on : BOOLEAN, entries : SUBSET PublishItem, publisher : SUBSET Publishers]
    <3>1. flush \in [on : BOOLEAN, entries : SUBSET PublishItem, publisher : SUBSET Publishers]
      BY <1>0 DEF QueuesFit
    <3>2. NoFlush \in [on : BOOLEAN, entries : SUBSET PublishItem, publisher : SUBSET Publishers]
      BY DEF NoFlush
    <3>3. ASSUME NEW p \in Publishers
          PROVE  [flush EXCEPT !.publisher = {p}]
                 \in [on : BOOLEAN, entries : SUBSET PublishItem, publisher : SUBSET Publishers]
      BY <3>1
    <3> QED
      BY <2>2, <3>1, <3>2, <3>3
  <2> QED
    BY <1>0, <1>2, <2>1, <2>3, <2>4 DEF PublishInv, QueuesFit
<1>6. ASSUME NEW a \in Applications, SweepRecover(a) PROVE PublishInv'
  <2>1. pending[a].force \in BOOLEAN /\ Batched(a, pending[a].force)
    BY <1>0, <1>6 DEF SweepRecover, Entry
  <2>2. /\ batch' \in PartialFunctions(Applications, BOOLEAN)
        /\ pending' \in PartialFunctions(Applications, Entry)
        /\ flush' = flush /\ publishing' = publishing
    BY <1>0, <1>3, <1>6, <2>1, WithoutIs DEF SweepRecover, QueuesFit
  <2> QED
    BY <1>0, <1>2, <2>2 DEF PublishInv, QueuesFit, PublishersFit
<1>7. ASSUME NEW a \in Applications, SweepDrop(a) PROVE PublishInv'
  <2>1. /\ pending' \in PartialFunctions(Applications, Entry)
        /\ UNCHANGED <<flush, batch, publishing>>
    BY <1>0, <1>7, WithoutIs DEF SweepDrop, QueuesFit
  <2> QED
    BY <1>0, <1>2, <2>1 DEF PublishInv, QueuesFit, PublishersFit
<1> QED
  BY <1>4, <1>5, <1>6, <1>7 DEF FlushStep

(* The transactions and what they announce.                                *)
LEMMA RequestsFit ==
  ASSUME PublishInv, Requests
  PROVE  PublishInv'
<1>0. /\ QueuesFit /\ PublishersFit /\ VersionsFit /\ AnnouncedFits /\ toAnnounce \in [Applications -> BOOLEAN]
      /\ pending \in PartialFunctions(Applications, Entry)
  BY DEF PublishInv, QueuesFit
<1>1. VersionsFit'
  BY <1>0, VersionsStep DEF PublishNext
<1>2. PICK a \in Applications :
        \/ \E kind \in Changes : TxUpdate(a, kind) \/ PoolTransition(a, kind)
        \/ PoolJobTransition(a) \/ TxCommit(a) \/ TxRollback(a) \/ Announce(a)
  BY DEF Requests
<1>3. UNCHANGED <<batch, publishing, emitted, lastPublished, seen, unheard>>
  BY <1>2 DEF TxUpdate, PoolTransition, PoolJobTransition, TxCommit, TxRollback, Announce
<1>4. toAnnounce' \in [Applications -> BOOLEAN]
  BY <1>0, <1>2 DEF TxUpdate, PoolTransition, PoolJobTransition, TxCommit, TxRollback, Announce
<1>5. announced' \in [Applications -> 0..MaxChanges]
  <2>1. \A b \in Applications : pubRow[b].version \in 0..MaxChanges /\ pubRow'[b].version \in 0..MaxChanges
    BY <1>0, <1>1 DEF VersionsFit, Row
  <2>2. \/ announced' = announced
        \/ \E v \in 0..MaxChanges : announced' = [announced EXCEPT ![a] = v]
    <3>1. CASE Announce(a)
      BY <1>0, <2>1, <3>1 DEF Announce, AnnouncedFits
    <3>2. ASSUME NEW kind \in Changes, PoolTransition(a, kind)
          PROVE  \E v \in 0..MaxChanges : announced' = [announced EXCEPT ![a] = v]
      BY <1>0, <2>1, <3>2 DEF PoolTransition, AnnouncedFits
    <3> QED
      BY <1>2, <3>1, <3>2 DEF TxUpdate, PoolJobTransition, TxCommit, TxRollback
  <2> QED
    BY <1>0, <2>2 DEF AnnouncedFits
<1>6. /\ pending' \in PartialFunctions(Applications, Entry)
      /\ flush' \in [on : BOOLEAN, entries : SUBSET PublishItem, publisher : SUBSET Publishers]
  <2> DEFINE flushes == [on : BOOLEAN, entries : SUBSET PublishItem, publisher : SUBSET Publishers]
  <2>1. flush \in flushes
    BY <1>0 DEF QueuesFit
  <2>2. ASSUME NEW queue \in PartialFunctions(Applications, Entry), StartFlush(queue)
        PROVE  flush' \in flushes
    BY <1>0, <2>2, StartFlushFits
  <2> HIDE DEF flushes
  <2>3. ASSUME NEW kind \in Changes, TxUpdate(a, kind)
        PROVE  pending' \in PartialFunctions(Applications, Entry) /\ flush' \in flushes
    BY <1>0, <2>1, <2>3, EnqueuedIs DEF TxUpdate
  <2>4. ASSUME NEW kind \in Changes, PoolTransition(a, kind)
        PROVE  pending' \in PartialFunctions(Applications, Entry) /\ flush' \in flushes
    <3>1. PICK queue : Enqueued(a, TRUE, queue) /\ pending' = Marked(a, queue) /\ StartFlush(pending')
      BY <2>4 DEF PoolTransition
    <3>2. queue \in PartialFunctions(Applications, Entry)
      BY <1>0, <3>1, EnqueuedIs
    <3>3. pending' \in PartialFunctions(Applications, Entry)
      BY <3>1, <3>2, MarkedIs
    <3> QED
      BY <2>2, <3>1, <3>3
  <2>5. ASSUME PoolJobTransition(a)
        PROVE  pending' \in PartialFunctions(Applications, Entry) /\ flush' \in flushes
    BY <1>0, <2>1, <2>5, EnqueuedIs DEF PoolJobTransition
  <2>6. ASSUME TxCommit(a) \/ TxRollback(a)
        PROVE  pending' \in PartialFunctions(Applications, Entry) /\ flush' \in flushes
    BY <1>0, <2>1, <2>6 DEF TxCommit, TxRollback
  <2>7. ASSUME Announce(a)
        PROVE  pending' \in PartialFunctions(Applications, Entry) /\ flush' \in flushes
    <3>1. pending' = Marked(a, pending) /\ StartFlush(pending')
      BY <2>7 DEF Announce
    <3>2. pending' \in PartialFunctions(Applications, Entry)
      BY <1>0, <3>1, MarkedIs
    <3> QED
      BY <2>2, <3>1, <3>2
  <2> QED
    BY <1>2, <2>3, <2>4, <2>5, <2>6, <2>7 DEF flushes
<1> QED
  BY <1>0, <1>1, <1>3, <1>4, <1>5, <1>6 DEF PublishInv, QueuesFit, PublishersFit, AnnouncedFits

(* Nothing is published yet.                                               *)
LEMMA PublishStart == PublishInit => PublishInv
<1> SUFFICES ASSUME PublishInit PROVE PublishInv
  OBVIOUS
<1>1. VersionsFit
  BY NoTxIsRow, PublishAssumption DEF PublishInit, VersionsFit
<1>2. QueuesFit
  BY EmptyQueue DEF PublishInit, QueuesFit
<1>3. PublishersFit
  <2>1. IdlePublisher \in PublisherRow /\ IdlePublisher.pc = "idle"
    BY PublishAssumption DEF IdlePublisher, PublisherRow
  <2> QED
    BY <2>1 DEF PublishInit, PublishersFit
<1>4. AnnouncedFits
  BY NoTxIsRow, PublishAssumption DEF PublishInit, AnnouncedFits
<1> QED
  BY <1>1, <1>2, <1>3, <1>4 DEF PublishInit, PublishInv

(* The publish pipeline keeps its types (PublishTypeOK).                   *)
LEMMA PublishTypes == PublishInit /\ [][PublishNext]_pubVars => []PublishTypeOK
<1>1. PublishInv /\ [PublishNext]_pubVars => PublishInv'
  <2> SUFFICES ASSUME PublishInv, [PublishNext]_pubVars PROVE PublishInv'
    OBVIOUS
  <2>1. CASE UNCHANGED pubVars
    BY <2>1 DEF PublishInv, VersionsFit, QueuesFit, PublishersFit, AnnouncedFits, pubVars
  <2> QED
    BY <2>1, RequestsFit, FlushFits, LoadMetaFits, LoadBundleFits, ReadFailsFits, FanOutFits
       DEF PublishNext, PublisherStep, Sweep
<1>2. PublishInv => PublishTypeOK
  BY DEF PublishInv, VersionsFit, QueuesFit, PublishersFit, PublisherRow, AnnouncedFits, PublishTypeOK
<1> QED
  BY <1>1, <1>2, PublishStart, PTL

-----------------------------------------------------------------------------
(*****************************************************************************)
(* The stream.                                                               *)
(*****************************************************************************)

(* Sets of the first n events, each of which can be counted through in     *)
(* order, and has a highest.                                               *)
Counted(ids) ==
  /\ IsFiniteSet(ids)
  /\ \E s \in [1..Cardinality(ids) -> ids] :
       \A i, j \in 1..Cardinality(ids) : i < j => s[i] < s[j]
  /\ ids # {} => \E top \in ids : \A m \in ids : m <= top

(* The events of a bounded log have a number, by induction on the bound.   *)
LEMMA EventsAreCounted ==
  ASSUME NEW n \in Nat, NEW ids \in SUBSET (1..n)
  PROVE  Counted(ids)
<1> DEFINE S == {k \in Nat : \A c \in SUBSET (1..k) : Counted(c)}
<1>1. 0 \in S
  <2>1. \A c \in SUBSET (1..0) : c = {}
    OBVIOUS
  <2>2. Counted({})
    <3>1. IsFiniteSet({}) /\ Cardinality({}) = 0
      BY FS_EmptySet
    <3>2. [i \in {} |-> 0] \in [1..0 -> {}]
      OBVIOUS
    <3>3. \A i \in 1..0 : FALSE
      OBVIOUS
    <3> QED
      BY <3>1, <3>2, <3>3 DEF Counted
  <2> QED
    BY <2>1, <2>2
<1>2. ASSUME NEW k \in Nat, k \in S PROVE k + 1 \in S
  <2> SUFFICES ASSUME NEW c \in SUBSET (1..k + 1) PROVE Counted(c)
    OBVIOUS
  <2>1. CASE k + 1 \notin c
    <3>1. c \in SUBSET (1..k)
      BY <2>1
    <3> QED
      BY <1>2, <3>1
  <2>2. CASE k + 1 \in c
    <3>1. PICK d : d = c \ {k + 1}
      OBVIOUS
    <3>2. d \in SUBSET (1..k) /\ c = d \cup {k + 1} /\ k + 1 \notin d
      BY <2>2, <3>1
    <3>3. Counted(d)
      BY <1>2, <3>2
    <3>4. IsFiniteSet(c) /\ Cardinality(c) = Cardinality(d) + 1 /\ Cardinality(d) \in Nat
      BY <3>2, <3>3, FS_AddElement, FS_CardinalityType DEF Counted
    <3>5. PICK m \in Nat : m = Cardinality(d)
      BY <3>4
    <3>6. PICK s \in [1..m -> d] : \A i, j \in 1..m : i < j => s[i] < s[j]
      BY <3>3, <3>5 DEF Counted
    <3>7. PICK t : t = [i \in 1..m + 1 |-> IF i = m + 1 THEN k + 1 ELSE s[i]]
      OBVIOUS
    <3>8. \A i \in 1..m : t[i] = s[i] /\ s[i] \in d /\ s[i] < k + 1
      <4>1. \A i \in 1..m : i \in 1..m + 1 /\ i # m + 1
        BY <3>5
      <4>2. \A i \in 1..m : t[i] = s[i] /\ s[i] \in d
        BY <3>6, <3>7, <4>1
      <4>3. \A e \in d : e < k + 1
        BY <3>2
      <4> QED
        BY <4>2, <4>3
    <3>9. t[m + 1] = k + 1
      BY <3>5, <3>7
    <3>10. \A i \in 1..m + 1 : i \in 1..m \/ i = m + 1
      BY <3>5
    <3>11. t \in [1..m + 1 -> c]
      BY <3>2, <3>7, <3>8, <3>9, <3>10
    <3>12. ASSUME NEW i \in 1..m + 1, NEW j \in 1..m + 1, i < j PROVE t[i] < t[j]
      <4>1. i \in 1..m
        BY <3>5, <3>12
      <4>2. CASE j \in 1..m
        BY <3>6, <3>8, <3>12, <4>1, <4>2
      <4>3. CASE j = m + 1
        BY <3>8, <3>9, <4>1, <4>3
      <4> QED
        BY <3>10, <4>2, <4>3
    <3>13. k + 1 \in c /\ \A e \in c : e <= k + 1
      BY <2>2
    <3> QED
      BY <3>4, <3>5, <3>11, <3>12, <3>13 DEF Counted
  <2> QED
    BY <2>1, <2>2
<1> HIDE DEF S
<1>3. Nat \subseteq S
  BY <1>1, <1>2, Induction
<1> QED
  BY <1>3 DEF S

(* The highest of some events is an event, or 0.                           *)
LEMMA HighestOfIs ==
  ASSUME NEW ids \in SUBSET (0..MaxEvents)
  PROVE  HighestOf(ids) \in 0..MaxEvents
<1>1. CASE ids = {}
  BY <1>1, StreamAssumption DEF HighestOf
<1>2. CASE ids # {}
  <2>1. PICK c : c = ids \ {0}
    OBVIOUS
  <2>2. c \in SUBSET (1..MaxEvents) /\ MaxEvents \in Nat
    BY <2>1, StreamAssumption
  <2>3. \E top \in ids : \A m \in ids : m <= top
    <3>1. CASE c = {}
      <4>1. ids = {0}
        BY <1>2, <2>1, <3>1
      <4> QED
        BY <4>1
    <3>2. CASE c # {}
      <4>1. PICK top \in c : \A m \in c : m <= top
        BY <2>2, <3>2, EventsAreCounted DEF Counted
      <4>2. \A m \in ids : m \in c \/ m = 0
        BY <2>1
      <4>3. 0 <= top /\ top \in ids
        BY <2>1, <2>2
      <4> QED
        BY <4>1, <4>2, <4>3
    <3> QED
      BY <3>1, <3>2
  <2>4. HighestOf(ids) = CHOOSE n \in ids : \A m \in ids : m <= n
    BY <1>2 DEF HighestOf
  <2> QED
    BY <2>3, <2>4
<1> QED
  BY <1>1, <1>2

(* The frames of a replay are a sequence of events.                        *)
LEMMA FramesAre ==
  ASSUME NEW ids \in SUBSET Events
  PROVE  ReplayFrames(ids) \in Seq(0..MaxEvents)
<1>1. MaxEvents \in Nat /\ ids \in SUBSET (1..MaxEvents)
  BY StreamAssumption DEF Events
<1>2. Counted(ids)
  BY <1>1, EventsAreCounted
<1>3. InOrder(ids) \in [1..Cardinality(ids) -> ids]
  BY <1>2 DEF Counted, InOrder
<1>4. Cardinality(ids) \in Nat
  BY <1>2, FS_CardinalityType DEF Counted
<1>5. InOrder(ids) \in [1..Cardinality(ids) -> 0..MaxEvents]
  <2>1. ids \subseteq 0..MaxEvents
    BY <1>1
  <2> QED
    BY <1>3, <2>1
<1>6. PICK s \in Seq(0..MaxEvents) : s = InOrder(ids)
  <2>1. Seq(0..MaxEvents) = UNION {[1..n -> 0..MaxEvents] : n \in Nat}
    BY SeqDef
  <2>2. [1..Cardinality(ids) -> 0..MaxEvents] \in {[1..n -> 0..MaxEvents] : n \in Nat}
    BY <1>4
  <2> QED
    BY <1>5, <2>1, <2>2
<1>7. <<ReplayEnd>> \in Seq(0..MaxEvents)
  BY <1>1 DEF ReplayEnd
<1> QED
  BY <1>6, <1>7 DEF ReplayFrames

(* What the type of a connection leaves open beside StreamInv.             *)
ConnFits ==
  /\ conn.pc \in {"none", "reading", "fetched", "replayed", "failed", "live"}
  /\ conn.from \in 0..MaxEvents /\ conn.wire \in Seq(0..MaxEvents)
  /\ conn.owed \cup conn.written \cup conn.fetched \subseteq Events
  /\ conn.pc = "none" => conn.wire = <<>>

(* A client that stopped reconnecting has no connection.                   *)
LinkFits ==
  /\ phase \in {"idle", "replaying", "live", "stopped"}
  /\ reconnects \in 0..MaxReconnects + 1
  /\ reconnects > MaxReconnects => phase = "stopped"
  /\ phase = "stopped" => conn.pc = "none"
  /\ cutsLeft \in 0..MaxCuts

(* The log of events: what is being appended or sent has an identity below *)
(* the last one.                                                           *)
ServerFits ==
  /\ {lastEvent, streamTop, expiredTo} \subseteq 0..MaxEvents
  /\ expiredTo <= lastEvent
  /\ appending \cup ownEvents \cup replayBuffer \subseteq 1..lastEvent
  /\ fanningOut \subseteq 1..lastEvent

(* What the tab knows, shows and queues are events.                        *)
TabFits ==
  /\ {lastEventId, known, batched, shown} \subseteq 0..MaxEvents
  /\ replayQueue \in Seq(Events) /\ preHydration \subseteq Events
  /\ recovery.tier \in {0, 2, 3} /\ recovery.atLeast \in Nat

(* What the types of the stream need beside the invariant of its gap       *)
(* proof.                                                                  *)
StreamRest == ServerFits /\ ConnFits /\ LinkFits /\ TabFits

(* The server's own steps.                                                 *)
LEMMA ServerStepFits ==
  ASSUME ServerFits,
         \/ PublishInMemory \/ Expire \/ TrimStream
         \/ \E local \in BOOLEAN : AllocateId(local)
         \/ \E n \in Events : AppendToStream(n) \/ FanOutToTab(n)
  PROVE  ServerFits'
<1>1. PICK last \in Nat : last = lastEvent /\ last <= MaxEvents /\ MaxEvents \in Nat
  BY StreamAssumption DEF ServerFits
<1>2. \A ids : Unexpired(ids) \subseteq ids /\ Newest(ids) \subseteq ids
  BY DEF Unexpired, Newest
<1>3. ASSUME PublishInMemory \/ \E local \in BOOLEAN : AllocateId(local)
      PROVE  ServerFits'
  <2>1. /\ lastEvent' = last + 1 /\ last < MaxEvents
        /\ appending' \subseteq appending \cup {last + 1} /\ ownEvents' \subseteq ownEvents \cup {last + 1}
        /\ replayBuffer' \subseteq replayBuffer \cup {last + 1} /\ fanningOut' \subseteq fanningOut \cup {last + 1}
        /\ UNCHANGED <<streamTop, expiredTo>>
    BY <1>1, <1>2, <1>3 DEF PublishInMemory, AllocateId
  <2>2. 1..last \subseteq 1..last + 1 /\ last + 1 \in 1..last + 1 /\ last + 1 \in 0..MaxEvents
    BY <1>1, <2>1
  <2>3. expiredTo' <= last + 1
    BY <1>1, <2>1 DEF ServerFits
  <2> QED
    BY <1>1, <2>1, <2>2, <2>3 DEF ServerFits
<1>4. CASE Expire
  <2>1. expiredTo' = expiredTo + 1 /\ expiredTo < last
        /\ UNCHANGED <<lastEvent, streamTop, appending, ownEvents, replayBuffer, fanningOut>>
    BY <1>1, <1>4 DEF Expire
  <2>2. expiredTo' \in 0..MaxEvents /\ expiredTo' <= last
    BY <1>1, <2>1 DEF ServerFits
  <2> QED
    BY <1>1, <2>1, <2>2 DEF ServerFits
<1>5. CASE TrimStream
  BY <1>2, <1>5 DEF TrimStream, ServerFits
<1>6. ASSUME NEW n \in Events, AppendToStream(n) PROVE ServerFits'
  <2>1. /\ appending' \subseteq appending /\ fanningOut' = fanningOut \cup {n} /\ n \in appending
        /\ UNCHANGED <<lastEvent, ownEvents, expiredTo>>
        /\ streamTop' = streamTop \/ streamTop' = n
    BY <1>6 DEF AppendToStream
  <2>2. n \in 1..last
    BY <1>1, <2>1 DEF ServerFits
  <2>3. replayBuffer' \subseteq replayBuffer \cup {n}
    BY <1>6 DEF AppendToStream, Trimmed
  <2>4. streamTop' \in 0..MaxEvents
    BY <1>1, <2>1, <2>2 DEF ServerFits
  <2> QED
    BY <1>1, <2>1, <2>2, <2>3, <2>4 DEF ServerFits
<1>7. ASSUME NEW n \in Events, FanOutToTab(n) PROVE ServerFits'
  BY <1>7 DEF FanOutToTab, ServerFits
<1> QED
  BY <1>3, <1>4, <1>5, <1>6, <1>7

(* A request reads the buffer, or cannot be answered.                      *)
LEMMA ReadFits ==
  ASSUME ServerFits, NEW c, ConnRow(c), c.from \in 0..MaxEvents, c.wire \in Seq(0..MaxEvents),
         c.owed \cup c.written \cup c.fetched \subseteq Events
  PROVE  LET d == WithReplay(c)
         IN  /\ d.pc \in {"fetched", "failed"} /\ d.from = c.from /\ d.wire = c.wire
             /\ d.owed = c.owed /\ d.written = c.written /\ d.fetched \subseteq Events
<1>1. replayBuffer \subseteq Events
  BY StreamAssumption DEF ServerFits, Events
<1>2. Replayed(c.from) \subseteq Events
  BY <1>1 DEF Replayed, Unexpired
<1> QED
  BY <1>2 DEF WithReplay, ConnRow

(* What is broadcast to a connection, and what it reads.                   *)
LEMMA ConnStepFits ==
  ASSUME StreamInv, StreamRest,
         (\E n \in Events : FanOutToTab(n)) \/ ReadReplay \/ WriteReplay
  PROVE  ConnFits' /\ (conn'.pc = "none" <=> conn.pc = "none")
<1>0. /\ ConnRow(conn) /\ ServerFits
      /\ conn.pc \in {"none", "reading", "fetched", "replayed", "failed", "live"}
      /\ conn.from \in 0..MaxEvents /\ conn.wire \in Seq(0..MaxEvents)
      /\ conn.owed \cup conn.written \cup conn.fetched \subseteq Events
      /\ (conn.pc = "none" => conn.wire = <<>>)
  BY DEF StreamInv, StreamRest, ConnFits
<1>1. ASSUME NEW n \in Events, FanOutToTab(n) PROVE ConnFits' /\ (conn'.pc = "none" <=> conn.pc = "none")
  <2>1. CASE conn' = conn
    BY <1>0, <2>1 DEF ConnFits
  <2>2. CASE conn' # conn
    <3>1. conn.pc # "none" /\ n \in 0..MaxEvents
      <4>1. conn.pc # "none"
        BY <1>1, <2>2 DEF FanOutToTab
      <4>2. n \in 0..MaxEvents
        BY StreamAssumption DEF Events
      <4> QED
        BY <4>1, <4>2
    <3>2. conn' = [conn EXCEPT !.owed = @ \cup {n}, !.wire = Append(@, n), !.written = @ \cup {n}]
      BY <1>1, <2>2, <3>1 DEF FanOutToTab, Registered
    <3>3. /\ conn'.pc = conn.pc /\ conn'.from = conn.from /\ conn'.fetched = conn.fetched
          /\ conn'.owed = conn.owed \cup {n} /\ conn'.written = conn.written \cup {n}
          /\ conn'.wire = Append(conn.wire, n)
      BY <1>0, <3>2 DEF ConnRow
    <3>4. conn'.wire \in Seq(0..MaxEvents)
      BY <1>0, <3>1, <3>3
    <3>5. conn'.owed \cup conn'.written \cup conn'.fetched \subseteq Events
      BY <1>0, <3>3
    <3> QED
      BY <1>0, <3>1, <3>3, <3>4, <3>5 DEF ConnFits
  <2> QED
    BY <2>1, <2>2
<1>2. CASE ReadReplay
  <2>1. CASE conn' = WithReplay(conn)
    BY <1>0, <1>2, <2>1, ReadFits DEF ReadReplay, ConnFits
  <2>2. CASE conn' = [conn EXCEPT !.pc = "fetched", !.unread = TRUE]
    BY <1>0, <1>2, <2>2 DEF ReadReplay, ConnFits, ConnRow
  <2> QED
    BY <1>2, <2>1, <2>2 DEF ReadReplay
<1>3. CASE WriteReplay
  <2>1. ReplayFrames(conn.fetched) \in Seq(0..MaxEvents)
    BY <1>0, FramesAre
  <2>2. /\ conn.pc = "fetched" /\ conn'.pc = "replayed" /\ conn'.from = conn.from /\ conn'.fetched = {}
        /\ conn'.owed = conn.owed /\ conn'.written = conn.written \cup conn.fetched
        /\ conn'.wire = conn.wire \o ReplayFrames(conn.fetched)
    BY <1>0, <1>3 DEF WriteReplay, ConnRow
  <2>3. conn'.wire \in Seq(0..MaxEvents)
    BY <1>0, <2>1, <2>2
  <2>4. conn'.owed \cup conn'.written \cup conn'.fetched \subseteq Events
    BY <1>0, <2>2
  <2> QED
    BY <1>0, <2>2, <2>3, <2>4 DEF ConnFits
<1> QED
  BY <1>1, <1>2, <1>3

(* A connection answered with a replay, or without.                        *)
LEMMA ConnectFits ==
  ASSUME StreamInv, StreamRest, Connect
  PROVE  ConnFits' /\ conn'.pc # "none"
<1>1. lastEventId \in 0..MaxEvents /\ ServerFits
  BY DEF StreamRest, TabFits
<1> DEFINE owed == {n \in Unexpired(replayBuffer) : n > lastEventId}
           asked == [NoConn EXCEPT !.pc = "reading", !.from = lastEventId, !.owed = owed]
<1>2. owed \subseteq Events
  BY <1>1, StreamAssumption DEF ServerFits, Unexpired, Events
<1>3. \/ conn' = [NoConn EXCEPT !.pc = "live"]
      \/ conn' = asked
      \/ conn' = WithReplay(asked)
  BY DEF Connect, StreamInv
<1> HIDE DEF owed
<1>4. /\ ConnRow(asked) /\ asked.pc = "reading" /\ asked.from = lastEventId /\ asked.wire = <<>>
      /\ asked.owed = owed /\ asked.written = {} /\ asked.fetched = {}
  BY DEF NoConn, ConnRow
<1>5. LET live == [NoConn EXCEPT !.pc = "live"]
      IN  /\ live.pc = "live" /\ live.from = 0 /\ live.wire = <<>>
          /\ live.owed = {} /\ live.written = {} /\ live.fetched = {}
  BY DEF NoConn
<1> HIDE DEF asked
<1>6. CASE conn' = [NoConn EXCEPT !.pc = "live"]
  <2>1. 0 \in 0..MaxEvents /\ <<>> \in Seq(0..MaxEvents)
    BY StreamAssumption
  <2>2. /\ conn'.pc = "live" /\ conn'.from = 0 /\ conn'.wire = <<>>
        /\ conn'.owed = {} /\ conn'.written = {} /\ conn'.fetched = {}
    BY <1>5, <1>6
  <2> QED
    BY <2>1, <2>2 DEF ConnFits
<1>7. CASE conn' = asked
  <2>1. <<>> \in Seq(0..MaxEvents)
    OBVIOUS
  <2>2. /\ conn'.pc = "reading" /\ conn'.from = lastEventId /\ conn'.wire = <<>>
        /\ conn'.owed = owed /\ conn'.written = {} /\ conn'.fetched = {}
    BY <1>4, <1>7
  <2> QED
    BY <1>1, <1>2, <2>1, <2>2 DEF ConnFits
<1>8. CASE conn' = WithReplay(asked)
  <2>1. asked.wire \in Seq(0..MaxEvents) /\ asked.owed \cup asked.written \cup asked.fetched \subseteq Events
    BY <1>2, <1>4
  <2> QED
    BY <1>1, <1>2, <1>4, <1>8, <2>1, ReadFits DEF ConnFits
<1> QED
  BY <1>3, <1>6, <1>7, <1>8

(* The connection is lost, by a cut or a restart of the server.            *)
LEMMA CutFits ==
  ASSUME StreamRest, NEW anew \in BOOLEAN, Cut(anew) \/ RestartServer(anew)
  PROVE  StreamRest'
<1>1. /\ conn.pc # "none" /\ conn' = NoConn /\ ScheduleReconnect(anew)
      /\ cutsLeft > 0 /\ cutsLeft' = cutsLeft - 1
      /\ UNCHANGED <<lastEvent, ownEvents, appending, streamTop, expiredTo, lastEventId>>
      /\ replayBuffer' \subseteq replayBuffer /\ fanningOut' \subseteq fanningOut
      /\ UNCHANGED tabVars
  BY DEF Cut, RestartServer, serverVars
<1>2. ServerFits'
  BY <1>1 DEF StreamRest, ServerFits
<1>3. ConnFits' /\ conn'.pc = "none"
  BY <1>1, StreamAssumption DEF NoConn, ConnFits
<1>4. PICK top \in Nat, n \in Nat, left \in Nat, most \in Nat :
        /\ top = MaxReconnects /\ n = reconnects /\ left = cutsLeft /\ most = MaxCuts
        /\ (n > top => phase = "stopped") /\ (phase = "stopped" => conn.pc = "none") /\ left <= most
  <2>1. /\ MaxReconnects \in Nat /\ MaxCuts \in Nat
        /\ reconnects \in 0..MaxReconnects + 1 /\ cutsLeft \in 0..MaxCuts
        /\ (reconnects > MaxReconnects => phase = "stopped") /\ (phase = "stopped" => conn.pc = "none")
    BY StreamAssumption DEF StreamRest, LinkFits
  <2>2. reconnects \in Nat /\ cutsLeft \in Nat /\ cutsLeft <= MaxCuts
    BY <2>1
  <2> QED
    BY <2>1, <2>2
<1>5. n <= top
  BY <1>1, <1>4
<1>6. PICK count \in Nat : /\ count <= top + 1 /\ reconnects' = count
                           /\ phase' = IF count > top THEN "stopped" ELSE "idle"
  BY <1>1, <1>4, <1>5 DEF ScheduleReconnect
<1>7. cutsLeft' \in 0..MaxCuts
  BY <1>1, <1>4
<1>8. LinkFits'
  BY <1>3, <1>4, <1>6, <1>7 DEF LinkFits
<1>9. TabFits'
  BY <1>1 DEF StreamRest, TabFits, tabVars
<1> QED
  BY <1>2, <1>3, <1>8, <1>9 DEF StreamRest

(* A tab to which nothing happens.                                         *)
LEMMA QuietTab ==
  ASSUME TabFits, UNCHANGED <<lastEventId, tabVars>>
  PROVE  TabFits'
  BY DEF TabFits, tabVars

(* A frame arrives.                                                        *)
LEMMA FrameFits ==
  ASSUME StreamInv, StreamRest, ReceiveEvent \/ ReceiveReplayEnd
  PROVE  StreamRest'
<1>1. /\ conn.wire # <<>> /\ conn' = [conn EXCEPT !.wire = Tail(@)]
      /\ UNCHANGED <<serverVars, reconnects, cutsLeft, shown>>
  BY DEF ReceiveEvent, ReceiveReplayEnd
<1>2. /\ ConnRow(conn) /\ ServerFits /\ ConnFits /\ LinkFits /\ TabFits /\ conn.wire \in Seq(0..MaxEvents)
  BY DEF StreamInv, StreamRest, ConnFits
<1>0. ASSUME NEW S, NEW s \in Seq(S), s # <<>>
      PROVE  Head(s) \in S /\ Tail(s) \in Seq(S)
  BY <1>0
<1>3. PICK n \in 0..MaxEvents : n = Head(conn.wire)
  BY <1>0, <1>1, <1>2
<1>4. Tail(conn.wire) \in Seq(0..MaxEvents)
  BY <1>0, <1>1, <1>2
<1>5. /\ conn'.pc = conn.pc /\ conn'.from = conn.from /\ conn'.wire = Tail(conn.wire)
      /\ conn'.owed = conn.owed /\ conn'.written = conn.written /\ conn'.fetched = conn.fetched
  BY <1>1, <1>2 DEF ConnRow
<1>6. conn.pc # "none"
  BY <1>1, <1>2 DEF ConnFits
<1>7. ConnFits' /\ ServerFits'
  BY <1>1, <1>2, <1>4, <1>5, <1>6 DEF ConnFits, ServerFits, serverVars
<1>8. LinkFits'
  BY <1>1, <1>2, <1>5, <1>6 DEF LinkFits, ReceiveEvent, ReceiveReplayEnd
<1>9. TabFits'
  <2>1. /\ {lastEventId, known, batched, shown} \subseteq 0..MaxEvents
        /\ replayQueue \in Seq(Events) /\ preHydration \subseteq Events
        /\ recovery.tier \in {0, 2, 3} /\ recovery.atLeast \in Nat /\ lastEvent \in Nat
        /\ Events \subseteq 0..MaxEvents /\ <<>> \in Seq(Events)
    BY <1>2, StreamAssumption DEF TabFits, ServerFits, Events
  <2>2. CASE ReceiveEvent
    <3>1. n \in Events
      BY <1>3, <2>2, StreamAssumption DEF ReceiveEvent, ReplayEnd, Events
    <3>2. lastEventId' = n /\ recovery' = recovery
      BY <1>3, <2>2 DEF ReceiveEvent
    <3>3. \/ replayQueue' = <<n>> \/ replayQueue' = Append(replayQueue, n) \/ replayQueue' = replayQueue
      BY <1>3, <2>2 DEF ReceiveEvent
    <3>4. replayQueue' \in Seq(Events)
      <4>1. ASSUME NEW S, NEW s \in Seq(S), NEW e \in S PROVE <<e>> \in Seq(S) /\ Append(s, e) \in Seq(S)
        OBVIOUS
      <4> QED
        BY <2>1, <3>1, <3>3, <4>1
    <3>5. preHydration' \subseteq preHydration \cup {n}
      BY <1>3, <2>2 DEF ReceiveEvent
    <3>6. \/ UNCHANGED <<known, batched>> \/ Present(n)
      BY <1>3, <2>2 DEF ReceiveEvent
    <3>7. HighestOf({known, n}) \in 0..MaxEvents
      <4>1. {known, n} \in SUBSET (0..MaxEvents)
        BY <1>3, <2>1
      <4> QED
        BY <4>1, HighestOfIs
    <3>8. known' \in 0..MaxEvents /\ batched' \in 0..MaxEvents
      BY <1>3, <2>1, <3>6, <3>7 DEF Present
    <3> QED
      BY <1>1, <1>3, <2>1, <3>1, <3>2, <3>4, <3>5, <3>8 DEF TabFits
  <2>3. CASE ReceiveReplayEnd
    <3>1. lastEventId' = lastEventId /\ preHydration' = preHydration /\ batched' = 0 /\ replayQueue' = <<>>
          /\ known' = HighestOf(QueuedIds \cup {known}) /\ Recovers
      BY <2>3 DEF ReceiveReplayEnd, ProcessReplayQueue
    <3>2. QueuedIds \cup {known} \in SUBSET (0..MaxEvents)
      <4>1. ASSUME NEW i \in DOMAIN replayQueue PROVE replayQueue[i] \in Events
        BY <2>1
      <4> QED
        BY <2>1, <4>1 DEF QueuedIds
    <3>3. known' \in 0..MaxEvents
      BY <3>1, <3>2, HighestOfIs
    <3>4. recovery'.tier \in {0, 2, 3} /\ recovery'.atLeast \in Nat
      BY <2>1, <3>1 DEF Recovers, NoRecovery
    <3> QED
      BY <1>1, <2>1, <3>1, <3>3, <3>4, StreamAssumption DEF TabFits
  <2> QED
    BY <2>2, <2>3
<1> QED
  BY <1>7, <1>8, <1>9 DEF StreamRest

(* Recovery and the timers of the tab.                                     *)
LEMMA TabStepFits ==
  ASSUME StreamRest, Tier2Answer \/ Tier3Answer \/ FlushBatch
  PROVE  StreamRest'
<1>1. UNCHANGED <<serverVars, conn, linkVars, replayQueue>>
  BY DEF Tier2Answer, Tier3Answer, FlushBatch
<1>2. /\ {lastEventId, known, batched, shown} \subseteq 0..MaxEvents /\ preHydration \subseteq Events
      /\ recovery.tier \in {0, 2, 3} /\ recovery.atLeast \in Nat /\ lastEvent \in 0..MaxEvents
      /\ Events \subseteq 0..MaxEvents /\ replayQueue \in Seq(Events) /\ MaxEvents \in Nat
  BY StreamAssumption DEF StreamRest, TabFits, ServerFits, Events
<1>3. \A v \in recovery.atLeast..lastEvent : v \in 0..MaxEvents
  BY <1>2
<1>4. /\ {lastEventId, known, batched, shown}' \subseteq 0..MaxEvents /\ preHydration' \subseteq Events
      /\ recovery'.tier \in {0, 2, 3} /\ recovery'.atLeast \in Nat
  <2>1. CASE Tier2Answer
    <3>1. PICK v \in 0..MaxEvents : Present(v)
      BY <1>3, <2>1 DEF Tier2Answer
    <3>2. {known, v} \in SUBSET (0..MaxEvents)
      BY <1>2
    <3>3. known' \in 0..MaxEvents /\ batched' \in 0..MaxEvents
      BY <1>2, <3>1, <3>2, HighestOfIs DEF Present
    <3> QED
      BY <1>1, <1>2, <2>1, <3>3 DEF Tier2Answer, NoRecovery, linkVars
  <2>2. CASE Tier3Answer
    <3>1. PICK v \in 0..MaxEvents :
            /\ known' = HighestOf({v} \cup {n \in preHydration : n >= v})
            /\ batched' = HighestOf({batched} \cup {n \in preHydration : n >= v})
      BY <1>3, <2>2 DEF Tier3Answer
    <3>2. /\ {v} \cup {n \in preHydration : n >= v} \in SUBSET (0..MaxEvents)
          /\ {batched} \cup {n \in preHydration : n >= v} \in SUBSET (0..MaxEvents)
      BY <1>2
    <3>3. known' \in 0..MaxEvents /\ batched' \in 0..MaxEvents
      BY <3>1, <3>2, HighestOfIs
    <3> QED
      BY <1>1, <1>2, <2>2, <3>3 DEF Tier3Answer, NoRecovery, linkVars
  <2>3. CASE FlushBatch
    BY <1>1, <1>2, <2>3 DEF FlushBatch, linkVars
  <2> QED
    BY <2>1, <2>2, <2>3
<1>5. TabFits'
  BY <1>1, <1>2, <1>4 DEF TabFits
<1> QED
  BY <1>1, <1>5 DEF StreamRest, ServerFits, ConnFits, LinkFits, serverVars, linkVars

(* Every step of the stream keeps its types.                               *)
LEMMA StreamRestStep == StreamInv /\ StreamRest /\ [StreamNext]_streamVars => StreamRest'
<1> SUFFICES ASSUME StreamInv, StreamRest, [StreamNext]_streamVars PROVE StreamRest'
  OBVIOUS
<1>1. CASE UNCHANGED streamVars
  BY <1>1 DEF StreamRest, ServerFits, ConnFits, LinkFits, TabFits, streamVars, serverVars, linkVars, tabVars
<1>2. ASSUME \/ PublishInMemory \/ Expire \/ TrimStream
             \/ \E local \in BOOLEAN : AllocateId(local)
             \/ \E n \in Events : AppendToStream(n)
      PROVE  StreamRest'
  <2>1. UNCHANGED <<conn, linkVars, tabVars>>
    BY <1>2 DEF PublishInMemory, Expire, TrimStream, AllocateId, AppendToStream
  <2>2. ServerFits'
    BY <1>2, ServerStepFits DEF StreamRest
  <2> QED
    BY <2>1, <2>2, QuietTab DEF StreamRest, ConnFits, LinkFits, linkVars
<1>3. ASSUME (\E n \in Events : FanOutToTab(n)) \/ ReadReplay \/ WriteReplay
      PROVE  StreamRest'
  <2>1. UNCHANGED <<linkVars, tabVars>>
    BY <1>3 DEF FanOutToTab, ReadReplay, WriteReplay
  <2>2. ServerFits'
    BY <1>3, ServerStepFits DEF StreamRest, ServerFits, ReadReplay, WriteReplay, serverVars
  <2>3. ConnFits' /\ (conn'.pc = "none" <=> conn.pc = "none")
    BY <1>3, ConnStepFits
  <2> QED
    BY <2>1, <2>2, <2>3, QuietTab DEF StreamRest, LinkFits, linkVars
<1>4. CASE Connect
  <2>1. /\ UNCHANGED <<serverVars, reconnects, cutsLeft, lastEventId, tabVars>>
        /\ phase' \in {"live", "replaying"} /\ phase = "idle"
    BY <1>4 DEF Connect
  <2>2. ConnFits'
    BY <1>4, ConnectFits
  <2> QED
    BY <2>1, <2>2, QuietTab DEF StreamRest, ServerFits, LinkFits, serverVars
<1> QED
  BY <1>1, <1>2, <1>3, <1>4, CutFits, FrameFits, TabStepFits DEF StreamNext, ServerStep, ClientStep

(* The stream keeps its types (StreamTypeOK).                              *)
LEMMA StreamTypes == StreamInit /\ [][StreamNext]_streamVars => []StreamTypeOK
<1>1. StreamInit => StreamRest
  BY StreamAssumption DEF StreamInit, StreamRest, ServerFits, ConnFits, LinkFits, TabFits, NoConn, NoRecovery
<1>2. StreamRest => StreamTypeOK
  <2> SUFFICES ASSUME StreamRest PROVE StreamTypeOK
    OBVIOUS
  <2>1. \A n \in 1..lastEvent : n \in Events
    BY StreamAssumption DEF StreamRest, ServerFits, Events
  <2> QED
    BY <2>1 DEF StreamRest, ServerFits, ConnFits, LinkFits, TabFits, StreamTypeOK
<1> QED
  BY <1>1, <1>2, StreamStart, StreamStep, StreamRestStep, PTL

-----------------------------------------------------------------------------
(*****************************************************************************)
(* The client's registry.                                                    *)
(*****************************************************************************)

(* The registry and the batch within bounds: no version above the server's,*)
(* no epoch above e, and one snapshot at most that waits.                  *)
StoreFits(store, e) ==
  /\ store \in Stores /\ store.entry.v <= MaxVersion /\ store.entry.e <= e
  /\ store.batch \subseteq Snapshots
  /\ store.batch # {} => \E s \in Snapshots : store.batch = {s}

(* A snapshot of the model is one, and its numbers are numbers.            *)
LEMMA SnapshotsAre ==
  ASSUME NEW snap \in Snapshots
  PROVE  /\ snap \in SnapType /\ snap.v \in Nat /\ snap.e \in Nat /\ snap.t \in BOOLEAN
         /\ snap.v <= MaxVersion /\ snap.e <= MaxVersion
  BY StoreAssumption DEF Snapshots, SnapType

(* An entry that takes a snapshot keeps its version and epoch within their *)
(* bounds.                                                                 *)
LEMMA UpsertFits ==
  ASSUME NEW e \in Nat, MaxVersion <= e, NEW snap \in Snapshots,
         NEW entry \in Entries, entry.v <= MaxVersion, entry.e <= e
  PROVE  /\ Upserted(entry, snap) \in Entries
         /\ Upserted(entry, snap).v <= MaxVersion /\ Upserted(entry, snap).e <= e
<1>1. /\ snap \in SnapType /\ snap.v <= MaxVersion /\ snap.e <= MaxVersion /\ MaxVersion \in Nat
      /\ snap.v \in Nat /\ snap.e \in Nat /\ entry.v \in Nat /\ entry.e \in Nat
  BY SnapshotsAre, StoreAssumption DEF Entries
<1>2. /\ Upserted(entry, snap) \in Entries
      /\ Upserted(entry, snap).v = Highest(entry.v, snap.v)
      /\ Upserted(entry, snap).e = Highest(entry.e, snap.e)
  BY <1>1, UpsertRaises
<1>3. Highest(entry.v, snap.v) <= MaxVersion
  BY <1>1 DEF Highest
<1>4. Highest(entry.e, snap.e) <= e
  BY <1>1 DEF Highest
<1> QED
  BY <1>2, <1>3, <1>4

(* So does the store.                                                      *)
LEMMA AppliedFits ==
  ASSUME NEW e \in Nat, MaxVersion <= e, NEW snap \in Snapshots, NEW store, StoreFits(store, e)
  PROVE  StoreFits(Applied(store, snap), e)
<1>1. store \in Stores /\ store.entry \in Entries /\ snap \in SnapType
  BY SnapshotsAre DEF StoreFits, Stores
<1>2. CASE Admits(store.entry, snap)
  <2>1. Applied(store, snap) = [entry |-> Upserted(store.entry, snap),
                                batch |-> Newer(store.batch, snap)]
    BY <1>2 DEF Applied
  <2>2. /\ Upserted(store.entry, snap) \in Entries
        /\ Upserted(store.entry, snap).v <= MaxVersion /\ Upserted(store.entry, snap).e <= e
    BY <1>1, UpsertFits DEF StoreFits
  <2>3. /\ Newer(store.batch, snap) \subseteq Snapshots
        /\ (Newer(store.batch, snap) # {} => \E s \in Snapshots : Newer(store.batch, snap) = {s})
    BY DEF Newer, StoreFits
  <2>4. Applied(store, snap) \in Stores
    BY <1>1, AppliedKeepsOrder
  <2> QED
    BY <2>1, <2>2, <2>3, <2>4 DEF StoreFits
<1>3. CASE ~Admits(store.entry, snap)
  BY <1>3 DEF Applied
<1> QED
  BY <1>2, <1>3

(* Draining keeps the bounds, frame after frame.                           *)
LEMMA DrainedFits ==
  ASSUME NEW e \in Nat, MaxVersion <= e, NEW store, StoreFits(store, e), NEW frames \in Seq(Snapshots)
  PROVE  StoreFits(Drained(store, frames), e)
<1>0. store \in Stores /\ frames \in Seq(SnapType) /\ Len(frames) \in Nat
  <2>1. Snapshots \subseteq SnapType
    BY SnapshotsAre
  <2> QED
    BY <2>1 DEF StoreFits
<1>1. PICK g : IsDrain(g, store, frames, Len(frames)) /\ Drained(store, frames) = g[Len(frames)]
  BY <1>0, DrainedInSteps
<1>2. /\ g[0] = store
      /\ \A k \in 1..Len(frames) : g[k] = Applied(g[k - 1], frames[k])
  BY <1>0, <1>1 DEF IsDrain
<1> DEFINE S == {k \in Nat : k <= Len(frames) => StoreFits(g[k], e)}
<1>3. 0 \in S
  BY <1>2
<1>4. ASSUME NEW k \in Nat, k \in S PROVE k + 1 \in S
  <2> SUFFICES ASSUME k + 1 <= Len(frames) PROVE StoreFits(g[k + 1], e)
    OBVIOUS
  <2>1. StoreFits(g[k], e)
    BY <1>0, <1>4
  <2>2. k + 1 \in 1..Len(frames) /\ (k + 1) - 1 = k
    BY <1>0
  <2>3. g[k + 1] = Applied(g[k], frames[k + 1])
    BY <1>2, <2>2
  <2>4. frames[k + 1] \in Snapshots
    BY <2>2
  <2> QED
    BY <2>1, <2>3, <2>4, AppliedFits
<1> HIDE DEF S
<1>5. Len(frames) \in S
  BY <1>0, <1>3, <1>4, Induction
<1> QED
  BY <1>0, <1>1, <1>5 DEF S

(* Epochs the user begins are above the server's; each costs an action.    *)
EpochsFit ==
  /\ actionsLeft \in 0..MaxUserActions
  /\ registry.e + actionsLeft <= MaxVersion + MaxUserActions /\ registry.v <= MaxVersion

(* What the types of the registry need beside the invariant of its proof.  *)
StoreRest ==
  /\ truth \in Snapshots /\ truth.e <= truth.v /\ published \subseteq Snapshots
  /\ EpochsFit
  /\ early \in Seq(Snapshots)
  /\ toPresent \subseteq Snapshots /\ (toPresent # {} => \E s \in Snapshots : toPresent = {s})
  /\ listRow \in Snapshots /\ healing \subseteq Snapshots
  /\ {converged, patching} \subseteq BOOLEAN

(* The bound of the epochs is a number that falls with the actions left.   *)
LEMMA TheStoreFits ==
  ASSUME StoreInv, StoreRest
  PROVE  \E e \in Nat : /\ MaxVersion <= e /\ e + actionsLeft = MaxVersion + MaxUserActions
                        /\ registry.e <= e /\ registry.v <= MaxVersion
                        /\ registry \in Entries /\ StoreFits(Store, e)
<1>1. /\ MaxVersion \in Nat /\ MaxUserActions \in Nat /\ actionsLeft \in 0..MaxUserActions
      /\ registry \in Entries /\ registry.e \in Nat /\ registry.v \in Nat
      /\ registry.e + actionsLeft <= MaxVersion + MaxUserActions /\ registry.v <= MaxVersion
  BY StoreAssumption DEF StoreInv, Entries, StoreRest, EpochsFit
<1>2. PICK e \in Nat : e = MaxVersion + (MaxUserActions - actionsLeft)
  BY <1>1
<1>3. MaxVersion <= e /\ e + actionsLeft = MaxVersion + MaxUserActions /\ registry.e <= e
  BY <1>1, <1>2
<1>4. Store \in Stores /\ Store.entry = registry /\ Store.batch = toPresent
  BY StoreIsStore DEF Store
<1> QED
  BY <1>1, <1>3, <1>4 DEF StoreFits, StoreRest

(* A store within bounds takes the place of the registry and the batch.    *)
LEMMA BecomingFits ==
  ASSUME StoreRest, NEW e \in Nat, e + actionsLeft = MaxVersion + MaxUserActions,
         NEW store, StoreFits(store, e), Becomes(store), actionsLeft' = actionsLeft
  PROVE  /\ EpochsFit'
         /\ toPresent' \subseteq Snapshots /\ (toPresent' # {} => \E s \in Snapshots : toPresent' = {s})
<1>1. registry' = store.entry /\ toPresent' = store.batch
  BY DEF Becomes
<1>2. store.entry.e \in Nat /\ store.entry.e <= e /\ store.entry.v <= MaxVersion
  BY DEF StoreFits, Stores, Entries
<1>3. actionsLeft \in Nat /\ actionsLeft \in 0..MaxUserActions
  BY StoreAssumption DEF StoreRest, EpochsFit
<1>4. store.entry.e + actionsLeft <= e + actionsLeft
  BY <1>2, <1>3
<1> QED
  BY <1>1, <1>2, <1>3, <1>4 DEF EpochsFit, StoreFits

(* Whatever brings a snapshot: stream, status, list, poll or hydration.    *)
LEMMA SnapshotsFit ==
  ASSUME StoreInv, StoreRest, NEW snap \in published,
         \/ StreamDelivers(snap) \/ StatusAnswer(snap) \/ RejectStorm(snap)
         \/ ListAnswer(snap) \/ PollAnswer(snap) \/ HydrateAnswer(snap)
  PROVE  StoreRest'
<1>1. snap \in Snapshots
  BY DEF StoreRest
<1>2. PICK e \in Nat : /\ MaxVersion <= e /\ e + actionsLeft = MaxVersion + MaxUserActions
                       /\ registry.e <= e /\ registry.v <= MaxVersion
                       /\ registry \in Entries /\ StoreFits(Store, e)
  BY TheStoreFits
<1>3. StoreFits(Applied(Store, snap), e)
  BY <1>1, <1>2, AppliedFits
<1>4. CASE StreamDelivers(snap)
  <2>1. CASE hydrated
    <3>1. Becomes(Applied(Store, snap))
          /\ UNCHANGED <<truth, published, early, listRow, healing, converged, patching, actionsLeft>>
      BY <1>4, <2>1 DEF StreamDelivers
    <3>2. /\ EpochsFit'
          /\ toPresent' \subseteq Snapshots /\ (toPresent' # {} => \E s \in Snapshots : toPresent' = {s})
      BY <1>2, <1>3, <3>1, BecomingFits
    <3> QED
      BY <3>1, <3>2 DEF StoreRest
  <2>2. CASE ~hydrated
    <3>1. early' = Append(early, snap)
          /\ UNCHANGED <<truth, published, registry, toPresent, listRow, healing, converged, patching,
                         actionsLeft>>
      BY <1>4, <2>2 DEF StreamDelivers
    <3>2. early' \in Seq(Snapshots)
      BY <1>1, <3>1 DEF StoreRest
    <3> QED
      BY <3>1, <3>2 DEF StoreRest, EpochsFit
  <2> QED
    BY <2>1, <2>2
<1>5. CASE StatusAnswer(snap)
  <2>1. Becomes(Applied(Store, snap))
        /\ UNCHANGED <<truth, published, early, listRow, healing, converged, patching, actionsLeft>>
    BY <1>5 DEF StatusAnswer
  <2>2. /\ EpochsFit'
        /\ toPresent' \subseteq Snapshots /\ (toPresent' # {} => \E s \in Snapshots : toPresent' = {s})
    BY <1>2, <1>3, <2>1, BecomingFits
  <2> QED
    BY <2>1, <2>2 DEF StoreRest
<1>6. CASE RejectStorm(snap)
  <2>1. EpochsFit'
    BY <1>6, StoreAssumption DEF RejectStorm, NoEntry, StoreRest, EpochsFit
  <2> QED
    BY <1>6, <2>1 DEF RejectStorm, StoreRest
<1>7. CASE ListAnswer(snap)
  BY <1>1, <1>7 DEF ListAnswer, StoreRest, EpochsFit
<1>8. CASE PollAnswer(snap)
  <2>1. /\ registry' \in Entries /\ registry'.v <= MaxVersion /\ registry'.e <= e /\ actionsLeft' = actionsLeft
    BY <1>1, <1>2, <1>8, UpsertFits DEF PollAnswer
  <2>2. EpochsFit'
    <3>1. registry'.e \in Nat /\ actionsLeft \in 0..MaxUserActions /\ actionsLeft \in Nat
      BY <2>1, StoreAssumption DEF Entries, StoreRest, EpochsFit
    <3>2. registry'.e + actionsLeft <= e + actionsLeft
      BY <2>1, <3>1
    <3> QED
      BY <1>2, <2>1, <3>1, <3>2 DEF EpochsFit
  <2>3. listRow' \in Snapshots /\ converged' = TRUE
    BY <1>1, <1>8 DEF PollAnswer, StoreRest
  <2> QED
    BY <1>8, <2>2, <2>3 DEF PollAnswer, StoreRest
<1>9. CASE HydrateAnswer(snap)
  <2>1. Becomes(AfterHydration(snap)) /\ early' = <<>>
        /\ UNCHANGED <<truth, published, listRow, healing, converged, patching, actionsLeft>>
    BY <1>9 DEF HydrateAnswer
  <2>2. PICK base : base = [Store EXCEPT !.entry = EntryOf(snap)]
    OBVIOUS
  <2>3. AfterHydration(snap) = Drained(base, early)
    BY <2>2 DEF AfterHydration
  <2>4. base \in Stores /\ base.entry = EntryOf(snap) /\ base.batch = toPresent
    BY <1>1, <2>2, SnapshotsAre DEF Store, Stores, StoreInv, EntryOf, Entries
  <2>5. EntryOf(snap).v <= MaxVersion /\ EntryOf(snap).e <= e
    BY <1>1, <1>2, SnapshotsAre, StoreAssumption DEF EntryOf
  <2>6. StoreFits(base, e)
    BY <2>4, <2>5 DEF StoreFits, StoreRest
  <2>7. StoreFits(AfterHydration(snap), e)
    BY <1>2, <2>3, <2>6, DrainedFits DEF StoreRest
  <2>8. /\ EpochsFit'
        /\ toPresent' \subseteq Snapshots /\ (toPresent' # {} => \E s \in Snapshots : toPresent' = {s})
    BY <1>2, <2>1, <2>7, BecomingFits
  <2>9. early' \in Seq(Snapshots)
    BY <2>1
  <2> QED
    BY <2>1, <2>8, <2>9 DEF StoreRest
<1> QED
  BY <1>4, <1>5, <1>6, <1>7, <1>8, <1>9

(* A row of the list is patched with a snapshot.                           *)
LEMMA PatchFits ==
  ASSUME StoreRest, NEW snap \in Snapshots, PatchRow(snap)
  PROVE  listRow' \in Snapshots /\ converged' = TRUE
  BY DEF PatchRow, StoreRest

(* Every step of the client's registry keeps its types.                    *)
LEMMA StoreRestStep == StoreInv /\ StoreRest /\ [StoreNext]_storeVars => StoreRest'
<1> SUFFICES ASSUME StoreInv, StoreRest, [StoreNext]_storeVars PROVE StoreRest'
  OBVIOUS
<1>1. CASE UNCHANGED storeVars
  BY <1>1 DEF storeVars, StoreRest, EpochsFit
<1>2. CASE ServerChanges
  <2>1. PICK t \in BOOLEAN, de \in {0, 1} : truth' = [v |-> truth.v + 1, e |-> truth.e + de, t |-> t]
    BY <1>2 DEF ServerChanges
  <2>2. /\ truth.v \in Nat /\ truth.e \in Nat /\ truth.e <= truth.v /\ truth.v < MaxVersion /\ MaxVersion \in Nat
    BY <1>2, SnapshotsAre, StoreAssumption DEF StoreRest, ServerChanges
  <2>3. /\ truth.v + 1 \in 0..MaxVersion /\ truth.e + de \in 0..MaxVersion /\ truth.e + de <= truth.v + 1
    BY <2>2
  <2>4. truth' \in Snapshots /\ truth'.e <= truth'.v
    BY <2>1, <2>3 DEF Snapshots
  <2> QED
    BY <1>2, <2>4 DEF ServerChanges, StoreRest, EpochsFit
<1>3. ASSUME NEW again \in BOOLEAN, PresentBatch(again) PROVE StoreRest'
  <2>1. listRow' \in Snapshots /\ converged' \in BOOLEAN
    BY <1>3, PatchFits DEF PresentBatch, StoreRest
  <2> QED
    BY <1>3, <2>1 DEF PresentBatch, StoreRest, EpochsFit
<1>4. CASE HealAnswer
  <2>1. listRow' \in Snapshots /\ converged' \in BOOLEAN
    BY <1>4, PatchFits DEF HealAnswer, StoreRest
  <2> QED
    BY <1>4, <2>1 DEF HealAnswer, StoreRest, EpochsFit
<1>5. CASE SyncFromPresentation \/ PollGivesUp \/ EvictInactive \/ UserRevives
  <2>1. EpochsFit' /\ patching' \in BOOLEAN
    <3>1. registry \in Entries /\ EpochsFit /\ patching \in BOOLEAN
      BY DEF StoreInv, StoreRest
    <3>2. CASE SyncFromPresentation \/ PollGivesUp
      BY <3>1, <3>2 DEF SyncFromPresentation, PollGivesUp, Entries, EpochsFit
    <3>3. CASE EvictInactive
      BY <3>1, <3>3, StoreAssumption DEF EvictInactive, NoEntry, EpochsFit
    <3>4. CASE UserRevives
      <4>1. /\ registry'.e = registry.e + 1 /\ registry'.v = registry.v
            /\ actionsLeft' = actionsLeft - 1 /\ actionsLeft > 0 /\ patching' = TRUE
        BY <3>1, <3>4 DEF UserRevives, Entries
      <4>2. registry.e \in Nat /\ actionsLeft \in 0..MaxUserActions /\ MaxUserActions \in Nat /\ MaxVersion \in Nat
        BY <3>1, StoreAssumption DEF Entries, EpochsFit
      <4>3. /\ actionsLeft' \in 0..MaxUserActions
            /\ registry'.e + actionsLeft' = registry.e + actionsLeft
        BY <4>1, <4>2
      <4> QED
        BY <3>1, <4>1, <4>3 DEF EpochsFit
    <3> QED
      BY <1>5, <3>2, <3>3, <3>4
  <2> QED
    BY <1>5, <2>1 DEF SyncFromPresentation, PollGivesUp, EvictInactive, UserRevives, StoreRest
<1>6. CASE AskHeal \/ HealFails \/ Hydrate
  BY <1>6 DEF AskHeal, HealFails, Hydrate, StoreRest, EpochsFit
<1>7. ASSUME NEW succeeds \in BOOLEAN, UserPatch(succeeds) PROVE StoreRest'
  <2>1. listRow' \in Snapshots
    BY <1>7 DEF UserPatch, StoreRest, Snapshots
  <2> QED
    BY <1>7, <2>1 DEF UserPatch, StoreRest, EpochsFit
<1> QED
  BY <1>1, <1>2, <1>3, <1>4, <1>5, <1>6, <1>7, SnapshotsFit DEF StoreNext

(* The client's registry keeps its types (StoreTypeOK).                    *)
LEMMA StoreTypes == StoreInit /\ [][StoreNext]_storeVars => []StoreTypeOK
<1>1. StoreInit => StoreRest
  <2> SUFFICES ASSUME StoreInit PROVE StoreRest
    OBVIOUS
  <2>1. First \in Snapshots /\ First.e <= First.v
    BY StoreAssumption DEF First, Snapshots
  <2>2. registry.e = 0 /\ registry.v = 0
    BY DEF StoreInit, EntryOf, First
  <2>3. EpochsFit
    BY <2>2, StoreAssumption DEF StoreInit, EpochsFit
  <2>4. <<>> \in Seq(Snapshots)
    OBVIOUS
  <2> QED
    BY <2>1, <2>3, <2>4 DEF StoreInit, StoreRest
<1>2. StoreInv /\ StoreRest => StoreTypeOK
  <2> SUFFICES ASSUME StoreInv, StoreRest PROVE StoreTypeOK
    OBVIOUS
  <2>1. Cardinality(toPresent) <= 1
    <3>1. CASE toPresent = {}
      BY <3>1, FS_EmptySet
    <3>2. ASSUME NEW s, toPresent = {s} PROVE Cardinality(toPresent) <= 1
      <4>1. Cardinality({s}) = 1
        BY FS_Singleton
      <4> QED
        BY <3>2, <4>1
    <3> QED
      BY <3>1, <3>2 DEF StoreRest
  <2>2. /\ registry \in Entries /\ registry.v <= MaxVersion /\ MaxVersion \in Nat /\ MaxUserActions \in Nat
        /\ registry.e + actionsLeft <= MaxVersion + MaxUserActions /\ actionsLeft \in 0..MaxUserActions
    BY StoreAssumption DEF StoreInv, StoreRest, EpochsFit
  <2>3. registry.v \in 0..MaxVersion /\ registry.e \in 0..MaxVersion + MaxUserActions
    BY <2>2 DEF Entries
  <2>4. registry \in [v : 0..MaxVersion, e : 0..MaxVersion + MaxUserActions, t : BOOLEAN,
                      pruned : BOOLEAN, here : BOOLEAN]
    BY <2>2, <2>3 DEF Entries
  <2> QED
    BY <2>1, <2>2, <2>4 DEF StoreInv, StoreRest, StoreTypeOK
<1>3. StoreInv /\ [StoreNext]_storeVars => StoreInv'
  BY StoreStep
<1> QED
  BY <1>1, <1>2, <1>3, StoreStart, StoreRestStep, PTL

-----------------------------------------------------------------------------
(*****************************************************************************)
(* The AI gateway.                                                           *)
(*****************************************************************************)

(* What one attempt can be made with.                                      *)
Attemptable == Credentials \cup {Platform}

(* A request of the gateway and the attempts it has left.                  *)
CallRow == [pc : {"idle", "resolve", "try", "health", "thrown"}, left : Seq(Attemptable), to : Health]

(* The healthy credentials up to the n-th, one after the other.            *)
IsFilter(f, n) ==
  f = [k \in 0..n |-> IF k = 0 THEN <<>>
                      ELSE IF Usable(Chain[k]) THEN Append(f[k - 1], Chain[k]) ELSE f[k - 1]]

(* The usable credentials of one more member of the chain.                 *)
LEMMA FilterGoesOn ==
  ASSUME NEW n \in Nat, NEW g, IsFilter(g, n)
  PROVE  \E h : IsFilter(h, n + 1)
<1> DEFINE Next(s, k) == IF Usable(Chain[k]) THEN Append(s, Chain[k]) ELSE s
           h == [k \in 0..(n + 1) |-> IF k = n + 1 THEN Next(g[n], n + 1) ELSE g[k]]
           r == [k \in 0..(n + 1) |-> IF k = 0 THEN <<>> ELSE Next(h[k - 1], k)]
<1>1. \A k \in 0..n : g[k] = IF k = 0 THEN <<>> ELSE Next(g[k - 1], k)
  BY DEF IsFilter
<1>0. (\E f : f = r /\ h = r) => \E f : IsFilter(f, n + 1)
  BY DEF IsFilter
<1> HIDE DEF Next
<1>2. ASSUME NEW k \in 0..(n + 1) PROVE h[k] = r[k]
  <2>1. CASE k = n + 1
    <3>1. k # 0 /\ k - 1 = n /\ n \in 0..(n + 1) /\ n # n + 1
      BY <2>1
    <3>2. h[k] = Next(g[n], n + 1) /\ h[n] = g[n]
      BY <2>1, <3>1
    <3>3. r[k] = Next(h[k - 1], k)
      BY <3>1
    <3> QED
      BY <2>1, <3>1, <3>2, <3>3
  <2>2. CASE k = 0
    <3>1. k \in 0..n /\ k # n + 1
      BY <2>2
    <3> QED
      BY <1>1, <2>2, <3>1
  <2>3. CASE k # n + 1 /\ k # 0
    <3>1. k \in 0..n /\ k - 1 \in 0..(n + 1) /\ k - 1 # n + 1
      BY <2>3
    <3>2. h[k] = g[k] /\ h[k - 1] = g[k - 1]
      BY <2>3, <3>1
    <3>3. r[k] = Next(h[k - 1], k) /\ g[k] = Next(g[k - 1], k)
      BY <1>1, <2>3, <3>1
    <3> QED
      BY <3>2, <3>3
  <2> QED
    BY <2>1, <2>2, <2>3
<1>3. h = r
  BY <1>2
<1> QED
  BY <1>0, <1>3

(* The attempts of a request are credentials of the chain.                 *)
LEMMA UsableAre == UsableChain \in Seq(Credentials)
<1> DEFINE S == {k \in Nat : \E g : IsFilter(g, k)}
<1>1. 0 \in S
  <2> DEFINE g == [k \in 0..0 |-> <<>>]
  <2>1. g = [k \in 0..0 |-> IF k = 0 THEN <<>>
                            ELSE IF Usable(Chain[k]) THEN Append(g[k - 1], Chain[k]) ELSE g[k - 1]]
    OBVIOUS
  <2>2. IsFilter(g, 0)
    BY <2>1 DEF IsFilter
  <2> QED
    BY <2>2
<1>2. ASSUME NEW k \in Nat, k \in S PROVE k + 1 \in S
  BY <1>2, FilterGoesOn
<1> HIDE DEF S
<1>3. Len(Chain) \in Nat /\ Chain \in Seq(Credentials)
  BY ChainIsSequence
<1>4. Len(Chain) \in S
  BY <1>1, <1>2, <1>3, Induction
<1> DEFINE f == CHOOSE g : IsFilter(g, Len(Chain))
<1>5. IsFilter(f, Len(Chain))
  BY <1>4 DEF S
<1>6. UsableChain = f[Len(Chain)]
  BY DEF UsableChain, IsFilter
<1> HIDE DEF f
<1> DEFINE T == {k \in Nat : k <= Len(Chain) => f[k] \in Seq(Credentials)}
<1>7. 0 \in T
  BY <1>3, <1>5 DEF IsFilter
<1>8. ASSUME NEW k \in Nat, k \in T PROVE k + 1 \in T
  <2> SUFFICES ASSUME k + 1 <= Len(Chain) PROVE f[k + 1] \in Seq(Credentials)
    OBVIOUS
  <2>1. k + 1 \in 0..Len(Chain) /\ k + 1 # 0 /\ (k + 1) - 1 = k /\ k <= Len(Chain) /\ k + 1 \in 1..Len(Chain)
    BY <1>3
  <2>2. f[k] \in Seq(Credentials) /\ Chain[k + 1] \in Credentials
    BY <1>3, <1>8, <2>1
  <2>3. f[k + 1] = IF Usable(Chain[k + 1]) THEN Append(f[k], Chain[k + 1]) ELSE f[k]
    BY <1>5, <2>1 DEF IsFilter
  <2> QED
    BY <2>2, <2>3
<1> HIDE DEF T
<1>9. Len(Chain) \in T
  BY <1>3, <1>7, <1>8, Induction
<1> QED
  BY <1>3, <1>6, <1>9 DEF T

(* What a request is about to write of a credential's health.              *)
Marks == {"none", "look", "write"} \X Attemptable

(* A request that tries has an attempt to make.                            *)
GatewayRest ==
  /\ call \in [Calls -> CallRow]
  /\ \A g \in Calls : call[g].pc \in {"try", "health"} => call[g].left # <<>>
  /\ marking \in [Calls -> Marks]
  /\ health \in [Credentials -> Health]

(* The rest of a sequence, its head, and one more at its end.              *)
LEMMA TheTail ==
  ASSUME NEW S, NEW s \in Seq(S), Len(s) > 1
  PROVE  Tail(s) \in Seq(S) /\ Tail(s) # <<>>
<1>1. s # <<>>
  OBVIOUS
<1>2. Tail(s) \in Seq(S) /\ Len(Tail(s)) = Len(s) - 1
  BY <1>1
<1>3. \A t \in Seq(S) : Len(t) # 0 => t # <<>>
  OBVIOUS
<1>4. Len(s) \in Nat
  OBVIOUS
<1>5. Len(Tail(s)) # 0
  BY <1>2, <1>4
<1> QED
  BY <1>2, <1>3, <1>5

(* The head of a sequence is one of its members.                           *)
LEMMA TheHead ==
  ASSUME NEW S, NEW s \in Seq(S), s # <<>>
  PROVE  Head(s) \in S
OBVIOUS

(* The platform's attempt goes behind those of the user, or does not.      *)
LEMMA OneMoreAttempt ==
  ASSUME NEW S, NEW s \in Seq(S), NEW x \in S
  PROVE  s \o <<x>> \in Seq(S) /\ s \o <<>> \in Seq(S)
<1>1. <<x>> \in Seq(S) /\ <<>> \in Seq(S)
  OBVIOUS
<1>2. ASSUME NEW t \in Seq(S) PROVE s \o t \in Seq(S)
  OBVIOUS
<1> QED
  BY <1>1, <1>2

(* A request not made has no attempt to make.                              *)
LEMMA NoCallIs == NoCall \in CallRow /\ NoCall.pc = "idle" /\ NoMark \in Marks
<1>1. <<>> \in Seq(Attemptable)
  OBVIOUS
<1> QED
  BY <1>1 DEF NoCall, CallRow, NoMark, Marks, Attemptable, Health

(* A call that ends or goes on to its next attempt.                        *)
LEMMA AfterFailureFits ==
  ASSUME NEW g \in Calls, NEW retryable, GatewayRest, AfterFailure(g, retryable)
  PROVE  /\ call' \in [Calls -> CallRow]
         /\ \A h \in Calls : call'[h].pc \in {"try", "health"} => call'[h].left # <<>>
<1>0. call \in [Calls -> CallRow] /\ call[g] \in CallRow
  BY DEF GatewayRest
<1>1. CASE call' = [call EXCEPT ![g] = NoCall]
  BY <1>0, <1>1, NoCallIs DEF GatewayRest
<1>2. CASE Len(call[g].left) > 1 /\ NextAttempt(g)
  <2>1. call[g].left \in Seq(Attemptable)
    BY <1>0 DEF CallRow
  <2>2. Tail(call[g].left) \in Seq(Attemptable) /\ Tail(call[g].left) # <<>>
    BY <1>2, <2>1, TheTail
  <2> DEFINE row == [call[g] EXCEPT !.left = Tail(@), !.pc = "try", !.to = "healthy"]
  <2>3. row \in CallRow /\ row.left # <<>>
    BY <1>0, <2>2 DEF CallRow, Health
  <2>4. call' = [call EXCEPT ![g] = row]
    BY <1>2 DEF NextAttempt
  <2> HIDE DEF row
  <2> QED
    BY <1>0, <2>3, <2>4 DEF GatewayRest
<1> QED
  BY <1>1, <1>2 DEF AfterFailure, EndsNonRetryable, EndsTransient

(* Every step of the gateway keeps its types.                              *)
LEMMA GatewayRestStep == GatewayRest /\ [GatewayNext]_gatewayVars => GatewayRest'
<1> SUFFICES ASSUME GatewayRest, [GatewayNext]_gatewayVars PROVE GatewayRest'
  OBVIOUS
<1>0. /\ call \in [Calls -> CallRow] /\ marking \in [Calls -> Marks]
      /\ health \in [Credentials -> Health]
  BY DEF GatewayRest
<1>1. ASSUME UNCHANGED <<call, marking>>, health' \in [Credentials -> Health] PROVE GatewayRest'
  BY <1>1 DEF GatewayRest
<1>2. ASSUME NEW c \in Credentials, CheckHealth(c) PROVE GatewayRest'
  <2>1. health' \in [Credentials -> Health]
    BY <1>0, <1>2 DEF CheckHealth, Health
  <2> QED
    BY <1>1, <1>2, <2>1 DEF CheckHealth
<1>3. CASE UNCHANGED gatewayVars \/ Cool \/ AbortBeforeStart
  BY <1>0, <1>1, <1>3 DEF gatewayVars, Cool, AbortBeforeStart
<1>4. ASSUME NEW g \in Calls, NEW row \in CallRow, call' = [call EXCEPT ![g] = row],
             row.pc \in {"try", "health"} => row.left # <<>>,
             UNCHANGED health, marking' \in [Calls -> Marks]
      PROVE  GatewayRest'
  BY <1>0, <1>4 DEF GatewayRest
<1>5. ASSUME NEW g \in Calls PROVE call[g] \in CallRow /\ marking[g] \in Marks
  BY <1>0
<1>6. ASSUME NEW g \in Calls, StartCall(g) PROVE GatewayRest'
  <2> DEFINE row == [call[g] EXCEPT !.pc = "resolve"]
  <2>1. row \in CallRow /\ row.pc = "resolve"
    BY <1>5 DEF CallRow
  <2>2. call' = [call EXCEPT ![g] = row] /\ UNCHANGED health /\ marking' \in [Calls -> Marks]
    BY <1>0, <1>6 DEF StartCall
  <2> HIDE DEF row
  <2> QED
    BY <1>4, <2>1, <2>2
<1>7. ASSUME NEW g \in Calls, CallSucceeds(g) PROVE GatewayRest'
  <2>1. Head(call[g].left) \in Attemptable
    BY <1>5, <1>7, TheHead DEF CallSucceeds, GatewayRest, CallRow
  <2>2. marking' \in [Calls -> Marks]
    BY <1>0, <1>7, <2>1, NoCallIs DEF CallSucceeds, Marks
  <2>3. call' = [call EXCEPT ![g] = NoCall] /\ UNCHANGED health
    BY <1>7 DEF CallSucceeds
  <2> QED
    BY <1>4, <2>2, <2>3, NoCallIs
<1>8. ASSUME NEW g \in Calls, RecordHealth(g) PROVE GatewayRest'
  <2>1. call[g].to \in Health
    BY <1>5 DEF CallRow
  <2>2. health' \in [Credentials -> Health] /\ UNCHANGED marking
    BY <1>0, <1>8, <2>1 DEF RecordHealth
  <2>3. AfterFailure(g, call[g].to = "rate_limited")
    BY <1>8 DEF RecordHealth
  <2> QED
    BY <1>0, <2>2, <2>3, AfterFailureFits DEF GatewayRest
<1>9. ASSUME NEW g \in Calls, NoAttempt(g) PROVE GatewayRest'
  BY <1>0, <1>4, <1>9, NoCallIs DEF NoAttempt, EndsNonRetryable
<1>10. ASSUME NEW g \in Calls, LookAtHealth(g) PROVE GatewayRest'
  <2>1. PICK m \in Attemptable : marking[g][2] = m /\ marking[g] = <<marking[g][1], m>>
    BY <1>5 DEF Marks
  <2>2. <<"write", m>> \in Marks
    BY DEF Marks
  <2>3. marking' \in [Calls -> Marks] /\ UNCHANGED <<call, health>>
    BY <1>0, <1>10, <2>1, <2>2, NoCallIs DEF LookAtHealth
  <2> QED
    BY <1>0, <2>3 DEF GatewayRest
<1>11. ASSUME NEW g \in Calls, MarkHealthy(g) PROVE GatewayRest'
  <2>1. health' \in [Credentials -> Health] /\ marking' \in [Calls -> Marks] /\ UNCHANGED call
    BY <1>0, <1>11, NoCallIs DEF MarkHealthy, Health
  <2> QED
    BY <2>1 DEF GatewayRest
<1>12. ASSUME NEW g \in Calls, NEW b \in BOOLEAN, ResolveChain(g, b) PROVE GatewayRest'
  <2>1. PICK attempts : /\ attempts = UsableChain \o (IF b THEN <<Platform>> ELSE <<>>)
                        /\ call' = [call EXCEPT ![g].pc = IF attempts = <<>> THEN "thrown" ELSE "try",
                                                ![g].left = attempts]
                        /\ UNCHANGED <<health, marking>>
    BY <1>12 DEF ResolveChain
  <2>2. UsableChain \in Seq(Attemptable) /\ Platform \in Attemptable
    BY UsableAre DEF Attemptable
  <2>3. attempts \in Seq(Attemptable)
    BY <2>1, <2>2, OneMoreAttempt
  <2> DEFINE row == [call[g] EXCEPT !.pc = IF attempts = <<>> THEN "thrown" ELSE "try", !.left = attempts]
  <2>4. row \in CallRow /\ (row.pc \in {"try", "health"} => row.left # <<>>)
    BY <1>5, <2>3 DEF CallRow
  <2>5. call' = [call EXCEPT ![g] = row]
    BY <2>1
  <2> HIDE DEF row
  <2> QED
    BY <1>0, <1>4, <2>1, <2>4, <2>5
<1>13. ASSUME NEW g \in Calls, NEW b \in BOOLEAN, CallFails(g, b) PROVE GatewayRest'
  BY <1>0, <1>13, AfterFailureFits DEF CallFails, GatewayRest
<1>14. ASSUME NEW g \in Calls, NEW to \in Health, CredentialFails(g, to) PROVE GatewayRest'
  <2> DEFINE row == [call[g] EXCEPT !.pc = "health", !.to = to]
  <2>1. row \in CallRow /\ row.left # <<>>
    BY <1>5, <1>14 DEF CallRow, CredentialFails, GatewayRest
  <2>2. call' = [call EXCEPT ![g] = row] /\ UNCHANGED <<health, marking>>
    BY <1>14 DEF CredentialFails
  <2> HIDE DEF row
  <2> QED
    BY <1>0, <1>4, <2>1, <2>2
<1> QED
  BY <1>2, <1>3, <1>6, <1>7, <1>8, <1>9, <1>10, <1>11, <1>12, <1>13, <1>14 DEF GatewayNext

(* The requests to the models keep their types.                            *)
LEMMA GatewayTypes == GatewayInit /\ [][GatewayNext]_gatewayVars => []GatewayTypeOK
<1>1. GatewayInit => CircuitInv /\ GatewayRest
  <2> SUFFICES ASSUME GatewayInit PROVE GatewayRest
    BY CircuitStart
  <2> QED
    BY NoCallIs DEF GatewayInit, GatewayRest, Health
<1>2. CircuitInv /\ GatewayRest /\ [GatewayNext]_gatewayVars => (CircuitInv /\ GatewayRest)'
  BY CircuitStep, GatewayRestStep
<1>3. CircuitInv /\ GatewayRest => GatewayTypeOK
  BY DEF CircuitInv, CircuitType, GatewayRest, CallRow, Marks, Attemptable, GatewayTypeOK
<1> QED
  BY <1>1, <1>2, <1>3, PTL

-----------------------------------------------------------------------------
(*****************************************************************************)
(* The tracker's statuses.                                                   *)
(*****************************************************************************)

(* What the tracker may show of an application.                            *)
Labels == CustomStatuses \cup SystemStatuses \cup {NoTracker}

(* A list as it was read.                                                  *)
ListsRead == SUBSET (CustomStatuses \cup Unset)

(* What a cell's request may be: what is to be written is a list of the    *)
(* user's.                                                                 *)
CellType ==
  {e \in [what : {"none", "list", "create", "delete", "assign", "remove"},
          pc : {"idle", "read", "persist", "sync", "write", "clear", "assign"},
          status : Labels, on : SUBSET TrackedApps, seen : ListsRead] :
     /\ e.pc \in {"sync", "write"} => e.seen \subseteq CustomStatuses
     /\ e.what \in {"create", "delete"} \/ e.pc = "clear" => e.status \in CustomStatuses}

(* What a worker may be at with its label.                                 *)
LabellingType == [pc : {"none", "hold", "read", "persist", "sync", "label"}, seen : ListsRead]

(* What the types of the tracker rest on.                                  *)
TrackerRest ==
  /\ statusList = Unset \/ statusList \subseteq CustomStatuses
  /\ trackerOf \in [TrackedApps -> Labels \cup {Deleted}]
  /\ progressOf \in [TrackedApps -> {"draft", "generated", "sent"}]
  /\ edit \in [Cells -> CellType]
  /\ everCreated \subseteq CustomStatuses /\ strayed \subseteq CustomStatuses
  /\ labelling \in [TrackedApps -> LabellingType]
  /\ editsLeft \in 0..MaxEdits

(* Nothing is edited, and nothing is labelled.                             *)
LEMMA NoEditIs == NoEdit \in CellType /\ NoLabelling \in LabellingType
BY DEF NoEdit, CellType, Labels, NoLabelling, LabellingType, ListsRead

(* A write of the list leaves a list of the user's, and strays only        *)
(* statuses of the user's.                                                 *)
LEMMA ListWritten ==
  ASSUME TrackerRest, NEW list \in SUBSET CustomStatuses, NEW meant, WriteList(list, meant)
  PROVE  statusList' \subseteq CustomStatuses /\ strayed' \subseteq CustomStatuses
<1>1. CustomList \subseteq CustomStatuses
  BY DEF CustomList, TrackerRest
<1> QED
  BY <1>1 DEF WriteList, TrackerRest

(* A cell's request becomes another one.                                   *)
LEMMA CellGoesOn ==
  ASSUME TrackerRest, NEW c \in Cells, NEW e \in CellType, edit' = [edit EXCEPT ![c] = e],
         statusList' = Unset \/ statusList' \subseteq CustomStatuses,
         trackerOf' \in [TrackedApps -> Labels \cup {Deleted}],
         everCreated' \subseteq CustomStatuses, strayed' \subseteq CustomStatuses,
         editsLeft' \in 0..MaxEdits, UNCHANGED <<progressOf, labelling>>
  PROVE  TrackerRest'
<1>1. edit' \in [Cells -> CellType]
  BY DEF TrackerRest
<1> QED
  BY <1>1 DEF TrackerRest

(* A tab asks for a change ...                                             *)
LEMMA AskFits ==
  ASSUME TrackerRest, NEW c \in Cells,
         NEW what \in {"list", "create", "delete", "assign", "remove"}, NEW status \in Labels,
         NEW on \in SUBSET TrackedApps, what \in {"create", "delete"} => status \in CustomStatuses,
         Ask(c, what, status, on)
  PROVE  TrackerRest'
<1>1. PICK pc \in {"read", "assign"} :
        edit' = [edit EXCEPT ![c] = [what |-> what, status |-> status, on |-> on, seen |-> {}, pc |-> pc]]
  BY DEF Ask
<1> DEFINE e == [what |-> what, status |-> status, on |-> on, seen |-> {}, pc |-> pc]
<1>2. e \in CellType
  BY DEF CellType, ListsRead
<1>3. UNCHANGED <<statusList, trackerOf, progressOf, everCreated, labelling, strayed>>
  BY DEF Ask
<1>4. editsLeft \in 0..MaxEdits /\ MaxEdits \in Nat
  BY TrackerAssumption DEF TrackerRest
<1>5. editsLeft > 0 /\ editsLeft' = editsLeft - 1
  BY DEF Ask
<1>6. editsLeft' \in 0..MaxEdits
  BY <1>4, <1>5
<1>7. edit' = [edit EXCEPT ![c] = e]
  BY <1>1
<1> HIDE DEF e
<1> QED
  BY <1>2, <1>3, <1>6, <1>7, CellGoesOn DEF TrackerRest

(* ... whichever it is.                                                    *)
LEMMA AskForFits ==
  ASSUME TrackerRest, NEW c \in Cells, AskFor(c)
  PROVE  TrackerRest'
<1>1. everCreated \subseteq CustomStatuses
  BY DEF TrackerRest
<1>2. NoTracker \in Labels /\ EmailSent \in Labels /\ CustomStatuses \subseteq Labels
  BY DEF Labels, SystemStatuses
<1>3. CASE Ask(c, "list", NoTracker, {})
  BY <1>2, <1>3, AskFits
<1>4. CASE \E s \in everCreated : Ask(c, "delete", s, {})
  <2>1. PICK s \in everCreated : Ask(c, "delete", s, {})
    BY <1>4
  <2> QED
    BY <1>1, <1>2, <2>1, AskFits
<1>5. ASSUME NEW on \in SUBSET TrackedApps, NEW s \in CustomStatuses, Ask(c, "create", s, on)
      PROVE  TrackerRest'
  BY <1>2, <1>5, AskFits
<1>6. ASSUME NEW on \in SUBSET TrackedApps, NEW s \in everCreated \cup {EmailSent, NoTracker},
             Ask(c, "assign", s, on)
      PROVE  TrackerRest'
  <2>1. s \in Labels
    BY <1>1, <1>2
  <2> QED
    BY <1>6, <2>1, AskFits
<1>7. ASSUME NEW on \in SUBSET TrackedApps, Ask(c, "remove", NoTracker, on)
      PROVE  TrackerRest'
  BY <1>2, <1>7, AskFits
<1> QED
  BY <1>3, <1>4, <1>5, <1>6, <1>7 DEF AskFor

(* The label an application has by its progress.                           *)
LEMMA DefaultsAreLabels ==
  ASSUME TrackerRest
  PROVE  \A a \in TrackedApps : DefaultTracker(a) \in Labels \cup {Deleted}
BY DEF TrackerRest, DefaultTracker, Labels, SystemStatuses

(* The list is looked at, and written back.                                *)
LEMMA LooksFit ==
  ASSUME TrackerRest, NEW c \in Cells, ReadList(c) \/ PersistList(c) \/ SyncDefaults(c)
  PROVE  TrackerRest'
<1>1. edit[c] \in CellType
  BY DEF TrackerRest
<1>2. CASE ReadList(c)
  <2> DEFINE e == [edit[c] EXCEPT !.pc = "persist", !.seen = statusList]
  <2>1. statusList \in ListsRead
    BY DEF TrackerRest, ListsRead
  <2>2. e \in CellType
    BY <1>1, <2>1 DEF CellType
  <2>3. /\ edit' = [edit EXCEPT ![c] = e]
        /\ UNCHANGED <<statusList, trackerOf, progressOf, everCreated, labelling, strayed, editsLeft>>
    BY <1>2 DEF ReadList
  <2> HIDE DEF e
  <2> QED
    BY <2>2, <2>3, CellGoesOn DEF TrackerRest
<1>3. CASE PersistList(c)
  <2> DEFINE e == [edit[c] EXCEPT !.pc = "sync", !.seen = edit[c].seen \ Unset]
  <2>1. edit[c].seen \ Unset \in SUBSET CustomStatuses
    BY <1>1 DEF CellType, ListsRead
  <2>2. e \in CellType
    BY <1>1, <2>1 DEF CellType, ListsRead
  <2>3. /\ edit' = [edit EXCEPT ![c] = e] /\ WriteList(edit[c].seen \ Unset, {})
        /\ UNCHANGED <<trackerOf, progressOf, everCreated, labelling, editsLeft>>
    BY <1>3 DEF PersistList
  <2>4. statusList' \subseteq CustomStatuses /\ strayed' \subseteq CustomStatuses
    BY <2>1, <2>3, ListWritten
  <2> HIDE DEF e
  <2> QED
    BY <2>2, <2>3, <2>4, CellGoesOn DEF TrackerRest
<1>4. CASE SyncDefaults(c)
  <2> DEFINE e == [edit[c] EXCEPT !.pc = FirstWrite(edit[c].what)]
  <2>1. trackerOf' \in [TrackedApps -> Labels \cup {Deleted}]
    BY <1>4, DefaultsAreLabels DEF SyncDefaults
  <2>2. e \in CellType
    <3>1. FirstWrite(edit[c].what) \in {"assign", "write"} /\ edit[c].pc = "sync"
      BY <1>4 DEF FirstWrite, SyncDefaults
    <3> QED
      BY <1>1, <3>1 DEF CellType
  <2>3. edit' = [edit EXCEPT ![c] = NoEdit] \/ edit' = [edit EXCEPT ![c] = e]
    BY <1>4 DEF SyncDefaults
  <2>4. UNCHANGED <<statusList, progressOf, everCreated, labelling, strayed, editsLeft>>
    BY <1>4 DEF SyncDefaults
  <2> HIDE DEF e
  <2> QED
    BY <2>1, <2>2, <2>3, <2>4, NoEditIs, CellGoesOn DEF TrackerRest
<1> QED
  BY <1>2, <1>3, <1>4

(* The writes of a list, and what comes after them.                        *)
LEMMA ListWritesFit ==
  ASSUME TrackerRest, NEW c \in Cells, WriteCreated(c) \/ WriteDeleted(c)
  PROVE  TrackerRest'
<1>1. edit[c] \in CellType
  BY DEF TrackerRest
<1>3. CASE WriteCreated(c)
  <2> DEFINE e == [edit[c] EXCEPT !.what = "assign", !.pc = "read"]
  <2>1. e \in CellType
    BY <1>1 DEF CellType
  <2>2. edit[c].status \in CustomStatuses /\ edit[c].seen \cup {edit[c].status} \in SUBSET CustomStatuses
    BY <1>1, <1>3 DEF CellType, WriteCreated
  <2>3. statusList' \subseteq CustomStatuses /\ strayed' \subseteq CustomStatuses
    BY <1>3, <2>2, ListWritten DEF WriteCreated
  <2>4. everCreated' \subseteq CustomStatuses
    BY <1>3, <2>2 DEF WriteCreated, TrackerRest
  <2>5. edit' = [edit EXCEPT ![c] = e] /\ UNCHANGED <<trackerOf, progressOf, labelling, editsLeft>>
    BY <1>3 DEF WriteCreated
  <2> HIDE DEF e
  <2> QED
    BY <2>1, <2>3, <2>4, <2>5, CellGoesOn DEF TrackerRest
<1>4. CASE WriteDeleted(c)
  <2> DEFINE e == [edit[c] EXCEPT !.pc = AfterList(c)]
  <2>1. e \in CellType
    BY <1>1, <1>4 DEF CellType, AfterList, FirstWrite, WriteDeleted
  <2>2. edit[c].seen \ {edit[c].status} \in SUBSET CustomStatuses
    BY <1>1, <1>4 DEF CellType, WriteDeleted
  <2>3. statusList' \subseteq CustomStatuses /\ strayed' \subseteq CustomStatuses
    BY <1>4, <2>2, ListWritten DEF WriteDeleted
  <2>4. edit' = [edit EXCEPT ![c] = e] /\ UNCHANGED <<trackerOf, progressOf, everCreated, labelling, editsLeft>>
    BY <1>4 DEF WriteDeleted
  <2> HIDE DEF e
  <2> QED
    BY <2>1, <2>3, <2>4, CellGoesOn DEF TrackerRest
<1> QED
  BY <1>3, <1>4

(* The rows' labels are written, one statement after another.              *)
LEMMA LabelWritesFit ==
  ASSUME TrackerRest, NEW c \in Cells, ClearDeleted(c) \/ Assign(c) \/ RemoveApplications(c) \/ CutShort(c)
  PROVE  TrackerRest'
<1>1. /\ edit[c] \in CellType /\ edit[c].status \in Labels /\ NoTracker \in Labels
      /\ trackerOf \in [TrackedApps -> Labels \cup {Deleted}]
      /\ statusList = Unset \/ statusList \subseteq CustomStatuses
      /\ everCreated \subseteq CustomStatuses /\ strayed \subseteq CustomStatuses /\ editsLeft \in 0..MaxEdits
  BY DEF TrackerRest, CellType, Labels
<1>2. CASE ClearDeleted(c)
  <2> DEFINE e == [edit[c] EXCEPT !.pc = IF AfterList(c) = "clear" THEN "idle" ELSE "write"]
  <2>1. e \in CellType
    <3>1. AfterList(c) = "clear"
      BY DEF AfterList, FirstWrite
    <3> QED
      BY <1>1, <3>1 DEF CellType
  <2>2. trackerOf' \in [TrackedApps -> Labels \cup {Deleted}]
    BY <1>1, <1>2 DEF ClearDeleted
  <2>3. /\ edit' = [edit EXCEPT ![c] = e]
        /\ UNCHANGED <<statusList, progressOf, everCreated, labelling, strayed, editsLeft>>
    BY <1>2 DEF ClearDeleted
  <2> HIDE DEF e
  <2> QED
    BY <1>1, <2>1, <2>2, <2>3, CellGoesOn
<1>3. CASE Assign(c)
  <2>1. trackerOf' \in [TrackedApps -> Labels \cup {Deleted}] /\ strayed' \subseteq CustomStatuses
    BY <1>1, <1>3 DEF Assign
  <2>2. /\ edit' = [edit EXCEPT ![c] = NoEdit]
        /\ UNCHANGED <<statusList, progressOf, everCreated, labelling, editsLeft>>
    BY <1>3 DEF Assign
  <2> QED
    BY <1>1, <2>1, <2>2, CellGoesOn, NoEditIs
<1>4. CASE RemoveApplications(c)
  <2>1. trackerOf' \in [TrackedApps -> Labels \cup {Deleted}]
    BY <1>1, <1>4 DEF RemoveApplications
  <2>2. /\ edit' = [edit EXCEPT ![c] = NoEdit]
        /\ UNCHANGED <<statusList, progressOf, everCreated, labelling, strayed, editsLeft>>
    BY <1>4 DEF RemoveApplications
  <2> QED
    BY <1>1, <2>1, <2>2, CellGoesOn, NoEditIs
<1>5. CASE CutShort(c)
  <2>1. editsLeft' \in 0..MaxEdits
    BY <1>1, <1>5, TrackerAssumption DEF CutShort
  <2>2. strayed' \subseteq CustomStatuses
    BY <1>1, <1>5 DEF CutShort, CellType
  <2>3. /\ edit' = [edit EXCEPT ![c] = NoEdit]
        /\ UNCHANGED <<statusList, trackerOf, progressOf, everCreated, labelling>>
    BY <1>5 DEF CutShort
  <2> QED
    BY <1>1, <2>1, <2>2, <2>3, CellGoesOn, NoEditIs
<1> QED
  BY <1>2, <1>3, <1>4, <1>5

(* The workers' steps.                                                     *)
LEMMA WorkersLabel ==
  ASSUME TrackerRest, NEW a \in TrackedApps,
         \/ LookForHold(a) \/ HoldGenerated(a) \/ GenerateToSend(a) \/ MarkSent(a)
         \/ LabelReads(a) \/ LabelPersists(a) \/ LabelSyncs(a) \/ LabelSent(a) \/ LabellingStops(a)
  PROVE  TrackerRest'
<1>1. labelling[a] \in LabellingType /\ statusList \in ListsRead /\ {} \in ListsRead
  BY DEF TrackerRest, ListsRead
<1>2. ASSUME NEW pc \in {"none", "hold", "read", "persist", "sync", "label"}, NEW seen_ \in ListsRead,
             Labelling(a, pc, seen_)
      PROVE  labelling' \in [TrackedApps -> LabellingType]
  <2>1. [pc |-> pc, seen |-> seen_] \in LabellingType
    BY DEF LabellingType
  <2> QED
    BY <1>2, <2>1 DEF Labelling, TrackerRest
<1>3. ASSUME labelling' = [labelling EXCEPT ![a] = NoLabelling]
      PROVE  labelling' \in [TrackedApps -> LabellingType]
  BY <1>3, NoEditIs DEF TrackerRest
<1>4. UNCHANGED <<edit, everCreated, editsLeft>>
  BY DEF LookForHold, HoldGenerated, GenerateToSend, MarkSent, LabelReads, LabelPersists, LabelSyncs,
         LabelSent, LabellingStops
<1>5. /\ EmailReady \in Labels /\ EmailSent \in Labels
      /\ \A b \in TrackedApps : DefaultTracker(b) \in Labels \cup {Deleted}
  BY DefaultsAreLabels DEF Labels, SystemStatuses
<1>6. ASSUME WriteList(labelling[a].seen \ Unset, {})
      PROVE  statusList' \subseteq CustomStatuses /\ strayed' \subseteq CustomStatuses
  <2>1. labelling[a].seen \ Unset \in SUBSET CustomStatuses
    BY <1>1 DEF LabellingType, ListsRead
  <2> QED
    BY <1>6, <2>1, ListWritten
<1>7. CASE LookForHold(a) \/ LabelReads(a)
  <2>1. labelling' \in [TrackedApps -> LabellingType]
    BY <1>1, <1>2, <1>7 DEF LookForHold, LabelReads
  <2> QED
    BY <1>4, <1>7, <2>1 DEF LookForHold, LabelReads, TrackerRest
<1>8. CASE HoldGenerated(a)
  <2>1. labelling' \in [TrackedApps -> LabellingType]
    BY <1>3, <1>8 DEF HoldGenerated
  <2>2. statusList' \subseteq CustomStatuses /\ strayed' \subseteq CustomStatuses
    BY <1>6, <1>8 DEF HoldGenerated
  <2>3. trackerOf' \in [TrackedApps -> Labels \cup {Deleted}]
    BY <1>5, <1>8 DEF HoldGenerated
  <2>4. progressOf' \in [TrackedApps -> {"draft", "generated", "sent"}]
    BY <1>8 DEF HoldGenerated, TrackerRest
  <2> QED
    BY <1>4, <2>1, <2>2, <2>3, <2>4 DEF TrackerRest
<1>9. CASE GenerateToSend(a) \/ MarkSent(a)
  <2>1. labelling' \in [TrackedApps -> LabellingType]
    BY <1>1, <1>2, <1>9 DEF GenerateToSend, MarkSent, TrackerRest
  <2>2. progressOf' \in [TrackedApps -> {"draft", "generated", "sent"}]
    BY <1>9 DEF GenerateToSend, MarkSent, TrackerRest
  <2> QED
    BY <1>4, <1>9, <2>1, <2>2 DEF GenerateToSend, MarkSent, TrackerRest
<1>10. CASE LabelPersists(a)
  <2>1. labelling' \in [TrackedApps -> LabellingType]
    BY <1>1, <1>2, <1>10 DEF LabelPersists
  <2>2. statusList' \subseteq CustomStatuses /\ strayed' \subseteq CustomStatuses
    BY <1>6, <1>10 DEF LabelPersists
  <2> QED
    BY <1>4, <1>10, <2>1, <2>2 DEF LabelPersists, TrackerRest
<1>11. CASE LabelSyncs(a) \/ LabelSent(a)
  <2>1. labelling' \in [TrackedApps -> LabellingType]
    BY <1>1, <1>2, <1>3, <1>11 DEF LabelSyncs, LabelSent
  <2>2. trackerOf' \in [TrackedApps -> Labels \cup {Deleted}]
    BY <1>5, <1>11 DEF LabelSyncs, LabelSent, TrackerRest
  <2> QED
    BY <1>4, <1>11, <2>1, <2>2 DEF LabelSyncs, LabelSent, TrackerRest
<1>12. CASE LabellingStops(a)
  BY <1>3, <1>4, <1>12 DEF LabellingStops, TrackerRest
<1> QED
  BY <1>7, <1>8, <1>9, <1>10, <1>11, <1>12

(* Every step of the tracker keeps its types.                              *)
LEMMA TrackerRestStep == TrackerRest /\ [TrackerNext]_trackerVars => TrackerRest'
<1> SUFFICES ASSUME TrackerRest, [TrackerNext]_trackerVars PROVE TrackerRest'
  OBVIOUS
<1>1. CASE UNCHANGED trackerVars
  BY <1>1 DEF trackerVars, TrackerRest
<1> QED
  BY <1>1, AskForFits, LooksFit, ListWritesFit, LabelWritesFit, WorkersLabel DEF TrackerNext

(* The statuses keep their types.                                          *)
LEMMA TrackerTypes == TrackerInit /\ [][TrackerNext]_trackerVars => []TrackerTypeOK
<1>1. TrackerInit => TrackerRest
  <2> SUFFICES ASSUME TrackerInit PROVE TrackerRest
    OBVIOUS
  <2>1. edit \in [Cells -> CellType]
    BY NoEditIs DEF TrackerInit
  <2>2. editsLeft \in 0..MaxEdits
    BY TrackerAssumption DEF TrackerInit
  <2>3. labelling \in [TrackedApps -> LabellingType]
    BY NoEditIs DEF TrackerInit
  <2> QED
    BY <2>1, <2>2, <2>3 DEF TrackerInit, TrackerRest, Labels
<1>2. TrackerRest => TrackerTypeOK
  BY DEF TrackerRest, TrackerTypeOK, CellType, LabellingType, Labels
<1> QED
  BY <1>1, <1>2, TrackerRestStep, PTL

-----------------------------------------------------------------------------
(*****************************************************************************)
(* The page of applications.                                                 *)
(*****************************************************************************)

(* A list of the page, and an action on selected rows.                     *)
RowLists == [Rows -> RowStates]

(* An action on selected rows: what it is, how far, and for which view.    *)
BulkType ==
  [what : {"none", "delete", "send"}, pc : {"idle", "confirm", "server", "answer", "refresh"},
   ids : SUBSET Rows, queued : BOOLEAN, on : Views \cup {"no view"}]

(* What the types of the page rest on.                                     *)
PageRest ==
  /\ view \in Views
  /\ listed \in [Views -> RowLists \cup {Absent}]
  /\ fetches \in [Views -> RowLists \cup {Nothing, Asked}]
  /\ applications \in RowLists
  /\ selection \subseteq Rows /\ bulk \in BulkType
  /\ joinedFirst \in BOOLEAN

(* No action is under way.                                                 *)
LEMMA NoBulkIs == NoBulk \in BulkType /\ NoBulk.ids = {}
BY DEF NoBulk, BulkType

(* What a refresh makes of the fetches.                                    *)
LEMMA RefreshFits ==
  ASSUME PageRest, RefreshList
  PROVE  fetches' \in [Views -> RowLists \cup {Nothing, Asked}]
<1>1. Refetched(view) \in RowLists \cup {Nothing, Asked}
  BY DEF PageRest, Refetched
<1> QED
  BY <1>1 DEF PageRest, RefreshList

(* The fetches alone change.                                               *)
LEMMA FetchesFit ==
  ASSUME PageRest, fetches' \in [Views -> RowLists \cup {Nothing, Asked}],
         listed' \in [Views -> RowLists \cup {Absent}],
         UNCHANGED <<view, applications, selection, bulk, joinedFirst>>
  PROVE  PageRest'
BY DEF PageRest

(* A list that is read, shown, or not.                                     *)
LEMMA FetchStepFits ==
  ASSUME PageRest, NEW v \in Views, ReadRows(v) \/ FetchAnswer(v) \/ FetchFails(v)
  PROVE  PageRest'
<1>0. /\ fetches \in [Views -> RowLists \cup {Nothing, Asked}] /\ applications \in RowLists
      /\ listed \in [Views -> RowLists \cup {Absent}]
  BY DEF PageRest
<1>1. CASE ReadRows(v)
  <2>1. fetches' \in [Views -> RowLists \cup {Nothing, Asked}]
    BY <1>0, <1>1 DEF ReadRows
  <2> QED
    BY <1>0, <1>1, <2>1, FetchesFit DEF ReadRows
<1>2. CASE FetchAnswer(v)
  <2>1. fetches[v] \in RowLists
    BY <1>0, <1>2 DEF FetchAnswer
  <2>2. /\ fetches' \in [Views -> RowLists \cup {Nothing, Asked}]
        /\ listed' \in [Views -> RowLists \cup {Absent}]
    BY <1>0, <1>2, <2>1 DEF FetchAnswer
  <2> QED
    BY <1>2, <2>2, FetchesFit DEF FetchAnswer
<1>3. CASE FetchFails(v)
  <2>1. fetches' \in [Views -> RowLists \cup {Nothing, Asked}]
    BY <1>0, <1>3 DEF FetchFails
  <2> QED
    BY <1>0, <1>3, <2>1, FetchesFit DEF FetchFails
<1> QED
  BY <1>1, <1>2, <1>3

(* The other view is a view.                                               *)
LEMMA OtherViewIs == ASSUME NEW v \in Views PROVE OtherView(v) \in Views
<1>1. PICK w \in Views : w # v
  BY PageAssumption
<1> QED
  BY <1>1 DEF OtherView

(* What is shown, selected and ready to send are rows.                     *)
LEMMA VisibleAre == Visible \subseteq Rows /\ Selected \subseteq Rows /\ Sendable \subseteq Rows
BY DEF Visible, Selected, Sendable

(* The bulk action alone changes, and the selection.                       *)
LEMMA BulkFits ==
  ASSUME PageRest, bulk' \in BulkType, selection' \subseteq Rows,
         UNCHANGED <<view, listed, fetches, applications, joinedFirst>>
  PROVE  PageRest'
BY DEF PageRest

(* The questions before an action, and its end.                            *)
LEMMA BulkStepFits ==
  ASSUME PageRest, AskDelete \/ ConfirmDelete \/ BulkEnds \/ AskSend
  PROVE  PageRest'
<1>0. bulk \in BulkType /\ selection \subseteq Rows
  BY DEF PageRest
<1>1. CASE AskDelete
  <2>1. bulk' \in BulkType
    BY <1>1, NoBulkIs DEF AskDelete, BulkType
  <2> QED
    BY <1>0, <1>1, <2>1, BulkFits DEF AskDelete
<1>2. CASE ConfirmDelete
  <2>1. [bulk EXCEPT !.pc = "server", !.ids = Selected] \in BulkType
    BY <1>0, VisibleAre DEF BulkType
  <2>2. bulk' \in BulkType
    BY <1>2, <2>1, NoBulkIs DEF ConfirmDelete
  <2> QED
    BY <1>0, <1>2, <2>2, BulkFits DEF ConfirmDelete
<1>3. CASE BulkEnds
  BY <1>3, BulkFits, NoBulkIs DEF BulkEnds
<1>4. CASE AskSend
  <2>1. bulk' \in BulkType
    BY <1>4, NoBulkIs, VisibleAre DEF AskSend, BulkType
  <2> QED
    BY <1>0, <1>4, <2>1, BulkFits DEF AskSend
<1> QED
  BY <1>1, <1>2, <1>3, <1>4

(* The deletion at the server, and its answer.                             *)
LEMMA DeletionFits ==
  ASSUME PageRest, BulkDelete \/ DeleteAnswer
  PROVE  PageRest'
<1>0. /\ bulk \in BulkType /\ applications \in RowLists /\ view \in Views
      /\ listed \in [Views -> RowLists \cup {Absent}]
  BY DEF PageRest
<1>1. CASE BulkDelete
  <2>1. [bulk EXCEPT !.pc = "answer"] \in BulkType
    BY <1>0 DEF BulkType
  <2>2. bulk' \in BulkType
    BY <1>1, <2>1, NoBulkIs DEF BulkDelete
  <2>3. [r \in Rows |-> IF r \in bulk.ids THEN "gone" ELSE applications[r]] \in RowLists
    BY <1>0 DEF RowLists, RowStates
  <2>4. applications' \in RowLists
    BY <1>0, <1>1, <2>3 DEF BulkDelete
  <2> QED
    BY <1>1, <2>2, <2>4 DEF BulkDelete, PageRest
<1>2. CASE DeleteAnswer
  <2>1. ASSUME NEW list \in RowLists \cup {Absent}
        PROVE  ListWithout(list, bulk.ids) \in RowLists \cup {Absent}
    BY DEF ListWithout, RowLists, RowStates
  <2>2. ListWithout(listed[view], bulk.ids) \in RowLists \cup {Absent}
    BY <1>0, <2>1
  <2>3. listed' \in [Views -> RowLists \cup {Absent}]
    BY <1>0, <1>2, <2>2 DEF DeleteAnswer
  <2>4. bulk' \in BulkType
    BY <1>0, <1>2 DEF DeleteAnswer, BulkType
  <2>5. joinedFirst' \in BOOLEAN /\ fetches' \in [Views -> RowLists \cup {Nothing, Asked}]
    BY <1>2, RefreshFits DEF DeleteAnswer, PageRest
  <2> QED
    BY <1>2, <2>3, <2>4, <2>5 DEF DeleteAnswer, PageRest
<1> QED
  BY <1>1, <1>2

(* A row is sent.                                                          *)
LEMMA SendFits ==
  ASSUME PageRest, NEW r \in Rows, BulkSend(r)
  PROVE  PageRest'
<1>0. /\ bulk \in BulkType /\ applications \in RowLists /\ view \in Views /\ selection \subseteq Rows
      /\ listed \in [Views -> RowLists \cup {Absent}]
  BY DEF PageRest
<1>1. applications' \in RowLists
  BY <1>0 DEF BulkSend, RowLists, RowStates
<1>2. listed' \in [Views -> RowLists \cup {Absent}]
  <2>1. CASE listed' = listed
    BY <1>0, <2>1
  <2>2. CASE Has(view) /\ listed' = [listed EXCEPT ![view][r] = "ordered"]
    <3>1. listed[view] \in RowLists
      BY <1>0, <2>2 DEF Has
    <3>2. [listed[view] EXCEPT ![r] = "ordered"] \in RowLists
      BY <3>1 DEF RowLists, RowStates
    <3> QED
      BY <1>0, <2>2, <3>2
  <2> QED
    BY <2>1, <2>2 DEF BulkSend
<1>3. PICK queued \in BOOLEAN :
        bulk' = IF bulk.ids = {r} THEN NoBulk ELSE [bulk EXCEPT !.ids = @ \ {r}, !.queued = queued]
  BY <1>0 DEF BulkSend, BulkType
<1>4. [bulk EXCEPT !.ids = @ \ {r}, !.queued = queued] \in BulkType
  BY <1>0 DEF BulkType
<1>5. bulk' \in BulkType
  BY <1>3, <1>4, NoBulkIs
<1>6. selection' \subseteq Rows /\ UNCHANGED <<view, fetches, joinedFirst>>
  BY <1>0 DEF BulkSend
<1> QED
  BY <1>1, <1>2, <1>5, <1>6 DEF PageRest

(* Every step of the page keeps its types.                                 *)
LEMMA PageRestStep == PageRest /\ [PageNext]_pageVars => PageRest'
<1> SUFFICES ASSUME PageRest, [PageNext]_pageVars PROVE PageRest'
  OBVIOUS
<1>1. CASE UNCHANGED pageVars
  BY <1>1 DEF pageVars, PageRest
<1>2. CASE Refresh
  BY <1>2, RefreshFits, FetchesFit DEF Refresh, PageRest
<1>4. ASSUME NEW r \in Rows, Select(r) PROVE PageRest'
  BY <1>4, BulkFits DEF Select, PageRest
<1>3. CASE SwitchView
  <2>2. view' \in Views
    BY <1>3, OtherViewIs DEF SwitchView, PageRest
  <2>3. fetches' \in [Views -> RowLists \cup {Nothing, Asked}]
    BY <1>3 DEF SwitchView
  <2>4. selection' \subseteq Rows /\ UNCHANGED <<listed, applications, bulk, joinedFirst>>
    BY <1>3 DEF SwitchView, PageRest
  <2> QED
    BY <2>2, <2>3, <2>4 DEF PageRest
<1> QED
  BY <1>1, <1>2, <1>3, <1>4, FetchStepFits, BulkStepFits, DeletionFits, SendFits DEF PageNext

(* The page keeps its types.                                               *)
LEMMA PageTypes == PageInit /\ [][PageNext]_pageVars => []PageTypeOK
<1>1. PageInit => PageRest
  BY NoBulkIs DEF PageInit, PageRest, RowLists, RowStates
<1>2. PageRest => PageTypeOK
  BY DEF PageRest, PageTypeOK, BulkType, RowLists
<1> QED
  BY <1>1, <1>2, PageRestStep, PTL

-----------------------------------------------------------------------------
(*****************************************************************************)
(* The composer and the style.                                               *)
(*****************************************************************************)

(* What a field may hold, and what is asked for and submitted.             *)
TextFields == Texts \cup {NoText}

(* A preview that was asked for.                                           *)
PreviewType == [no : 1..MaxPreviews, jd : Texts, style : Styles \cup {NoStyle}]

(* A mail on screen.                                                       *)
EmailType == [for : TextFields, style : Styles \cup {"none"}]

(* What was submitted.                                                     *)
SubmissionType == [jd : TextFields, email : EmailType]

(* The text and its preview: the timer runs for a text only.               *)
PreviewRest ==
  /\ previewJd \in TextFields /\ email \in EmailType
  /\ autoSubmitted \in TextFields \cup {"null"}
  /\ {previewDue, generating} \subseteq BOOLEAN
  /\ previewNo \in 0..MaxPreviews /\ previewAsked \subseteq PreviewType

(* The description, and the preview that is due for it.                    *)
LetterRest ==
  /\ jdText \in TextFields /\ submission \in SubmissionType
  /\ {autoMode, canApply, touched} \subseteq BOOLEAN
  /\ previewDue => jdText # NoText

(* The style: what is being saved is a style.                              *)
StyleRest ==
  /\ {shownStyle, storedStyle, lastSent, chosen} \subseteq Styles
  /\ pendingStyle \in Styles \cup {NoStyle}
  /\ styleDue \in BOOLEAN /\ missed \in BOOLEAN
  /\ styleDue => pendingStyle \in Styles
  /\ stylePatch \in [style : Styles \cup {NoStyle}, applied : BOOLEAN]
  /\ stylePatch = NoPatch \/ stylePatch.style \in Styles

(* What the types of the composer rest on.                                 *)
ComposerRest == PreviewRest /\ LetterRest /\ StyleRest

(* An empty field, no mail and no submission.                              *)
LEMMA EmptyFits ==
  NoText \in TextFields /\ NoEmail \in EmailType /\ NoSubmission \in SubmissionType
<1>1. NoText \in TextFields /\ NoEmail \in EmailType
  BY DEF TextFields, NoEmail, EmailType
<1> QED
  BY <1>1 DEF NoSubmission, SubmissionType

(* What does not touch the style ...                                       *)
LEMMA StillStyles ==
  ASSUME StyleRest, UNCHANGED styleVars
  PROVE  StyleRest'
BY DEF StyleRest, styleVars, NoPatch

(* ... or the preview leaves its types alone.                              *)
LEMMA StillPreview ==
  ASSUME PreviewRest, UNCHANGED <<previewVars, autoSubmitted>>
  PROVE  PreviewRest'
BY DEF PreviewRest, previewVars

(* The effect on the preview.                                              *)
LEMMA EffectFits ==
  ASSUME PreviewRest, NEW text \in TextFields, NEW ready \in BOOLEAN, PreviewEffect(text, ready)
  PROVE  PreviewRest' /\ (previewDue' => text # NoText)
<1>1. UNCHANGED <<previewAsked, previewNo>> /\ previewDue' = (ready /\ text # NoText)
  BY DEF PreviewEffect
<1>2. /\ previewJd' \in TextFields /\ email' \in EmailType /\ generating' \in BOOLEAN
      /\ autoSubmitted' \in TextFields \cup {"null"}
  BY EmptyFits DEF PreviewEffect, PreviewRest
<1>3. previewDue' \in BOOLEAN /\ (previewDue' => text # NoText)
  BY <1>1
<1> QED
  BY <1>1, <1>2, <1>3 DEF PreviewRest

(* Text pasted, the mode switched, the setup changed.                      *)
LEMMA SettingsFit ==
  ASSUME ComposerRest, (\E t \in TextFields : Paste(t)) \/ SwitchMode \/ SetupChanges
  PROVE  ComposerRest'
<1>0. PreviewRest /\ LetterRest /\ StyleRest /\ jdText \in TextFields
      /\ canApply \in BOOLEAN /\ autoMode \in BOOLEAN /\ touched \in BOOLEAN /\ submission \in SubmissionType
  BY DEF ComposerRest, LetterRest
<1>1. ASSUME NEW t \in TextFields, Paste(t) PROVE ComposerRest'
  <2>1. PreviewEffect(t, canApply) /\ jdText' = t /\ touched' = TRUE
        /\ UNCHANGED <<autoMode, canApply, submission, styleVars>>
    BY <1>1 DEF Paste
  <2>2. PreviewRest' /\ (previewDue' => t # NoText)
    BY <1>0, <2>1, EffectFits
  <2>3. LetterRest'
    BY <1>0, <2>1, <2>2 DEF LetterRest
  <2> QED
    BY <1>0, <2>1, <2>2, <2>3, StillStyles DEF ComposerRest
<1>2. CASE SetupChanges
  <2>1. PreviewEffect(jdText, ~canApply) /\ canApply' = ~canApply
        /\ UNCHANGED <<jdText, autoMode, submission, styleVars, touched>>
    BY <1>2 DEF SetupChanges
  <2>2. (~canApply) \in BOOLEAN
    OBVIOUS
  <2>3. PreviewRest' /\ (previewDue' => jdText # NoText)
    BY <1>0, <2>1, <2>2, EffectFits
  <2>4. LetterRest'
    BY <1>0, <2>1, <2>3 DEF LetterRest
  <2> QED
    BY <1>0, <2>1, <2>3, <2>4, StillStyles DEF ComposerRest
<1>3. CASE SwitchMode
  <2>1. autoMode' = ~autoMode /\ autoSubmitted' = "null" /\ touched' = TRUE
        /\ UNCHANGED <<jdText, canApply, previewVars, submission, styleVars>>
    BY <1>3 DEF SwitchMode
  <2>2. PreviewRest' /\ LetterRest'
    BY <1>0, <2>1 DEF PreviewRest, LetterRest, previewVars
  <2> QED
    BY <1>0, <2>1, <2>2, StillStyles DEF ComposerRest
<1> QED
  BY <1>1, <1>2, <1>3

(* Previews asked for, written, shown or failed.                           *)
LEMMA PreviewsFit ==
  ASSUME ComposerRest,
         AskPreview \/ \E r \in previewAsked : WriteEmail(r) \/ PreviewAnswer(r) \/ PreviewFails(r)
  PROVE  ComposerRest'
<1>0. /\ PreviewRest /\ LetterRest /\ StyleRest
      /\ {storedStyle} \subseteq Styles /\ previewAsked \subseteq PreviewType /\ MaxPreviews \in Nat
      /\ previewNo \in 0..MaxPreviews /\ jdText \in TextFields
      /\ previewJd \in TextFields /\ email \in EmailType /\ {previewDue, generating} \subseteq BOOLEAN
      /\ autoSubmitted \in TextFields \cup {"null"} /\ (previewDue => jdText # NoText)
  BY ComposerAssumption DEF ComposerRest, PreviewRest, LetterRest, StyleRest
<1>1. ASSUME UNCHANGED <<jdText, autoMode, canApply, submission, touched, styleVars>>,
             previewDue' => previewDue
      PROVE  LetterRest' /\ StyleRest'
  BY <1>0, <1>1, StillStyles DEF LetterRest
<1>2. CASE AskPreview
  <2> DEFINE r == [no |-> previewNo + 1, jd |-> jdText, style |-> NoStyle]
  <2>1. previewNo + 1 \in 1..MaxPreviews /\ previewNo + 1 \in 0..MaxPreviews
    BY <1>0, <1>2 DEF AskPreview
  <2>2. jdText \in Texts
    BY <1>0, <1>2 DEF AskPreview, TextFields
  <2>3. r \in PreviewType
    BY <2>1, <2>2 DEF PreviewType
  <2>4. /\ previewDue' = FALSE /\ generating' = TRUE /\ previewNo' = previewNo + 1
        /\ previewAsked' = previewAsked \cup {r}
        /\ UNCHANGED <<jdText, autoMode, canApply, previewJd, email, autoSubmitted, submission, styleVars, touched>>
    BY <1>2 DEF AskPreview
  <2> HIDE DEF r
  <2>5. previewAsked' \subseteq PreviewType
    BY <1>0, <2>3, <2>4
  <2>6. PreviewRest'
    BY <1>0, <2>1, <2>4, <2>5 DEF PreviewRest
  <2> QED
    BY <1>1, <2>4, <2>6 DEF ComposerRest
<1>3. ASSUME NEW r \in previewAsked, WriteEmail(r) PROVE ComposerRest'
  <2>1. [r EXCEPT !.style = storedStyle] \in PreviewType
    BY <1>0, <1>3 DEF PreviewType
  <2>2. /\ previewAsked' = (previewAsked \ {r}) \cup {[r EXCEPT !.style = storedStyle]}
        /\ UNCHANGED <<jdText, autoMode, canApply, previewDue, previewNo, previewJd, email, generating,
                       autoSubmitted, submission, styleVars, touched>>
    BY <1>3 DEF WriteEmail
  <2>3. PreviewRest'
    BY <1>0, <2>1, <2>2 DEF PreviewRest
  <2> QED
    BY <1>1, <2>2, <2>3 DEF ComposerRest
<1>4. ASSUME NEW r \in previewAsked, PreviewAnswer(r) PROVE ComposerRest'
  <2>1. r.jd \in Texts /\ r.style \in Styles
    BY <1>0, <1>4 DEF PreviewType, PreviewAnswer
  <2>2. [for |-> r.jd, style |-> r.style] \in EmailType /\ r.jd \in TextFields
    BY <2>1 DEF EmailType, TextFields
  <2>3. email' \in EmailType /\ previewJd' \in TextFields /\ generating' \in BOOLEAN
    BY <1>0, <1>4, <2>2 DEF PreviewAnswer, PreviewedText
  <2>4. /\ previewAsked' \subseteq previewAsked
        /\ UNCHANGED <<jdText, autoMode, canApply, previewDue, previewNo, autoSubmitted, submission, styleVars, touched>>
    BY <1>4 DEF PreviewAnswer
  <2>5. PreviewRest'
    BY <1>0, <2>3, <2>4 DEF PreviewRest
  <2> QED
    BY <1>1, <2>4, <2>5 DEF ComposerRest
<1>5. ASSUME NEW r \in previewAsked, PreviewFails(r) PROVE ComposerRest'
  <2>1. /\ previewAsked' \subseteq previewAsked /\ generating' = (generating /\ ~Current(r))
        /\ UNCHANGED <<jdText, autoMode, canApply, previewDue, previewNo, previewJd, email,
                       autoSubmitted, submission, styleVars, touched>>
    BY <1>5 DEF PreviewFails
  <2>2. generating' \in BOOLEAN
    BY <2>1
  <2>3. PreviewRest'
    BY <1>0, <2>1, <2>2 DEF PreviewRest
  <2> QED
    BY <1>1, <2>1, <2>3 DEF ComposerRest
<1> QED
  BY <1>2, <1>3, <1>4, <1>5

(* Submissions, by hand and by themselves.                                 *)
LEMMA SubmissionFits ==
  ASSUME ComposerRest, Submit \/ AutoSubmit \/ Submitted \/ SubmissionFails
  PROVE  ComposerRest'
<1>0. /\ PreviewRest /\ LetterRest /\ StyleRest /\ jdText \in TextFields /\ email \in EmailType
      /\ canApply \in BOOLEAN /\ touched \in BOOLEAN /\ submission \in SubmissionType
  BY DEF ComposerRest, PreviewRest, LetterRest
<1>1. [jd |-> jdText, email |-> email] \in SubmissionType
  BY <1>0 DEF SubmissionType
<1>2. CASE Submit
  <2>1. LetterRest'
    BY <1>0, <1>1, <1>2 DEF Submit, LetterRest, previewVars
  <2>2. PreviewRest' /\ StyleRest'
    BY <1>0, <1>2, StillPreview, StillStyles DEF Submit
  <2> QED
    BY <2>1, <2>2 DEF ComposerRest
<1>3. CASE AutoSubmit
  <2>1. submission' \in SubmissionType /\ touched' \in BOOLEAN
    BY <1>0, <1>1, <1>3 DEF AutoSubmit
  <2>2. /\ autoSubmitted' = jdText
        /\ UNCHANGED <<jdText, autoMode, canApply, previewVars, styleVars>>
    BY <1>3 DEF AutoSubmit
  <2>3. PreviewRest' /\ LetterRest'
    BY <1>0, <2>1, <2>2 DEF PreviewRest, LetterRest, previewVars
  <2> QED
    BY <1>0, <2>2, <2>3, StillStyles DEF ComposerRest
<1>4. CASE Submitted
  <2>1. /\ submission' = NoSubmission /\ jdText' = NoText /\ PreviewEffect(NoText, canApply)
        /\ UNCHANGED <<autoMode, canApply, styleVars, touched>>
    BY <1>4 DEF Submitted
  <2>2. PreviewRest' /\ ~previewDue'
    BY <1>0, <2>1, EffectFits, EmptyFits
  <2>3. LetterRest'
    BY <1>0, <2>1, <2>2, EmptyFits DEF LetterRest
  <2> QED
    BY <1>0, <2>1, <2>2, <2>3, StillStyles DEF ComposerRest
<1>5. CASE SubmissionFails
  <2>1. LetterRest'
    BY <1>0, <1>5, EmptyFits DEF SubmissionFails, LetterRest, previewVars
  <2>2. PreviewRest' /\ StyleRest'
    BY <1>0, <1>5, StillPreview, StillStyles DEF SubmissionFails
  <2> QED
    BY <2>1, <2>2 DEF ComposerRest
<1> QED
  BY <1>2, <1>3, <1>4, <1>5

(* What is shown becomes a style.                                          *)
LEMMA ShowingFits ==
  ASSUME PreviewRest, LetterRest, NEW s \in Styles, Shows(s),
         UNCHANGED <<jdText, autoMode, canApply, submission, touched>>
  PROVE  PreviewRest' /\ LetterRest' /\ shownStyle' = s
<1>0. canApply \in BOOLEAN /\ jdText \in TextFields
  BY DEF LetterRest
<1>1. CASE PreviewEffect(jdText, canApply)
  <2>1. PreviewRest' /\ (previewDue' => jdText # NoText)
    BY <1>0, <1>1, EffectFits
  <2> QED
    BY <2>1 DEF LetterRest, Shows
<1>2. CASE UNCHANGED <<previewVars, autoSubmitted>>
  <2>1. PreviewRest'
    BY <1>2, StillPreview
  <2> QED
    BY <1>2, <2>1 DEF LetterRest, Shows, previewVars
<1> QED
  BY <1>1, <1>2 DEF Shows

(* The style chosen, saved, or not.                                        *)
LEMMA StyleStepFits ==
  ASSUME ComposerRest,
         (\E s \in Styles : ChooseStyle(s)) \/ FlushStyle \/ StoreStyle \/ StyleStored \/ StylePatchFails
  PROVE  ComposerRest'
<1>0. PreviewRest /\ LetterRest /\ StyleRest
  BY DEF ComposerRest
<1>1. ASSUME UNCHANGED <<jdText, autoMode, canApply, previewVars, autoSubmitted, submission, touched>>
      PROVE  PreviewRest' /\ LetterRest'
  BY <1>0, <1>1, StillPreview DEF LetterRest, previewVars
<1>2. ASSUME NEW s \in Styles, ChooseStyle(s) PROVE ComposerRest'
  <2>1. /\ Shows(s) /\ chosen' = s /\ pendingStyle' = s /\ styleDue' = TRUE
        /\ UNCHANGED <<jdText, autoMode, canApply, submission, lastSent, stylePatch, storedStyle, missed, touched>>
    BY <1>2 DEF ChooseStyle
  <2>2. PreviewRest' /\ LetterRest' /\ shownStyle' = s
    BY <1>0, <2>1, ShowingFits
  <2>3. StyleRest'
    BY <1>0, <2>1, <2>2 DEF StyleRest, NoPatch
  <2> QED
    BY <2>2, <2>3 DEF ComposerRest
<1>3. CASE FlushStyle
  <2>1. pendingStyle \in Styles /\ stylePatch \in [style : Styles \cup {NoStyle}, applied : BOOLEAN]
        /\ (stylePatch = NoPatch \/ stylePatch.style \in Styles)
    BY <1>0, <1>3 DEF FlushStyle, StyleRest
  <2>2. /\ stylePatch' \in [style : Styles \cup {NoStyle}, applied : BOOLEAN]
        /\ stylePatch' = NoPatch \/ stylePatch'.style \in Styles
    BY <1>3, <2>1 DEF FlushStyle
  <2>3. missed' \in BOOLEAN
    BY <1>0, <1>3 DEF FlushStyle, StyleRest
  <2>4. /\ styleDue' = FALSE
        /\ UNCHANGED <<jdText, autoMode, canApply, previewVars, autoSubmitted, submission, shownStyle,
                       pendingStyle, lastSent, storedStyle, chosen, touched>>
    BY <1>3 DEF FlushStyle
  <2>5. StyleRest'
    BY <1>0, <2>2, <2>3, <2>4 DEF StyleRest, NoPatch
  <2> QED
    BY <1>1, <2>4, <2>5 DEF ComposerRest
<1>4. CASE StoreStyle
  <2>1. stylePatch.style \in Styles
    BY <1>0, <1>4 DEF StoreStyle, StyleRest
  <2>2. stylePatch' = [stylePatch EXCEPT !.applied = TRUE] /\ storedStyle' = stylePatch.style
    BY <1>4 DEF StoreStyle
  <2>3. stylePatch' \in [style : Styles \cup {NoStyle}, applied : BOOLEAN] /\ stylePatch'.style \in Styles
    BY <1>0, <2>1, <2>2 DEF StyleRest
  <2>4. UNCHANGED <<jdText, autoMode, canApply, previewVars, autoSubmitted, submission, shownStyle,
                    pendingStyle, lastSent, styleDue, chosen, missed, touched>>
    BY <1>4 DEF StoreStyle
  <2>5. StyleRest'
    BY <1>0, <2>1, <2>2, <2>3, <2>4 DEF StyleRest, NoPatch
  <2> QED
    BY <1>1, <2>4, <2>5 DEF ComposerRest
<1>5. CASE StyleStored
  <2>1. stylePatch.style \in Styles
    BY <1>0, <1>5 DEF StyleStored, StyleRest, NoPatch
  <2>2. /\ Shows(stylePatch.style) /\ lastSent' = stylePatch.style /\ stylePatch' = NoPatch
        /\ UNCHANGED <<jdText, autoMode, canApply, submission, pendingStyle, styleDue, storedStyle, chosen,
                       missed, touched>>
    BY <1>5 DEF StyleStored
  <2>3. PreviewRest' /\ LetterRest' /\ shownStyle' = stylePatch.style
    BY <1>0, <2>1, <2>2, ShowingFits
  <2>4. StyleRest'
    BY <1>0, <2>1, <2>2, <2>3 DEF StyleRest, NoPatch
  <2> QED
    BY <2>3, <2>4 DEF ComposerRest
<1>6. CASE StylePatchFails
  <2>1. /\ stylePatch' = NoPatch /\ missed' = TRUE
        /\ UNCHANGED <<jdText, autoMode, canApply, previewVars, autoSubmitted, submission, shownStyle,
                       pendingStyle, lastSent, styleDue, storedStyle, chosen, touched>>
    BY <1>6 DEF StylePatchFails
  <2>2. StyleRest'
    BY <1>0, <2>1 DEF StyleRest, NoPatch
  <2> QED
    BY <1>1, <2>1, <2>2 DEF ComposerRest
<1> QED
  BY <1>2, <1>3, <1>4, <1>5, <1>6

(* Every step of the composer keeps its types.                             *)
LEMMA ComposerRestStep == ComposerRest /\ [ComposerNext]_composerVars => ComposerRest'
<1> SUFFICES ASSUME ComposerRest, [ComposerNext]_composerVars PROVE ComposerRest'
  OBVIOUS
<1>1. CASE UNCHANGED composerVars
  <2>1. UNCHANGED <<previewVars, autoSubmitted>> /\ UNCHANGED styleVars
        /\ UNCHANGED <<jdText, autoMode, canApply, submission, touched>>
    BY <1>1 DEF composerVars
  <2>2. LetterRest'
    BY <2>1 DEF ComposerRest, LetterRest, previewVars
  <2> QED
    BY <2>1, <2>2, StillPreview, StillStyles DEF ComposerRest
<1> QED
  BY <1>1, SettingsFit, PreviewsFit, SubmissionFits, StyleStepFits DEF ComposerNext, TextFields

(* The composer keeps its types.                                           *)
LEMMA ComposerTypes == ComposerInit /\ [][ComposerNext]_composerVars => []ComposerTypeOK
<1>1. ComposerInit => ComposerRest
  <2> SUFFICES ASSUME ComposerInit PROVE ComposerRest
    OBVIOUS
  <2>1. PICK s \in Styles : shownStyle = s /\ lastSent = s /\ storedStyle = s /\ chosen = s
    BY DEF ComposerInit
  <2>2. StyleRest
    BY <2>1 DEF ComposerInit, StyleRest, NoPatch
  <2>3. previewNo \in 0..MaxPreviews
    BY ComposerAssumption DEF ComposerInit
  <2>4. PreviewRest
    BY <2>3, EmptyFits DEF ComposerInit, PreviewRest
  <2>5. LetterRest
    BY EmptyFits DEF ComposerInit, LetterRest
  <2> QED
    BY <2>2, <2>4, <2>5 DEF ComposerRest
<1>2. ComposerRest => ComposerTypeOK
  BY DEF ComposerRest, PreviewRest, LetterRest, StyleRest, ComposerTypeOK, TextFields, PreviewType,
         EmailType, SubmissionType
<1> QED
  BY <1>1, <1>2, ComposerRestStep, PTL

-----------------------------------------------------------------------------
(*****************************************************************************)
(* The details sheet: what may be mailed are letters.                        *)
(*****************************************************************************)

(* What the types need beside the invariant of the mail proof.             *)
MailRest == due \cup own \subseteq Letters /\ rewritten \in BOOLEAN /\ orders \in 0..MaxSendOrders

(* An order may mail letters.                                               *)
LEMMA QueuedRest ==
  ASSUME MailRest, NEW texts \in SUBSET Letters, Queued(texts)
  PROVE  due' \subseteq Letters /\ rewritten' \in BOOLEAN /\ orders' \in 0..MaxSendOrders
<1>1. orders' = orders + 1 /\ orders < MaxSendOrders /\ due' = texts /\ rewritten' = FALSE
  BY DEF Queued
<1>2. orders' \in 0..MaxSendOrders
  BY <1>1, LettersAssumption DEF MailRest
<1> QED
  BY <1>1, <1>2

(* A letter that is written may be mailed.                                 *)
LEMMA WritingRest ==
  ASSUME MailRest, NEW t \in Letters, WriteText(t), orders' = orders
  PROVE  MailRest'
<1>1. due' \subseteq due \cup {t} /\ own' \subseteq own \cup {t}
  BY DEF WriteText
<1>2. rewritten' \in BOOLEAN
  BY DEF WriteText
<1> QED
  BY <1>1, <1>2 DEF MailRest

(* A refused request prepares no order.                                    *)
LEMMA RefusalRest ==
  ASSUME MailRest, Refuse
  PROVE  MailRest'
  BY DEF MailRest, Refuse

(* Every step of the sheet, the server and the workers keeps them.         *)
LEMMA MailRestStep ==
  ASSUME EditInv, MailRest, [EditNext]_editVars
  PROVE  MailRest'
<1>1. /\ sheet \in SheetRow /\ letterRow \in Seen
      /\ loose \in [pc : {"none", "asked", "checked"}, text : Letters]
      /\ redo \in [pc : {"none", "queued", "read"}, text : Letters]
      /\ sheet.pc \in {"saving", "sending"} => sheet.what # NoLetter
  BY DEF EditInv, EditType
<1>2. /\ sheet.draft \in Letters \cup {NoLetter} /\ sheet.what \in Letters \cup {NoLetter}
      /\ letterRow.text \in Letters /\ loose.text \in Letters /\ redo.text \in Letters
  BY <1>1 DEF SheetRow, Seen
<1>3. CASE UNCHANGED <<due, own, rewritten, orders>>
  BY <1>3 DEF MailRest
<1>4. CASE PressSend \/ SaveCutOff \/ Refuse
  <2>1. (own' = {} \/ own' = {sheet.draft} \ {NoLetter}) /\ UNCHANGED <<due, rewritten, orders>>
    BY <1>4 DEF PressSend, SaveCutOff, Refuse
  <2> QED
    BY <1>2, <2>1 DEF MailRest
<1>5. CASE WritePatch
  BY <1>1, <1>2, <1>5, WritingRest DEF WritePatch
<1>6. CASE LooseWritten
  BY <1>2, <1>6, WritingRest DEF LooseWritten
<1>7. CASE CheckPatch
  BY <1>3, <1>7, RefusalRest DEF CheckPatch
<1>8. CASE OrderArrives
  <2>1. CASE Refuse
    BY <2>1, RefusalRest
  <2>2. CASE ~Refuse
    <3>1. own' = {} /\ (Queued(own) \/ UNCHANGED <<due, rewritten, orders>>)
      BY <1>8, <2>2 DEF OrderArrives
    <3>2. own \in SUBSET Letters
      BY DEF MailRest
    <3>3. due' \subseteq Letters /\ rewritten' \in BOOLEAN /\ orders' \in 0..MaxSendOrders
      <4>1. CASE Queued(own)
        BY <3>2, <4>1, QueuedRest
      <4>2. CASE UNCHANGED <<due, rewritten, orders>>
        BY <4>2 DEF MailRest
      <4> QED
        BY <3>1, <4>1, <4>2
    <3> QED
      BY <3>1, <3>3 DEF MailRest
  <2> QED
    BY <2>1, <2>2
<1>9. CASE ListSend \/ ContinueArrives
  <2>1. CASE Refuse
    BY <2>1, RefusalRest
  <2>2. CASE ~Refuse
    <3>1. own' = own /\ Queued({letterRow.text})
      BY <1>9, <2>2 DEF ListSend, ContinueArrives
    <3>2. {letterRow.text} \in SUBSET Letters /\ own \subseteq Letters
      BY <1>2 DEF MailRest
    <3>3. due' \subseteq Letters /\ rewritten' \in BOOLEAN /\ orders' \in 0..MaxSendOrders
      BY <3>1, <3>2, QueuedRest
    <3> QED
      BY <3>1, <3>2, <3>3 DEF MailRest
  <2> QED
    BY <2>1, <2>2
<1>10. CASE RetryArrives
  BY <1>3, <1>10, RefusalRest DEF RetryArrives
<1>11. CASE ReadLetter \/ LetterFails \/ LetterGoesOut
  <2>1. (due' = {} \/ due' = due) /\ own' = own /\ orders' = orders /\ rewritten' \in {FALSE, rewritten}
    BY <1>11 DEF ReadLetter, LetterFails, LetterGoesOut
  <2> QED
    BY <2>1 DEF MailRest
<1>12. ASSUME NEW next \in {"generated", "needs_review", "failed"}, NEW b \in BOOLEAN,
              Processed(next, b)
       PROVE  MailRest'
  <2>1. /\ letterRow' = [status |-> next, text |-> IF next = "failed" THEN letterRow.text ELSE redo.text]
        /\ own' \subseteq own \cup {letterRow'.text}
        /\ Queued({redo.text}) \/ UNCHANGED <<due, rewritten, orders>>
    BY <1>12 DEF Processed
  <2>2. own' \subseteq Letters
    BY <1>2, <2>1 DEF MailRest
  <2>3. due' \subseteq Letters /\ rewritten' \in BOOLEAN /\ orders' \in 0..MaxSendOrders
    <3>1. CASE Queued({redo.text})
      <4>1. {redo.text} \in SUBSET Letters
        BY <1>2
      <4> QED
        BY <3>1, <4>1, QueuedRest
    <3>2. CASE UNCHANGED <<due, rewritten, orders>>
      BY <3>2 DEF MailRest
    <3> QED
      BY <2>1, <3>1, <3>2
  <2> QED
    BY <2>2, <2>3 DEF MailRest
<1>13. CASE UNCHANGED editVars
  BY <1>3, <1>13 DEF editVars
<1>14. CASE \/ AskDetail \/ ReadForDetail \/ DetailArrives \/ DetailFails \/ PressSave
            \/ PressContinue \/ PressRetry \/ LooseChecked \/ MarkedSent \/ ReadForProcess
            \/ ProcessAgain
  BY <1>3, <1>14 DEF AskDetail, ReadForDetail, DetailArrives, DetailFails, PressSave, PressContinue,
                     PressRetry, LooseChecked, MarkedSent, ReadForProcess, ProcessAgain
<1>15. ASSUME NEW t \in Letters \cup {NoLetter}, TypeText(t) PROVE MailRest'
  BY <1>3, <1>15 DEF TypeText
<1>16. ASSUME NEW t \in Letters, OtherSaves(t) PROVE MailRest'
  BY <1>3, <1>16 DEF OtherSaves
<1> QED
  BY <1>4, <1>5, <1>6, <1>7, <1>8, <1>9, <1>10, <1>11, <1>12, <1>13, <1>14, <1>15, <1>16 DEF EditNext

(* The details sheet keeps its types (EditTypeOK).                         *)
LEMMA EditTypes == EditInit /\ [][EditNext]_editVars => []EditTypeOK
<1>1. EditInit => MailRest
  <2> SUFFICES ASSUME EditInit PROVE MailRest
    OBVIOUS
  <2>1. due = {} /\ own = {} /\ rewritten = FALSE /\ orders = 0
    BY DEF EditInit
  <2>2. orders \in 0..MaxSendOrders
    BY <2>1, LettersAssumption
  <2> QED
    BY <2>1, <2>2 DEF MailRest
<1>2. EditInv /\ MailRest => EditTypeOK
  <2> SUFFICES ASSUME EditInv, MailRest PROVE EditTypeOK
    OBVIOUS
  <2>1. EditType /\ sheet \in SheetRow
    BY DEF EditInv, EditType
  <2> QED
    BY <2>1 DEF MailRest, EditType, EditTypeOK, SheetRow
<1>3. EditInv /\ MailRest /\ [EditNext]_editVars => (EditInv /\ MailRest)'
  BY EditStep, MailRestStep
<1> QED
  BY <1>1, <1>2, <1>3, EditStart, PTL

-----------------------------------------------------------------------------
(*****************************************************************************)
(* Model promotion.                                                          *)
(*****************************************************************************)

(* The clicks are bounded, as the model has them.                          *)
ClicksAreBounded == deskClicks \in 0..MaxDeskClicks

(* A click is counted while there is room for it.                          *)
LEMMA DeskClicksStep ==
  ASSUME ClicksAreBounded, [PromotionNext]_promotionVars
  PROVE  ClicksAreBounded'
<1> USE DEF ClicksAreBounded
<1>1. CASE deskClicks' = deskClicks
  BY <1>1
<1>2. CASE deskClicks' # deskClicks
  <2>1. DeskClick
    <3>1. ASSUME NEW d \in Desks, DeskStep(d) PROVE DeskClick
      BY <1>2, <3>1
         DEF DeskStep, StartCertification, SelectHistory, Promote, PromotionFails, RunAnswered, RunGivenUp,
             AskPromotion, ReadLists, ListsFail, ShowLists, AskRemoval, Withdraw, RemovalFails
    <3> QED
      BY <1>2, <3>1 DEF PromotionNext, StoreRun, promotionVars
  <2>2. deskClicks < MaxDeskClicks /\ deskClicks' = deskClicks + 1
    BY <2>1 DEF DeskClick
  <2> QED
    BY <2>2, PromotionAssumption
<1> QED
  BY <1>1, <1>2

(* The desks of the administrators keep their types (PromotionTypeOK).     *)
LEMMA PromotionTypes == PromotionInit /\ [][PromotionNext]_promotionVars => []PromotionTypeOK
<1>1. PromotionInit => ClicksAreBounded
  BY PromotionAssumption DEF PromotionInit, ClicksAreBounded
<1>2. PromotionInv /\ ClicksAreBounded => PromotionTypeOK
  BY DEF ClicksAreBounded, PromotionInv, PromotionTypeOK, ChoiceType, DeskType, CallType
<1> QED
  BY <1>1, <1>2, PromotionStart, PromotionStep, DeskClicksStep, PTL

-----------------------------------------------------------------------------
(*****************************************************************************)
(* Certification: a refused run has made no attempt.                         *)
(*****************************************************************************)

(* A run is refused before its first attempt.                              *)
RefusedAtOnce == bench.pc = "refused" => Len(bench.runs) = 0

(* Nothing but the start of a run refuses it, and nothing leaves a refused *)
(* one.                                                                    *)
LEMMA RefusalComesFirst ==
  ASSUME BenchInv, RefusedAtOnce, [CertNext]_bench
  PROVE  RefusedAtOnce'
<1> DEFINE B == [pc : {"idle", "attempt", "saved", "refused"}, runs : Seq(RunType),
                 step : Steps, resume : 0..100, cost : Nat]
<1>1. bench \in B
  BY DEF BenchInv
<1>2. CASE bench' = bench
  BY <1>2 DEF RefusedAtOnce
<1>3. ASSUME NEW have \in SUBSET TextSources, NEW upload \in BOOLEAN, StartRun(have, upload)
      PROVE  RefusedAtOnce'
  <2>1. PICK pc \in {"attempt", "refused"} : bench' = [bench EXCEPT !.pc = pc]
    BY <1>3 DEF StartRun
  <2>2. bench'.runs = bench.runs /\ Len(bench.runs) = 0
    BY <1>1, <1>3, <2>1 DEF StartRun, BenchInv
  <2> QED
    BY <2>2 DEF RefusedAtOnce
<1>4. ASSUME NEW f, NEW cost, ParseResume(f, cost) \/ GenerateEmail(cost) PROVE RefusedAtOnce'
  <2>1. bench'.pc = "attempt"
    BY <1>1, <1>4 DEF ParseResume, GenerateEmail
  <2> QED
    BY <2>1 DEF RefusedAtOnce
<1>5. ASSUME NEW run, EndAttempt(run) PROVE RefusedAtOnce'
  <2>1. bench'.pc = IF Len(bench.runs) + 1 = AttemptCount THEN "saved" ELSE "attempt"
    BY <1>1, <1>5 DEF EndAttempt
  <2> QED
    BY <2>1 DEF RefusedAtOnce
<1>6. ASSUME NEW score, NEW cost, JudgeEmail(score, cost) PROVE RefusedAtOnce'
  BY <1>5, <1>6 DEF JudgeEmail
<1>7. CASE AttemptFails
  BY <1>5, <1>7 DEF AttemptFails
<1> QED
  BY <1>2, <1>3, <1>4, <1>6, <1>7 DEF CertNext

(* The certification keeps its types (CertTypeOK).                         *)
LEMMA CertTypes == CertInit /\ [][CertNext]_bench => []CertTypeOK
<1>1. CertInit => RefusedAtOnce
  BY DEF CertInit, RefusedAtOnce
<1>2. BenchInv /\ RefusedAtOnce => CertTypeOK
  <2> SUFFICES ASSUME BenchInv, RefusedAtOnce PROVE CertTypeOK
    OBVIOUS
  <2>1. /\ bench.pc \in {"idle", "attempt", "saved", "refused"} /\ bench.runs \in Seq(RunType)
        /\ bench.step \in Steps /\ bench.resume \in 0..100 /\ bench.cost \in Nat
    BY DEF BenchInv
  <2>2. Len(bench.runs) <= AttemptCount
    <3>1. Len(bench.runs) \in Nat
      BY <2>1, LenProperties
    <3> QED
      BY <2>1, <3>1, CertificationAssumption DEF BenchInv, RefusedAtOnce
  <2> QED
    BY <2>1, <2>2 DEF CertTypeOK, RunType
<1> QED
  BY <1>1, <1>2, BenchStart, BenchStep, RefusalComesFirst, PTL

-----------------------------------------------------------------------------
(*****************************************************************************)
(* The calls of the providers.                                               *)
(*****************************************************************************)

(* What a request or a test may end with.                                  *)
Said == {"none", "ok", "retry", "give_up", "HEALTH_CHECK_TIMEOUT", "PROVIDER_TIMEOUT",
         "NETWORK_FAILURE", "AUTH_FAILURE", "AI_MODEL_INVALID", "PROVIDER_ERROR", "refused",
         "MODEL_REQUIRED", "INVALID_MODEL_FORMAT"}

(* A request or a test of a key.                                           *)
RequestType == [pc : {"idle", "asked", "failed", "ended"}, by : Adapters, use : {"json", "text", "test"},
                tries : 0..3, got : Failures, late : BOOLEAN, said : Said]

(* What the types of the calls rest on.                                    *)
CallsShape ==
  /\ ask \in RequestType
  /\ noted \in {"healthy", "invalid", "rate_limited", "quota_exceeded"}
  /\ nagged \in BOOLEAN

(* What a test says is one of the codes of the health check.               *)
LEMMA TestsSay ==
  ASSUME NEW f \in Failures, NEW by
  PROVE  TestSays(by, f) \in Said
<1>1. \A g : Verdict(g) \in Said
  BY DEF Verdict, Said, Transport
<1> QED
  BY <1>1 DEF TestSays, Said

(* A new request is a request.                                             *)
LEMMA NewRequestType ==
  ASSUME NEW by \in Adapters
  PROVE  NotAsked(by) \in RequestType
  BY NoTroubleIsMild DEF NotAsked, RequestType, Said

(* An adapter that throws, or asks a further time, has asked three times   *)
(* at most.                                                                *)
LEMMA ThrowKeepsShape ==
  ASSUME CallsShape, NEW f \in Failures, NEW retry \in BOOLEAN, Throw(f, retry)
  PROVE  ask' \in RequestType /\ noted' = noted
<1>1. ask \in RequestType /\ noted' = noted
  BY DEF CallsShape, Throw
<1>2. CASE retry /\ ask.tries < Attempts(ask.by, ask.use)
  <2>1. PICK n \in 0..3 : n = ask.tries + 1
    <3>1. ask.tries \in 0..3
      BY <1>1 DEF RequestType
    <3>2. Attempts(ask.by, ask.use) \in 1..3
      BY DEF Attempts
    <3> QED
      BY <1>2, <3>1, <3>2
  <2>2. ask' = [ask EXCEPT !.tries = n]
    BY <1>2, <2>1 DEF Throw
  <2> QED
    BY <1>1, <2>2 DEF RequestType
<1>3. CASE ~(retry /\ ask.tries < Attempts(ask.by, ask.use))
  <2>1. PICK said \in Said : ask' = [ask EXCEPT !.pc = "failed", !.got = f, !.said = said]
    BY <1>3 DEF Throw, Said
  <2> QED
    BY <1>1, <2>1 DEF RequestType
<1> QED
  BY <1>1, <1>2, <1>3

(* Every call, answer and verdict keeps the types.                         *)
LEMMA ShapeOfCalls == CallsShape /\ [CallsNext]_callsVars => CallsShape'
<1> SUFFICES ASSUME CallsShape, [CallsNext]_callsVars PROVE CallsShape'
  OBVIOUS
<1>1. /\ ask \in RequestType /\ nagged \in BOOLEAN /\ NoTrouble \in Failures
      /\ noted \in {"healthy", "invalid", "rate_limited", "quota_exceeded"}
  BY NoTroubleIsMild DEF CallsShape
<1>2. CASE UNCHANGED callsVars
  BY <1>2 DEF callsVars, CallsShape
<1>3. ASSUME NEW use \in {"json", "text", "test"}, NEW name, AskProvider(use, name) PROVE CallsShape'
  <2>1. PICK request \in RequestType : request = [NotAsked(ask.by) EXCEPT !.use = use]
    <3>1. NotAsked(ask.by) \in RequestType
      BY <1>1, NewRequestType DEF RequestType
    <3> QED
      BY <3>1 DEF RequestType
  <2>2. \/ \E said \in Said : ask' = [request EXCEPT !.pc = "ended", !.said = said]
        \/ ask' = [request EXCEPT !.pc = "asked", !.tries = 1]
    BY <1>3, <2>1 DEF AskProvider, ModelCode, Said
  <2>3. ask' \in RequestType
    <3>1. ASSUME NEW said \in Said, ask' = [request EXCEPT !.pc = "ended", !.said = said]
          PROVE  ask' \in RequestType
      BY <3>1 DEF RequestType
    <3>2. CASE ask' = [request EXCEPT !.pc = "asked", !.tries = 1]
      <4>1. PICK one \in 0..3 : one = 1
        OBVIOUS
      <4>2. ask' = [request EXCEPT !.pc = "asked", !.tries = one]
        BY <3>2, <4>1
      <4> QED
        BY <4>2 DEF RequestType
    <3> QED
      BY <2>2, <3>1, <3>2
  <2> QED
    BY <1>1, <1>3, <2>3 DEF AskProvider, CallsShape
<1>4. CASE TestPasses
  <2>1. ask' \in RequestType
    BY <1>1, <1>4 DEF TestPasses, RequestType, Said
  <2> QED
    BY <1>1, <1>4, <2>1 DEF TestPasses, CallsShape
<1>5. ASSUME NEW text, TextComes(text) PROVE CallsShape'
  <2>1. CASE Throw(NoTrouble, Api(ask.by, ask.tries) # "responses")
    <3>1. (Api(ask.by, ask.tries) # "responses") \in BOOLEAN
      OBVIOUS
    <3>2. ask' \in RequestType /\ noted' = noted
      BY <1>1, <2>1, <3>1, ThrowKeepsShape
    <3> QED
      BY <1>1, <1>5, <3>2 DEF TextComes, CallsShape
  <2>2. CASE ask' = [ask EXCEPT !.pc = "ended", !.said = "ok", !.got = NoTrouble] /\ UNCHANGED noted
    <3>1. ask' \in RequestType
      BY <1>1, <2>2 DEF RequestType, Said
    <3> QED
      BY <1>1, <1>5, <2>2, <3>1 DEF TextComes, CallsShape
  <2> QED
    BY <1>5, <2>1, <2>2 DEF TextComes
<1>6. CASE FailureComes
  <2>1. PICK f \in Failures :
          LET face == SeenBy(ask.by, f)
          IN  /\ Throw(face, Repeatable(face))
              /\ nagged' = (nagged \/ (Lasts(f) /\ ask'.pc = "asked"))
    BY <1>6 DEF FailureComes
  <2>2. PICK face \in Failures : face = SeenBy(ask.by, f)
    BY SeenShape
  <2>3. Repeatable(face) \in BOOLEAN
    BY DEF Repeatable
  <2>4. Throw(face, Repeatable(face))
    BY <2>1, <2>2
  <2>5. ask' \in RequestType /\ noted' = noted
    BY <2>3, <2>4, ThrowKeepsShape
  <2>6. nagged' \in BOOLEAN
    BY <2>1
  <2> QED
    BY <1>1, <2>5, <2>6 DEF CallsShape
<1>7. CASE TestFails \/ TestTimesOut
  <2>1. PICK f \in Failures, said \in Said, late \in BOOLEAN :
          ask' = [ask EXCEPT !.pc = "ended", !.got = f, !.late = late, !.said = said]
    <3>1. CASE TestFails
      <4>1. PICK f \in Failures :
              ask' = [ask EXCEPT !.pc = "ended", !.got = f, !.said = TestSays(ask.by, f)]
        BY <3>1 DEF TestFails
      <4>2. PICK said \in Said : said = TestSays(ask.by, f)
        BY TestsSay
      <4>3. PICK late \in BOOLEAN : late = ask.late
        BY <1>1 DEF RequestType
      <4>4. ask' = [ask EXCEPT !.pc = "ended", !.got = f, !.late = late, !.said = said]
        BY <1>1, <4>1, <4>2, <4>3 DEF RequestType
      <4> QED
        BY <4>4
    <3>2. CASE TestTimesOut
      <4>1. PICK f \in Failures :
              ask' = [ask EXCEPT !.pc = "ended", !.got = f, !.late = TRUE,
                                 !.said = IF ask.by = "local" /\ f.status # 0 THEN "refused"
                                          ELSE "HEALTH_CHECK_TIMEOUT"]
        BY <3>2 DEF TestTimesOut
      <4>2. PICK said \in Said : said = IF ask.by = "local" /\ f.status # 0 THEN "refused"
                                         ELSE "HEALTH_CHECK_TIMEOUT"
        BY DEF Said
      <4>3. ask' = [ask EXCEPT !.pc = "ended", !.got = f, !.late = TRUE, !.said = said]
        BY <4>1, <4>2
      <4> QED
        BY <4>3
    <3> QED
      BY <1>7, <3>1, <3>2
  <2>2. ask' \in RequestType
    BY <1>1, <2>1 DEF RequestType
  <2> QED
    BY <1>1, <1>7, <2>2 DEF TestFails, TestTimesOut, CallsShape
<1>8. CASE Believe
  <2>1. ask' \in RequestType
    BY <1>1, <1>8 DEF Believe, RequestType
  <2>2. noted' \in {noted, "invalid", "quota_exceeded"}
    BY <1>8 DEF Believe, Transition
  <2> QED
    BY <1>1, <1>8, <2>1, <2>2 DEF Believe, CallsShape
<1> QED
  BY <1>2, <1>3, <1>4, <1>5, <1>6, <1>7, <1>8 DEF CallsNext

(* The calls of the providers keep their types (CallsTypeOK).              *)
LEMMA CallsTypes == CallsInit /\ [][CallsNext]_callsVars => []CallsTypeOK
<1>1. CallsInit => CallsShape
  BY NewRequestType DEF CallsInit, CallsShape
<1>2. CallsShape => CallsTypeOK
  BY DEF CallsShape, CallsTypeOK, RequestType, Said
<1> QED
  BY <1>1, <1>2, ShapeOfCalls, PTL

-----------------------------------------------------------------------------
(*****************************************************************************)
(* The parts whose invariant holds their types.                              *)
(*****************************************************************************)

(* The tabs keep their types (TabsTypeOK).                                 *)
LEMMA TabsTypes == TabsInit /\ [][TabsNext]_tabsVars => []TabsTypeOK
<1>1. TabsInv => TabsTypeOK
  BY DEF TabsInv
<1> QED
  BY <1>1, TabsStart, TabsStepKeepsLeadersKnown, PTL

(* The server's connections keep their types (RegistryTypeOK).             *)
LEMMA RegistryTypes == RegistryInit /\ [][RegistryNext]_registryVars => []RegistryTypeOK
<1>1. RegistryInv => RegistryTypeOK
  BY DEF RegistryInv
<1> QED
  BY <1>1, RegistryStart, RegistryStepKeepsNewest, PTL

(* The queries keep their types (RetryTypeOK).                             *)
LEMMA RetryTypes == RetryInit /\ [][RetryNext]_retryVars => []RetryTypeOK
<1>1. RetryInv => RetryTypeOK
  BY DEF RetryInv
<1> QED
  BY <1>1, RetryStart, RetryStepKeepsRepeats, PTL

(* The resume jobs keep their types (ResumeTypeOK).                        *)
LEMMA ResumeTypes == ResumeInit /\ [][ResumeNext]_resumeVars => []ResumeTypeOK
<1>1. ResumeInv => ResumeTypeOK
  BY DEF ResumeInv
<1> QED
  BY <1>1, ResumeStart, ResumeStep, PTL

(* The extension's session keeps its types (ExtensionTypeOK).              *)
LEMMA ExtensionTypes == ExtensionInit /\ [][ExtensionNext]_extensionVars => []ExtensionTypeOK
<1>1. ExtensionInv => ExtensionTypeOK
  BY DEF ExtensionInv
<1> QED
  BY <1>1, ExtensionStart, ExtensionStep, PTL

(* The rules for descriptions keep their types (ParsingTypeOK).            *)
LEMMA ParsingTypes == ParsingInit /\ [][ParsingNext]_parsingVars => []ParsingTypeOK
<1>1. ParsingInv => ParsingTypeOK
  BY DEF ParsingInv
<1> QED
  BY <1>1, ParsingStart, ParsingStep, PTL

(* The drafts keep their types (DraftTypeOK).                              *)
LEMMA DraftTypes == DraftInit /\ [][DraftNext]_draftVars => []DraftTypeOK
<1>1. DraftInv => DraftTypeOK
  BY DEF DraftInv
<1> QED
  BY <1>1, DraftStart, DraftStep, PTL

(* The extension's popup keeps its types (StatusTypeOK).                   *)
LEMMA StatusTypesStay == StatusInit /\ [][StatusNext]_statusVars => []StatusTypeOK
<1>1. StatusInv => StatusTypeOK
  BY DEF StatusInv
<1> QED
  BY <1>1, StatusStart, StatusStep, PTL

(* The LinkedIn page keeps its types (PostTypeOK).                         *)
LEMMA PostTypes == PostInit /\ [][PostNext]_postVars => []PostTypeOK
<1>1. PostInv => PostTypeOK
  BY DEF PostInv
<1> QED
  BY <1>1, PostStart, PostStep, PTL

(* The platform's AI keeps its types (AiTypeOK).                           *)
LEMMA AiTypes == AiInit /\ [][AiNext]_aiVars => []AiTypeOK
<1>1. AiInv => AiTypeOK
  BY DEF AiInv, AiShapes, AiReqType, PanelType, AiTypeOK
<1> QED
  BY <1>1, AiStart, AiStep, PTL

-----------------------------------------------------------------------------
(*****************************************************************************)
(* All parts side by side.                                                   *)
(*****************************************************************************)

(* Each part begins as it begins alone.                                    *)
LEMMA PartsBegin == MCInit =>
  /\ PublishInit /\ StreamInit /\ StoreInit /\ TabsInit /\ GatewayInit /\ ResumeInit
  /\ RegistryInit /\ RetryInit /\ ExtensionInit /\ TrackerInit /\ ComposerInit /\ PageInit
  /\ ParsingInit /\ DraftInit /\ StatusInit /\ PostInit /\ CertInit /\ PromotionInit /\ AiInit
  /\ CallsInit /\ EditInit
BY DEF MCInit

(* A step of the whole is a step of each part, or leaves it alone.         *)
LEMMA PartsStep ==
  ASSUME [MCNext]_vars
  PROVE  /\ [PublishNext]_pubVars
         /\ [StreamNext]_streamVars
         /\ [StoreNext]_storeVars
         /\ [TabsNext]_tabsVars
         /\ [GatewayNext]_gatewayVars
         /\ [ResumeNext]_resumeVars
         /\ [RegistryNext]_registryVars
         /\ [RetryNext]_retryVars
         /\ [ExtensionNext]_extensionVars
         /\ [TrackerNext]_trackerVars
         /\ [ComposerNext]_composerVars
         /\ [PageNext]_pageVars
         /\ [ParsingNext]_parsingVars
         /\ [DraftNext]_draftVars
         /\ [StatusNext]_statusVars
         /\ [PostNext]_postVars
         /\ [CertNext]_bench
         /\ [PromotionNext]_promotionVars
         /\ [AiNext]_aiVars
         /\ [CallsNext]_callsVars
         /\ [EditNext]_editVars
BY DEF MCNext, vars,
       OnlyPublish, OnlyStream, OnlyStore, OnlyTabs, OnlyGateway, OnlyResume, OnlyRegistry,
       OnlyRetry, OnlyExtension, OnlyTracker, OnlyComposer, OnlyPage, OnlyParsing, OnlyDraft,
       OnlyStatus, OnlyPost, OnlyCert, OnlyPromotion, OnlyAi, OnlyCalls, OnlyEdit

(* Whatever part moves, the state of every component keeps its type: no    *)
(* version, counter or queue leaves its bounds, and no row, page, request  *)
(* or process has a shape the code does not give it, for every value of    *)
(* the constants.                                                          *)
THEOREM PlatformKeepsItsTypes == MCSafetySpec => []PlatformTypeOK
<1>1. MCSafetySpec =>
        /\ [][PublishNext]_pubVars /\ [][StreamNext]_streamVars /\ [][StoreNext]_storeVars
        /\ [][TabsNext]_tabsVars /\ [][GatewayNext]_gatewayVars /\ [][ResumeNext]_resumeVars
        /\ [][RegistryNext]_registryVars /\ [][RetryNext]_retryVars
        /\ [][ExtensionNext]_extensionVars /\ [][TrackerNext]_trackerVars
        /\ [][ComposerNext]_composerVars /\ [][PageNext]_pageVars /\ [][ParsingNext]_parsingVars
        /\ [][DraftNext]_draftVars /\ [][StatusNext]_statusVars /\ [][PostNext]_postVars
        /\ [][CertNext]_bench /\ [][PromotionNext]_promotionVars /\ [][AiNext]_aiVars
        /\ [][CallsNext]_callsVars /\ [][EditNext]_editVars
  BY PartsStep, PTL DEF MCSafetySpec
<1>2. /\ PublishTypeOK /\ StreamTypeOK /\ StoreTypeOK /\ TabsTypeOK /\ GatewayTypeOK /\ ResumeTypeOK
      /\ RegistryTypeOK /\ RetryTypeOK /\ ExtensionTypeOK /\ TrackerTypeOK /\ ComposerTypeOK
      /\ PageTypeOK /\ ParsingTypeOK /\ DraftTypeOK /\ StatusTypeOK /\ PostTypeOK /\ CertTypeOK
      /\ PromotionTypeOK /\ AiTypeOK /\ CallsTypeOK /\ EditTypeOK
      => PlatformTypeOK
  BY DEF PlatformTypeOK
<1> QED
  BY <1>1, <1>2, PartsBegin,
     PublishTypes, StreamTypes, StoreTypes, TabsTypes, GatewayTypes, ResumeTypes, RegistryTypes,
     RetryTypes, ExtensionTypes, TrackerTypes, ComposerTypes, PageTypes, ParsingTypes,
     DraftTypes, StatusTypesStay, PostTypes, CertTypes, PromotionTypes, AiTypes, CallsTypes,
     EditTypes,
     PTL DEF MCSafetySpec
====
