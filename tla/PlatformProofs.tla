---- MODULE PlatformProofs ----
(*****************************************************************************)
(* Proofs about the components beside the application lifecycle that carry   *)
(* events, calls, texts and views, each on its own: the tabs, the SSE        *)
(* registry, the publish pipeline, the stream with its replay, the circuit   *)
(* breakers, the calls of AI providers, resumes, the labels of the tracker,  *)
(* the mail in the details sheet, the page of applications, the composer,    *)
(* the client's registry, the browser extension, the rules for descriptions  *)
(* and mails, and the platform's AI.  A part has its inductive invariant     *)
(* where the property is none itself, the lemma that every step keeps it,    *)
(* and its theorem.                                                          *)
(*****************************************************************************)
EXTENDS PgRetries, TabLeadership, SseRegistry, ProviderCalls, RealtimeStream,
        PublishPipeline, ResumeJobs, TrackerStatuses, EmailEdits, ApplicationsPage,
        ApplyComposer, ClientStore, ExtensionStatus, EmailDrafts, PlatformAi,
        FiniteSetTheorems, SequenceTheorems, TLAPS

-----------------------------------------------------------------------------
(*****************************************************************************)
(* The tabs: a leader whose lease has passed to another tab has been told,   *)
(* and only a leader streams.                                                *)
(*****************************************************************************)

(***************************************************************************)
(* What the leader proof rests on.                                         *)
(***************************************************************************)
TabsInv == TabsTypeOK /\ LeadersAreKnown

(*****************************************************************************)
(* No tab runs, so none leads.                                               *)
(*****************************************************************************)
LEMMA TabsStart == TabsInit => TabsInv
<1> SUFFICES ASSUME TabsInit PROVE TabsInv
  OBVIOUS
<1>1. TabsTypeOK
  BY TabAssumption DEF TabsInit, TabsTypeOK, Lease, NoLease, NoTab
<1>2. LeadersAreKnown
  BY DEF TabsInit, LeadersAreKnown, StaleLeaderIsTold, OnlyLeadersStream
<1> QED
  BY <1>1, <1>2 DEF TabsInv

(***************************************************************************)
(* A write of the lease tells every other running tab.                     *)
(***************************************************************************)
LEMMA HoldLeaseTells ==
  ASSUME NEW t \in Tabs, TabsTypeOK, HoldLease(t)
  PROVE  /\ lease' \in Lease /\ lease'.holder = t
         /\ told' \subseteq Tabs /\ told \subseteq told'
         /\ \A u \in Tabs \ {t} : tab[u] # "off" => u \in told'
  BY DEF HoldLease, WriteLease, Running, Lease, TabsTypeOK

(*****************************************************************************)
(* The second half of tryClaim, after the lease was read: the tab that       *)
(* writes it tells the others, also when it writes over a newer one.         *)
(*****************************************************************************)
LEMMA ClaimKeepsLeadersKnown ==
  ASSUME NEW t \in Tabs, TabsInv, Claim(t)
  PROVE  TabsInv'
<1>1. tab' = [tab EXCEPT ![t] = "up"] /\ UNCHANGED <<leaseRead, closesLeft>>
  BY DEF Claim
<1>2. CASE MayClaim(t, leaseRead[t])
  <2>1. HoldLease(t)
    BY <1>2 DEF Claim
  <2>2. IF leads[t] THEN UNCHANGED <<leads, hydration, streaming>> ELSE BecomeLeader(t)
    BY <1>2 DEF Claim
  <2>3. TabsTypeOK'
    BY <1>1, <2>1, <2>2, HoldLeaseTells DEF BecomeLeader, TabsInv, TabsTypeOK
  <2>4. /\ lease'.holder = t
        /\ \A u \in Tabs \ {t} : tab[u] # "off" => u \in told'
    BY <2>1, HoldLeaseTells DEF TabsInv
  <2>5. StaleLeaderIsTold'
    BY <1>1, <2>4 DEF TabsInv, TabsTypeOK, StaleLeaderIsTold
  <2>6. OnlyLeadersStream'
    BY <2>2 DEF BecomeLeader, TabsInv, TabsTypeOK, LeadersAreKnown, OnlyLeadersStream
  <2> QED
    BY <2>3, <2>5, <2>6 DEF TabsInv, LeadersAreKnown
<1>3. CASE ~MayClaim(t, leaseRead[t])
  <2>1. /\ UNCHANGED <<lease, told>>
        /\ IF leads[t] THEN LoseLeadership(t) ELSE UNCHANGED <<leads, hydration, streaming>>
    BY <1>3 DEF Claim
  <2>2. TabsTypeOK'
    BY <1>1, <2>1 DEF LoseLeadership, TabsInv, TabsTypeOK
  <2>3. StaleLeaderIsTold'
    BY <1>1, <2>1 DEF LoseLeadership, TabsInv, TabsTypeOK, LeadersAreKnown, StaleLeaderIsTold
  <2>4. OnlyLeadersStream'
    BY <2>1 DEF LoseLeadership, TabsInv, TabsTypeOK, LeadersAreKnown, OnlyLeadersStream
  <2> QED
    BY <2>2, <2>3, <2>4 DEF TabsInv, LeadersAreKnown
<1> QED
  BY <1>2, <1>3

(***************************************************************************)
(* Closing.                                                                *)
(***************************************************************************)
LEMMA CloseKeepsLeadersKnown ==
  ASSUME NEW t \in Tabs, TabsInv, Close(t) \/ Kill(t)
  PROVE  TabsInv'
<1> USE DEF TabsInv, TabsTypeOK, LeadersAreKnown, StaleLeaderIsTold, OnlyLeadersStream
<1>1. NoLease \in Lease
  BY DEF NoLease, Lease
<1>2. CASE Close(t)
  BY <1>1, <1>2 DEF Close, Gone, Running
<1>3. CASE Kill(t)
  BY <1>1, <1>3, TabAssumption DEF Kill, Gone
<1> QED
  BY <1>2, <1>3

(*****************************************************************************)
(* Every step of a tab, and the expiry of the lease.                         *)
(*****************************************************************************)
LEMMA TabsStepKeepsLeadersKnown == TabsInv /\ [TabsNext]_tabsVars => TabsInv'
<1> SUFFICES ASSUME TabsInv, [TabsNext]_tabsVars PROVE TabsInv'
  OBVIOUS
<1> USE DEF TabsInv, TabsTypeOK, LeadersAreKnown, StaleLeaderIsTold, OnlyLeadersStream
<1>1. CASE UNCHANGED tabsVars
  BY <1>1 DEF tabsVars
<1>2. ASSUME NEW t \in Tabs, Open(t) PROVE TabsInv'
  BY <1>2 DEF Open
<1>3. ASSUME NEW t \in Tabs, ReadLease(t) PROVE TabsInv'
  BY <1>3 DEF ReadLease
<1>4. ASSUME NEW t \in Tabs, Heartbeat(t) PROVE TabsInv'
  BY <1>4, HoldLeaseTells DEF Heartbeat
<1>5. ASSUME NEW t \in Tabs, StartClosing(t) PROVE TabsInv'
  BY <1>5, TabAssumption DEF StartClosing
<1>6. ASSUME NEW t \in Tabs, Hydrated(t) \/ HydrationFails(t) PROVE TabsInv'
  BY <1>6 DEF Hydrated, HydrationFails, MayStream
<1>7. CASE ExpireLease
  BY <1>7 DEF ExpireLease, Lease
<1> QED
  BY <1>1, <1>2, <1>3, <1>4, <1>5, <1>6, <1>7, ClaimKeepsLeadersKnown, CloseKeepsLeadersKnown
     DEF TabsNext, TabStep

(*****************************************************************************)
(* However many tabs there are, and however their reads, claims, heartbeats, *)
(* closes and kills interleave: a tab that still leads although another one  *)
(* holds the lease has a storage event to learn it from, and a stream is     *)
(* open only in a tab that leads (orchestrationTabLeader.ts tryClaim and     *)
(* start, realtimeCoordinator.ts onBecomeLeader and onLoseLeadership,        *)
(* leaderGuards.ts).                                                         *)
(*****************************************************************************)
THEOREM LeadersStayKnown == TabsSpec => []LeadersAreKnown
<1>1. TabsInv => LeadersAreKnown
  BY DEF TabsInv
<1> QED
  BY <1>1, TabsStart, TabsStepKeepsLeadersKnown, PTL DEF TabsSpec

-----------------------------------------------------------------------------
(*****************************************************************************)
(* The SSE registry: the newest response of a tab is the one that is written *)
(* to.                                                                       *)
(*****************************************************************************)

(* An entry is a response that was opened for its tab. *)
EntriesAreTheirTabs ==
  \A t \in BrowserTabs :
    entryOf[t] # 0 => entryOf[t] \in Begun /\ stream[entryOf[t]].tab = t

RegistryInv ==
  /\ RegistryTypeOK
  /\ \A s \in Streams \ Begun : ~stream[s].open
  /\ EntriesAreTheirTabs
  /\ NewestIsServed

(*****************************************************************************)
(* Nothing has been opened.                                                  *)
(*****************************************************************************)
LEMMA RegistryStart == RegistryInit => RegistryInv
<1> SUFFICES ASSUME RegistryInit PROVE RegistryInv
  OBVIOUS
<1> DEFINE someTab == CHOOSE t \in BrowserTabs : TRUE
<1>1. someTab \in BrowserTabs
  BY RegistryAssumption
<1> HIDE DEF someTab
<1>2. /\ streams = 0 /\ entryOf = [t \in BrowserTabs |-> 0]
      /\ stream = [s \in Streams |-> [tab |-> someTab, open |-> FALSE, beat |-> FALSE,
                                      heard |-> TRUE, dropped |-> FALSE]]
  BY DEF RegistryInit, someTab
<1>3. RegistryTypeOK
  BY <1>1, <1>2, RegistryAssumption DEF RegistryTypeOK, StreamRow
<1>4. Begun = {}
  BY DEF Begun, RegistryInit
<1>5. EntriesAreTheirTabs /\ NewestIsServed
  BY <1>2, <1>4 DEF EntriesAreTheirTabs, NewestIsServed
<1> QED
  BY <1>2, <1>3, <1>5 DEF RegistryInv

(***************************************************************************)
(* addConnection: the new response is the newest of its tab, and the one   *)
(* the tab had is ended.                                                   *)
(***************************************************************************)
LEMMA OpenStreamKeepsNewest ==
  ASSUME NEW t \in BrowserTabs, RegistryInv, OpenStream(t)
  PROVE  RegistryInv'
<1> DEFINE new == streams + 1
<1>1. /\ streams \in 0..MaxStreams /\ new \in Streams
      /\ streams' = new /\ entryOf' = [entryOf EXCEPT ![t] = new]
      /\ Begun' = Begun \cup {new} /\ new \notin Begun /\ Begun \subseteq Streams
  BY RegistryAssumption DEF OpenStream, RegistryInv, RegistryTypeOK, Streams, Begun
<1>2. \A s \in Streams : stream[s] \in StreamRow
  BY DEF RegistryInv, RegistryTypeOK
<1>3. stream'[new] = [tab |-> t, open |-> TRUE, beat |-> TRUE, heard |-> FALSE,
                      dropped |-> FALSE]
  BY <1>1 DEF OpenStream
<1>4. \A s \in Streams \ {new} :
        stream'[s] = [stream[s] EXCEPT !.open = @ /\ entryOf[t] # s]
  BY <1>1 DEF OpenStream
<1>5. \A s \in Streams \ {new} :
        /\ stream'[s] \in StreamRow
        /\ stream'[s].open <=> stream[s].open /\ entryOf[t] # s
        /\ stream'[s].tab = stream[s].tab /\ stream'[s].dropped = stream[s].dropped
  <2> TAKE s \in Streams \ {new}
  <2>1. stream[s] \in StreamRow /\ stream'[s] = [stream[s] EXCEPT !.open = @ /\ entryOf[t] # s]
    BY <1>2, <1>4
  <2> QED
    BY <2>1 DEF StreamRow
<1>6. RegistryTypeOK'
  <2>1. stream'[new] \in StreamRow
    BY <1>3 DEF StreamRow
  <2>2. stream' \in [Streams -> StreamRow]
    BY <1>5, <2>1 DEF OpenStream
  <2>3. new \in 0..MaxStreams
    BY <1>1, RegistryAssumption DEF Streams
  <2> QED
    BY <1>1, <2>2, <2>3 DEF RegistryInv, RegistryTypeOK
<1>7. (\A s \in Streams \ Begun : ~stream[s].open)'
  BY <1>1, <1>5 DEF RegistryInv
<1>8. EntriesAreTheirTabs'
  BY <1>1, <1>3, <1>5 DEF EntriesAreTheirTabs, RegistryInv, RegistryTypeOK
<1>9. NewestIsServed'
  <2> SUFFICES ASSUME NEW s \in Begun', stream'[s].open, ~stream'[s].dropped
               PROVE  /\ entryOf'[stream'[s].tab] = s
                      /\ \A later \in s + 1..streams' : stream'[later].tab # stream'[s].tab
    BY DEF NewestIsServed
  <2>1. CASE s = new
    BY <1>1, <1>3, <2>1 DEF RegistryInv, RegistryTypeOK
  <2>2. CASE s # new
    <3>1. s \in Begun /\ s \in Streams \ {new} /\ stream[s].tab \in BrowserTabs
      BY <1>1, <1>2, <2>2 DEF StreamRow
    <3>2. /\ stream[s].open /\ ~stream[s].dropped /\ entryOf[t] # s
          /\ stream'[s].tab = stream[s].tab
      BY <1>5, <3>1
    <3>3. /\ entryOf[stream[s].tab] = s
          /\ \A later \in s + 1..streams : stream[later].tab # stream[s].tab
      BY <3>1, <3>2 DEF NewestIsServed, RegistryInv
    <3>4. stream[s].tab # t
      BY <3>2, <3>3
    <3>5. entryOf'[stream[s].tab] = s
      BY <1>1, <3>1, <3>3, <3>4 DEF RegistryInv, RegistryTypeOK
    <3>6. ASSUME NEW later \in s + 1..streams' PROVE stream'[later].tab # stream'[s].tab
      <4>1. CASE later = new
        BY <1>3, <3>2, <3>4, <4>1
      <4>2. CASE later # new
        <5>1. later \in s + 1..streams /\ later \in Streams \ {new}
          BY <1>1, <3>1, <3>6, <4>2, RegistryAssumption DEF Streams
        <5> QED
          BY <1>5, <3>2, <3>3, <5>1
      <4> QED
        BY <4>1, <4>2
    <3> QED
      BY <3>2, <3>5, <3>6
  <2> QED
    BY <2>1, <2>2
<1> QED
  BY <1>6, <1>7, <1>8, <1>9 DEF RegistryInv

(***************************************************************************)
(* A step that opens nothing, keeps the tabs of the responses, and takes   *)
(* an entry away only from one that has ended or was dropped.              *)
(***************************************************************************)
LEMMA LosingOnlyTheEnded ==
  ASSUME RegistryInv, RegistryTypeOK', streams' = streams,
         \A s \in Streams : /\ stream'[s].tab = stream[s].tab
                            /\ stream'[s].open => stream[s].open
                            /\ stream[s].dropped => stream'[s].dropped,
         \A t \in BrowserTabs :
           entryOf'[t] # entryOf[t] =>
             /\ entryOf'[t] = 0
             /\ ~stream'[entryOf[t]].open \/ stream'[entryOf[t]].dropped
  PROVE  RegistryInv'
<1> USE RegistryAssumption
<1> USE DEF RegistryInv, RegistryTypeOK, Begun, Streams
<1>1. (\A s \in Streams \ Begun : ~stream[s].open)'
  BY DEF StreamRow
<1>2. EntriesAreTheirTabs'
  BY DEF EntriesAreTheirTabs
<1>3. NewestIsServed'
  <2> SUFFICES ASSUME NEW s \in Begun', stream'[s].open, ~stream'[s].dropped
               PROVE  /\ entryOf'[stream'[s].tab] = s
                      /\ \A later \in s + 1..streams' : stream'[later].tab # stream'[s].tab
    BY DEF NewestIsServed
  <2>1. s \in Begun /\ s \in Streams /\ stream[s] \in StreamRow /\ stream'[s] \in StreamRow
    OBVIOUS
  <2>2. stream[s].open /\ ~stream[s].dropped /\ stream[s].tab \in BrowserTabs
    BY <2>1 DEF StreamRow
  <2>3. /\ entryOf[stream[s].tab] = s
        /\ \A later \in s + 1..streams : stream[later].tab # stream[s].tab
    BY <2>1, <2>2 DEF NewestIsServed
  <2> QED
    BY <2>1, <2>2, <2>3
<1> QED
  BY <1>1, <1>2, <1>3

(*****************************************************************************)
(* Every step of the registry: those that end or drop responses are          *)
(* instances of LosingOnlyTheEnded.                                          *)
(*****************************************************************************)
LEMMA RegistryStepKeepsNewest == RegistryInv /\ [RegistryNext]_registryVars => RegistryInv'
<1> SUFFICES ASSUME RegistryInv, [RegistryNext]_registryVars PROVE RegistryInv'
  OBVIOUS
<1> USE RegistryAssumption
<1>0. RegistryTypeOK /\ EntriesAreTheirTabs /\ Begun \subseteq Streams
      /\ \A s \in Streams : stream[s] \in StreamRow
  BY DEF RegistryInv, RegistryTypeOK, Begun, Streams
<1>1. CASE UNCHANGED registryVars
  BY <1>1 DEF registryVars, RegistryInv, RegistryTypeOK, EntriesAreTheirTabs, NewestIsServed, Begun
<1>2. ASSUME NEW s \in Begun, Beat(s) PROVE RegistryInv'
  BY <1>0, <1>2, LosingOnlyTheEnded DEF Beat, RegistryTypeOK, StreamRow
<1>3. ASSUME NEW s \in Begun, FallSilent(s) PROVE RegistryInv'
  BY <1>0, <1>3, LosingOnlyTheEnded DEF FallSilent, RegistryTypeOK, StreamRow
<1>4. ASSUME NEW s \in Begun, Disconnect(s) PROVE RegistryInv'
  BY <1>0, <1>4, LosingOnlyTheEnded DEF Disconnect, RegistryTypeOK, StreamRow
<1>5. ASSUME NEW s \in Begun, HandleClose(s) PROVE RegistryInv'
  <2>1. /\ streams' = streams /\ entryOf' = Removed(s) /\ ~stream[s].open
        /\ stream' = [stream EXCEPT ![s].heard = TRUE]
    BY <1>5 DEF HandleClose
  <2>2. RegistryTypeOK'
    <3>1. stream' \in [Streams -> StreamRow]
      BY <1>0, <2>1 DEF RegistryTypeOK, StreamRow
    <3>2. entryOf \in [BrowserTabs -> 0..MaxStreams] /\ 0 \in 0..MaxStreams
      BY <1>0 DEF RegistryTypeOK
    <3>3. entryOf' \in [BrowserTabs -> 0..MaxStreams]
      BY <2>1, <3>2 DEF Removed
    <3> QED
      BY <1>0, <2>1, <3>1, <3>3 DEF RegistryTypeOK
  <2>3. \A r \in Streams : /\ stream'[r].tab = stream[r].tab
                           /\ stream'[r].open = stream[r].open
                           /\ stream'[r].dropped = stream[r].dropped
    BY <1>0, <2>1 DEF RegistryTypeOK, StreamRow
  <2>4. \A t \in BrowserTabs : entryOf'[t] # entryOf[t] => entryOf'[t] = 0 /\ entryOf[t] = s
    BY <1>0, <2>1 DEF Removed, RegistryTypeOK
  <2> QED
    BY <1>0, <2>1, <2>2, <2>3, <2>4, LosingOnlyTheEnded
<1>6. CASE ReapZombies
  <2> DEFINE Silent(t) == entryOf[t] # 0 /\ ~stream[entryOf[t]].beat
  <2>1. /\ streams' = streams
        /\ stream' = [s \in Streams |->
             [stream[s] EXCEPT !.open = @ /\ ~(Silent(stream[s].tab) /\ entryOf[stream[s].tab] = s)]]
        /\ entryOf' = [t \in BrowserTabs |-> IF Silent(t) THEN 0 ELSE entryOf[t]]
    BY <1>6 DEF ReapZombies
  <2>2. RegistryTypeOK'
    BY <1>0, <2>1 DEF RegistryTypeOK, StreamRow
  <2>3. \A s \in Streams : /\ stream'[s].tab = stream[s].tab
                           /\ stream'[s].open => stream[s].open
                           /\ stream'[s].dropped = stream[s].dropped
    BY <1>0, <2>1 DEF StreamRow
  <2>4. \A t \in BrowserTabs :
          entryOf'[t] # entryOf[t] => entryOf'[t] = 0 /\ ~stream'[entryOf[t]].open
    <3> SUFFICES ASSUME NEW t \in BrowserTabs, entryOf'[t] # entryOf[t]
                 PROVE  entryOf'[t] = 0 /\ ~stream'[entryOf[t]].open
      OBVIOUS
    <3>1. Silent(t) /\ entryOf'[t] = 0
      BY <2>1
    <3>2. entryOf[t] \in Streams /\ stream[entryOf[t]].tab = t
      BY <1>0, <3>1 DEF EntriesAreTheirTabs
    <3> QED
      BY <1>0, <2>1, <3>1, <3>2 DEF StreamRow
  <2> QED
    BY <2>1, <2>2, <2>3, <2>4, LosingOnlyTheEnded
<1>7. ASSUME NEW reset \in SUBSET Begun, NEW throws \in SUBSET Begun, Broadcast(reset, throws)
      PROVE  RegistryInv'
  <2>1. /\ streams' = streams
        /\ stream' = [s \in Streams |->
             [stream[s] EXCEPT !.open = @ /\ s \notin reset, !.dropped = @ \/ s \in throws]]
        /\ entryOf' = [t \in BrowserTabs |->
             IF entryOf[t] # 0 /\ (~stream[entryOf[t]].open \/ entryOf[t] \in throws)
             THEN 0 ELSE entryOf[t]]
    BY <1>7 DEF Broadcast
  <2>2. RegistryTypeOK'
    <3>1. ASSUME NEW s \in Streams PROVE stream'[s] \in StreamRow
      BY <1>0, <2>1 DEF StreamRow
    <3>2. ASSUME NEW t \in BrowserTabs PROVE entryOf'[t] \in 0..MaxStreams
      <4>1. entryOf[t] \in 0..MaxStreams /\ 0 \in 0..MaxStreams
        BY <1>0 DEF RegistryTypeOK
      <4> QED
        BY <2>1, <4>1, Zenon
    <3> QED
      BY <1>0, <2>1, <3>1, <3>2 DEF RegistryTypeOK
  <2>3. \A s \in Streams : /\ stream'[s].tab = stream[s].tab
                           /\ stream'[s].open => stream[s].open
                           /\ stream'[s].dropped = (stream[s].dropped \/ s \in throws)
    BY <1>0, <2>1 DEF StreamRow
  <2>4. \A t \in BrowserTabs :
          entryOf'[t] # entryOf[t] =>
            entryOf'[t] = 0 /\ (~stream'[entryOf[t]].open \/ stream'[entryOf[t]].dropped)
    <3> SUFFICES ASSUME NEW t \in BrowserTabs, entryOf'[t] # entryOf[t]
                 PROVE  /\ entryOf'[t] = 0
                        /\ ~stream'[entryOf[t]].open \/ stream'[entryOf[t]].dropped
      OBVIOUS
    <3>1. /\ entryOf'[t] = 0 /\ entryOf[t] # 0
          /\ ~stream[entryOf[t]].open \/ entryOf[t] \in throws
      BY <2>1
    <3>2. entryOf[t] \in Streams
      BY <1>0, <3>1 DEF EntriesAreTheirTabs
    <3> QED
      BY <2>3, <3>1, <3>2
  <2> QED
    BY <2>1, <2>2, <2>3, <2>4, LosingOnlyTheEnded
<1> QED
  BY <1>1, <1>2, <1>3, <1>4, <1>5, <1>6, <1>7, OpenStreamKeepsNewest DEF RegistryNext

(*****************************************************************************)
(* For any number of tabs and connections: the newest response of a tab, as  *)
(* long as it is open and no write to it threw, is the one its events are    *)
(* written to, however late the close events of the earlier ones, the reaper *)
(* and failed writes come (sseConnectionRegistry.js addConnection,           *)
(* removeConnection, broadcastToUser; sseZombieReaper.js).                   *)
(*****************************************************************************)
THEOREM NewestStaysServed == RegistrySpec => []NewestIsServed
<1>1. RegistryInv => NewestIsServed
  BY DEF RegistryInv
<1> QED
  BY <1>1, RegistryStart, RegistryStepKeepsNewest, PTL DEF RegistrySpec

-----------------------------------------------------------------------------
(*****************************************************************************)
(* The publish pipeline: what is committed leaves the queue only into a      *)
(* batch.                                                                    *)
(*****************************************************************************)

(* What a step does to the entries of the queue that are committed.        *)
HandedOver ==
  \A a \in DOMAIN pending :
    pending[a].committed /\ a \notin DOMAIN pending' => a \in DOMAIN batch'

(* Without removes one entry.                                              *)
LEMMA KeysOfWithout ==
  ASSUME NEW f, NEW x
  PROVE  DOMAIN Without(f, x) = DOMAIN f \ {x}
  BY DEF Without

(***************************************************************************)
(* An overflow evicts no entry that is committed (evictForOverflow).       *)
(***************************************************************************)
LEMMA EvictionSparesCommitted ==
  ASSUME NEW a, NEW force, NEW queue, Enqueued(a, force, queue),
         NEW b \in DOMAIN pending, pending[b].committed
  PROVE  b \in DOMAIN queue
<1>1. CASE a \in DOMAIN pending
  BY <1>1 DEF Enqueued
<1>2. CASE a \notin DOMAIN pending
  <2> DEFINE longer == With(pending, a, [committed |-> FALSE, force |-> force])
  <2>1. /\ b \in DOMAIN longer
        /\ longer[b] = pending[b]
    BY <1>2 DEF With
  <2>2. b \notin Evictable(longer)
    BY <2>1 DEF Evictable
  <2>3. queue = longer \/ \E victim \in Evictable(longer) : queue = Without(longer, victim)
    BY <1>2 DEF Enqueued
  <2> HIDE DEF longer
  <2> QED
    BY <2>1, <2>2, <2>3, KeysOfWithout
<1> QED
  BY <1>1, <1>2

(* Marking an entry committed removes none.                                *)
LEMMA MarkingKeepsKeys ==
  ASSUME NEW a, NEW queue
  PROVE  DOMAIN Marked(a, queue) = DOMAIN queue
  BY DEF Marked

(* Requests take no committed entry out of the queue.                      *)
LEMMA RequestsHandOver ==
  ASSUME Requests
  PROVE  HandedOver
<1> PICK a \in Applications :
      \/ \E kind \in Changes : TxUpdate(a, kind) \/ PoolTransition(a, kind)
      \/ PoolJobTransition(a)
      \/ TxCommit(a)
      \/ TxRollback(a)
      \/ Announce(a)
  BY DEF Requests
<1>1. ASSUME NEW kind \in Changes, TxUpdate(a, kind) PROVE HandedOver
  BY <1>1, EvictionSparesCommitted DEF TxUpdate, HandedOver
<1>2. ASSUME NEW kind \in Changes, PoolTransition(a, kind) PROVE HandedOver
  <2>1. PICK queue : Enqueued(a, TRUE, queue) /\ pending' = Marked(a, queue)
    BY <1>2 DEF PoolTransition
  <2> QED
    BY <2>1, EvictionSparesCommitted, MarkingKeepsKeys DEF HandedOver
<1>3. CASE PoolJobTransition(a)
  BY <1>3, EvictionSparesCommitted DEF PoolJobTransition, HandedOver
<1>4. CASE TxCommit(a) \/ TxRollback(a)
  BY <1>4 DEF TxCommit, TxRollback, HandedOver
<1>5. CASE Announce(a)
  <2>1. pending' = Marked(a, pending)
    BY <1>5 DEF Announce
  <2> QED
    BY <2>1, MarkingKeepsKeys DEF HandedOver
<1> QED
  BY <1>1, <1>2, <1>3, <1>4, <1>5

(* Flush and sweep take committed entries out by putting their             *)
(* applications in the batch.                                              *)
LEMMA FlushAndSweepHandOver ==
  ASSUME \/ FlushStep \/ BatchTimer
         \/ \E a \in Applications : SweepRecover(a) \/ SweepDrop(a)
  PROVE  HandedOver
<1>1. CASE FlushOne
  <2>1. PICK entry \in flush.entries :
          Batched(entry.app, entry.force) /\ pending' = Without(pending, entry.app)
    BY <1>1 DEF FlushOne
  <2>2. entry.app \in DOMAIN batch'
    BY <2>1 DEF Batched, With
  <2> QED
    BY <2>1, <2>2, KeysOfWithout, Zenon DEF HandedOver
<1>2. CASE FlushBatchNow \/ BatchTimer
  BY <1>2 DEF FlushBatchNow, BatchTimer, HandedOver
<1>3. ASSUME NEW a \in Applications, SweepRecover(a) PROVE HandedOver
  <2>1. a \in DOMAIN batch' /\ pending' = Without(pending, a)
    BY <1>3 DEF SweepRecover, Batched, With
  <2> QED
    BY <2>1, KeysOfWithout, Zenon DEF HandedOver
<1>4. ASSUME NEW a \in Applications, SweepDrop(a) PROVE HandedOver
  <2>1. ~pending[a].committed /\ pending' = Without(pending, a)
    BY <1>4 DEF SweepDrop
  <2>2. DOMAIN pending' = DOMAIN pending \ {a}
    BY <2>1, KeysOfWithout
  <2> QED
    BY <2>1, <2>2 DEF HandedOver
<1> QED
  BY <1>1, <1>2, <1>3, <1>4 DEF FlushStep

(* An entry of a committed change leaves the queue only into a batch       *)
(* (postCommitPublishQueue.js): not by an overflow, a flush or the sweep,  *)
(* for any applications, publishers and bound of the queue.                *)
THEOREM CommittedLeavesHandedOver == PublishSpec => CommittedIsHandedOver
<1>1. [PublishNext]_pubVars
      => [\A a \in DOMAIN pending :
            pending[a].committed /\ a \notin DOMAIN pending' => a \in DOMAIN batch']_pubVars
  <2> SUFFICES ASSUME PublishNext PROVE HandedOver
    BY DEF HandedOver
  <2>1. ASSUME NEW p \in Publishers, PublisherStep(p) PROVE HandedOver
    BY <2>1 DEF PublisherStep, LoadMeta, LoadBundle, ReadFails, FanOut, HandedOver
  <2> QED
    BY <2>1, RequestsHandOver, FlushAndSweepHandOver DEF PublishNext, Sweep
<1> QED
  BY <1>1, PTL DEF PublishSpec, CommittedIsHandedOver

-----------------------------------------------------------------------------
(*****************************************************************************)
(* The stream: a replay that was answered has no gap.                        *)
(*****************************************************************************)

ConnRow(c) ==
  DOMAIN c = {"pc", "from", "wire", "owed", "written", "fetched", "unread"}

(* What is still to be read for the request, or on its way to it.          *)
Coming ==
  CASE conn.pc = "reading" -> {n \in replayBuffer : n > conn.from}
    [] conn.pc = "fetched" -> conn.fetched
    [] conn.pc \notin {"reading", "fetched"} -> {}

(* What a request is owed has been written, is coming, or may be gone.     *)
OwedIsComing ==
  conn.pc \in {"reading", "fetched", "replayed"} /\ ~conn.unread =>
    conn.owed \subseteq conn.written \cup Coming \cup Outlived

StreamInv ==
  /\ lastEvent \in 0..MaxEvents /\ expiredTo \in Nat
  /\ replayBuffer \cup appending \subseteq 1..lastEvent
  /\ ConnRow(conn) /\ conn.unread \in BOOLEAN
  /\ streamMode \in {"memory", "redis"} /\ (conn.pc = "reading" => streamMode = "redis")
  /\ OwedIsComing

(* No event has been published and nobody is connected.                    *)
LEMMA StreamStart == StreamInit => StreamInv
  BY StreamAssumption DEF StreamInit, StreamInv, NoConn, ConnRow, OwedIsComing

(***************************************************************************)
(* MAXLEN drops an event only when so many newer ones have been published. *)
(***************************************************************************)
LEMMA TrimmedIsOutlived ==
  ASSUME NEW last \in Nat, NEW ids \in SUBSET (1..last), NEW n \in ids, n \notin Newest(ids)
  PROVE  n + Retained <= last
<1> DEFINE newer == {m \in ids : m > n}
<1>1. newer \subseteq n + 1..last
  <2> SUFFICES ASSUME NEW m \in newer
               PROVE  m \in n + 1..last
    OBVIOUS
  <2>1. m \in 1..last /\ n \in 1..last /\ m > n
    OBVIOUS
  <2> HIDE DEF newer
  <2> QED
    BY <2>1
<1>2. IsFiniteSet(n + 1..last) /\ Cardinality(n + 1..last) = last - n
  BY FS_Interval
<1>3. /\ Cardinality(newer) \in Nat
      /\ Cardinality(newer) <= last - n
  BY <1>1, <1>2, FS_Subset, FS_CardinalityType
<1>4. ~(Cardinality(newer) < Retained)
  BY DEF Newest
<1> QED
  BY <1>3, <1>4, StreamAssumption

(* What has outlived its retention stays so.                               *)
LEMMA OutlivedGrows ==
  ASSUME lastEvent \in Nat, lastEvent' \in Nat, expiredTo \in Nat, expiredTo' \in Nat,
         lastEvent <= lastEvent', expiredTo <= expiredTo'
  PROVE  Outlived \subseteq Outlived'
<1> SUFFICES ASSUME NEW n \in Outlived
             PROVE  n \in Outlived'
  OBVIOUS
<1>1. CASE n \in 1..expiredTo
  BY <1>1 DEF Outlived
<1>2. CASE n \in Events /\ n + Retained <= lastEvent
  <2>1. n \in Nat /\ Retained \in Nat
    BY <1>2, StreamAssumption DEF Events
  <2>2. n + Retained <= lastEvent'
    BY <1>2, <2>1
  <2> QED
    BY <1>2, <2>2 DEF Outlived, Events
<1> QED
  BY <1>1, <1>2 DEF Outlived

(***************************************************************************)
(* Steps that leave the connection alone, or what matters of it: the       *)
(* buffer gives up only what may be gone.                                  *)
(***************************************************************************)
LEMMA QuietKeepsStream ==
  ASSUME StreamInv, streamMode' = streamMode,
         lastEvent' \in 0..MaxEvents, lastEvent <= lastEvent',
         expiredTo' \in Nat, expiredTo <= expiredTo',
         replayBuffer' \cup appending' \subseteq 1..lastEvent',
         conn.pc = "reading" => replayBuffer \subseteq replayBuffer' \cup Outlived',
         ConnRow(conn'), conn'.unread = conn.unread, conn'.pc = conn.pc, conn'.from = conn.from,
         conn'.owed = conn.owed, conn'.written = conn.written, conn'.fetched = conn.fetched
  PROVE  StreamInv'
<1>1. Outlived \subseteq Outlived'
  BY OutlivedGrows, StreamAssumption DEF StreamInv
<1>2. Coming \subseteq Coming' \cup Outlived'
  <2>1. CASE conn.pc = "reading"
    BY <2>1 DEF Coming
  <2>2. CASE conn.pc = "fetched"
    BY <2>2 DEF Coming
  <2>3. CASE conn.pc \notin {"reading", "fetched"}
    BY <2>3 DEF Coming
  <2> QED
    BY <2>1, <2>2, <2>3
<1>3. OwedIsComing'
  BY <1>1, <1>2 DEF OwedIsComing, StreamInv
<1> QED
  BY <1>3 DEF StreamInv

(* Publications, appends, trims and expiry take from the buffer only what  *)
(* may be gone, and add only what no request was owed when it began.       *)
LEMMA ServerKeepsStream ==
  ASSUME StreamInv,
         \/ PublishInMemory \/ Expire \/ TrimStream
         \/ \E local \in BOOLEAN : AllocateId(local)
         \/ \E n \in Events : AppendToStream(n)
  PROVE  StreamInv'
<1>1. /\ lastEvent \in 0..MaxEvents /\ lastEvent \in Nat /\ expiredTo \in Nat
      /\ replayBuffer \subseteq 1..lastEvent /\ appending \subseteq 1..lastEvent
      /\ ConnRow(conn) /\ (conn.pc = "reading" => streamMode = "redis")
  BY StreamAssumption DEF StreamInv
<1>2. \A ids : Unexpired(ids) \subseteq ids /\ Newest(ids) \subseteq ids
  BY DEF Unexpired, Newest
<1>3. CASE PublishInMemory
  <2>1. /\ streamMode = "memory" /\ UNCHANGED <<streamMode, appending, expiredTo, conn>>
        /\ lastEvent' = lastEvent + 1 /\ lastEvent < MaxEvents
        /\ replayBuffer' = Unexpired(Newest(replayBuffer \cup {lastEvent'}))
    BY <1>3 DEF PublishInMemory
  <2>2. lastEvent' \in 0..MaxEvents /\ lastEvent <= lastEvent'
    BY <1>1, <2>1, StreamAssumption
  <2>3. replayBuffer' \subseteq 1..lastEvent' /\ appending' \subseteq 1..lastEvent'
    <3>1. replayBuffer' \subseteq replayBuffer \cup {lastEvent'}
      BY <1>2, <2>1
    <3>2. lastEvent' \in 1..lastEvent' /\ 1..lastEvent \subseteq 1..lastEvent'
      BY <1>1, <2>1
    <3> QED
      BY <1>1, <2>1, <3>1, <3>2, Zenon
  <2>4. conn.pc # "reading"
    BY <1>1, <2>1
  <2>5. replayBuffer' \cup appending' \subseteq 1..lastEvent'
    BY <2>3, Zenon
  <2>7. expiredTo <= expiredTo'
    BY <1>1, <2>1
  <2>6. ConnRow(conn') /\ conn' = conn
    BY <1>1, <2>1
  <2> QED
    BY <1>1, <2>1, <2>2, <2>4, <2>5, <2>6, <2>7, QuietKeepsStream
<1>4. CASE Expire
  BY <1>1, <1>4, QuietKeepsStream DEF Expire
<1>5. CASE TrimStream
  <2>1. /\ UNCHANGED <<streamMode, lastEvent, appending, expiredTo, conn>>
        /\ replayBuffer' = Unexpired(replayBuffer)
    BY <1>5 DEF TrimStream
  <2>2. replayBuffer \subseteq replayBuffer' \cup Outlived'
    BY <1>1, <2>1 DEF Unexpired, Outlived
  <2>3. replayBuffer' \subseteq 1..lastEvent'
    BY <1>1, <2>1 DEF Unexpired
  <2>4. replayBuffer' \cup appending' \subseteq 1..lastEvent'
    <3>1. appending' = appending /\ lastEvent' = lastEvent
      BY <2>1
    <3> QED
      BY <1>1, <2>3, <3>1, Zenon
  <2>5. lastEvent <= lastEvent' /\ expiredTo <= expiredTo'
    BY <1>1, <2>1
  <2>6. ConnRow(conn') /\ conn' = conn
    BY <1>1, <2>1
  <2> QED
    BY <1>1, <2>1, <2>2, <2>4, <2>5, <2>6, QuietKeepsStream
<1>6. ASSUME NEW local \in BOOLEAN, AllocateId(local) PROVE StreamInv'
  <2>1. /\ UNCHANGED <<streamMode, replayBuffer, expiredTo, conn>>
        /\ lastEvent' = lastEvent + 1 /\ lastEvent < MaxEvents
        /\ appending' = appending \cup {lastEvent'}
    BY <1>6 DEF AllocateId
  <2>2. /\ lastEvent' \in 0..MaxEvents /\ lastEvent <= lastEvent'
        /\ replayBuffer' \cup appending' \subseteq 1..lastEvent'
    BY <1>1, <2>1, StreamAssumption
  <2> QED
    BY <1>1, <2>1, <2>2, QuietKeepsStream
<1>7. ASSUME NEW n \in Events, AppendToStream(n) PROVE StreamInv'
  <2>1. /\ UNCHANGED <<streamMode, lastEvent, expiredTo, conn>>
        /\ n \in appending /\ appending' = appending \ {n}
        /\ \/ Trimmed(replayBuffer \cup {n}, replayBuffer')
           \/ replayBuffer' = replayBuffer
    BY <1>7 DEF AppendToStream
  <2>2. CASE replayBuffer' = replayBuffer
    BY <1>1, <2>1, <2>2, QuietKeepsStream
  <2>3. CASE Trimmed(replayBuffer \cup {n}, replayBuffer')
    <3> DEFINE ids == replayBuffer \cup {n}
    <3>1. /\ ids \in SUBSET (1..lastEvent)
          /\ replayBuffer' \subseteq ids /\ Newest(ids) \subseteq replayBuffer'
      BY <1>1, <2>1, <2>3 DEF Trimmed
    <3>2. ASSUME NEW m \in replayBuffer, m \notin replayBuffer' PROVE m \in Outlived'
      <4>1. m \in ids /\ m \notin Newest(ids) /\ m \in Events
        BY <1>1, <3>1, <3>2, StreamAssumption DEF Events
      <4>2. m + Retained <= lastEvent
        BY <1>1, <3>1, <4>1, TrimmedIsOutlived
      <4> QED
        BY <2>1, <4>1, <4>2 DEF Outlived
    <3>3. replayBuffer' \cup appending' \subseteq 1..lastEvent'
      BY <1>1, <2>1, <3>1
    <3> HIDE DEF ids
    <3> QED
      BY <1>1, <2>1, <3>2, <3>3, QuietKeepsStream
  <2> QED
    BY <2>1, <2>2, <2>3
<1> QED
  BY <1>3, <1>4, <1>5, <1>6, <1>7

(***************************************************************************)
(* The request: registered before the buffer is read.                      *)
(***************************************************************************)
LEMMA RequestKeepsStream ==
  ASSUME StreamInv,
         UNCHANGED <<streamMode, lastEvent, appending, replayBuffer, expiredTo>>,
         ConnRow(conn'), conn'.unread \in BOOLEAN,
         conn'.pc = "reading" => streamMode = "redis",
         conn'.pc \in {"reading", "fetched", "replayed"} /\ ~conn'.unread =>
           conn'.owed \subseteq conn'.written \cup Coming' \cup Outlived
  PROVE  StreamInv'
<1>1. Outlived' = Outlived
  BY DEF Outlived
<1> QED
  BY <1>1 DEF StreamInv, OwedIsComing

(* The buffer's answer holds what the request was owed of it.              *)
LEMMA AnswerIsComplete ==
  ASSUME StreamInv, NEW c, ConnRow(c), NEW answer, answer = WithReplay(c)
  PROVE  /\ ConnRow(answer) /\ answer.unread = c.unread /\ answer.owed = c.owed
         /\ answer.written = c.written /\ answer.pc \in {"fetched", "failed"}
         /\ answer.pc = "fetched" =>
              {n \in Unexpired(replayBuffer) : n > c.from} \subseteq answer.fetched
         /\ answer.pc = "fetched" /\ streamMode = "redis" =>
              {n \in replayBuffer : n > c.from} \subseteq answer.fetched
<1>1. CASE ReplayAnswers(c.from)
  <2>1. answer = [c EXCEPT !.pc = "fetched", !.fetched = Replayed(c.from)]
    BY <1>1 DEF WithReplay
  <2>2. /\ ConnRow(answer) /\ answer.unread = c.unread /\ answer.owed = c.owed
        /\ answer.written = c.written /\ answer.pc = "fetched" /\ answer.fetched = Replayed(c.from)
    BY <2>1 DEF ConnRow
  <2> QED
    BY <2>2 DEF Replayed, Unexpired, StreamInv
<1>2. CASE ~ReplayAnswers(c.from)
  BY <1>2 DEF WithReplay, ConnRow
<1> QED
  BY <1>1, <1>2

(* A request is owed what the buffer holds when it comes.                  *)
LEMMA ConnectKeepsStream ==
  ASSUME StreamInv, Connect
  PROVE  StreamInv'
<1>1. UNCHANGED <<streamMode, lastEvent, appending, replayBuffer, expiredTo>>
  BY DEF Connect, serverVars
<1> DEFINE asked == [NoConn EXCEPT !.pc = "reading", !.from = lastEventId,
                       !.owed = {n \in Unexpired(replayBuffer) : n > lastEventId}]
<1>2. /\ ConnRow(asked) /\ asked.unread = FALSE /\ asked.pc = "reading" /\ asked.from = lastEventId
      /\ asked.owed = {n \in Unexpired(replayBuffer) : n > lastEventId}
  BY DEF NoConn, ConnRow
<1>3. CASE lastEventId = 0
  <2>1. conn' = [NoConn EXCEPT !.pc = "live"]
    BY <1>3 DEF Connect
  <2>2. ConnRow(conn') /\ conn'.unread = FALSE /\ conn'.pc = "live"
    BY <2>1 DEF NoConn, ConnRow
  <2> QED
    BY <1>1, <2>2, RequestKeepsStream
<1>4. CASE lastEventId # 0 /\ streamMode = "redis"
  <2>1. conn' = asked
    BY <1>4 DEF Connect
  <2> HIDE DEF asked
  <2>2. conn'.owed \subseteq Coming'
    BY <1>1, <1>2, <2>1 DEF Coming, Unexpired
  <2> QED
    BY <1>1, <1>2, <1>4, <2>1, <2>2, RequestKeepsStream
<1>5. CASE lastEventId # 0 /\ streamMode = "memory"
  <2>1. conn' = WithReplay(asked)
    BY <1>5 DEF Connect
  <2> HIDE DEF asked
  <2>2. /\ ConnRow(conn') /\ conn'.unread = FALSE /\ conn'.pc \in {"fetched", "failed"}
        /\ conn'.owed = asked.owed
        /\ conn'.pc = "fetched" =>
             {n \in Unexpired(replayBuffer) : n > asked.from} \subseteq conn'.fetched
    BY <1>2, <2>1, AnswerIsComplete
  <2>3. conn'.pc = "fetched" => conn'.owed \subseteq Coming'
    BY <1>2, <2>2 DEF Coming
  <2> QED
    BY <1>1, <2>2, <2>3, RequestKeepsStream
<1> QED
  BY <1>3, <1>4, <1>5 DEF StreamInv

(* What is read is written, or the request says that it could not be read. *)
LEMMA ReplayKeepsStream ==
  ASSUME StreamInv, ReadReplay \/ WriteReplay
  PROVE  StreamInv'
<1>1. ConnRow(conn) /\ OwedIsComing /\ conn.unread \in BOOLEAN
  BY DEF StreamInv
<1>2. UNCHANGED <<streamMode, lastEvent, appending, replayBuffer, expiredTo>>
  BY DEF ReadReplay, WriteReplay, serverVars
<1>3. CASE ReadReplay
  <2>1. conn.pc = "reading" /\ streamMode = "redis"
        /\ conn' \in {WithReplay(conn), [conn EXCEPT !.pc = "fetched", !.unread = TRUE]}
    BY <1>3 DEF ReadReplay, StreamInv
  <2>2. CASE conn' = WithReplay(conn)
    <3>1. /\ ConnRow(conn') /\ conn'.unread = conn.unread /\ conn'.owed = conn.owed
          /\ conn'.written = conn.written /\ conn'.pc \in {"fetched", "failed"}
          /\ conn'.pc = "fetched" => {n \in replayBuffer : n > conn.from} \subseteq conn'.fetched
      BY <1>1, <2>1, <2>2, AnswerIsComplete
    <3>2. conn'.pc = "fetched" => Coming \subseteq Coming'
      BY <2>1, <3>1 DEF Coming
    <3> QED
      BY <1>1, <1>2, <2>1, <3>1, <3>2, RequestKeepsStream DEF OwedIsComing
  <2>3. CASE conn' = [conn EXCEPT !.pc = "fetched", !.unread = TRUE]
    <3>1. \E yes \in BOOLEAN : yes /\ conn' = [conn EXCEPT !.pc = "fetched", !.unread = yes]
      BY <2>3, Zenon
    <3>2. ConnRow(conn') /\ conn'.unread \in BOOLEAN /\ conn'.unread /\ conn'.pc = "fetched"
      BY <1>1, <3>1 DEF ConnRow
    <3> QED
      BY <1>2, <3>2, RequestKeepsStream
  <2> QED
    BY <2>1, <2>2, <2>3
<1>4. CASE WriteReplay
  <2>1. /\ conn.pc = "fetched"
        /\ \E wire : conn' = [conn EXCEPT !.pc = "replayed", !.fetched = {}, !.wire = wire,
                                          !.written = conn.written \cup conn.fetched]
    BY <1>4 DEF WriteReplay
  <2>2. /\ ConnRow(conn') /\ conn'.unread = conn.unread /\ conn'.pc = "replayed"
        /\ conn'.owed = conn.owed /\ conn'.written = conn.written \cup conn.fetched
    BY <1>1, <2>1 DEF ConnRow
  <2>3. Coming = conn.fetched
    BY <2>1 DEF Coming
  <2> QED
    BY <1>1, <1>2, <2>1, <2>2, <2>3, RequestKeepsStream DEF OwedIsComing
<1> QED
  BY <1>3, <1>4

(* A broadcast while the replay is read is written at once.                *)
LEMMA FanOutKeepsStream ==
  ASSUME StreamInv, NEW n \in Events, FanOutToTab(n)
  PROVE  StreamInv'
<1>1. ConnRow(conn) /\ OwedIsComing /\ conn.unread \in BOOLEAN
      /\ (conn.pc = "reading" => streamMode = "redis")
  BY DEF StreamInv
<1>2. UNCHANGED <<streamMode, lastEvent, appending, replayBuffer, expiredTo>>
  BY DEF FanOutToTab
<1>3. CASE conn' = conn
  BY <1>1, <1>2, <1>3, RequestKeepsStream DEF OwedIsComing, Coming
<1>4. CASE conn' # conn
  <2>1. /\ Registered
        /\ conn' = [conn EXCEPT !.owed = @ \cup {n},
                      !.wire = IF Registered THEN Append(@, n) ELSE @,
                      !.written = IF Registered THEN @ \cup {n} ELSE @]
    BY <1>4 DEF FanOutToTab, Registered
  <2>2. /\ ConnRow(conn') /\ conn'.pc = conn.pc /\ conn'.from = conn.from
        /\ conn'.fetched = conn.fetched /\ conn'.unread = conn.unread
        /\ conn'.owed = conn.owed \cup {n} /\ conn'.written = conn.written \cup {n}
    BY <1>1, <2>1 DEF ConnRow
  <2>3. Coming' = Coming
    BY <1>2, <2>2 DEF Coming
  <2> QED
    BY <1>1, <1>2, <2>2, <2>3, RequestKeepsStream DEF OwedIsComing
<1> QED
  BY <1>3, <1>4

(* Every step of server and client keeps the invariant.                    *)
LEMMA StreamStep == StreamInv /\ [StreamNext]_streamVars => StreamInv'
<1> SUFFICES ASSUME StreamInv, [StreamNext]_streamVars PROVE StreamInv'
  OBVIOUS
<1>1. /\ ConnRow(conn) /\ OwedIsComing /\ conn.unread \in BOOLEAN
      /\ (conn.pc = "reading" => streamMode = "redis")
      /\ lastEvent \in Nat /\ lastEvent \in 0..MaxEvents /\ expiredTo \in Nat
      /\ replayBuffer \cup appending \subseteq 1..lastEvent
  BY StreamAssumption DEF StreamInv
<1>2. ASSUME UNCHANGED serverVars, ConnRow(conn'), conn'.unread = conn.unread, conn'.pc = conn.pc,
             conn'.from = conn.from, conn'.owed = conn.owed, conn'.written = conn.written,
             conn'.fetched = conn.fetched
      PROVE  StreamInv'
  BY <1>1, <1>2, QuietKeepsStream DEF serverVars
<1>3. CASE UNCHANGED streamVars
  BY <1>1, <1>2, <1>3 DEF streamVars
<1>4. ASSUME NEW anew \in BOOLEAN, Cut(anew) \/ RestartServer(anew) PROVE StreamInv'
  <2>1. /\ conn' = NoConn /\ UNCHANGED <<streamMode, lastEvent, appending, expiredTo>>
        /\ replayBuffer' \subseteq replayBuffer
    BY <1>4 DEF Cut, RestartServer, serverVars
  <2> QED
    BY <1>1, <2>1 DEF StreamInv, NoConn, ConnRow, OwedIsComing
<1>5. CASE ReceiveEvent \/ ReceiveReplayEnd
  <2>1. UNCHANGED serverVars /\ conn' = [conn EXCEPT !.wire = Tail(@)]
    BY <1>5 DEF ReceiveEvent, ReceiveReplayEnd
  <2> QED
    BY <1>1, <1>2, <2>1 DEF ConnRow
<1>6. CASE Tier2Answer \/ Tier3Answer \/ FlushBatch
  BY <1>1, <1>2, <1>6 DEF Tier2Answer, Tier3Answer, FlushBatch
<1> QED
  BY <1>3, <1>4, <1>5, <1>6, ServerKeepsStream, ConnectKeepsStream, ReplayKeepsStream,
     FanOutKeepsStream
     DEF StreamNext, ServerStep, ClientStep

(* A request whose replay was read and written has got every event after   *)
(* its cursor that was in the buffer when it came and has not outlived its *)
(* retention since (readReplayAfter, streamRealtimeController), for any    *)
(* number of events, cuts and reconnects.                                  *)
THEOREM ReplaysHaveNoGap == StreamSpec => []AnsweredReplayHasNoGap
<1>1. StreamInv => AnsweredReplayHasNoGap
  <2>1. conn.pc = "replayed" => Coming = {}
    BY DEF Coming
  <2> QED
    BY <2>1 DEF StreamInv, OwedIsComing, AnsweredReplayHasNoGap
<1> QED
  BY <1>1, StreamStart, StreamStep, PTL DEF StreamSpec

-----------------------------------------------------------------------------
(*****************************************************************************)
(* The queries: while the circuit is hot a call repeats at most once.        *)
(*****************************************************************************)

(* A call under way has been repeated less often than tried; one that waits *)
(* while the circuit is hot has not been repeated since it opened.         *)
RepeatsAreTries ==
  \A q \in Queries :
    /\ query[q].pc # "idle" => query[q].tries >= 1 /\ repeats[q] < query[q].tries
    /\ query[q].pc = "waiting" => query[q].tries < MaxTries
    /\ query[q].pc = "waiting" /\ opened = "hot" => repeats[q] = 0

RetryInv == RetryTypeOK /\ RepeatsAreTries /\ OneRepeatWhileOpen

(*****************************************************************************)
(* No query is under way.                                                    *)
(*****************************************************************************)
LEMMA RetryStart == RetryInit => RetryInv
  BY RetryAssumption
     DEF RetryInit, RetryInv, RetryTypeOK, RepeatsAreTries, OneRepeatWhileOpen, NoQuery

(***************************************************************************)
(* A failure: the circuit may open, and then nobody has repeated yet; the  *)
(* call that failed waits only when it is not open.                        *)
(***************************************************************************)
LEMMA FailureKeepsRepeats ==
  ASSUME NEW q \in Queries, RetryInv, FailsForNow(q)
  PROVE  RetryInv'
<1>1. RetryTypeOK /\ RepeatsAreTries /\ OneRepeatWhileOpen
  BY DEF RetryInv
<1>2. /\ query[q].pc = "running" /\ query[q] \in [pc : {"idle", "running", "waiting"}, tries : 0..MaxTries]
      /\ failures' \in 0..FailureThreshold
      /\ opened' \in {"no", "hot", "cooled"} /\ (opened' = opened \/ opened' = "hot")
      /\ repeats' = IF opened' # opened THEN [r \in Queries |-> 0] ELSE repeats
      /\ query' = [query EXCEPT ![q] = IF opened' # "hot" /\ @.tries < MaxTries
                                       THEN [@ EXCEPT !.pc = "waiting"] ELSE NoQuery]
  BY <1>1, RetryAssumption DEF FailsForNow, RetryTypeOK, OneFailureMore, MayRetry
<1>3. RetryTypeOK'
  BY <1>1, <1>2, RetryAssumption DEF RetryTypeOK, NoQuery
<1>4. \A r \in Queries \ {q} : query'[r] = query[r]
  BY <1>1, <1>2 DEF RetryTypeOK
<1>5. /\ query'[q].pc \in {"idle", "waiting"}
      /\ query'[q].pc = "waiting" =>
           opened' # "hot" /\ query[q].tries < MaxTries /\ query'[q].tries = query[q].tries
  BY <1>1, <1>2 DEF RetryTypeOK, NoQuery
<1>6. \A r \in Queries : repeats'[r] <= repeats[r] /\ (opened' # opened => repeats'[r] = 0)
  BY <1>1, <1>2 DEF RetryTypeOK
<1>7. repeats \in [Queries -> 0..MaxTries] /\ repeats' \in [Queries -> 0..MaxTries]
  BY <1>1, <1>3 DEF RetryTypeOK
<1>8. query \in [Queries -> [pc : {"idle", "running", "waiting"}, tries : 0..MaxTries]]
  BY <1>1 DEF RetryTypeOK
<1>9. RepeatsAreTries'
  BY <1>1, <1>2, <1>4, <1>5, <1>6, <1>7, <1>8, RetryAssumption DEF RepeatsAreTries
<1>10. OneRepeatWhileOpen'
  BY <1>1, <1>2, <1>6, <1>7 DEF OneRepeatWhileOpen
<1> QED
  BY <1>3, <1>9, <1>10 DEF RetryInv

(*****************************************************************************)
(* Every step of the calls and of the circuit.                               *)
(*****************************************************************************)
LEMMA RetryStepKeepsRepeats == RetryInv /\ [RetryNext]_retryVars => RetryInv'
<1> SUFFICES ASSUME RetryInv, [RetryNext]_retryVars PROVE RetryInv'
  OBVIOUS
<1> USE RetryAssumption DEF RetryInv, RetryTypeOK, RepeatsAreTries, OneRepeatWhileOpen, NoQuery
<1>1. CASE UNCHANGED retryVars
  BY <1>1 DEF retryVars
<1>2. CASE Forget
  BY <1>2 DEF Forget
<1>3. CASE CoolDown
  BY <1>3 DEF CoolDown
<1>4. ASSUME NEW q \in Queries, Begin(q) PROVE RetryInv'
  BY <1>4 DEF Begin
<1>5. ASSUME NEW q \in Queries, Succeeds(q) PROVE RetryInv'
  BY <1>5 DEF Succeeds
<1>6. ASSUME NEW q \in Queries, Refused(q) PROVE RetryInv'
  BY <1>6 DEF Refused
<1>7. ASSUME NEW q \in Queries, TryAgain(q) PROVE RetryInv'
  BY <1>7 DEF TryAgain
<1> QED
  BY <1>1, <1>2, <1>3, <1>4, <1>5, <1>6, <1>7, FailureKeepsRepeats DEF RetryNext

(*****************************************************************************)
(* For any number of queries and any thresholds: while the cooldown of an    *)
(* open circuit runs, no call is repeated more than once (pgQueryRetry.js    *)
(* executeWithPgRetry, pgRetryCircuit.js canRetry and                        *)
(* recordTransientFailure).                                                  *)
(*****************************************************************************)
THEOREM NoRetryStorm == RetrySpec => []OneRepeatWhileOpen
<1>1. RetryInv => OneRepeatWhileOpen
  BY DEF RetryInv
<1> QED
  BY <1>1, RetryStart, RetryStepKeepsRepeats, PTL DEF RetrySpec

-----------------------------------------------------------------------------
(*****************************************************************************)
(* The AI gateway: the counts of a circuit agree with its state.             *)
(*****************************************************************************)

(* As much of the type as the circuit depends on. *)
CircuitType == [state : {"CLOSED", "OPEN", "HALF_OPEN"}, failures : 0..Threshold + 1,
                probe : BOOLEAN]

(* A probe is there only while the circuit is half open. *)
CircuitInv ==
  /\ circuit \in CircuitType
  /\ {cooled, lost} \subseteq BOOLEAN
  /\ DOMAIN call = Calls /\ \A g \in Calls : DOMAIN call[g] = {"pc", "left", "to"}
  /\ circuit.probe => circuit.state = "HALF_OPEN"
  /\ CircuitIsSound

(*****************************************************************************)
(* The circuit is closed and nobody calls.                                   *)
(*****************************************************************************)
LEMMA CircuitStart == GatewayInit => CircuitInv
<1> SUFFICES ASSUME GatewayInit PROVE CircuitInv
  OBVIOUS
<1>1. circuit = [state |-> "CLOSED", failures |-> 0, probe |-> FALSE]
  BY DEF GatewayInit
<1>2. circuit \in CircuitType /\ circuit.state = "CLOSED" /\ ~circuit.probe
      /\ circuit.failures < Threshold
  BY <1>1, GatewayAssumption DEF CircuitType
<1>3. DOMAIN call = Calls /\ \A g \in Calls : DOMAIN call[g] = {"pc", "left", "to"}
  BY DEF GatewayInit, NoCall
<1>4. {cooled, lost} \subseteq BOOLEAN
  BY DEF GatewayInit
<1> QED
  BY <1>2, <1>3, <1>4 DEF CircuitInv, CircuitIsSound, ProbeIsHeld, ClosedIsBelowThreshold

(***************************************************************************)
(* What a recorded outcome makes of the circuit: no probe is left in it,   *)
(* and it is closed only below the threshold.                              *)
(***************************************************************************)
GoodCircuit(c) == c \in CircuitType /\ ~c.probe /\ (c.state = "CLOSED" => c.failures < Threshold)

(* Every outcome leaves a circuit that is in order, whatever it was        *)
(* (recordSuccess, recordTransientFailure, recordNonRetryableFailure).     *)
LEMMA OutcomesKeepCircuit ==
  ASSUME circuit \in CircuitType, circuit.probe => circuit.state = "HALF_OPEN",
         ClosedIsBelowThreshold
  PROVE  GoodCircuit(AfterSuccess) /\ GoodCircuit(AfterTransient) /\ GoodCircuit(AfterNonRetryable)
<1>1. PICK s \in {"CLOSED", "OPEN", "HALF_OPEN"}, n \in 0..Threshold + 1, p \in BOOLEAN :
        circuit = [state |-> s, failures |-> n, probe |-> p]
  BY DEF CircuitType
<1>2. (p => s = "HALF_OPEN") /\ (s = "CLOSED" => n < Threshold)
  BY <1>1 DEF ClosedIsBelowThreshold
<1>3. GoodCircuit(AfterSuccess)
  <2>1. AfterSuccess = IF s = "HALF_OPEN" THEN [state |-> "CLOSED", failures |-> 0, probe |-> FALSE]
                       ELSE [state |-> s, failures |-> 0, probe |-> p]
    BY <1>1 DEF AfterSuccess
  <2> QED
    BY <1>2, <2>1, GatewayAssumption DEF GoodCircuit, CircuitType
<1>4. GoodCircuit(AfterTransient)
  <2> DEFINE more == IF n > Threshold THEN n ELSE n + 1
  <2>1. OneMore = more /\ more \in 0..Threshold + 1
    BY <1>1, GatewayAssumption DEF OneMore
  <2>2. AfterTransient =
          CASE s = "HALF_OPEN" -> [state |-> "OPEN", failures |-> more, probe |-> FALSE]
            [] s = "CLOSED" /\ more >= Threshold -> [state |-> "OPEN", failures |-> more, probe |-> p]
            [] OTHER -> [state |-> s, failures |-> more, probe |-> p]
    <3> DEFINE counted == [circuit EXCEPT !.failures = OneMore]
    <3>1. counted = [state |-> s, failures |-> more, probe |-> p]
      BY <1>1, <2>1
    <3>2. AfterTransient =
            CASE circuit.state = "HALF_OPEN" -> [counted EXCEPT !.state = "OPEN", !.probe = FALSE]
              [] circuit.state = "CLOSED" /\ OneMore >= Threshold -> [counted EXCEPT !.state = "OPEN"]
              [] OTHER -> counted
      BY DEF AfterTransient
    <3>3. circuit.state = s
      BY <1>1
    <3> HIDE DEF counted
    <3>4. [counted EXCEPT !.state = "OPEN"] = [state |-> "OPEN", failures |-> more, probe |-> p]
      BY <3>1
    <3>5. [counted EXCEPT !.state = "OPEN", !.probe = FALSE]
            = [state |-> "OPEN", failures |-> more, probe |-> FALSE]
      <4> DEFINE toOpen == [counted EXCEPT !.state = "OPEN"]
      <4>1. [counted EXCEPT !.state = "OPEN", !.probe = FALSE] = [toOpen EXCEPT !.probe = FALSE]
        BY <3>1
      <4>2. toOpen = [state |-> "OPEN", failures |-> more, probe |-> p]
        BY <3>4
      <4> HIDE DEF toOpen
      <4>3. \A no \in BOOLEAN : [toOpen EXCEPT !.probe = no]
                                 = [state |-> "OPEN", failures |-> more, probe |-> no]
        BY <4>2
      <4> QED
        BY <4>1, <4>3, Zenon
    <3> QED
      BY <2>1, <3>1, <3>2, <3>3, <3>4, <3>5
  <2> HIDE DEF more
  <2>3. CASE s = "HALF_OPEN"
    BY <2>1, <2>2, <2>3 DEF GoodCircuit, CircuitType
  <2>4. CASE s = "CLOSED" /\ more >= Threshold
    BY <1>2, <2>1, <2>2, <2>4 DEF GoodCircuit, CircuitType
  <2>5. CASE s # "HALF_OPEN" /\ ~(s = "CLOSED" /\ more >= Threshold)
    BY <1>2, <2>1, <2>2, <2>5, GatewayAssumption DEF GoodCircuit, CircuitType
  <2> QED
    BY <2>3, <2>4, <2>5
<1>5. GoodCircuit(AfterNonRetryable)
  <2>1. AfterNonRetryable = [state |-> s, failures |-> n, probe |-> p /\ s # "HALF_OPEN"]
    BY <1>1 DEF AfterNonRetryable
  <2> QED
    BY <1>2, <2>1 DEF GoodCircuit, CircuitType
<1> QED
  BY <1>3, <1>4, <1>5

(***************************************************************************)
(* checkCircuit: a call that passes is a probe unless the circuit is       *)
(* closed.                                                                 *)
(***************************************************************************)
LEMMA PassingKeepsCircuit ==
  ASSUME circuit \in CircuitType, circuit.probe => circuit.state = "HALF_OPEN",
         ClosedIsBelowThreshold
  PROVE  /\ Passed \in CircuitType
         /\ Passed.probe => Passed.state = "HALF_OPEN"
         /\ Passed.state = "CLOSED" => Passed.failures < Threshold
<1>1. PICK s \in {"CLOSED", "OPEN", "HALF_OPEN"}, n \in 0..Threshold + 1, p \in BOOLEAN :
        circuit = [state |-> s, failures |-> n, probe |-> p]
  BY DEF CircuitType
<1>2. Passed = IF s = "CLOSED" THEN circuit ELSE [state |-> "HALF_OPEN", failures |-> n, probe |-> TRUE]
  <2>1. circuit.state = s
    BY <1>1
  <2>2. [circuit EXCEPT !.state = "HALF_OPEN", !.probe = TRUE]
          = [state |-> "HALF_OPEN", failures |-> n, probe |-> TRUE]
    <3> DEFINE half == [circuit EXCEPT !.state = "HALF_OPEN"]
    <3>1. [circuit EXCEPT !.state = "HALF_OPEN", !.probe = TRUE] = [half EXCEPT !.probe = TRUE]
      BY <1>1
    <3>2. half = [state |-> "HALF_OPEN", failures |-> n, probe |-> p]
      BY <1>1
    <3> HIDE DEF half
    <3>3. \A yes \in BOOLEAN : [half EXCEPT !.probe = yes]
                                = [state |-> "HALF_OPEN", failures |-> n, probe |-> yes]
      BY <3>2
    <3> QED
      BY <3>1, <3>3, Zenon
  <2> QED
    BY <2>1, <2>2 DEF Passed
<1> QED
  BY <1>1, <1>2 DEF CircuitType, ClosedIsBelowThreshold

(*****************************************************************************)
(* A request that ends in an error leaves a circuit without a probe.         *)
(*****************************************************************************)
LEMMA RequestEndKeepsCircuit ==
  ASSUME NEW g \in Calls, CircuitInv,
         EndsTransient(g) \/ EndsNonRetryable(g),
         lost' = lost
  PROVE  CircuitInv'
<1>1. GoodCircuit(circuit') /\ call' = [call EXCEPT ![g] = NoCall] /\ cooled' \in BOOLEAN
  BY OutcomesKeepCircuit DEF EndsTransient, EndsNonRetryable, CircuitInv, CircuitIsSound
<1> QED
  BY <1>1 DEF CircuitInv, CircuitIsSound, GoodCircuit, ProbeIsHeld, ClosedIsBelowThreshold, NoCall

(*****************************************************************************)
(* An attempt that fails: the next one of the chain, or the end of the       *)
(* request.                                                                  *)
(*****************************************************************************)
LEMMA FailureKeepsCircuit ==
  ASSUME NEW g \in Calls, NEW retryable \in BOOLEAN, CircuitInv, call[g].pc # "idle",
         AfterFailure(g, retryable), lost' = lost
  PROVE  CircuitInv'
<1>1. CASE NextAttempt(g)
  BY <1>1 DEF NextAttempt, CircuitInv, CircuitIsSound, ProbeIsHeld, ClosedIsBelowThreshold
<1> QED
  BY <1>1, RequestEndKeepsCircuit DEF AfterFailure

(*****************************************************************************)
(* Every step of the calls, and the cooldown.                                *)
(*****************************************************************************)
LEMMA CircuitStep == CircuitInv /\ [GatewayNext]_gatewayVars => CircuitInv'
<1> SUFFICES ASSUME CircuitInv, [GatewayNext]_gatewayVars PROVE CircuitInv'
  OBVIOUS
<1>1. ASSUME UNCHANGED <<circuit, lost, call>>, cooled' \in BOOLEAN PROVE CircuitInv'
  BY <1>1 DEF CircuitInv, CircuitIsSound, ProbeIsHeld, ClosedIsBelowThreshold
<1>2. cooled \in BOOLEAN /\ lost \in BOOLEAN
  BY DEF CircuitInv
<1>3. CASE UNCHANGED gatewayVars
  BY <1>1, <1>2, <1>3 DEF gatewayVars
<1>4. CASE Cool
  BY <1>1, <1>4 DEF Cool
<1>5. CASE AbortBeforeStart
  <2>1. circuit' = Passed /\ UNCHANGED <<cooled, call>>
    BY <1>5 DEF AbortBeforeStart
  <2>2. lost' \in BOOLEAN /\ (circuit'.probe => lost')
    BY <1>2, <1>5, <2>1, PassingKeepsCircuit DEF AbortBeforeStart, CircuitInv, CircuitIsSound, CircuitType
  <2> QED
    BY <2>1, <2>2, PassingKeepsCircuit
       DEF CircuitInv, CircuitIsSound, ProbeIsHeld, ClosedIsBelowThreshold
<1>6. ASSUME NEW g \in Calls, StartCall(g) PROVE CircuitInv'
  <2>1. /\ circuit' = Passed /\ UNCHANGED <<cooled, lost>>
        /\ call' = [call EXCEPT ![g].pc = "resolve"]
    BY <1>6 DEF StartCall
  <2> QED
    BY <2>1, PassingKeepsCircuit
       DEF CircuitInv, CircuitIsSound, ProbeIsHeld, ClosedIsBelowThreshold
<1>7. ASSUME NEW g \in Calls, CallSucceeds(g) PROVE CircuitInv'
  <2>1. /\ circuit' = AfterSuccess /\ UNCHANGED <<cooled, lost>>
        /\ call' = [call EXCEPT ![g] = NoCall]
    BY <1>7 DEF CallSucceeds
  <2>2. GoodCircuit(circuit')
    BY <2>1, OutcomesKeepCircuit DEF CircuitInv, CircuitIsSound
  <2> QED
    BY <2>1, <2>2 DEF CircuitInv, CircuitIsSound, GoodCircuit, ProbeIsHeld, ClosedIsBelowThreshold, NoCall
<1>8. ASSUME NEW g \in Calls, RecordHealth(g) PROVE CircuitInv'
  <2>1. call[g].pc # "idle" /\ AfterFailure(g, call[g].to = "rate_limited") /\ lost' = lost
    BY <1>8 DEF RecordHealth
  <2>2. (call[g].to = "rate_limited") \in BOOLEAN
    OBVIOUS
  <2>3. CASE call[g].to = "rate_limited"
    BY <2>1, <2>3, FailureKeepsCircuit DEF AfterFailure
  <2>4. CASE call[g].to # "rate_limited"
    BY <2>1, <2>4, FailureKeepsCircuit DEF AfterFailure
  <2> QED
    BY <2>3, <2>4
<1>9. ASSUME NEW g \in Calls, NoAttempt(g) PROVE CircuitInv'
  BY <1>9, RequestEndKeepsCircuit DEF NoAttempt
<1>10. ASSUME NEW g \in Calls, LookAtHealth(g) \/ MarkHealthy(g) PROVE CircuitInv'
  BY <1>1, <1>2, <1>10 DEF LookAtHealth, MarkHealthy
<1>11. ASSUME NEW g \in Calls, NEW b \in BOOLEAN, ResolveChain(g, b) PROVE CircuitInv'
  <2>1. /\ UNCHANGED <<circuit, cooled, lost>>
        /\ \E left : \E pc \in {"thrown", "try"} : call' = [call EXCEPT ![g].pc = pc, ![g].left = left]
    BY <1>11 DEF ResolveChain
  <2> QED
    BY <2>1 DEF CircuitInv, CircuitIsSound, ProbeIsHeld, ClosedIsBelowThreshold
<1>12. ASSUME NEW g \in Calls, NEW b \in BOOLEAN, CallFails(g, b) PROVE CircuitInv'
  BY <1>12, FailureKeepsCircuit DEF CallFails
<1>13. ASSUME NEW g \in Calls, NEW to, CredentialFails(g, to) PROVE CircuitInv'
  BY <1>13 DEF CredentialFails, CircuitInv, CircuitIsSound, ProbeIsHeld, ClosedIsBelowThreshold
<1>14. ASSUME NEW c \in Credentials, CheckHealth(c) PROVE CircuitInv'
  BY <1>1, <1>2, <1>14 DEF CheckHealth
<1> QED
  BY <1>3, <1>4, <1>5, <1>6, <1>7, <1>8, <1>9, <1>10, <1>11, <1>12, <1>13, <1>14 DEF GatewayNext

(*****************************************************************************)
(* For any number of calls, any credentials and any threshold: the probe of  *)
(* a half-open circuit is held by a request under way unless a cancelled one *)
(* took it, and a closed circuit has counted fewer failures than open it,    *)
(* also after late answers (llmProtection.js checkCircuit, recordSuccess,    *)
(* recordTransientFailure, recordNonRetryableFailure; aiGateway.js           *)
(* runGatewayRequest).                                                       *)
(*****************************************************************************)
THEOREM CircuitStaysSound == GatewaySpec => []CircuitIsSound
<1>1. CircuitInv => CircuitIsSound
  BY DEF CircuitInv
<1> QED
  BY <1>1, CircuitStart, CircuitStep, PTL DEF GatewaySpec

-----------------------------------------------------------------------------
(*****************************************************************************)
(* Both breakers together.                                                   *)
(*****************************************************************************)

(* Both breakers stay sound (llmProtection.js, pgRetryCircuit.js), for     *)
(* every threshold, chain of credentials and set of calls and queries.     *)
THEOREM BreakersStaySound == GatewaySpec /\ RetrySpec => []BreakersAreSound
<1> SUFFICES ASSUME GatewaySpec, RetrySpec
             PROVE  []BreakersAreSound
  OBVIOUS
<1>1. []CircuitIsSound
  BY CircuitStaysSound
<1>2. []OneRepeatWhileOpen
  BY NoRetryStorm
<1> QED
  BY <1>1, <1>2, PTL DEF BreakersAreSound

-----------------------------------------------------------------------------
(*****************************************************************************)
(* The calls of the providers: everybody draws the same verdict.             *)
(*****************************************************************************)

(* A request as the proof sees it. *)
AskRow(r) ==
  DOMAIN r = {"pc", "by", "use", "tries", "got", "late", "said"} /\ r.got \in Failures

(* Nothing has gone wrong with a request that is still asked; an adapter   *)
(* that gave up on a refused key said so; and the key of a request that    *)
(* executes was healthy when it began.                                     *)
RequestsAreFresh ==
  /\ ask.pc = "asked" => ask.got = NoTrouble
  /\ ask.pc \in {"asked", "failed"} /\ ask.use # "test" => noted = "healthy"
  /\ ask.pc = "failed" => ask.use # "test" /\ (KeyRefused(ask.got) => ask.said = "give_up")

CallsInv == AskRow(ask) /\ RequestsAreFresh /\ VerdictsAgree

(***************************************************************************)
(* The failures                                                            *)
(***************************************************************************)
LEMMA NoTroubleIsMild == NoTrouble \in Failures /\ ~KeyRefused(NoTrouble)
<1>1. {} \in Messages
  <2>1. Cardinality({}) = 0
    BY FS_EmptySet
  <2> QED
    BY <2>1, CallsAssumption DEF Messages
<1> QED
  BY <1>1 DEF NoTrouble, Failures, KeyRefused

(* A transport's error has no status, and a status no transport's code.    *)
LEMMA FailureShape ==
  ASSUME NEW f \in Failures
  PROVE  /\ f = [status |-> f.status, code |-> f.code, words |-> f.words]
         /\ f.status # 0 => f.code \in Codes \cup {"none"}
BY DEF Failures, Statuses

(* What an adapter makes of a failure is a failure with the same status    *)
(* and words, and perhaps without its code.                                *)
LEMMA SeenShape ==
  ASSUME NEW f \in Failures, NEW by
  PROVE  /\ SeenBy(by, f) \in Failures
         /\ SeenBy(by, f).status = f.status /\ SeenBy(by, f).words = f.words
         /\ SeenBy(by, f).code \in {f.code, "none"}
BY DEF Failures, Statuses, SeenBy

(***************************************************************************)
(* No adapter asks again what lasts (classifyProviderError), least of all  *)
(* with a key that was refused.                                            *)
(***************************************************************************)
LEMMA LastingIsNotRepeated ==
  ASSUME NEW f \in Failures, NEW by, Lasts(f) \/ KeyRefused(f)
  PROVE  ~Repeatable(SeenBy(by, f))
<1> DEFINE face == SeenBy(by, f)
<1>1. /\ face.status = f.status /\ face.words = f.words /\ face.code \in {f.code, "none"}
      /\ f.status # 0 => f.code \in Codes \cup {"none"}
  BY FailureShape, SeenShape
<1> HIDE DEF face
<1>2. /\ "aborted" \notin f.words
      /\ \/ f.status \in {401, 402, 403, 404}
         \/ f.status = 400 /\ "invalid_json" \notin f.words /\ f.code # "json_validate_failed"
         \/ f.status = 429 /\ "quota" \in f.words
  BY DEF Lasts, KeyRefused
<1>3. f.code \in Codes \cup {"none"}
  BY <1>1, <1>2
<1>4. face.code \notin Transport /\ ~Aborted(face)
  BY <1>1, <1>2, <1>3 DEF Aborted, Codes, Transport
<1>5. ~IsJsonFailure(face)
  BY <1>1, <1>2 DEF IsJsonFailure
<1>6. face.status \in {429, 500, 502, 503, 504} => IsQuota(face)
  BY <1>1, <1>2 DEF IsQuota
<1>7. ~Repeatable(face)
  BY <1>4, <1>5, <1>6 DEF Repeatable
<1> QED
  BY <1>7 DEF face

(***************************************************************************)
(* The refusal reaches the gateway in words, and only words make it        *)
(* believe anything of the key.                                            *)
(***************************************************************************)
LEMMA RefusalReachesGateway ==
  ASSUME NEW f \in Failures
  PROVE  /\ KeyRefused(f) => Transition(WordsOf(f)) = "invalid"
         /\ Transition(WordsOf(f)) # "none" =>
              KeyRefused(f) \/ f.words \cap {"authentication", "permission_denied", "billing"} # {}
<1>1. ASSUME KeyRefused(f) PROVE "authentication" \in WordsOf(f)
  <2>1. f.status \in {401, 403} /\ "aborted" \notin f.words /\ f.code # "ABORT_ERR"
    BY <1>1, FailureShape DEF KeyRefused, Codes
  <2> QED
    BY <2>1 DEF WordsOf, Aborted
<1>2. ASSUME ~KeyRefused(f) PROVE WordsOf(f) = f.words
  BY <1>2 DEF KeyRefused, WordsOf, Aborted
<1>3. \A words : "authentication" \in words => Transition(words) = "invalid"
  BY DEF Transition
<1>4. ASSUME NEW words, words \cap {"authentication", "permission_denied", "billing"} = {}
      PROVE  Transition(words) = "none"
  <2>1. words \cap {"authentication", "permission_denied"} = {} /\ "billing" \notin words
    BY <1>4
  <2> QED
    BY <2>1 DEF Transition
<1> QED
  BY <1>1, <1>2, <1>3, <1>4

(* A request that has not been asked has met no trouble.                   *)
LEMMA NewRequest ==
  ASSUME NEW by
  PROVE  AskRow(NotAsked(by)) /\ NotAsked(by).got = NoTrouble /\ NotAsked(by).pc = "idle"
  BY NoTroubleIsMild DEF NotAsked, AskRow

(* A healthy key and no request yet.                                       *)
LEMMA CallsStart == CallsInit => CallsInv
<1> SUFFICES ASSUME CallsInit PROVE CallsInv
  OBVIOUS
<1>1. PICK by \in Adapters : ask = NotAsked(by)
  BY DEF CallsInit
<1> QED
  BY <1>1, NewRequest
     DEF CallsInit, CallsInv, RequestsAreFresh, VerdictsAgree, RefusalIsSeen, TroubleIsNotTheKeys

(* The provider refused a key under test: the test says so.                *)
LEMMA TestsTellRefusal ==
  ASSUME NEW f \in Failures, NEW by, KeyRefused(f)
  PROVE  TestSays(by, f) \in {"AUTH_FAILURE", "refused"}
<1> DEFINE face == TestSeenBy(by, f)
<1>1. face.status = f.status /\ f.status \in {401, 403} /\ face.code \in Codes \cup {"none"}
  BY FailureShape DEF TestSeenBy, KeyRefused
<1> HIDE DEF face
<1>2. face.code \notin Transport /\ face.status \in {401, 403}
  BY <1>1 DEF Codes, Transport
<1>3. Verdict(face) = "AUTH_FAILURE"
  BY <1>2 DEF Verdict
<1> QED
  BY <1>3 DEF TestSays, face

(***************************************************************************)
(* An adapter throws or asks again.                                        *)
(***************************************************************************)
LEMMA ThrowKeepsCalls ==
  ASSUME CallsInv, ask.pc = "asked", ask.use # "test", NEW f \in Failures, NEW retry \in BOOLEAN,
         Throw(f, retry), KeyRefused(f) => ~retry,
         ~nagged'
  PROVE  CallsInv'
<1>1. AskRow(ask) /\ ask.got = NoTrouble /\ noted = "healthy" /\ noted' = noted
  BY DEF CallsInv, RequestsAreFresh, Throw
<1>2. CASE ask' = [ask EXCEPT !.tries = @ + 1]
  BY <1>1, <1>2
     DEF CallsInv, AskRow, RequestsAreFresh, VerdictsAgree, RefusalIsSeen, TroubleIsNotTheKeys
<1>3. CASE ask' # [ask EXCEPT !.tries = @ + 1]
  <2>1. ask' = [ask EXCEPT !.pc = "failed", !.got = f, !.said = IF retry THEN "retry" ELSE "give_up"]
    BY <1>3 DEF Throw
  <2>2. /\ AskRow(ask') /\ ask'.pc = "failed" /\ ask'.got = f /\ ask'.use = ask.use
        /\ ask'.said = IF retry THEN "retry" ELSE "give_up"
    BY <1>1, <2>1 DEF AskRow
  <2> QED
    BY <1>1, <2>2
       DEF CallsInv, RequestsAreFresh, VerdictsAgree, RefusalIsSeen, TroubleIsNotTheKeys
<1> QED
  BY <1>2, <1>3

(* Every call, answer, repeat and verdict keeps the invariant.             *)
LEMMA CallsStep == CallsInv /\ [CallsNext]_callsVars => CallsInv'
<1> SUFFICES ASSUME CallsInv, [CallsNext]_callsVars PROVE CallsInv'
  OBVIOUS
<1>0. /\ AskRow(ask) /\ RequestsAreFresh /\ VerdictsAgree
      /\ NoTrouble \in Failures /\ ~KeyRefused(NoTrouble) /\ ~nagged
  BY NoTroubleIsMild DEF CallsInv, VerdictsAgree
<1>1. CASE UNCHANGED callsVars
  BY <1>1 DEF callsVars, CallsInv, RequestsAreFresh, VerdictsAgree, RefusalIsSeen, TroubleIsNotTheKeys
<1>2. ASSUME NEW use \in {"json", "text", "test"}, NEW name, AskProvider(use, name) PROVE CallsInv'
  <2> DEFINE request == [NotAsked(ask.by) EXCEPT !.use = use]
  <2>1. AskRow(request) /\ request.got = NoTrouble /\ request.use = use
    BY NewRequest DEF AskRow
  <2> HIDE DEF request
  <2>2. /\ noted' = noted /\ nagged' = nagged /\ (use # "test" => noted = "healthy")
        /\ \/ \E said : ask' = [request EXCEPT !.pc = "ended", !.said = said]
           \/ ask' = [request EXCEPT !.pc = "asked", !.tries = 1]
    BY <1>2 DEF AskProvider, ModelCode, request
  <2>3. /\ AskRow(ask') /\ ask'.got = NoTrouble /\ ask'.use = use /\ ask'.pc \in {"asked", "ended"}
    BY <1>0, <2>1, <2>2 DEF AskRow
  <2> QED
    BY <1>0, <2>2, <2>3
       DEF CallsInv, RequestsAreFresh, VerdictsAgree, RefusalIsSeen, TroubleIsNotTheKeys
<1>3. CASE TestPasses
  <2>1. /\ AskRow(ask') /\ ask'.got = NoTrouble /\ ask'.pc = "ended" /\ ask'.use = "test"
        /\ nagged' = nagged
    BY <1>0, <1>3 DEF TestPasses, AskRow, RequestsAreFresh
  <2> QED
    BY <1>0, <2>1 DEF CallsInv, RequestsAreFresh, VerdictsAgree, RefusalIsSeen, TroubleIsNotTheKeys
<1>4. ASSUME NEW text, TextComes(text) PROVE CallsInv'
  <2>1. CASE Throw(NoTrouble, Api(ask.by, ask.tries) # "responses")
    <3>1. (Api(ask.by, ask.tries) # "responses") \in BOOLEAN
      OBVIOUS
    <3> QED
      BY <1>0, <1>4, <2>1, <3>1, ThrowKeepsCalls DEF TextComes
  <2>2. CASE ask' = [ask EXCEPT !.pc = "ended", !.said = "ok", !.got = NoTrouble] /\ UNCHANGED noted
    <3>1. /\ AskRow(ask') /\ ask'.got = NoTrouble /\ ask'.pc = "ended" /\ ask'.use = ask.use
      BY <1>0, <2>2 DEF AskRow
    <3>2. noted' = "healthy" /\ nagged' = nagged
      BY <1>0, <1>4, <2>2 DEF TextComes, RequestsAreFresh
    <3> QED
      BY <1>0, <3>1, <3>2
         DEF CallsInv, RequestsAreFresh, VerdictsAgree, RefusalIsSeen, TroubleIsNotTheKeys
  <2> QED
    BY <1>4, <2>1, <2>2 DEF TextComes
<1>5. CASE FailureComes
  <2>1. PICK f \in Failures :
          LET face == SeenBy(ask.by, f)
          IN  /\ Throw(face, Repeatable(face))
              /\ nagged' = (nagged \/ (Lasts(f) /\ ask'.pc = "asked"))
    BY <1>5 DEF FailureComes
  <2> DEFINE face == SeenBy(ask.by, f)
  <2>2. /\ face \in Failures /\ (KeyRefused(face) => KeyRefused(f))
        /\ ask.pc = "asked" /\ ask.use # "test"
    BY <1>5, SeenShape DEF FailureComes, KeyRefused
  <2>3. KeyRefused(face) => ~Repeatable(face)
    BY <2>2, LastingIsNotRepeated
  <2>4. Lasts(f) => ask'.pc # "asked"
    <3> SUFFICES ASSUME Lasts(f) PROVE ask'.pc = "failed"
      OBVIOUS
    <3>1. ~Repeatable(face)
      BY LastingIsNotRepeated
    <3>2. ask' = [ask EXCEPT !.pc = "failed", !.got = face, !.said = "give_up"]
      BY <2>1, <3>1 DEF Throw
    <3> QED
      BY <1>0, <3>2 DEF AskRow
  <2>5. ~nagged'
    BY <1>0, <2>1, <2>4
  <2>6. Repeatable(face) \in BOOLEAN
    BY DEF Repeatable
  <2> QED
    BY <2>1, <2>2, <2>3, <2>5, <2>6, ThrowKeepsCalls
<1>6. CASE TestFails
  <2>1. PICK f \in Failures : ask' = [ask EXCEPT !.pc = "ended", !.got = f, !.said = TestSays(ask.by, f)]
    BY <1>6 DEF TestFails
  <2>2. /\ AskRow(ask') /\ ask'.got = f /\ ask'.pc = "ended" /\ ask'.use = "test"
        /\ ask'.said = TestSays(ask.by, f) /\ nagged' = nagged
    BY <1>0, <1>6, <2>1 DEF TestFails, AskRow
  <2> QED
    BY <1>0, <2>2, TestsTellRefusal
       DEF CallsInv, RequestsAreFresh, VerdictsAgree, RefusalIsSeen, TroubleIsNotTheKeys
<1>7. CASE TestTimesOut
  <2>1. PICK f \in Failures : \E said, slow :
          slow /\ ask' = [ask EXCEPT !.pc = "ended", !.got = f, !.late = slow, !.said = said]
    BY <1>7, Zenon DEF TestTimesOut
  <2>2. /\ AskRow(ask') /\ ask'.pc = "ended" /\ ask'.use = "test" /\ ask'.late
        /\ nagged' = nagged
    BY <1>0, <1>7, <2>1 DEF TestTimesOut, AskRow
  <2> QED
    BY <1>0, <2>2 DEF CallsInv, RequestsAreFresh, VerdictsAgree, RefusalIsSeen, TroubleIsNotTheKeys
<1>8. CASE Believe
  <2>1. /\ ask.pc = "failed" /\ ask' = [ask EXCEPT !.pc = "ended"] /\ nagged' = nagged
        /\ noted' = IF Transition(WordsOf(ask.got)) = "none" THEN noted ELSE Transition(WordsOf(ask.got))
    BY <1>8 DEF Believe
  <2>2. /\ AskRow(ask') /\ ask'.pc = "ended" /\ ask'.got = ask.got /\ ask.got \in Failures
        /\ ask'.use = ask.use /\ ask'.said = ask.said
        /\ ask.use # "test" /\ noted = "healthy" /\ (KeyRefused(ask.got) => ask.said = "give_up")
    BY <1>0, <2>1 DEF AskRow, RequestsAreFresh
  <2> QED
    BY <1>0, <2>1, <2>2, RefusalReachesGateway
       DEF CallsInv, RequestsAreFresh, VerdictsAgree, RefusalIsSeen, TroubleIsNotTheKeys
<1> QED
  BY <1>1, <1>2, <1>3, <1>4, <1>5, <1>6, <1>7, <1>8 DEF CallsNext

(* What adapters, retry policy and gateway make of one failure agrees      *)
(* (aiRetryPolicy.js, classifyExecutionFailure, classifyHealthCheckError): *)
(* no outage is held against a key, and no key is asked again after it was *)
(* refused, for messages of any length.                                    *)
THEOREM VerdictsStayInAgreement == CallsSpec => []VerdictsAgree
<1>1. CallsInv => VerdictsAgree
  BY DEF CallsInv
<1> QED
  BY <1>1, CallsStart, CallsStep, PTL DEF CallsSpec

-----------------------------------------------------------------------------
(*****************************************************************************)
(* The resume jobs: an upload whose parsing is under way has somebody        *)
(* serving it.                                                               *)
(*****************************************************************************)

JobRow == [pc : {"none", "extract", "attempt", "llm", "store", "failing", "joined", "over"},
           file : Files, attempt : 0..MaxLlmAttempts, via : Uploads \cup {NoUpload}]

Parsing == {"extract", "attempt", "llm", "store", "failing"}

(* A parse that is under way is the one its file has in inflightJobs, and  *)
(* has an attempt left when it starts one; a job that joined waits for it. *)
ParsesAreInflight ==
  \A j \in Uploads :
    /\ job[j].pc \in Parsing => job[j].via = j /\ inflightJobs[job[j].file] = j
    /\ job[j].pc = "joined" => job[j].via # NoUpload
    /\ job[j].pc \in {"extract", "attempt"} => job[j].attempt < MaxLlmAttempts

ResumeInv == ResumeTypeOK /\ ParsesAreInflight /\ JobsAreServed

(*****************************************************************************)
(* Nothing has been uploaded.                                                *)
(*****************************************************************************)
LEMMA ResumeStart == ResumeInit => ResumeInv
<1> SUFFICES ASSUME ResumeInit PROVE ResumeInv
  OBVIOUS
<1> DEFINE someFile == CHOOSE f \in Files : TRUE
<1>1. someFile \in Files
  BY ResumeAssumption
<1>2. NotUploaded = [pc |-> "none", file |-> someFile, attempt |-> 0, via |-> NoUpload]
  BY DEF NotUploaded
<1> HIDE DEF someFile
<1>3. NotUploaded \in JobRow /\ NotUploaded.pc = "none"
  BY <1>1, <1>2, ResumeAssumption DEF JobRow
<1>4. ResumeTypeOK
  BY <1>3 DEF ResumeInit, ResumeTypeOK, JobRow
<1>5. ParsesAreInflight /\ JobsAreServed
  BY <1>3 DEF ResumeInit, ParsesAreInflight, Parsing, JobsAreServed, CompletedIsStored, InflightIsRunning
<1> QED
  BY <1>4, <1>5 DEF ResumeInv

(*****************************************************************************)
(* An upload: answered from the cache, joined to the parse of the same file, *)
(* or the start of one.                                                      *)
(*****************************************************************************)
LEMMA UploadKeepsJobs ==
  ASSUME NEW j \in Uploads, NEW f \in Files, ResumeInv, Upload(j, f)
  PROVE  ResumeInv'
<1>1. /\ job \in [Uploads -> JobRow] /\ inflightJobs \in [Files -> Uploads \cup {NoUpload}]
      /\ entryStatus \in [Uploads -> {"none", "processing", "completed", "failed"}]
      /\ cache \subseteq Files /\ parsed \subseteq Uploads
  BY DEF ResumeInv, ResumeTypeOK, JobRow
<1>2. /\ job[j].pc \in {"none", "over"}
      /\ entryStatus' = [entryStatus EXCEPT ![j] = "processing"]
      /\ UNCHANGED <<cache, parsed>>
  BY DEF Upload
<1>3. \A k \in Uploads \ {j} : job'[k] = job[k]
  BY <1>1 DEF Upload
<1>4. \A g \in Files : inflightJobs[g] # j
  BY <1>2, ResumeAssumption DEF ResumeInv, JobsAreServed, InflightIsRunning
<1>5. CASE inflightJobs[f] = NoUpload
  <2>1. /\ job'[j] = [pc |-> "extract", file |-> f, attempt |-> 0, via |-> j]
        /\ inflightJobs' = [inflightJobs EXCEPT ![f] = j]
        /\ job' \in [Uploads -> JobRow]
    BY <1>1, <1>5, ResumeAssumption DEF Upload, JobRow
  <2>2. ResumeTypeOK'
    BY <1>1, <1>2, <2>1 DEF ResumeTypeOK, JobRow
  <2>3. ParsesAreInflight'
    BY <1>1, <1>3, <1>5, <2>1, ResumeAssumption DEF ResumeInv, ParsesAreInflight, Parsing, JobRow
  <2>4. CompletedIsStored'
    BY <1>1, <1>2, <1>3, <2>1 DEF ResumeInv, JobsAreServed, CompletedIsStored
  <2>5. InflightIsRunning'
    BY <1>1, <1>3, <1>4, <1>5, <2>1, ResumeAssumption
       DEF ResumeInv, JobsAreServed, InflightIsRunning, ParsesAreInflight, JobRow
  <2> QED
    BY <2>2, <2>3, <2>4, <2>5 DEF ResumeInv, JobsAreServed
<1>6. CASE inflightJobs[f] # NoUpload
  <2>1. /\ job'[j] = [pc |-> "joined", file |-> f, attempt |-> 0, via |-> inflightJobs[f]]
        /\ inflightJobs' = inflightJobs
        /\ job' \in [Uploads -> JobRow]
    BY <1>1, <1>6, ResumeAssumption DEF Upload, JobRow
  <2>2. ResumeTypeOK'
    BY <1>1, <1>2, <2>1 DEF ResumeTypeOK, JobRow
  <2>3. ParsesAreInflight'
    BY <1>1, <1>3, <1>6, <2>1 DEF ResumeInv, ParsesAreInflight, Parsing
  <2>4. CompletedIsStored'
    BY <1>1, <1>2, <1>3, <2>1 DEF ResumeInv, JobsAreServed, CompletedIsStored
  <2>5. InflightIsRunning'
    BY <1>1, <1>3, <1>4, <1>6, <2>1 DEF ResumeInv, JobsAreServed, InflightIsRunning
  <2> QED
    BY <2>2, <2>3, <2>4, <2>5 DEF ResumeInv, JobsAreServed
<1> QED
  BY <1>5, <1>6

(***************************************************************************)
(* The end of a parse: nobody waits for it any more, and its file can be   *)
(* parsed again.                                                           *)
(***************************************************************************)
LEMMA SettlingKeepsJobs ==
  ASSUME NEW j \in Uploads, NEW outcome \in {"completed", "failed"}, ResumeInv,
         job[j].pc \in Parsing, SettleJob(j, outcome),
         cache' \subseteq Files, parsed' \subseteq Uploads, parsed \subseteq parsed',
         outcome = "completed" => j \in parsed'
  PROVE  ResumeInv'
<1>1. /\ job \in [Uploads -> JobRow] /\ inflightJobs \in [Files -> Uploads \cup {NoUpload}]
      /\ entryStatus \in [Uploads -> {"none", "processing", "completed", "failed"}]
  BY DEF ResumeInv, ResumeTypeOK, JobRow
<1>2. job[j].file \in Files /\ job[j].via = j /\ inflightJobs[job[j].file] = j
  BY <1>1 DEF ResumeInv, ParsesAreInflight, JobRow
<1>3. inflightJobs' = [inflightJobs EXCEPT ![job[j].file] = NoUpload]
  BY DEF SettleJob, Left
<1>4. \A k \in Uploads :
        job'[k] = IF job[k].via = j /\ job[k].pc # "over" THEN [job[k] EXCEPT !.pc = "over"]
                  ELSE job[k]
  BY DEF SettleJob, Waiting
<1>5. \A k \in Uploads :
        /\ job'[k] \in JobRow /\ job'[k].via = job[k].via /\ job'[k].file = job[k].file
        /\ job'[k].attempt = job[k].attempt
        /\ job'[k].pc \in {job[k].pc, "over"}
        /\ job[k].via = j => job'[k].pc = "over"
        /\ job[k].via # j => job'[k].pc = job[k].pc
  <2> TAKE k \in Uploads
  <2>1. job[k] \in JobRow
    BY <1>1
  <2> QED
    BY <1>4, <2>1 DEF JobRow
<1>6. \A k \in Uploads :
        /\ entryStatus'[k] \in {"none", "processing", "completed", "failed"}
        /\ entryStatus'[k] = "completed" =>
             entryStatus[k] = "completed" \/ (job[k].via = j /\ outcome = "completed")
  BY <1>1 DEF SettleJob, Waiting
<1>7. ResumeTypeOK'
  <2>1. job' \in [Uploads -> JobRow]
    BY <1>5 DEF SettleJob
  <2>2. entryStatus' \in [Uploads -> {"none", "processing", "completed", "failed"}]
    BY <1>6 DEF SettleJob
  <2> QED
    BY <1>1, <1>3, <2>1, <2>2 DEF ResumeTypeOK, JobRow
<1>8. ParsesAreInflight'
  <2> SUFFICES ASSUME NEW k \in Uploads
               PROVE  /\ job'[k].pc \in Parsing => job'[k].via = k /\ inflightJobs'[job'[k].file] = k
                      /\ job'[k].pc = "joined" => job'[k].via # NoUpload
                      /\ job'[k].pc \in {"extract", "attempt"} => job'[k].attempt < MaxLlmAttempts
    BY DEF ParsesAreInflight
  <2>1. CASE job[k].via = j
    BY <1>5, <2>1 DEF Parsing
  <2>2. CASE job[k].via # j
    <3>1. /\ job[k].pc \in Parsing => job[k].via = k /\ inflightJobs[job[k].file] = k
          /\ job[k].pc = "joined" => job[k].via # NoUpload
          /\ job[k].pc \in {"extract", "attempt"} => job[k].attempt < MaxLlmAttempts
      BY DEF ResumeInv, ParsesAreInflight
    <3>2. job[k].file \in Files
      BY <1>1 DEF JobRow
    <3>3. job[k].pc \in Parsing => job[k].file # job[j].file
      BY <1>2, <2>2, <3>1
    <3> QED
      BY <1>1, <1>3, <1>5, <2>2, <3>1, <3>2, <3>3
  <2> QED
    BY <2>1, <2>2
<1>9. CompletedIsStored'
  BY <1>5, <1>6 DEF ResumeInv, JobsAreServed, CompletedIsStored
<1>10. InflightIsRunning'
  <2>1. ASSUME NEW f \in Files, inflightJobs'[f] # NoUpload
        PROVE  /\ job'[inflightJobs'[f]].file = f
               /\ job'[inflightJobs'[f]].pc \notin {"none", "joined", "over"}
    <3>1. f # job[j].file /\ inflightJobs'[f] = inflightJobs[f]
      BY <1>1, <1>2, <1>3, <2>1
    <3> DEFINE k == inflightJobs[f]
    <3>2. k \in Uploads /\ job[k].file = f /\ job[k].pc \notin {"none", "joined", "over"}
      BY <1>1, <2>1, <3>1 DEF ResumeInv, JobsAreServed, InflightIsRunning
    <3>3. job[k] \in JobRow
      BY <1>1, <3>2
    <3>4. job[k].pc \in Parsing
      BY <3>2, <3>3 DEF JobRow, Parsing
    <3>5. job[k].via = k /\ k # j
      BY <1>2, <3>1, <3>2, <3>4 DEF ResumeInv, ParsesAreInflight
    <3> QED
      BY <1>5, <3>1, <3>2, <3>5
  <2>2. ASSUME NEW k \in Uploads, job'[k].pc = "joined"
        PROVE  inflightJobs'[job'[k].file] = job'[k].via
    <3>1. job[k].via # j /\ job[k].pc = "joined" /\ job[k].file \in Files
      BY <1>1, <1>5, <2>2 DEF JobRow
    <3>2. inflightJobs[job[k].file] = job[k].via
      BY <3>1 DEF ResumeInv, JobsAreServed, InflightIsRunning
    <3> QED
      BY <1>1, <1>2, <1>3, <1>5, <3>1, <3>2
  <2> QED
    BY <2>1, <2>2 DEF InflightIsRunning
<1> QED
  BY <1>7, <1>8, <1>9, <1>10 DEF ResumeInv, JobsAreServed

(***************************************************************************)
(* A step within a parse.                                                  *)
(***************************************************************************)
LEMMA ParseGoesOn ==
  ASSUME NEW j \in Uploads, ResumeInv, job[j].pc \in Parsing,
         NEW pc \in Parsing, NEW attempt \in 0..MaxLlmAttempts,
         job' = [job EXCEPT ![j].pc = pc, ![j].attempt = attempt],
         pc \in {"extract", "attempt"} => attempt < MaxLlmAttempts,
         UNCHANGED <<inflightJobs, entryStatus, parsed>>, cache' \subseteq Files
  PROVE  ResumeInv'
<1>1. job \in [Uploads -> JobRow] /\ job[j] \in JobRow
  BY DEF ResumeInv, ResumeTypeOK, JobRow
<1>2. \A k \in Uploads \ {j} : job'[k] = job[k]
  BY <1>1
<1>3. job'[j] \in JobRow /\ job'[j].pc = pc /\ job'[j].attempt = attempt
      /\ job'[j].file = job[j].file /\ job'[j].via = job[j].via
  <2>1. job'[j] = [[job[j] EXCEPT !.pc = pc] EXCEPT !.attempt = attempt]
    BY <1>1
  <2> QED
    BY <1>1, <2>1 DEF JobRow, Parsing
<1>0. \A k \in Uploads :
        /\ job'[k].via = job[k].via /\ job'[k].file = job[k].file
        /\ job'[k].pc = job[k].pc \/ (k = j /\ job'[k].pc = pc)
        /\ job'[k].attempt = job[k].attempt \/ (k = j /\ job'[k].attempt = attempt)
  BY <1>2, <1>3
<1>4. ResumeTypeOK'
  <2>1. job' \in [Uploads -> JobRow]
    BY <1>1, <1>2, <1>3
  <2> QED
    BY <2>1 DEF ResumeInv, ResumeTypeOK, JobRow
<1>5. ParsesAreInflight'
  <2> SUFFICES ASSUME NEW k \in Uploads
               PROVE  /\ job'[k].pc \in Parsing => job'[k].via = k /\ inflightJobs[job'[k].file] = k
                      /\ job'[k].pc = "joined" => job'[k].via # NoUpload
                      /\ job'[k].pc \in {"extract", "attempt"} => job'[k].attempt < MaxLlmAttempts
    BY DEF ParsesAreInflight
  <2>1. /\ job[k].pc \in Parsing => job[k].via = k /\ inflightJobs[job[k].file] = k
        /\ job[k].pc = "joined" => job[k].via # NoUpload
        /\ job[k].pc \in {"extract", "attempt"} => job[k].attempt < MaxLlmAttempts
    BY DEF ResumeInv, ParsesAreInflight
  <2>2. CASE k = j
    BY <1>3, <2>1, <2>2 DEF Parsing
  <2>3. CASE k # j
    BY <1>2, <2>1, <2>3
  <2> QED
    BY <2>2, <2>3
<1>6. CompletedIsStored'
  <2>1. CompletedIsStored /\ UNCHANGED <<entryStatus, parsed>>
    BY DEF ResumeInv, JobsAreServed
  <2> QED
    BY <1>0, <2>1 DEF CompletedIsStored
<1>7. InflightIsRunning'
  BY <1>0, <1>1, <1>2, <1>3 DEF ResumeInv, JobsAreServed, InflightIsRunning, Parsing, ResumeTypeOK
<1> QED
  BY <1>4, <1>5, <1>6, <1>7 DEF ResumeInv, JobsAreServed

(*****************************************************************************)
(* Every step of the jobs, the uploads and the restart.                      *)
(*****************************************************************************)
LEMMA ResumeStep == ResumeInv /\ [ResumeNext]_resumeVars => ResumeInv'
<1> SUFFICES ASSUME ResumeInv, [ResumeNext]_resumeVars PROVE ResumeInv'
  OBVIOUS
<1>1. /\ job \in [Uploads -> JobRow] /\ inflightJobs \in [Files -> Uploads \cup {NoUpload}]
      /\ entryStatus \in [Uploads -> {"none", "processing", "completed", "failed"}]
      /\ cache \subseteq Files /\ parsed \subseteq Uploads
  BY DEF ResumeInv, ResumeTypeOK, JobRow
<1>2. \A j \in Uploads, pc \in Parsing :
        JobGoes(j, pc) => job' = [job EXCEPT ![j].pc = pc, ![j].attempt = job[j].attempt]
  <2> SUFFICES ASSUME NEW j \in Uploads, NEW pc \in Parsing, JobGoes(j, pc)
               PROVE  job' = [job EXCEPT ![j].pc = pc, ![j].attempt = job[j].attempt]
    OBVIOUS
  <2>1. job' = [job EXCEPT ![j].pc = pc] /\ job[j] \in JobRow
    BY <1>1 DEF JobGoes
  <2>2. [[job[j] EXCEPT !.pc = pc] EXCEPT !.attempt = job[j].attempt] = [job[j] EXCEPT !.pc = pc]
    BY <2>1 DEF JobRow
  <2> QED
    BY <1>1, <2>1, <2>2
<1>3. \A j \in Uploads : job[j].attempt \in 0..MaxLlmAttempts
  BY <1>1 DEF JobRow
<1>4. CASE UNCHANGED resumeVars
  BY <1>4 DEF resumeVars, ResumeInv, ResumeTypeOK, ParsesAreInflight,
     JobsAreServed, CompletedIsStored, InflightIsRunning
<1>5. CASE RestartWeb
  <2>1. \A j \in Uploads :
          /\ job'[j] \in JobRow /\ job'[j].pc \in {"none", "over"}
    <3> TAKE j \in Uploads
    <3>1. /\ job[j] \in JobRow
          /\ job'[j] = IF job[j].pc = "none" THEN job[j]
                       ELSE [job[j] EXCEPT !.pc = "over", !.attempt = 0]
      BY <1>1, <1>5 DEF RestartWeb
    <3>2. [job[j] EXCEPT !.pc = "over", !.attempt = 0]
            = [[job[j] EXCEPT !.pc = "over"] EXCEPT !.attempt = 0]
      BY <3>1 DEF JobRow
    <3>3. [job[j] EXCEPT !.pc = "over"] \in JobRow /\ [job[j] EXCEPT !.pc = "over"].pc = "over"
      BY <3>1 DEF JobRow
    <3>4. 0 \in 0..MaxLlmAttempts
      BY ResumeAssumption
    <3>5. CASE job[j].pc = "none"
      BY <3>1, <3>5
    <3>6. CASE job[j].pc # "none"
      BY <3>1, <3>2, <3>3, <3>4, <3>6 DEF JobRow
    <3> QED
      BY <3>5, <3>6
  <2>2. ResumeTypeOK'
    BY <1>1, <1>5, <2>1 DEF RestartWeb, ResumeTypeOK, JobRow
  <2> QED
    BY <1>5, <2>1, <2>2 DEF RestartWeb, ResumeInv, ParsesAreInflight, Parsing, JobsAreServed,
                            CompletedIsStored, InflightIsRunning
<1>6. ASSUME NEW f \in Files, CacheExpires(f) PROVE ResumeInv'
  BY <1>6 DEF CacheExpires, ResumeInv, ResumeTypeOK, ParsesAreInflight,
     JobsAreServed, CompletedIsStored, InflightIsRunning
<1>7. ASSUME NEW j \in Uploads, Extract(j) PROVE ResumeInv'
  <2>1. /\ job[j].pc = "extract" /\ (JobGoes(j, "attempt") \/ JobGoes(j, "failing"))
        /\ UNCHANGED <<inflightJobs, cache, entryStatus, parsed>>
        /\ job[j].attempt < MaxLlmAttempts
    BY <1>7 DEF Extract, ResumeInv, ParsesAreInflight
  <2> QED
    BY <1>1, <1>2, <1>3, <2>1, ParseGoesOn DEF Parsing
<1>8. ASSUME NEW j \in Uploads, StartAttempt(j) PROVE ResumeInv'
  <2>1. job[j].pc = "attempt" /\ job[j].attempt < MaxLlmAttempts
    BY <1>8 DEF StartAttempt, ResumeInv, ParsesAreInflight
  <2>2. CASE FromCache(j)
    <3>1. CASE SettleJob(j, "completed") /\ parsed' = parsed \cup {j} /\ cache' = cache
      BY <1>1, <2>1, <3>1, SettlingKeepsJobs DEF Parsing
    <3>2. CASE JobGoes(j, "failing") /\ UNCHANGED <<inflightJobs, cache, entryStatus, parsed>>
      BY <1>1, <1>2, <1>3, <2>1, <3>2, ParseGoesOn DEF Parsing
    <3> QED
      BY <2>2, <3>1, <3>2 DEF FromCache
  <2>3. CASE AskModel(j)
    <3>1. /\ job' = [job EXCEPT ![j].pc = "llm", ![j].attempt = job[j].attempt + 1]
          /\ UNCHANGED <<inflightJobs, cache, entryStatus, parsed>>
      BY <1>1, <2>3 DEF AskModel
    <3>2. job[j].attempt + 1 \in 0..MaxLlmAttempts
      BY <1>3, <2>1, ResumeAssumption
    <3> QED
      BY <1>1, <2>1, <3>1, <3>2, ParseGoesOn DEF Parsing
  <2> QED
    BY <1>8, <2>2, <2>3 DEF StartAttempt
<1>9. ASSUME NEW j \in Uploads, ModelAnswers(j) PROVE ResumeInv'
  <2>1. job[j].file \in Files
    BY <1>1 DEF JobRow
  <2>2. /\ job[j].pc = "llm" /\ cache' = cache \cup {job[j].file} /\ JobGoes(j, "store")
        /\ UNCHANGED <<inflightJobs, entryStatus, parsed>>
    BY <1>9 DEF ModelAnswers
  <2>3. cache' \subseteq Files
    BY <1>1, <2>1, <2>2
  <2> QED
    BY <1>2, <1>3, <2>2, <2>3, ParseGoesOn DEF Parsing
<1>10. ASSUME NEW j \in Uploads, ModelFails(j) PROVE ResumeInv'
  BY <1>1, <1>2, <1>3, <1>10, ParseGoesOn DEF ModelFails, AttemptsLeft, Parsing
<1>11. ASSUME NEW j \in Uploads, StoreParsed(j) PROVE ResumeInv'
  <2>1. CASE /\ job[j].pc = "store" /\ SettleJob(j, "completed")
             /\ parsed' = parsed \cup {j} /\ cache' = cache \ {job[j].file}
    BY <1>1, <2>1, SettlingKeepsJobs DEF Parsing
  <2>2. CASE /\ job[j].pc = "store" /\ JobGoes(j, "failing")
             /\ UNCHANGED <<inflightJobs, cache, entryStatus, parsed>>
    BY <1>1, <1>2, <1>3, <2>2, ParseGoesOn DEF Parsing
  <2> QED
    BY <1>11, <2>1, <2>2 DEF StoreParsed
<1>12. ASSUME NEW j \in Uploads, FailParse(j) PROVE ResumeInv'
  BY <1>1, <1>12, SettlingKeepsJobs DEF FailParse, Parsing
<1>13. ASSUME NEW j \in Uploads, PruneEntry(j) PROVE ResumeInv'
  BY <1>1, <1>13 DEF PruneEntry, ResumeInv, ResumeTypeOK, ParsesAreInflight,
     JobsAreServed, CompletedIsStored, InflightIsRunning
<1> QED
  BY <1>4, <1>5, <1>6, <1>7, <1>8, <1>9, <1>10, <1>11, <1>12, <1>13, UploadKeepsJobs DEF ResumeNext

(*****************************************************************************)
(* For any number of uploads and files: a job that is reported completed     *)
(* waited for a parse that was stored, an entry of inflightJobs belongs to a *)
(* parse of that file that is under way, and a job that joined one waits for *)
(* it (jobHandler.js processResumeJob and its finally,                       *)
(* resumeJobRegistry.js).                                                    *)
(*****************************************************************************)
THEOREM JobsStayServed == ResumeSpec => []JobsAreServed
<1>1. ResumeInv => JobsAreServed
  BY DEF ResumeInv
<1> QED
  BY <1>1, ResumeStart, ResumeStep, PTL DEF ResumeSpec

-----------------------------------------------------------------------------
(*****************************************************************************)
(* The tracker: labels are in the list.                                      *)
(*****************************************************************************)

(* As much of the type of a cell's request as matters. *)
EditRow(e) == DOMAIN e = {"what", "pc", "status", "on", "seen"}

(* The statuses whose deletion has still to clear the applications. *)
BeingCleared == {edit[c].status : c \in {d \in Cells : edit[d].pc = "clear"}}

TrackerInv ==
  /\ DOMAIN edit = Cells /\ \A c \in Cells : EditRow(edit[c])
  /\ DOMAIN trackerOf = TrackedApps
  /\ LabelsAreListed

(* At first no label is given and no request is under way.                 *)
LEMMA TrackerStart == TrackerInit => TrackerInv
  BY TrackerAssumption DEF TrackerInit, TrackerInv, EditRow, NoEdit, LabelsAreListed

(***************************************************************************)
(* A step is sound if the labels it gives are the system's, listed or      *)
(* strayed, what it takes off the list is strayed or will be cleared, and  *)
(* a deletion it ends has cleared its status or leaves it strayed.         *)
(***************************************************************************)
LEMMA SoundStepKeepsLabels ==
  ASSUME TrackerInv,
         DOMAIN edit' = Cells, \A c \in Cells : EditRow(edit'[c]),
         DOMAIN trackerOf' = TrackedApps,
         \A a \in TrackedApps :
           \/ trackerOf'[a] = trackerOf[a]
           \/ trackerOf'[a] \notin CustomStatuses
           \/ trackerOf'[a] \in CustomList' \cup strayed',
         strayed \subseteq strayed',
         CustomList \ CustomList' \subseteq strayed' \cup BeingCleared',
         \A s \in BeingCleared :
           s \in strayed' \cup BeingCleared' \/ \A a \in TrackedApps : s \in CustomStatuses => trackerOf'[a] # s
  PROVE  TrackerInv'
<1>1. LabelsAreListed'
  <2> SUFFICES ASSUME NEW a \in TrackedApps, trackerOf'[a] \in CustomStatuses \ CustomList',
                      trackerOf'[a] \notin strayed'
               PROVE  trackerOf'[a] \in BeingCleared'
    BY DEF LabelsAreListed, BeingCleared
  <2>1. trackerOf'[a] = trackerOf[a] /\ trackerOf[a] \notin strayed
    OBVIOUS
  <2>2. CASE trackerOf[a] \in CustomList
    BY <2>1, <2>2
  <2>3. CASE trackerOf[a] \notin CustomList
    <3>1. trackerOf[a] \in BeingCleared
      BY <2>1, <2>3 DEF TrackerInv, LabelsAreListed, BeingCleared
    <3> QED
      BY <2>1, <3>1
  <2> QED
    BY <2>2, <2>3
<1> QED
  BY <1>1 DEF TrackerInv

(* What a write of the list takes off it and was not meant to has strayed. *)
LEMMA WriteStrays ==
  ASSUME NEW list, NEW meant, WriteList(list, meant)
  PROVE  strayed \subseteq strayed' /\ CustomList \ CustomList' \subseteq strayed' \cup meant
  BY DEF WriteList, CustomList

(* A request goes on by one statement that changes no label.               *)
LEMMA OtherPlaceIsSound ==
  ASSUME TrackerInv, NEW c \in Cells, NEW e, EditRow(e), edit' = [edit EXCEPT ![c] = e],
         edit[c].pc # "clear", DOMAIN trackerOf' = TrackedApps,
         \A a \in TrackedApps :
           \/ trackerOf'[a] = trackerOf[a]
           \/ trackerOf'[a] \notin CustomStatuses
           \/ trackerOf'[a] \in CustomList' \cup strayed',
         strayed \subseteq strayed', CustomList \ CustomList' \subseteq strayed' \cup BeingCleared'
  PROVE  TrackerInv'
<1>1. DOMAIN edit' = Cells /\ \A d \in Cells : EditRow(edit'[d])
  BY DEF TrackerInv
<1>2. \A s \in BeingCleared : s \in BeingCleared'
  BY DEF TrackerInv, BeingCleared
<1> QED
  BY <1>1, <1>2, SoundStepKeepsLabels

(* A request of a cell looks at the list, or writes it.                    *)
LEMMA ListStepIsSound ==
  ASSUME TrackerInv, NEW c \in Cells,
         AskFor(c) \/ ReadList(c) \/ PersistList(c) \/ WriteCreated(c) \/ WriteDeleted(c)
  PROVE  TrackerInv'
<1>1. EditRow(edit[c])
  BY DEF TrackerInv
<1>2. CASE AskFor(c)
  <2>1. PICK what, status, on : Ask(c, what, status, on)
    BY <1>2 DEF AskFor
  <2>2. PICK e : EditRow(e) /\ edit' = [edit EXCEPT ![c] = e]
    <3>1. PICK pc : edit' = [edit EXCEPT ![c] = [what |-> what, status |-> status, on |-> on,
                                                 seen |-> {}, pc |-> pc]]
      BY <2>1 DEF Ask
    <3>2. EditRow([what |-> what, status |-> status, on |-> on, seen |-> {}, pc |-> pc])
      BY DEF EditRow
    <3> QED
      BY <3>1, <3>2
  <2>3. edit[c].pc # "clear" /\ UNCHANGED <<statusList, trackerOf, strayed>>
    BY <2>1 DEF Ask
  <2> QED
    BY <2>2, <2>3, OtherPlaceIsSound DEF TrackerInv, CustomList
<1>3. CASE ReadList(c)
  <2>1. PICK e : EditRow(e) /\ edit' = [edit EXCEPT ![c] = e]
    BY <1>1, <1>3 DEF ReadList, EditRow
  <2>2. edit[c].pc # "clear" /\ UNCHANGED <<statusList, trackerOf, strayed>>
    BY <1>3 DEF ReadList
  <2> QED
    BY <2>1, <2>2, OtherPlaceIsSound DEF TrackerInv, CustomList
<1>4. CASE PersistList(c) \/ WriteCreated(c)
  <2>1. PICK e : EditRow(e) /\ edit' = [edit EXCEPT ![c] = e]
    BY <1>1, <1>4 DEF PersistList, WriteCreated, EditRow
  <2>2. edit[c].pc # "clear" /\ trackerOf' = trackerOf /\ \E list : WriteList(list, {})
    BY <1>4 DEF PersistList, WriteCreated
  <2>3. strayed \subseteq strayed' /\ CustomList \ CustomList' \subseteq strayed'
    BY <2>2, WriteStrays
  <2> QED
    BY <2>1, <2>2, <2>3, OtherPlaceIsSound DEF TrackerInv
<1>5. CASE WriteDeleted(c)
  <2>1. PICK e : EditRow(e) /\ edit' = [edit EXCEPT ![c] = e] /\ e.pc = "clear" /\ e.status = edit[c].status
    <3>1. AfterList(c) = "clear" /\ edit' = [edit EXCEPT ![c] = [@ EXCEPT !.pc = AfterList(c)]]
      BY <1>5 DEF WriteDeleted, AfterList, FirstWrite, TrackerInv
    <3>2. EditRow([edit[c] EXCEPT !.pc = "clear"])
      BY <1>1 DEF EditRow
    <3>3. [edit[c] EXCEPT !.pc = "clear"].pc = "clear" /\ [edit[c] EXCEPT !.pc = "clear"].status = edit[c].status
      BY <1>1 DEF EditRow
    <3> QED
      BY <3>1, <3>2, <3>3
  <2>2. edit[c].pc # "clear" /\ trackerOf' = trackerOf /\ \E list : WriteList(list, {edit[c].status})
    BY <1>5 DEF WriteDeleted
  <2>3. edit'[c] = e
    BY <2>1 DEF TrackerInv
  <2>4. edit[c].status \in BeingCleared'
    BY <2>1, <2>3 DEF BeingCleared
  <2>5. strayed \subseteq strayed' /\ CustomList \ CustomList' \subseteq strayed' \cup BeingCleared'
    BY <2>2, <2>4, WriteStrays
  <2> QED
    BY <2>1, <2>2, <2>5, OtherPlaceIsSound DEF TrackerInv
<1> QED
  BY <1>2, <1>3, <1>4, <1>5

(* A request of a cell writes the applications, or is cut short.           *)
LEMMA LabelStepIsSound ==
  ASSUME TrackerInv, NEW c \in Cells,
         SyncDefaults(c) \/ ClearDeleted(c) \/ Assign(c) \/ RemoveApplications(c) \/ CutShort(c)
  PROVE  TrackerInv'
<1>1. EditRow(edit[c]) /\ EditRow(NoEdit)
  BY DEF TrackerInv, EditRow, NoEdit
<1>2. CASE SyncDefaults(c)
  <2>1. PICK e : EditRow(e) /\ edit' = [edit EXCEPT ![c] = e]
    BY <1>1, <1>2 DEF SyncDefaults, EditRow
  <2>2. edit[c].pc # "clear" /\ UNCHANGED <<statusList, strayed>>
    BY <1>2 DEF SyncDefaults
  <2>3. /\ DOMAIN trackerOf' = TrackedApps
        /\ \A a \in TrackedApps : trackerOf'[a] = trackerOf[a] \/ trackerOf'[a] \notin CustomStatuses
    BY <1>2, TrackerAssumption DEF SyncDefaults, DefaultTracker, SystemStatuses
  <2> QED
    BY <2>1, <2>2, <2>3, OtherPlaceIsSound DEF CustomList
<1>3. CASE ClearDeleted(c)
  <2>1. PICK e : EditRow(e) /\ edit' = [edit EXCEPT ![c] = e]
    BY <1>1, <1>3 DEF ClearDeleted, EditRow
  <2>2. /\ DOMAIN edit' = Cells /\ \A d \in Cells : EditRow(edit'[d])
        /\ \A d \in Cells \ {c} : edit'[d] = edit[d]
    BY <2>1 DEF TrackerInv
  <2>3. UNCHANGED <<statusList, strayed>>
        /\ trackerOf' = [a \in TrackedApps |-> IF trackerOf[a] = edit[c].status THEN NoTracker ELSE trackerOf[a]]
    BY <1>3 DEF ClearDeleted
  <2>4. \A a \in TrackedApps : trackerOf'[a] = trackerOf[a] \/ trackerOf'[a] \notin CustomStatuses
    BY <2>3, TrackerAssumption
  <2>5. \A a \in TrackedApps : edit[c].status \in CustomStatuses => trackerOf'[a] # edit[c].status
    BY <2>3, TrackerAssumption
  <2>6. \A s \in BeingCleared : s \in BeingCleared' \/ s = edit[c].status
    BY <2>2 DEF BeingCleared
  <2>7. CustomList' = CustomList
    BY <2>3 DEF CustomList
  <2>8. DOMAIN trackerOf' = TrackedApps
    BY <2>3
  <2> QED
    BY <2>2, <2>3, <2>4, <2>5, <2>6, <2>7, <2>8, SoundStepKeepsLabels
<1>4. CASE Assign(c)
  <2>1. /\ edit[c].pc # "clear" /\ edit' = [edit EXCEPT ![c] = NoEdit] /\ statusList' = statusList
        /\ strayed' = strayed \cup ({edit[c].status} \cap (CustomStatuses \ CustomList))
        /\ trackerOf' = [a \in TrackedApps |->
             IF a \in edit[c].on /\ trackerOf[a] # Deleted THEN edit[c].status ELSE trackerOf[a]]
    BY <1>4 DEF Assign
  <2>2. CustomList' = CustomList /\ DOMAIN trackerOf' = TrackedApps
    BY <2>1 DEF CustomList
  <2>3. \A a \in TrackedApps : \/ trackerOf'[a] = trackerOf[a] \/ trackerOf'[a] \notin CustomStatuses
                               \/ trackerOf'[a] \in CustomList' \cup strayed'
    BY <2>1, <2>2
  <2> QED
    BY <1>1, <2>1, <2>2, <2>3, OtherPlaceIsSound
<1>5. CASE RemoveApplications(c)
  <2>1. /\ edit[c].pc # "clear" /\ edit' = [edit EXCEPT ![c] = NoEdit] /\ UNCHANGED <<statusList, strayed>>
        /\ DOMAIN trackerOf' = TrackedApps
        /\ \A a \in TrackedApps : trackerOf'[a] = trackerOf[a] \/ trackerOf'[a] \notin CustomStatuses
    BY <1>5, TrackerAssumption DEF RemoveApplications
  <2> QED
    BY <1>1, <2>1, OtherPlaceIsSound DEF CustomList
<1>6. CASE CutShort(c)
  <2>1. /\ edit' = [edit EXCEPT ![c] = NoEdit] /\ UNCHANGED <<statusList, trackerOf>>
        /\ strayed \subseteq strayed' /\ (edit[c].pc = "clear" => edit[c].status \in strayed')
    BY <1>6 DEF CutShort
  <2>2. /\ DOMAIN edit' = Cells /\ \A d \in Cells : EditRow(edit'[d])
        /\ \A d \in Cells \ {c} : edit'[d] = edit[d]
    BY <1>1, <2>1 DEF TrackerInv
  <2>3. \A s \in BeingCleared : s \in strayed' \cup BeingCleared'
    BY <2>1, <2>2 DEF BeingCleared
  <2>4. CustomList' = CustomList
    BY <2>1 DEF CustomList
  <2> QED
    BY <2>1, <2>2, <2>3, <2>4, SoundStepKeepsLabels DEF TrackerInv
<1> QED
  BY <1>2, <1>3, <1>4, <1>5, <1>6

(* The workers look at the list, write it back, and give the system's      *)
(* labels.                                                                 *)
LEMMA WorkerStepIsSound ==
  ASSUME TrackerInv, NEW a \in TrackedApps,
         \/ LookForHold(a) \/ HoldGenerated(a) \/ GenerateToSend(a) \/ MarkSent(a)
         \/ LabelReads(a) \/ LabelPersists(a) \/ LabelSyncs(a) \/ LabelSent(a) \/ LabellingStops(a)
  PROVE  TrackerInv'
<1>1. edit' = edit
  BY DEF LookForHold, HoldGenerated, GenerateToSend, MarkSent, LabelReads, LabelPersists, LabelSyncs,
         LabelSent, LabellingStops
<1>2. UNCHANGED <<statusList, strayed>> \/ \E list : WriteList(list, {})
  BY DEF LookForHold, HoldGenerated, GenerateToSend, MarkSent, LabelReads, LabelPersists, LabelSyncs,
         LabelSent, LabellingStops
<1>3. strayed \subseteq strayed' /\ CustomList \ CustomList' \subseteq strayed'
  BY <1>2, WriteStrays DEF CustomList
<1>4. /\ DOMAIN trackerOf' = TrackedApps
      /\ \A b \in TrackedApps : trackerOf'[b] = trackerOf[b] \/ trackerOf'[b] \notin CustomStatuses
  <2>1. CASE HoldGenerated(a) \/ LabelSyncs(a)
    BY <2>1, TrackerAssumption DEF HoldGenerated, LabelSyncs, DefaultTracker, SystemStatuses
  <2>2. CASE LabelSent(a)
    BY <2>2, TrackerAssumption DEF LabelSent, SystemStatuses, TrackerInv
  <2>3. CASE trackerOf' = trackerOf
    BY <2>3 DEF TrackerInv
  <2> QED
    BY <2>1, <2>2, <2>3
       DEF LookForHold, GenerateToSend, MarkSent, LabelReads, LabelPersists, LabellingStops
<1>5. \A s \in BeingCleared : s \in BeingCleared'
  BY <1>1 DEF BeingCleared
<1> QED
  BY <1>1, <1>3, <1>4, <1>5, SoundStepKeepsLabels DEF TrackerInv

(* Every step keeps the labels listed.                                     *)
LEMMA TrackerStep == TrackerInv /\ [TrackerNext]_trackerVars => TrackerInv'
<1> SUFFICES ASSUME TrackerInv, [TrackerNext]_trackerVars PROVE TrackerInv'
  OBVIOUS
<1>1. CASE UNCHANGED trackerVars
  BY <1>1 DEF trackerVars, TrackerInv, LabelsAreListed, CustomList
<1> QED
  BY <1>1, ListStepIsSound, LabelStepIsSound, WorkerStepIsSound DEF TrackerNext

(* An application keeps a label the list does not have only while the      *)
(* label's deletion is clearing it, or when a write of an older list        *)
(* dropped it, it was given when gone, or its deletion was cut short        *)
(* (trackerStatusService.js, applicationTrackerStatusAssignment.js),        *)
(* whatever the applications, labels, cells and bounds.                     *)
THEOREM LabelsStayListed == TrackerSpec => []LabelsAreListed
<1>1. TrackerInv => LabelsAreListed
  BY DEF TrackerInv
<1> QED
  BY <1>1, TrackerStart, TrackerStep, PTL DEF TrackerSpec

-----------------------------------------------------------------------------
(*****************************************************************************)
(* The details sheet: what is mailed is what was shown.                      *)
(*****************************************************************************)

SheetRow == [detail : Seen, draft : Letters \cup {NoLetter}, pc : {"idle", "save", "saving", "send",
               "sending", "order", "continue", "retry"}, what : Letters \cup {NoLetter},
             fetch : {"none", "asked", "read"}, answer : Seen]

EditType ==
  /\ letterRow \in Seen
  /\ letterJob \in [pc : {"none", "queued", "read", "out"}, text : Letters]
  /\ redo \in [pc : {"none", "queued", "read"}, text : Letters]
  /\ sheet \in SheetRow
  /\ loose \in [pc : {"none", "asked", "checked"}, text : Letters]
  /\ sheet.pc \in {"saving", "sending"} => sheet.what # NoLetter

(* What the application's status says of the jobs: an order waits or is    *)
(* read for a generated application, and only a draft is processed again.  *)
StatusSaysJobs ==
  /\ letterJob.pc \in {"queued", "read"} => letterRow.status = "generated"
  /\ letterJob.pc = "out" => letterRow.status \in {"generated", "sent"}
  /\ letterRow.status = "sent" => letterJob.pc = "out"
  /\ redo.pc # "none" => letterRow.status = "draft"

(* The stored text is always one that the order may mail, and one that the *)
(* sheet may order.                                                        *)
StoredIsDue ==
  /\ letterJob.pc \in {"queued", "read"} => letterRow.text \in due
  /\ sheet.pc = "order" => letterRow.text \in own
  /\ letterJob.pc \in {"read", "out"} /\ ~rewritten => letterRow.text = letterJob.text

EditInv == EditType /\ StatusSaysJobs /\ StoredIsDue /\ OrderedIsMailed

(* A letter that is stored, and nothing under way.                         *)
LEMMA EditStart == EditInit => EditInv
<1> SUFFICES ASSUME EditInit PROVE EditInv
  OBVIOUS
<1>1. FirstLetter \in Letters
  BY LettersAssumption DEF FirstLetter
<1> QED
  BY <1>1 DEF EditInit, EditInv, EditType, Seen, RowStatuses, SheetRow, StatusSaysJobs, StoredIsDue,
              OrderedIsMailed

(***************************************************************************)
(* What the sheet does for itself.                                         *)
(***************************************************************************)
LEMMA SheetKeepsEdits ==
  ASSUME EditInv, sheet' \in SheetRow,
         sheet'.pc \in {"saving", "sending"} => sheet'.what # NoLetter,
         sheet'.pc = "order" => sheet.pc = "order" /\ own' = own,
         UNCHANGED <<letterRow, letterJob, redo, due, rewritten>>,
         loose' \in [pc : {"none", "asked", "checked"}, text : Letters]
  PROVE  EditInv'
  BY DEF EditInv, EditType, StatusSaysJobs, StoredIsDue, OrderedIsMailed

(* A refetch changes neither what the sheet is doing nor with which text.  *)
LEMMA RefetchShape ==
  ASSUME NEW s \in SheetRow
  PROVE  RefetchNow(s) \in SheetRow /\ RefetchNow(s).pc = s.pc /\ RefetchNow(s).what = s.what
  BY DEF RefetchNow, SheetRow

(* Every step of the sheet but its order leaves the stored text and the    *)
(* order alone.                                                            *)
LEMMA SheetStepKeepsEdits ==
  ASSUME EditInv,
         \/ AskDetail \/ ReadForDetail \/ DetailArrives \/ DetailFails \/ PressSave \/ PressSend
         \/ PressContinue \/ PressRetry \/ SaveCutOff \/ Refuse
         \/ \E t \in Letters \cup {NoLetter} : TypeText(t)
         \/ \E t \in Letters : OtherSaves(t)
         \/ LooseChecked
  PROVE  EditInv'
<1>1. EditType /\ sheet \in SheetRow /\ loose \in [pc : {"none", "asked", "checked"}, text : Letters]
      /\ letterRow \in Seen
  BY DEF EditInv, EditType
<1>2. FirstLetter \in Letters
  BY LettersAssumption DEF FirstLetter
<1>3. CASE AskDetail
  BY <1>1, <1>3, RefetchShape, SheetKeepsEdits DEF AskDetail, EditType
<1>4. CASE ReadForDetail
  <2>1. sheet' \in SheetRow /\ sheet'.pc = sheet.pc /\ sheet'.what = sheet.what
    BY <1>1, <1>4 DEF ReadForDetail, SheetRow
  <2> QED
    BY <1>1, <1>4, <2>1, SheetKeepsEdits DEF ReadForDetail, EditType
<1>5. CASE DetailArrives
  <2>1. PICK kept \in {sheet.answer.text, sheet.draft} :
          sheet' = [sheet EXCEPT !.fetch = "none", !.detail = sheet.answer, !.draft = kept]
    BY <1>5 DEF DetailArrives
  <2>2. sheet.answer \in Seen /\ kept \in Letters \cup {NoLetter}
    BY <1>1 DEF SheetRow, Seen
  <2>3. sheet' \in SheetRow /\ sheet'.pc = sheet.pc /\ sheet'.what = sheet.what
    BY <1>1, <2>1, <2>2 DEF SheetRow
  <2> QED
    BY <1>1, <1>5, <2>3, SheetKeepsEdits DEF DetailArrives, EditType
<1>6. CASE DetailFails
  <2>1. sheet' \in SheetRow /\ sheet'.pc = sheet.pc /\ sheet'.what = sheet.what
    BY <1>1, <1>6 DEF DetailFails, SheetRow
  <2> QED
    BY <1>1, <1>6, <2>1, SheetKeepsEdits DEF DetailFails, EditType
<1>7. CASE PressSave \/ PressSend
  <2>1. PICK pc \in {"save", "send"} : sheet' = [sheet EXCEPT !.pc = pc, !.what = sheet.draft]
    BY <1>7 DEF PressSave, PressSend
  <2>2. sheet' \in SheetRow /\ sheet'.pc = pc
    BY <1>1, <2>1 DEF SheetRow
  <2> QED
    BY <1>1, <1>7, <2>1, <2>2, SheetKeepsEdits DEF PressSave, PressSend
<1>8. CASE PressContinue \/ PressRetry
  <2>1. PICK pc \in {"continue", "retry"} : sheet' = [sheet EXCEPT !.pc = pc]
    BY <1>8 DEF PressContinue, PressRetry
  <2>2. sheet' \in SheetRow /\ sheet'.pc = pc
    BY <1>1, <2>1 DEF SheetRow
  <2> QED
    BY <1>1, <1>8, <2>1, <2>2, SheetKeepsEdits DEF PressContinue, PressRetry
<1>9. CASE SaveCutOff
  <2>1. sheet' \in SheetRow /\ sheet'.pc = "idle"
    BY <1>1, <1>9 DEF SaveCutOff, SheetRow
  <2>2. loose' \in [pc : {"none", "asked", "checked"}, text : Letters]
    BY <1>1, <1>9 DEF SaveCutOff, SheetRow
  <2> QED
    BY <1>9, <2>1, <2>2, SheetKeepsEdits DEF SaveCutOff
<1>10. CASE Refuse
  <2>1. sheet' \in SheetRow /\ sheet'.pc = "idle"
    BY <1>1, <1>10 DEF Refuse, SheetRow
  <2> QED
    BY <1>1, <1>10, <2>1, SheetKeepsEdits DEF Refuse
<1>11. ASSUME NEW t \in Letters \cup {NoLetter}, TypeText(t) PROVE EditInv'
  <2>1. sheet' \in SheetRow /\ sheet'.pc = sheet.pc /\ sheet'.what = sheet.what
    BY <1>1, <1>11 DEF TypeText, SheetRow
  <2> QED
    BY <1>1, <1>11, <2>1, SheetKeepsEdits DEF TypeText, EditType
<1>12. ASSUME NEW t \in Letters, OtherSaves(t) PROVE EditInv'
  BY <1>1, <1>12, SheetKeepsEdits DEF OtherSaves, EditType
<1>13. CASE LooseChecked
  <2>1. loose' \in [pc : {"none", "asked", "checked"}, text : Letters]
    BY <1>1, <1>2, <1>13 DEF LooseChecked
  <2> QED
    BY <1>1, <1>13, <2>1, SheetKeepsEdits DEF LooseChecked, EditType
<1> QED
  BY <1>3, <1>4, <1>5, <1>6, <1>7, <1>8, <1>9, <1>10, <1>11, <1>12, <1>13

(***************************************************************************)
(* A text is written, by the sheet or another tab.                         *)
(***************************************************************************)
LEMMA WritingKeepsEdits ==
  ASSUME EditInv, NEW t \in Letters, WriteText(t), UNCHANGED <<letterJob, redo>>,
         loose' \in [pc : {"none", "asked", "checked"}, text : Letters],
         sheet' \in SheetRow, sheet'.pc \notin {"saving", "sending"} \/ sheet' = sheet,
         sheet'.pc = "order" => Ordering
  PROVE  EditInv'
<1>1. letterRow' = [letterRow EXCEPT !.text = t] /\ letterRow \in Seen
  BY DEF WriteText, EditInv, EditType
<1>2. letterRow' \in Seen /\ letterRow'.text = t /\ letterRow'.status = letterRow.status
  BY <1>1 DEF Seen
<1>3. EditType'
  BY <1>2 DEF EditInv, EditType
<1>4. StatusSaysJobs'
  BY <1>2 DEF EditInv, StatusSaysJobs
<1>5. /\ letterJob.pc \in {"queued", "read"} => due' = due \cup {t}
      /\ Ordering => own' = own \cup {t}
      /\ letterJob.pc \in {"read", "out"} => rewritten'
  BY DEF WriteText
<1> QED
  BY <1>2, <1>3, <1>4, <1>5 DEF EditInv, StoredIsDue, OrderedIsMailed

(***************************************************************************)
(* An order: the text it was given for is the one that is stored.          *)
(***************************************************************************)
LEMMA OrderKeepsEdits ==
  ASSUME EditInv, NEW texts, Queued(texts), letterRow'.text \in texts,
         letterRow' \in Seen, letterRow'.status = "generated",
         redo' \in [pc : {"none", "queued", "read"}, text : Letters], redo'.pc = "none",
         sheet' \in SheetRow, sheet'.pc \notin {"saving", "sending"} \/ sheet' = sheet,
         sheet'.pc = "order" => letterRow'.text \in own', loose' = loose
  PROVE  EditInv'
<1>1. FirstLetter \in Letters
  BY LettersAssumption DEF FirstLetter
<1> QED
  BY <1>1 DEF Queued, EditInv, EditType, StatusSaysJobs, StoredIsDue, OrderedIsMailed

(* Every request, order, worker and sheet step keeps the invariant.        *)
LEMMA EditStep == EditInv /\ [EditNext]_editVars => EditInv'
<1> SUFFICES ASSUME EditInv, [EditNext]_editVars PROVE EditInv'
  OBVIOUS
<1>1. /\ EditType /\ StatusSaysJobs /\ StoredIsDue /\ OrderedIsMailed
      /\ sheet \in SheetRow /\ letterRow \in Seen
      /\ loose \in [pc : {"none", "asked", "checked"}, text : Letters]
      /\ letterJob \in [pc : {"none", "queued", "read", "out"}, text : Letters]
      /\ redo \in [pc : {"none", "queued", "read"}, text : Letters]
  BY DEF EditInv, EditType
<1>2. FirstLetter \in Letters
  BY LettersAssumption DEF FirstLetter
<1>3. CASE UNCHANGED editVars
  BY <1>3 DEF editVars, EditInv, EditType, StatusSaysJobs, StoredIsDue, OrderedIsMailed
<1>4. CASE CheckPatch
  <2>1. CASE Refuse
    BY <2>1, SheetStepKeepsEdits
  <2>2. CASE ~Refuse
    <3>1. /\ \E pc \in {"saving", "sending"} : sheet' = [sheet EXCEPT !.pc = pc]
          /\ sheet.what # NoLetter
          /\ UNCHANGED <<letterRow, letterJob, redo, loose, due, own, rewritten, orders>>
      BY <1>4, <2>2 DEF CheckPatch
    <3>2. sheet' \in SheetRow /\ sheet'.pc \in {"saving", "sending"} /\ sheet'.what = sheet.what
      BY <1>1, <3>1 DEF SheetRow
    <3> QED
      BY <1>1, <3>1, <3>2, SheetKeepsEdits
  <2> QED
    BY <2>1, <2>2
<1>5. CASE WritePatch
  <2>1. /\ sheet.pc \in {"saving", "sending"} /\ sheet.what \in Letters
        /\ WriteText(sheet.what) /\ UNCHANGED <<letterJob, redo, loose, orders>>
    BY <1>1, <1>5 DEF WritePatch, EditType, SheetRow
  <2>2. \A pc \in {"order", "idle"} :
          LET s == [sheet EXCEPT !.pc = pc, !.what = NoLetter] IN s \in SheetRow /\ s.pc = pc
    BY <1>1 DEF SheetRow
  <2>3. CASE sheet.pc = "sending"
    <3>1. sheet' = [sheet EXCEPT !.pc = "order", !.what = NoLetter] /\ Ordering
      BY <1>5, <2>3 DEF WritePatch, Ordering
    <3> QED
      BY <1>1, <2>1, <2>2, <3>1, WritingKeepsEdits
  <2>4. CASE sheet.pc # "sending"
    <3>1. sheet' = RefetchNow([sheet EXCEPT !.pc = "idle", !.what = NoLetter])
      BY <1>5, <2>4 DEF WritePatch
    <3>2. sheet' \in SheetRow /\ sheet'.pc = "idle"
      BY <2>2, <3>1, RefetchShape
    <3> QED
      BY <1>1, <2>1, <3>2, WritingKeepsEdits
  <2> QED
    BY <2>3, <2>4
<1>6. CASE LooseWritten
  <2>1. /\ loose.text \in Letters /\ WriteText(loose.text)
        /\ UNCHANGED <<letterJob, redo, sheet>>
        /\ loose' \in [pc : {"none", "asked", "checked"}, text : Letters]
    BY <1>1, <1>2, <1>6 DEF LooseWritten
  <2> QED
    BY <1>1, <2>1, WritingKeepsEdits DEF Ordering
<1>7. CASE OrderArrives
  <2>1. CASE Refuse
    BY <2>1, SheetStepKeepsEdits
  <2>2. CASE ~Refuse
    <3>1. /\ sheet.pc = "order" /\ sheet' = RefetchNow([sheet EXCEPT !.pc = "idle"])
          /\ UNCHANGED <<letterRow, redo, loose>>
          /\ IF letterRow.status = "generated" /\ letterJob.pc = "none" THEN Queued(own)
             ELSE UNCHANGED <<letterJob, due, rewritten, orders>>
      BY <1>7, <2>2 DEF OrderArrives
    <3>2. [sheet EXCEPT !.pc = "idle"] \in SheetRow /\ [sheet EXCEPT !.pc = "idle"].pc = "idle"
      BY <1>1 DEF SheetRow
    <3>3. sheet' \in SheetRow /\ sheet'.pc = "idle"
      BY <3>1, <3>2, RefetchShape
    <3>4. CASE letterRow.status = "generated" /\ letterJob.pc = "none"
      <4>1. letterRow'.text \in own /\ redo'.pc = "none"
        BY <1>1, <3>1, <3>4 DEF StoredIsDue, StatusSaysJobs
      <4> QED
        BY <1>1, <3>1, <3>3, <3>4, <4>1, OrderKeepsEdits
    <3>5. CASE ~(letterRow.status = "generated" /\ letterJob.pc = "none")
      BY <1>1, <3>1, <3>3, <3>5, SheetKeepsEdits
    <3> QED
      BY <3>4, <3>5
  <2> QED
    BY <2>1, <2>2
<1>8. CASE ListSend
  <2>1. /\ letterRow.status = "generated" /\ Queued({letterRow.text})
        /\ UNCHANGED <<letterRow, redo, sheet, loose, own>>
    BY <1>8 DEF ListSend
  <2>2. redo.pc = "none" /\ (sheet.pc = "order" => letterRow.text \in own)
    BY <1>1, <2>1 DEF StatusSaysJobs, StoredIsDue
  <2> QED
    BY <1>1, <2>1, <2>2, OrderKeepsEdits
<1>9. CASE ContinueArrives
  <2>1. CASE Refuse
    BY <2>1, SheetStepKeepsEdits
  <2>2. CASE ~Refuse
    <3>1. /\ letterRow.status = "needs_review" /\ Queued({letterRow.text})
          /\ letterRow' = [letterRow EXCEPT !.status = "generated"]
          /\ sheet' = RefetchNow([sheet EXCEPT !.pc = "idle"]) /\ UNCHANGED <<redo, loose, own>>
      BY <1>9, <2>2 DEF ContinueArrives
    <3>2. [sheet EXCEPT !.pc = "idle"] \in SheetRow /\ [sheet EXCEPT !.pc = "idle"].pc = "idle"
      BY <1>1 DEF SheetRow
    <3>3. sheet' \in SheetRow /\ sheet'.pc = "idle"
      BY <3>1, <3>2, RefetchShape
    <3>4. letterRow' \in Seen /\ letterRow'.status = "generated" /\ letterRow'.text = letterRow.text
      BY <1>1, <3>1 DEF Seen, RowStatuses
    <3>5. redo'.pc = "none"
      BY <1>1, <3>1 DEF StatusSaysJobs
    <3> QED
      BY <1>1, <3>1, <3>3, <3>4, <3>5, OrderKeepsEdits
  <2> QED
    BY <2>1, <2>2
<1>10. CASE RetryArrives
  <2>1. CASE Refuse
    BY <2>1, SheetStepKeepsEdits
  <2>2. CASE ~Refuse
    <3>1. /\ letterRow.status = "failed" /\ letterRow' = [letterRow EXCEPT !.status = "draft"]
          /\ redo' = [pc |-> "queued", text |-> FirstLetter]
          /\ sheet' = RefetchNow([sheet EXCEPT !.pc = "idle"])
          /\ UNCHANGED <<letterJob, loose, due, own, rewritten, orders>>
      BY <1>10, <2>2 DEF RetryArrives
    <3>2. [sheet EXCEPT !.pc = "idle"] \in SheetRow /\ [sheet EXCEPT !.pc = "idle"].pc = "idle"
      BY <1>1 DEF SheetRow
    <3>3. sheet' \in SheetRow /\ sheet'.pc = "idle"
      BY <3>1, <3>2, RefetchShape
    <3>4. letterRow' \in Seen /\ letterRow'.status = "draft" /\ letterRow'.text = letterRow.text
      BY <1>1, <3>1 DEF Seen, RowStatuses
    <3>5. letterJob.pc = "none"
      BY <1>1, <3>1 DEF StatusSaysJobs
    <3> QED
      BY <1>1, <1>2, <3>1, <3>3, <3>4, <3>5
         DEF EditInv, EditType, StatusSaysJobs, StoredIsDue, OrderedIsMailed
  <2> QED
    BY <2>1, <2>2
<1>11. CASE ReadLetter \/ LetterGoesOut
  <2>1. /\ UNCHANGED <<letterRow, redo, sheet, loose, own>>
        /\ letterRow.status = "generated"
        /\ letterJob' \in [pc : {"none", "queued", "read", "out"}, text : Letters]
        /\ \/ /\ letterJob'.pc = "read" /\ letterJob'.text = letterRow.text
              /\ letterRow.text \in due /\ due' = due
           \/ letterJob'.pc = "out" /\ letterJob'.text = letterJob.text /\ letterJob.pc = "read"
              /\ rewritten' = rewritten
    BY <1>1, <1>11 DEF ReadLetter, LetterGoesOut, Seen, StatusSaysJobs, StoredIsDue
  <2> QED
    BY <1>1, <2>1 DEF EditInv, EditType, StatusSaysJobs, StoredIsDue, OrderedIsMailed
<1>12. CASE LetterFails
  <2>1. CASE letterJob' = [pc |-> "queued", text |-> FirstLetter] /\ UNCHANGED <<letterRow, due>>
    BY <1>1, <1>2, <1>12, <2>1
       DEF LetterFails, EditInv, EditType, StatusSaysJobs, StoredIsDue, OrderedIsMailed
  <2>2. CASE /\ letterJob' = [pc |-> "none", text |-> FirstLetter]
             /\ letterRow' = [letterRow EXCEPT !.status = "failed"]
    <3>1. letterRow' \in Seen /\ letterRow'.status = "failed" /\ letterRow'.text = letterRow.text
      BY <1>1, <2>2 DEF Seen, RowStatuses
    <3>2. redo.pc = "none"
      BY <1>1, <1>12 DEF LetterFails, StatusSaysJobs
    <3> QED
      BY <1>1, <1>2, <1>12, <2>2, <3>1, <3>2
         DEF LetterFails, EditInv, EditType, StatusSaysJobs, StoredIsDue, OrderedIsMailed
  <2> QED
    BY <1>12, <2>1, <2>2 DEF LetterFails
<1>13. CASE MarkedSent
  <2>1. letterRow' \in Seen /\ letterRow'.status = "sent" /\ letterRow'.text = letterRow.text
    BY <1>1, <1>13 DEF MarkedSent, Seen, RowStatuses
  <2> QED
    BY <1>1, <1>13, <2>1
       DEF MarkedSent, EditInv, EditType, StatusSaysJobs, StoredIsDue, OrderedIsMailed
<1>14. CASE ReadForProcess \/ ProcessAgain
  <2>1. /\ UNCHANGED <<letterRow, letterJob, sheet, loose, due, own, rewritten>>
        /\ redo' \in [pc : {"none", "queued", "read"}, text : Letters] /\ redo.pc # "none"
    BY <1>1, <1>2, <1>14 DEF ReadForProcess, ProcessAgain, Seen
  <2> QED
    BY <1>1, <2>1 DEF EditInv, EditType, StatusSaysJobs, StoredIsDue, OrderedIsMailed
<1>15. ASSUME NEW next \in {"generated", "needs_review", "failed"}, NEW b \in BOOLEAN,
              Processed(next, b)
       PROVE  EditInv'
  <2>1. /\ redo.pc = "read" /\ redo' = [pc |-> "none", text |-> FirstLetter]
        /\ letterRow' = [status |-> next, text |-> IF next = "failed" THEN letterRow.text ELSE redo.text]
        /\ own' = IF Ordering THEN own \cup {letterRow'.text} ELSE own
        /\ UNCHANGED <<sheet, loose>>
    BY <1>15 DEF Processed
  <2>2. letterRow' \in Seen /\ letterRow'.status = next
    BY <1>1, <2>1 DEF Seen, RowStatuses
  <2>3. letterJob.pc = "none"
    BY <1>1, <2>1 DEF StatusSaysJobs
  <2>4. sheet.pc = "order" => letterRow'.text \in own'
    BY <2>1 DEF Ordering
  <2>5. CASE b
    <3>1. next = "generated" /\ Queued({redo.text}) /\ letterRow'.text = redo.text
      BY <1>15, <2>1, <2>5 DEF Processed
    <3> QED
      BY <1>1, <1>2, <2>1, <2>2, <2>4, <3>1, OrderKeepsEdits
  <2>6. CASE ~b
    <3>1. UNCHANGED <<letterJob, due, rewritten, orders>>
      BY <1>15, <2>6 DEF Processed
    <3> QED
      BY <1>1, <1>2, <2>1, <2>2, <2>3, <2>4, <3>1
         DEF EditInv, EditType, StatusSaysJobs, StoredIsDue, OrderedIsMailed
  <2> QED
    BY <2>5, <2>6
<1> QED
  BY <1>3, <1>4, <1>5, <1>6, <1>7, <1>8, <1>9, <1>10, <1>11, <1>12, <1>13, <1>14, <1>15,
     SheetStepKeepsEdits DEF EditNext

(* What is mailed is a text that was shown to the user who ordered it      *)
(* (updateApplicationEmail and the send worker), except where a save was   *)
(* overtaken, for every set of letters.                                    *)
THEOREM MailStaysAsShown == EditSpec => []MailedAsShown
<1>1. EditInv => MailedAsShown
  BY DEF EditInv, StatusSaysJobs, StoredIsDue, OrderedIsMailed, MailedAsShown, SentIsAsMailed
<1> QED
  BY <1>1, EditStart, EditStep, PTL DEF EditSpec

-----------------------------------------------------------------------------
(*****************************************************************************)
(* The page of applications: what was deleted does not come back.            *)
(*****************************************************************************)

RowMarks == RowStates \cup {"absent", "none", "asked"}

Fetched(v) == fetches[v] \notin {Nothing, Asked}

(* A list, or what a fetch has read, shows a row as deleted only once it   *)
(* is deleted at the server; so is what an answered deletion names.        *)
GoneIsSo ==
  \A r \in Rows :
    /\ \A v \in Views : listed[v][r] = "gone" \/ fetches[v][r] = "gone"
                        => applications[r] = "gone"
    /\ bulk.what = "delete" /\ bulk.pc = "answer" /\ r \in bulk.ids => applications[r] = "gone"

(* What a fetch has read does not bring back what its list has not.        *)
NothingComesBack ==
  \A v \in Views, r \in Rows :
    Fetched(v) /\ listed[v][r] = "gone" => fetches[v][r] = "gone" \/ joinedFirst

PageInv ==
  /\ view \in Views
  /\ listed \in [Views -> [Rows -> RowMarks]]
  /\ fetches \in [Views -> [Rows -> RowMarks]]
  /\ applications \in [Rows -> RowStates]
  /\ joinedFirst \in BOOLEAN
  /\ DOMAIN bulk = {"what", "pc", "ids", "queued", "on"}
  /\ GoneIsSo /\ NothingComesBack

(* Empty lists, no fetch and no action.                                    *)
LEMMA PageStart == PageInit => PageInv
<1> SUFFICES ASSUME PageInit
             PROVE  PageInv
  OBVIOUS
<1>1. /\ {Absent, Nothing, Asked} \subseteq [Rows -> RowMarks]
      /\ \A r \in Rows : Absent[r] # "gone" /\ Nothing[r] # "gone" /\ Asked[r] # "gone"
  BY DEF Absent, Nothing, Asked, RowMarks
<1>2. /\ listed \in [Views -> {Absent}] /\ fetches \in [Views -> {Nothing, Asked}]
      /\ applications \in [Rows -> RowStates] /\ bulk = NoBulk
      /\ view \in Views /\ joinedFirst = FALSE
  BY DEF PageInit, RowStates
<1>3. \A v \in Views : listed[v] = Absent /\ fetches[v] \in {Nothing, Asked}
  BY <1>2
<1>4. GoneIsSo /\ NothingComesBack
  BY <1>1, <1>2, <1>3 DEF GoneIsSo, NothingComesBack, NoBulk
<1>5. listed \in [Views -> [Rows -> RowMarks]] /\ fetches \in [Views -> [Rows -> RowMarks]]
  BY <1>1, <1>2
<1> QED
  BY <1>2, <1>4, <1>5 DEF PageInv, NoBulk

(***************************************************************************)
(* The steps of a fetch: what was read before stays, is dropped, or is     *)
(* read now.                                                               *)
(***************************************************************************)
LEMMA FetchesKeepPage ==
  ASSUME PageInv, UNCHANGED <<listed, applications, bulk>>, view' \in Views,
         joinedFirst' \in BOOLEAN, joinedFirst => joinedFirst',
         fetches' = [v \in Views |-> fetches'[v]],
         \A v \in Views : fetches'[v] \in {fetches[v], Nothing, Asked, applications}
  PROVE  PageInv'
<1>1. fetches' \in [Views -> [Rows -> RowMarks]]
  <2> SUFFICES ASSUME NEW v \in Views
               PROVE  fetches'[v] \in [Rows -> RowMarks]
    OBVIOUS
  <2> QED
    BY DEF PageInv, Nothing, Asked, RowMarks
<1>2. \A r \in Rows : Nothing[r] # "gone" /\ Asked[r] # "gone"
  BY DEF Nothing, Asked
<1>3. GoneIsSo'
  <2> SUFFICES ASSUME NEW r \in Rows
               PROVE  /\ \A v \in Views : listed[v][r] = "gone" \/ fetches'[v][r] = "gone"
                                          => applications[r] = "gone"
                      /\ bulk.what = "delete" /\ bulk.pc = "answer" /\ r \in bulk.ids
                         => applications[r] = "gone"
    BY DEF GoneIsSo
  <2> QED
    BY <1>2 DEF PageInv, GoneIsSo
<1>4. NothingComesBack'
  <2> SUFFICES ASSUME NEW v \in Views, NEW r \in Rows, fetches'[v] \notin {Nothing, Asked},
                      listed[v][r] = "gone"
               PROVE  fetches'[v][r] = "gone" \/ joinedFirst'
    BY DEF NothingComesBack, Fetched
  <2>1. applications[r] = "gone"
    BY DEF PageInv, GoneIsSo
  <2> QED
    BY <2>1 DEF PageInv, NothingComesBack, Fetched
<1> QED
  BY <1>1, <1>3, <1>4 DEF PageInv

(***************************************************************************)
(* The answer of a fetch replaces its list.                                *)
(***************************************************************************)
LEMMA AnswerKeepsPage ==
  ASSUME PageInv, NEW v \in Views, FetchAnswer(v)
  PROVE  PageInv'
<1>1. /\ fetches[v] \in [Rows -> RowMarks]
      /\ listed' = [listed EXCEPT ![v] = fetches[v]]
      /\ fetches' = [fetches EXCEPT ![v] = Nothing]
      /\ UNCHANGED <<view, applications, bulk, joinedFirst>>
  BY DEF FetchAnswer, PageInv
<1>2. Nothing \in [Rows -> RowMarks] /\ \A r \in Rows : Nothing[r] # "gone"
  BY DEF Nothing, RowMarks
<1>3. /\ listed' \in [Views -> [Rows -> RowMarks]]
      /\ fetches' \in [Views -> [Rows -> RowMarks]]
      /\ listed'[v] = fetches[v] /\ fetches'[v] = Nothing
      /\ \A w \in Views \ {v} : listed'[w] = listed[w] /\ fetches'[w] = fetches[w]
  BY <1>1, <1>2 DEF PageInv
<1>4. GoneIsSo' /\ NothingComesBack'
  BY <1>1, <1>2, <1>3 DEF PageInv, GoneIsSo, NothingComesBack, Fetched
<1> QED
  BY <1>1, <1>3, <1>4 DEF PageInv

(***************************************************************************)
(* What the user selects and asks for, and the end of an action.           *)
(***************************************************************************)
LEMMA AskingKeepsPage ==
  ASSUME PageInv,
         \/ \E r \in Rows : Select(r)
         \/ AskDelete \/ ConfirmDelete \/ BulkEnds \/ AskSend
  PROVE  PageInv'
<1>1. /\ UNCHANGED <<view, listed, fetches, applications, joinedFirst>>
      /\ DOMAIN bulk' = DOMAIN bulk
      /\ bulk' = bulk \/ ~(bulk'.what = "delete" /\ bulk'.pc = "answer")
  <2>1. CASE \E r \in Rows : Select(r)
    BY <2>1 DEF Select
  <2>2. CASE AskDelete
    BY <2>2 DEF AskDelete, NoBulk, PageInv
  <2>3. CASE ConfirmDelete
    <3>1. bulk' = NoBulk \/ bulk' = [bulk EXCEPT !.pc = "server", !.ids = Selected]
      BY <2>3 DEF ConfirmDelete
    <3> QED
      BY <2>3, <3>1 DEF ConfirmDelete, NoBulk, PageInv
  <2>4. CASE BulkEnds
    BY <2>4 DEF BulkEnds, NoBulk, PageInv
  <2>5. CASE AskSend
    <3> DEFINE ids == Sendable
    <3>1. bulk' = [NoBulk EXCEPT !.what = "send", !.pc = "server", !.ids = ids]
      BY <2>5 DEF AskSend
    <3> HIDE DEF ids
    <3> QED
      BY <2>5, <3>1 DEF AskSend, NoBulk, PageInv
  <2> QED
    BY <2>1, <2>2, <2>3, <2>4, <2>5
<1>2. GoneIsSo'
  BY <1>1 DEF PageInv, GoneIsSo
<1>3. NothingComesBack'
  BY <1>1 DEF PageInv, NothingComesBack, Fetched
<1> QED
  BY <1>1, <1>2, <1>3 DEF PageInv

(* The server deletes the rows of a bulk deletion: what was read before    *)
(* shows them still, what is read later does not.                          *)
LEMMA DeletionKeepsPage ==
  ASSUME PageInv, BulkDelete
  PROVE  PageInv'
<1>1. CASE \E r \in bulk.ids : applications[r] = "gone"
  <2>1. bulk' = NoBulk /\ UNCHANGED <<view, listed, fetches, applications, joinedFirst>>
    BY <1>1 DEF BulkDelete
  <2>2. GoneIsSo' /\ NothingComesBack'
    BY <2>1 DEF PageInv, GoneIsSo, NothingComesBack, Fetched, NoBulk
  <2> QED
    BY <2>1, <2>2 DEF PageInv, NoBulk
<1>2. CASE ~\E r \in bulk.ids : applications[r] = "gone"
  <2>1. /\ applications' = [r \in Rows |-> IF r \in bulk.ids THEN "gone" ELSE applications[r]]
        /\ bulk' = [bulk EXCEPT !.pc = "answer"]
        /\ UNCHANGED <<view, listed, fetches, joinedFirst>>
    BY <1>2 DEF BulkDelete
  <2>2. DOMAIN bulk' = DOMAIN bulk /\ bulk'.ids = bulk.ids
    BY <2>1 DEF PageInv
  <2>3. applications' \in [Rows -> RowStates]
        /\ \A r \in Rows : applications[r] = "gone" \/ r \in bulk.ids => applications'[r] = "gone"
    BY <2>1 DEF PageInv, RowStates
  <2>4. GoneIsSo'
    BY <2>1, <2>2, <2>3 DEF PageInv, GoneIsSo
  <2>5. NothingComesBack'
    BY <2>1 DEF PageInv, NothingComesBack, Fetched
  <2> QED
    BY <2>1, <2>2, <2>3, <2>4, <2>5 DEF PageInv
<1> QED
  BY <1>1, <1>2

(***************************************************************************)
(* The deleted rows leave the list on the screen, and a fetch that read    *)
(* them is dropped, unless it is the list's first.                         *)
(***************************************************************************)
LEMMA DeleteAnswerKeepsPage ==
  ASSUME PageInv, DeleteAnswer
  PROVE  PageInv'
<1>1. /\ bulk.what = "delete" /\ bulk.pc = "answer" /\ view \in Views
      /\ listed' = [listed EXCEPT ![view] = ListWithout(@, bulk.ids)]
      /\ fetches' = [fetches EXCEPT ![view] = Refetched(view)]
      /\ joinedFirst' = (joinedFirst \/ ~Has(view))
      /\ bulk' = [bulk EXCEPT !.pc = "refresh", !.on = view]
      /\ UNCHANGED <<view, applications>>
  BY DEF DeleteAnswer, RefreshList, PageInv
<1>2. DOMAIN bulk' = DOMAIN bulk /\ bulk'.pc = "refresh"
  BY <1>1 DEF PageInv
<1>3. /\ listed'[view] \in [Rows -> RowMarks]
      /\ \A r \in Rows : listed'[view][r] = "gone" => applications[r] = "gone"
  <2>1. listed'[view] = ListWithout(listed[view], bulk.ids)
    BY <1>1 DEF PageInv
  <2>2. CASE listed[view] = Absent
    BY <1>1, <2>1, <2>2 DEF PageInv, ListWithout, GoneIsSo
  <2>3. CASE listed[view] # Absent
    BY <1>1, <2>1, <2>3 DEF PageInv, ListWithout, GoneIsSo, RowMarks, RowStates
  <2> QED
    BY <2>2, <2>3
<1>4. /\ fetches'[view] \in [Rows -> RowMarks]
      /\ fetches'[view] = Asked \/ (fetches'[view] = fetches[view] /\ joinedFirst')
      /\ \A r \in Rows : Asked[r] # "gone"
  BY <1>1 DEF PageInv, Refetched, Asked, RowMarks
<1>5. /\ listed' \in [Views -> [Rows -> RowMarks]]
      /\ fetches' \in [Views -> [Rows -> RowMarks]]
      /\ \A w \in Views \ {view} : listed'[w] = listed[w] /\ fetches'[w] = fetches[w]
      /\ joinedFirst' \in BOOLEAN /\ (joinedFirst => joinedFirst')
  BY <1>1, <1>3, <1>4 DEF PageInv
<1>6. GoneIsSo'
  BY <1>1, <1>2, <1>3, <1>4, <1>5 DEF PageInv, GoneIsSo
<1>7. NothingComesBack'
  BY <1>1, <1>4, <1>5 DEF PageInv, NothingComesBack, Fetched
<1> QED
  BY <1>1, <1>2, <1>5, <1>6, <1>7 DEF PageInv

(* A bulk send changes rows that are there.                                *)
LEMMA SendKeepsPage ==
  ASSUME PageInv, NEW r \in Rows, BulkSend(r)
  PROVE  PageInv'
<1>1. /\ bulk.what = "send" /\ view \in Views
      /\ UNCHANGED <<view, fetches, joinedFirst>>
      /\ applications' = applications
         \/ (applications[r] = "sendable" /\ applications' = [applications EXCEPT ![r] = "ordered"])
      /\ listed' = listed \/ listed' = [listed EXCEPT ![view][r] = "ordered"]
  BY DEF BulkSend, PageInv
<1>2. DOMAIN bulk' = DOMAIN bulk /\ bulk'.what # "delete"
  <2>1. CASE bulk' = NoBulk
    BY <2>1 DEF PageInv, NoBulk
  <2>2. CASE bulk' = [bulk EXCEPT !.ids = @ \ {r},
                        !.queued = bulk.queued \/ applications[r] = "sendable"]
    BY <1>1, <2>2 DEF PageInv
  <2> QED
    BY <2>1, <2>2, Zenon DEF BulkSend
<1>3. /\ applications' \in [Rows -> RowStates]
      /\ \A q \in Rows : applications[q] = "gone" => applications'[q] = "gone"
  BY <1>1 DEF PageInv, RowStates
<1>4. /\ listed' \in [Views -> [Rows -> RowMarks]]
      /\ \A v \in Views, q \in Rows : listed'[v][q] = "gone" => listed[v][q] = "gone"
  <2>1. CASE listed' = listed
    BY <2>1 DEF PageInv
  <2>2. CASE listed' = [listed EXCEPT ![view][r] = "ordered"]
    BY <1>1, <2>2 DEF PageInv, RowMarks, RowStates
  <2> QED
    BY <1>1, <2>1, <2>2
<1>5. GoneIsSo'
  BY <1>1, <1>2, <1>3, <1>4 DEF PageInv, GoneIsSo
<1>6. NothingComesBack'
  BY <1>1, <1>4 DEF PageInv, NothingComesBack, Fetched
<1> QED
  BY <1>1, <1>2, <1>3, <1>4, <1>5, <1>6 DEF PageInv

(* Every fetch, answer and action of the page keeps the invariant.         *)
LEMMA PageStep ==
  ASSUME PageInv, [PageNext]_pageVars
  PROVE  PageInv'
<1>1. fetches = [v \in Views |-> fetches[v]] /\ view \in Views /\ joinedFirst \in BOOLEAN
  BY DEF PageInv
<1>2. OtherView(view) \in Views
  <2>1. PICK v \in Views, w \in Views : v # w /\ Views = {v, w}
    BY PageAssumption
  <2> QED
    BY <1>1, <2>1 DEF OtherView
<1>3. ASSUME NEW v \in Views, ReadRows(v) \/ FetchFails(v) PROVE PageInv'
  <2>1. /\ UNCHANGED <<view, listed, applications, bulk, joinedFirst>>
        /\ fetches' = [fetches EXCEPT ![v] = fetches'[v]]
        /\ fetches'[v] \in {Nothing, applications}
    BY <1>1, <1>3 DEF ReadRows, FetchFails
  <2> QED
    BY <1>1, <2>1, FetchesKeepPage
<1>4. CASE Refresh
  <2>1. /\ UNCHANGED <<view, listed, applications, bulk, joinedFirst>>
        /\ fetches' = [fetches EXCEPT ![view] = fetches'[view]]
        /\ fetches'[view] \in {fetches[view], Asked}
    BY <1>1, <1>4 DEF Refresh, RefreshList, Refetched
  <2> QED
    BY <1>1, <2>1, FetchesKeepPage
<1>5. CASE SwitchView
  <2>1. PICK old \in BOOLEAN :
          fetches' = [v \in Views |-> IF v # view /\ (old \/ ~Has(v)) THEN Asked ELSE Nothing]
    BY <1>5 DEF SwitchView
  <2>2. UNCHANGED <<listed, applications, bulk, joinedFirst>> /\ view' \in Views
    BY <1>2, <1>5 DEF SwitchView
  <2>3. \A v \in Views : fetches'[v] \in {Nothing, Asked}
    BY <2>1
  <2>4. fetches' = [v \in Views |-> fetches'[v]]
    BY <2>1
  <2> QED
    BY <1>1, <2>2, <2>3, <2>4, FetchesKeepPage
<1>6. CASE UNCHANGED pageVars
  BY <1>1, <1>6, FetchesKeepPage DEF pageVars
<1> QED
  BY <1>3, <1>4, <1>5, <1>6, AnswerKeepsPage, AskingKeepsPage, DeletionKeepsPage,
     DeleteAnswerKeepsPage, SendKeepsPage DEF PageNext

(* A row that a list has dropped as deleted does not come back in it       *)
(* (applicationsCache.ts), except by a first fetch that was joined, for    *)
(* every set of rows and lists.                                            *)
THEOREM DeletedRowsStayGone == PageSpec => DeletedStayGone
<1>1. PageInv /\ [PageNext]_pageVars
      => [\A r \in Rows :
            (Has(view) /\ listed[view][r] = "gone" /\ applications[r] = "gone" /\ view' = view)
            => (listed'[view][r] = "gone" \/ joinedFirst)]_pageVars
  <2> SUFFICES ASSUME PageInv, PageNext, NEW r \in Rows, listed[view][r] = "gone", ~joinedFirst
               PROVE  listed'[view][r] = "gone"
    OBVIOUS
  <2>1. ASSUME NEW v \in Views, FetchAnswer(v) PROVE listed'[view][r] = "gone"
    BY <2>1 DEF FetchAnswer, PageInv, NothingComesBack, Fetched
  <2>2. CASE DeleteAnswer
    <3>1. listed'[view] = ListWithout(listed[view], bulk.ids)
      BY <2>2 DEF DeleteAnswer, PageInv
    <3> QED
      BY <3>1 DEF ListWithout
  <2>3. ASSUME NEW q \in Rows, BulkSend(q) PROVE listed'[view][r] = "gone"
    BY <2>3 DEF BulkSend, PageInv
  <2>4. CASE listed' = listed
    BY <2>4
  <2> QED
    BY <2>1, <2>2, <2>3, <2>4 DEF PageNext, ReadRows, FetchFails, Refresh, SwitchView, Select,
       AskDelete, ConfirmDelete, BulkDelete, BulkEnds, AskSend
<1> QED
  BY <1>1, PageStart, PageStep, PTL DEF PageSpec, DeletedStayGone

-----------------------------------------------------------------------------
(*****************************************************************************)
(* The composer: mail and text, styles, and what is tried again.             *)
(*****************************************************************************)

(* The preview on the page is for the text it was asked with.              *)
PreviewIsForItsText == email.for = previewJd

(* In automatic mode a text is tried once unless the user acts.            *)
TriedOnce == autoMode /\ ~touched => jdText = NoText \/ autoSubmitted = jdText

(* A save is in progress for a style; what it replaces is what the server  *)
(* last confirmed, and what waits for the timer is the user's last choice. *)
SaveIsTracked ==
  /\ storedStyle = IF stylePatch.applied THEN stylePatch.style ELSE lastSent
  /\ stylePatch # NoPatch /\ ~styleDue => stylePatch.style = chosen
  /\ stylePatch = NoPatch => shownStyle \in {chosen, lastSent}
  /\ stylePatch = NoPatch /\ ~styleDue => lastSent = chosen

StyleInv ==
  /\ chosen \in Styles
  /\ styleDue \in BOOLEAN
  /\ styleDue => pendingStyle = chosen
  /\ stylePatch \in [style : Styles \cup {NoStyle}, applied : BOOLEAN]
  /\ stylePatch.applied => stylePatch.style \in Styles
  /\ ~missed => SaveIsTracked

LetterInv ==
  /\ DOMAIN email = {"for", "style"}
  /\ PreviewIsForItsText /\ EmailIsForItsText
  /\ TriedOnce

(* An empty composer that shows the stored style.                          *)
LEMMA ComposerStart == ComposerInit => LetterInv /\ StyleInv
<1> SUFFICES ASSUME ComposerInit
             PROVE  LetterInv /\ StyleInv
  OBVIOUS
<1>1. LetterInv
  BY DEF ComposerInit, LetterInv, PreviewIsForItsText, EmailIsForItsText, TriedOnce, NoEmail,
     sending
<1>2. PICK s \in Styles : shownStyle = s /\ lastSent = s /\ storedStyle = s /\ chosen = s
  BY DEF ComposerInit
<1>3. StyleInv
  BY <1>2 DEF ComposerInit, StyleInv, SaveIsTracked, NoPatch
<1> QED
  BY <1>1, <1>3

(***************************************************************************)
(* The effect on the preview keeps mail and text together.                 *)
(***************************************************************************)
LEMMA EffectKeepsPreview ==
  ASSUME LetterInv, NEW text, NEW ready, PreviewEffect(text, ready)
  PROVE  /\ DOMAIN email' = {"for", "style"} /\ PreviewIsForItsText'
         /\ text = NoText \/ autoSubmitted' = autoSubmitted
  BY DEF PreviewEffect, LetterInv, PreviewIsForItsText, NoEmail

(* What does not touch the style keeps its invariant.                      *)
LEMMA UntouchedStyles ==
  ASSUME StyleInv, UNCHANGED styleVars
  PROVE  StyleInv'
  BY DEF StyleInv, SaveIsTracked, styleVars, NoPatch

(* Pasting, switching the mode and setup changes keep mail and text        *)
(* together.                                                               *)
LEMMA SettingsKeepMail ==
  ASSUME LetterInv,
         \/ \E t \in Texts \cup {NoText} : Paste(t)
         \/ SwitchMode \/ SetupChanges
  PROVE  LetterInv' /\ UNCHANGED styleVars
<1>1. ASSUME NEW t, Paste(t) PROVE LetterInv'
  BY <1>1, EffectKeepsPreview
     DEF Paste, LetterInv, EmailIsForItsText, TriedOnce, sending
<1>2. CASE SwitchMode
  BY <1>2 DEF SwitchMode, LetterInv, PreviewIsForItsText, EmailIsForItsText, TriedOnce,
     sending, previewVars
<1>3. CASE SetupChanges
  BY <1>3, EffectKeepsPreview
     DEF SetupChanges, LetterInv, EmailIsForItsText, TriedOnce, sending
<1> QED
  BY <1>1, <1>2, <1>3 DEF Paste, SwitchMode, SetupChanges

(* So do previews: an answer is taken only for the text it was asked with. *)
LEMMA PreviewsKeepMail ==
  ASSUME LetterInv,
         \/ AskPreview
         \/ \E r \in previewAsked : WriteEmail(r) \/ PreviewAnswer(r) \/ PreviewFails(r)
  PROVE  LetterInv' /\ UNCHANGED styleVars
<1>1. ASSUME NEW r \in previewAsked, PreviewAnswer(r) PROVE LetterInv'
  <2>1. UNCHANGED <<jdText, autoMode, autoSubmitted, submission, touched>>
    BY <1>1 DEF PreviewAnswer
  <2>2. DOMAIN email' = {"for", "style"} /\ PreviewIsForItsText'
    BY <1>1 DEF PreviewAnswer, LetterInv, PreviewIsForItsText, PreviewedText
  <2> QED
    BY <2>1, <2>2 DEF LetterInv, EmailIsForItsText, TriedOnce, sending
<1>2. ASSUME UNCHANGED <<jdText, autoMode, autoSubmitted, submission, touched, email, previewJd>>
      PROVE  LetterInv'
  BY <1>2 DEF LetterInv, PreviewIsForItsText, EmailIsForItsText, TriedOnce, sending
<1> QED
  BY <1>1, <1>2 DEF AskPreview, WriteEmail, PreviewAnswer, PreviewFails

(* So do submissions and their answers.                                    *)
LEMMA SubmissionsKeepMail ==
  ASSUME LetterInv, Submit \/ AutoSubmit \/ Submitted \/ SubmissionFails
  PROVE  LetterInv' /\ UNCHANGED styleVars
<1>1. CASE Submit
  BY <1>1 DEF Submit, MaySubmit, previewStale, previewVars, LetterInv, PreviewIsForItsText,
     EmailIsForItsText, TriedOnce, sending
<1>2. CASE AutoSubmit
  BY <1>2 DEF AutoSubmit, MaySubmit, previewStale, previewVars, LetterInv, PreviewIsForItsText,
     EmailIsForItsText, TriedOnce, sending
<1>3. CASE Submitted
  BY <1>3, EffectKeepsPreview DEF Submitted, LetterInv, EmailIsForItsText, TriedOnce, sending
<1>4. CASE SubmissionFails
  BY <1>4 DEF SubmissionFails, previewVars, LetterInv, PreviewIsForItsText, EmailIsForItsText,
     TriedOnce, sending
<1> QED
  BY <1>1, <1>2, <1>3, <1>4 DEF Submit, AutoSubmit, Submitted, SubmissionFails

(***************************************************************************)
(* The steps of the style leave text and mail together.                    *)
(***************************************************************************)
LEMMA StylesKeepMail ==
  ASSUME LetterInv,
         \/ \E s \in Styles : ChooseStyle(s)
         \/ FlushStyle \/ StoreStyle \/ StyleStored \/ StylePatchFails
  PROVE  LetterInv'
<1>1. ASSUME NEW s, Shows(s), UNCHANGED <<jdText, autoMode, submission, touched>>
      PROVE  LetterInv'
  <2>1. CASE PreviewEffect(jdText, canApply)
    BY <1>1, <2>1, EffectKeepsPreview DEF LetterInv, EmailIsForItsText, TriedOnce, sending
  <2>2. CASE UNCHANGED <<previewVars, autoSubmitted>>
    BY <1>1, <2>2 DEF previewVars, LetterInv, PreviewIsForItsText, EmailIsForItsText, TriedOnce,
       sending
  <2> QED
    BY <1>1, <2>1, <2>2 DEF Shows
<1>2. ASSUME UNCHANGED <<jdText, autoMode, autoSubmitted, submission, touched, previewVars>>
      PROVE  LetterInv'
  BY <1>2 DEF previewVars, LetterInv, PreviewIsForItsText, EmailIsForItsText, TriedOnce, sending
<1> QED
  BY <1>1, <1>2 DEF ChooseStyle, FlushStyle, StoreStyle, StyleStored, StylePatchFails

(* The choice of a style, its timer, its patch and the answers.            *)
LEMMA StylesStayTracked ==
  ASSUME StyleInv,
         \/ \E s \in Styles : ChooseStyle(s)
         \/ FlushStyle \/ StoreStyle \/ StyleStored \/ StylePatchFails
  PROVE  StyleInv'
<1>1. /\ NoPatch = [style |-> NoStyle, applied |-> FALSE] /\ NoStyle \notin Styles
      /\ stylePatch = NoPatch <=> stylePatch.style = NoStyle
  BY ComposerAssumption DEF NoPatch, StyleInv
<1>2. ASSUME NEW s \in Styles, ChooseStyle(s) PROVE StyleInv'
  BY <1>1, <1>2 DEF ChooseStyle, Shows, StyleInv, SaveIsTracked
<1>3. CASE FlushStyle
  <2>1. CASE stylePatch = NoPatch
    BY <1>1, <1>3, <2>1 DEF FlushStyle, StyleInv, SaveIsTracked
  <2>2. CASE stylePatch # NoPatch
    BY <1>1, <1>3, <2>2 DEF FlushStyle, StyleInv, SaveIsTracked
  <2> QED
    BY <2>1, <2>2
<1>4. CASE StoreStyle
  BY <1>1, <1>4 DEF StoreStyle, StyleInv, SaveIsTracked
<1>5. CASE StyleStored
  BY <1>1, <1>5 DEF StyleStored, Shows, StyleInv, SaveIsTracked
<1>6. CASE StylePatchFails
  BY <1>1, <1>6 DEF StylePatchFails, StyleInv
<1> QED
  BY <1>2, <1>3, <1>4, <1>5, <1>6

(* Every step of composer and server keeps both invariants.                *)
LEMMA ComposerStep ==
  ASSUME LetterInv, StyleInv, [ComposerNext]_composerVars
  PROVE  LetterInv' /\ StyleInv'
<1>1. CASE UNCHANGED composerVars
  BY <1>1, UntouchedStyles
     DEF composerVars, previewVars, LetterInv, PreviewIsForItsText, EmailIsForItsText, TriedOnce,
         sending
<1> QED
  BY <1>1, UntouchedStyles, SettingsKeepMail, PreviewsKeepMail, SubmissionsKeepMail,
     StylesKeepMail, StylesStayTracked DEF ComposerNext

(* The composer submits a mail only with the text it was written for, the  *)
(* style that was chosen last is stored once nothing is under way, and     *)
(* nothing that failed is submitted again unasked (ApplyComposer.tsx), for *)
(* all texts and styles.                                                   *)
THEOREM ComposerStaysSound == ComposerSpec => ComposerIsSound
<1>1. LetterInv /\ StyleInv => EmailIsForItsText /\ ChosenStyleIsStored
  BY DEF LetterInv, StyleInv, SaveIsTracked, ChosenStyleIsStored, NoPatch
<1>2. LetterInv /\ [ComposerNext]_composerVars
      => [autoMode /\ ~sending /\ sending' => touched]_composerVars
  <2> SUFFICES ASSUME LetterInv, ComposerNext, autoMode, ~sending, sending'
               PROVE  touched
    OBVIOUS
  <2>1. CASE AutoSubmit
    BY <2>1 DEF AutoSubmit, Untried, LetterInv, TriedOnce, sending
  <2>2. CASE submission' = submission \/ submission' = NoSubmission
    BY <2>2 DEF sending, NoSubmission
  <2>3. ~Submit
    BY DEF Submit
  <2> QED
    BY <2>1, <2>2, <2>3
       DEF ComposerNext, Paste, SwitchMode, SetupChanges, AskPreview, WriteEmail, PreviewAnswer,
           PreviewFails, Submitted, SubmissionFails, ChooseStyle, FlushStyle, StoreStyle,
           StyleStored, StylePatchFails
<1> QED
  BY <1>1, <1>2, ComposerStart, ComposerStep, PTL
     DEF ComposerSpec, ComposerIsSound, NoUnaskedRepeat

-----------------------------------------------------------------------------
(*****************************************************************************)
(* The client's registry: versions only rise, hydration leaves none of the   *)
(* frames behind that came before it, and a row that ended is shown active   *)
(* again only by a revive, the user or a refetched list.                     *)
(*****************************************************************************)
(***************************************************************************)
(* Induction over the natural numbers, for a set: what is in 0..n and not  *)
(* in S would be mapped into itself by the predecessor, one to one, and n  *)
(* has no preimage.                                                        *)
(***************************************************************************)
LEMMA Induction ==
  ASSUME NEW S, 0 \in S, \A n \in Nat : n \in S => n + 1 \in S
  PROVE  Nat \subseteq S
<1> SUFFICES ASSUME NEW n \in Nat, n \notin S PROVE FALSE
  OBVIOUS
<1> DEFINE missing == {k \in 0..n : k \notin S}
           before == [k \in missing |-> k - 1]
<1>1. IsFiniteSet(missing)
  <2>1. IsFiniteSet(0..n) /\ missing \in SUBSET (0..n)
    BY FS_Interval
  <2> HIDE DEF missing
  <2> QED
    BY <2>1, FS_Subset
<1>2. ASSUME NEW k \in missing PROVE k - 1 \in missing
  <2>1. k \in Nat /\ k # 0 /\ k <= n
    OBVIOUS
  <2>2. k - 1 \in Nat /\ (k - 1) + 1 = k
    BY <2>1
  <2> QED
    BY <2>1, <2>2
<1>3. before \in [missing -> missing]
  BY <1>2
<1>4. before \in Injection(missing, missing)
  <2>1. ASSUME NEW j \in missing, NEW k \in missing, before[j] = before[k] PROVE j = k
    <3>1. j - 1 = k - 1 /\ j \in Nat /\ k \in Nat
      BY <2>1
    <3> QED
      BY <3>1
  <2> HIDE DEF before, missing
  <2> QED
    BY <1>3, <2>1 DEF Injection, IsInjective
<1>5. before \in Surjection(missing, missing)
  BY <1>1, <1>4, FS_Injection
<1>6. n \in missing
  OBVIOUS
<1>7. PICK k \in missing : before[k] = n
  BY <1>5, <1>6 DEF Surjection
<1> QED
  BY <1>7

-----------------------------------------------------------------------------
(* Snapshots and entries, without the bounds of a run. *)
SnapType == [v : Nat, e : Nat, t : BOOLEAN]

(* What a registry entry of the client is made of.                         *)
Entries == [v : Nat, e : Nat, t : BOOLEAN, pruned : BOOLEAN, here : BOOLEAN]

(* The registry with the batch that waits to be presented.                 *)
Stores == [entry : Entries, batch : SUBSET SnapType]

(* The types of the client's registry, its buffer and its row.             *)
StoreInv ==
  /\ truth \in SnapType /\ published \subseteq SnapType
  /\ registry \in Entries
  /\ hydrated \in BOOLEAN
  /\ early \in Seq(SnapType)
  /\ toPresent \subseteq SnapType
  /\ listRow \in SnapType
  /\ healing \subseteq SnapType

(* The higher of two versions is below neither.                            *)
LEMMA HighestIsBoth ==
  ASSUME NEW m \in Nat, NEW n \in Nat
  PROVE  Highest(m, n) \in Nat /\ Highest(m, n) >= m /\ Highest(m, n) >= n
  BY DEF Highest

(* What an upsert makes of an entry: versions and epochs never fall. *)
LEMMA UpsertRaises ==
  ASSUME NEW entry \in Entries, NEW snap \in SnapType
  PROVE  /\ Upserted(entry, snap) \in Entries
         /\ Upserted(entry, snap).v = Highest(entry.v, snap.v)
         /\ Upserted(entry, snap).e = Highest(entry.e, snap.e)
         /\ Upserted(entry, snap).t = snap.t /\ Upserted(entry, snap).pruned = snap.t
         /\ Upserted(entry, snap).here
<1>1. Highest(entry.v, snap.v) \in Nat /\ Highest(entry.e, snap.e) \in Nat
  BY HighestIsBoth DEF Entries, SnapType
<1> QED
  BY <1>1 DEF Upserted, EntryOf, Entries, SnapType

(* An event never lowers the entry's version; it is upserted where the     *)
(* entry admits it and changes nothing elsewhere.                          *)
LEMMA AppliedKeepsOrder ==
  ASSUME NEW store \in Stores, NEW snap \in SnapType
  PROVE  /\ Applied(store, snap) \in Stores
         /\ Applied(store, snap).entry.v >= store.entry.v
         /\ Applied(store, snap).entry =
              IF Admits(store.entry, snap) THEN Upserted(store.entry, snap) ELSE store.entry
<1>1. store.entry \in Entries /\ store.batch \in SUBSET SnapType
  BY DEF Stores
<1>2. store.entry.v \in Nat /\ snap.v \in Nat
  BY <1>1 DEF Entries, SnapType
<1>3. CASE Admits(store.entry, snap)
  <2>1. Applied(store, snap) = [entry |-> Upserted(store.entry, snap),
                                batch |-> Newer(store.batch, snap)]
    BY <1>3 DEF Applied
  <2>2. Newer(store.batch, snap) \in SUBSET SnapType
    BY <1>1 DEF Newer
  <2>3. Upserted(store.entry, snap) \in Entries /\ Upserted(store.entry, snap).v >= store.entry.v
    BY <1>1, <1>2, UpsertRaises, HighestIsBoth
  <2> QED
    BY <1>3, <2>1, <2>2, <2>3 DEF Stores
<1>4. CASE ~Admits(store.entry, snap)
  <2>1. Applied(store, snap) = store
    BY <1>4 DEF Applied
  <2> QED
    BY <1>2, <1>4, <2>1
<1> QED
  BY <1>3, <1>4

-----------------------------------------------------------------------------
(* Draining the frames that waited, one after the other. *)

(* The stores on the way. *)
IsDrain(g, store, frames, n) ==
  g = [k \in 0..n |-> IF k = 0 THEN store ELSE Applied(g[k - 1], frames[k])]

(* A drain of n frames goes on to the next one.                            *)
LEMMA DrainGoesOn ==
  ASSUME NEW n \in Nat, NEW g, NEW store, NEW frames, IsDrain(g, store, frames, n)
  PROVE  \E h : IsDrain(h, store, frames, n + 1)
<1> DEFINE h == [k \in 0..(n + 1) |-> IF k = n + 1 THEN Applied(g[n], frames[n + 1]) ELSE g[k]]
           r == [k \in 0..(n + 1) |-> IF k = 0 THEN store ELSE Applied(h[k - 1], frames[k])]
<1>1. \A k \in 0..n : g[k] = IF k = 0 THEN store ELSE Applied(g[k - 1], frames[k])
  BY DEF IsDrain
<1>2. ASSUME NEW k \in 0..(n + 1) PROVE h[k] = r[k]
  <2>1. CASE k = n + 1
    <3>1. k # 0 /\ k - 1 = n /\ n \in 0..(n + 1) /\ n # n + 1
      BY <2>1
    <3>2. h[k] = Applied(g[n], frames[n + 1]) /\ h[n] = g[n]
      BY <2>1, <3>1
    <3>3. r[k] = Applied(h[k - 1], frames[k])
      BY <3>1
    <3> QED
      BY <2>1, <3>1, <3>2, <3>3
  <2>2. CASE k = 0
    <3>1. k \in 0..n /\ k # n + 1
      BY <2>2
    <3> QED
      BY <1>1, <2>2, <3>1
  <2>3. CASE k # n + 1 /\ k # 0
    <3>1. k \in 0..n /\ k - 1 \in 0..(n + 1) /\ k - 1 # n + 1
      BY <2>3
    <3>2. h[k] = g[k] /\ h[k - 1] = g[k - 1]
      BY <2>3, <3>1
    <3>3. r[k] = Applied(h[k - 1], frames[k]) /\ g[k] = Applied(g[k - 1], frames[k])
      BY <1>1, <2>3, <3>1
    <3> QED
      BY <3>2, <3>3
  <2> QED
    BY <2>1, <2>2, <2>3
<1>3. h = r
  BY <1>2
<1> QED
  BY <1>3 DEF IsDrain

(* Frames can be applied one after the other, any number of them.          *)
LEMMA DrainExists ==
  ASSUME NEW store, NEW frames, NEW n \in Nat
  PROVE  \E g : IsDrain(g, store, frames, n)
<1> DEFINE S == {k \in Nat : \E g : IsDrain(g, store, frames, k)}
<1>1. 0 \in S
  <2> DEFINE g == [k \in 0..0 |-> store]
             r == [k \in 0..0 |-> IF k = 0 THEN store ELSE Applied(g[k - 1], frames[k])]
  <2>1. g = r
    OBVIOUS
  <2>2. IsDrain(g, store, frames, 0)
    BY <2>1 DEF IsDrain
  <2> QED
    BY <2>2
<1>2. ASSUME NEW k \in Nat, k \in S PROVE k + 1 \in S
  BY <1>2, DrainGoesOn
<1> HIDE DEF S
<1>3. Nat \subseteq S
  BY <1>1, <1>2, Induction
<1> QED
  BY <1>3 DEF S

(* Draining is applying the frames one after the other.                    *)
LEMMA DrainedInSteps ==
  ASSUME NEW store \in Stores, NEW frames \in Seq(SnapType)
  PROVE  \E g : /\ IsDrain(g, store, frames, Len(frames))
                /\ Drained(store, frames) = g[Len(frames)]
<1> DEFINE after == CHOOSE g : IsDrain(g, store, frames, Len(frames))
<1>1. Len(frames) \in Nat
  OBVIOUS
<1>2. IsDrain(after, store, frames, Len(frames))
  BY <1>1, DrainExists
<1>3. Drained(store, frames) = after[Len(frames)]
  BY DEF Drained, IsDrain
<1> QED
  BY <1>2, <1>3


(* What a drain leaves: the entry of a hydration only rises, and a frame   *)
(* that was applied is in it or refused for good.                          *)
Plain(entry) == entry.here /\ entry.t = entry.pruned

(* The entry is no older than an event: what would raise its version is not*)
(* admitted any more.                                                      *)
IsPast(entry, snap) == snap.v > entry.v => ~Admits(entry, snap)

(* What was applied is past, and what was past before stays so.            *)
LEMMA AppliedIsPast ==
  ASSUME NEW store \in Stores, NEW snap \in SnapType, Plain(store.entry)
  PROVE  /\ Plain(Applied(store, snap).entry)
         /\ IsPast(Applied(store, snap).entry, snap)
         /\ \A old \in SnapType : IsPast(store.entry, old) => IsPast(Applied(store, snap).entry, old)
<1> DEFINE entry == store.entry
           next == Applied(store, snap).entry
<1> SUFFICES /\ Plain(next) /\ IsPast(next, snap)
             /\ \A old \in SnapType : IsPast(entry, old) => IsPast(next, old)
  OBVIOUS
<1>1. entry \in Entries /\ Plain(entry) /\ entry.v \in Nat /\ entry.e \in Nat
  BY DEF Stores, Entries
<1>2. CASE ~Admits(entry, snap)
  <2>1. next = entry
    BY <1>2, AppliedKeepsOrder
  <2> HIDE DEF entry, next
  <2> QED
    BY <1>1, <1>2, <2>1 DEF IsPast
<1>3. CASE Admits(entry, snap)
  <2>1. next = Upserted(entry, snap)
    BY <1>3, AppliedKeepsOrder
  <2>2. /\ snap.v \in Nat /\ snap.e \in Nat /\ snap.v >= entry.v /\ snap.e >= entry.e
        /\ entry.pruned => snap.e > entry.e
    BY <1>1, <1>3 DEF Admits, Plain, SnapType
  <2>3. /\ next.v = snap.v /\ next.e = snap.e /\ next.t = snap.t /\ next.pruned = snap.t
        /\ next.here
    BY <1>1, <2>1, <2>2, UpsertRaises DEF Highest
  <2> HIDE DEF next
  <2>4. Plain(next) /\ IsPast(next, snap)
    BY <2>2, <2>3 DEF Plain, IsPast
  <2>5. ASSUME NEW old \in SnapType, IsPast(entry, old), old.v > next.v PROVE ~Admits(next, old)
    <3>1. old.v \in Nat /\ old.e \in Nat /\ old.v > entry.v
      BY <1>1, <2>2, <2>3, <2>5 DEF SnapType
    <3>2. ~Admits(entry, old)
      BY <2>5, <3>1 DEF IsPast
    <3>3. old.e < entry.e \/ (entry.pruned /\ old.e <= entry.e)
      BY <1>1, <3>1, <3>2 DEF Admits, Plain
    <3>4. old.e < next.e
      BY <1>1, <2>2, <2>3, <3>1, <3>3
    <3> QED
      BY <2>2, <2>3, <3>1, <3>4 DEF Admits
  <2> QED
    BY <2>4, <2>5 DEF IsPast
<1> QED
  BY <1>2, <1>3

(* After a drain, every frame that waited is past.                         *)
LEMMA DrainedIsPast ==
  ASSUME NEW store \in Stores, NEW frames \in Seq(SnapType), Plain(store.entry)
  PROVE  /\ Drained(store, frames) \in Stores
         /\ \A i \in 1..Len(frames) : IsPast(Drained(store, frames).entry, frames[i])
<1>1. PICK g : IsDrain(g, store, frames, Len(frames)) /\ Drained(store, frames) = g[Len(frames)]
  BY DrainedInSteps
<1>2. /\ g[0] = store
      /\ \A k \in 1..Len(frames) : g[k] = Applied(g[k - 1], frames[k])
  BY <1>1 DEF IsDrain
<1> DEFINE Good(k) == /\ g[k] \in Stores /\ Plain(g[k].entry)
                      /\ \A i \in 1..k : IsPast(g[k].entry, frames[i])
           S == {k \in Nat : k <= Len(frames) => Good(k)}
<1>3. Good(0)
  BY <1>2
<1>4. ASSUME NEW k \in Nat, k + 1 <= Len(frames), Good(k) PROVE Good(k + 1)
  <2>1. g[k + 1] = Applied(g[k], frames[k + 1]) /\ k + 1 \in 1..Len(frames)
    BY <1>2, <1>4
  <2>2. frames[k + 1] \in SnapType
    BY <2>1
  <2>0. g[k] \in Stores /\ Plain(g[k].entry)
    BY <1>4
  <2>3. g[k + 1] \in Stores /\ Plain(g[k + 1].entry) /\ IsPast(g[k + 1].entry, frames[k + 1])
    <3>1. Applied(g[k], frames[k + 1]) \in Stores
      BY <2>0, <2>2, AppliedKeepsOrder
    <3>2. /\ Plain(Applied(g[k], frames[k + 1]).entry)
          /\ IsPast(Applied(g[k], frames[k + 1]).entry, frames[k + 1])
      BY <2>0, <2>2, AppliedIsPast
    <3> QED
      BY <2>1, <3>1, <3>2
  <2>4. ASSUME NEW i \in 1..k PROVE IsPast(g[k + 1].entry, frames[i])
    <3>1. frames[i] \in SnapType /\ IsPast(g[k].entry, frames[i])
      BY <1>4
    <3> QED
      BY <1>4, <2>1, <2>2, <3>1, AppliedIsPast
  <2> QED
    BY <2>3, <2>4
<1> HIDE DEF Good
<1>5. 0 \in S
  BY <1>3
<1>6. ASSUME NEW k \in Nat, k \in S PROVE k + 1 \in S
  BY <1>4, <1>6
<1>7. Len(frames) \in Nat
  OBVIOUS
<1>8. Len(frames) \in S
  <2> HIDE DEF S
  <2> QED
    BY <1>5, <1>6, <1>7, Induction
<1>9. Good(Len(frames))
  BY <1>7, <1>8
<1> QED
  BY <1>1, <1>9 DEF Good


(* After a hydration, every frame that came before it is past.             *)
LEMMA HydrationIsPast ==
  ASSUME StoreInv, NEW snap \in SnapType
  PROVE  /\ AfterHydration(snap) \in Stores
         /\ \A i \in DOMAIN early : IsPast(AfterHydration(snap).entry, early[i])
<1> DEFINE base == [Store EXCEPT !.entry = EntryOf(snap)]
<1>1. EntryOf(snap) \in Entries /\ Plain(EntryOf(snap))
  BY DEF EntryOf, Entries, SnapType, Plain
<1>2. base \in Stores /\ base.entry = EntryOf(snap)
  BY <1>1 DEF Store, Stores, StoreInv
<1>3. early \in Seq(SnapType) /\ DOMAIN early = 1..Len(early)
  BY DEF StoreInv
<1>4. AfterHydration(snap) = Drained(base, early)
  BY DEF AfterHydration
<1> HIDE DEF base
<1> QED
  BY <1>1, <1>2, <1>3, <1>4, DrainedIsPast

-----------------------------------------------------------------------------
(* Steps *)

LEMMA StoreStart == StoreInit => StoreInv
  BY DEF StoreInit, StoreInv, First, EntryOf, SnapType, Entries

(* Entry and batch of a store take their places. *)
LEMMA BecomingKeepsTypes ==
  ASSUME NEW store \in Stores, Becomes(store)
  PROVE  registry' \in Entries /\ toPresent' \subseteq SnapType
  BY DEF Becomes, Stores

(* Registry and batch have their types.                                    *)
LEMMA StoreIsStore == StoreInv => Store \in Stores
  BY DEF StoreInv, Store, Stores

(* A published snapshot is delivered, answered, refused or read. *)
LEMMA SnapshotsKeepTypes ==
  ASSUME StoreInv, NEW snap \in published,
         \/ StreamDelivers(snap) \/ StatusAnswer(snap) \/ RejectStorm(snap)
         \/ ListAnswer(snap) \/ PollAnswer(snap) \/ HydrateAnswer(snap)
  PROVE  StoreInv'
<1>1. snap \in SnapType /\ Store \in Stores
  BY StoreIsStore DEF StoreInv
<1>2. CASE StreamDelivers(snap)
  <2>1. CASE hydrated
    <3>1. Becomes(Applied(Store, snap)) /\ UNCHANGED <<truth, published, hydrated, early, listRow, healing>>
      BY <1>2, <2>1 DEF StreamDelivers
    <3>2. registry' \in Entries /\ toPresent' \subseteq SnapType
      BY <1>1, <3>1, AppliedKeepsOrder, BecomingKeepsTypes
    <3> QED
      BY <3>1, <3>2 DEF StoreInv
  <2>2. CASE ~hydrated
    <3>1. early' = Append(early, snap)
          /\ UNCHANGED <<truth, published, hydrated, registry, toPresent, listRow, healing>>
      BY <1>2, <2>2 DEF StreamDelivers
    <3>2. early' \in Seq(SnapType)
      BY <1>1, <3>1 DEF StoreInv
    <3> QED
      BY <3>1, <3>2 DEF StoreInv
  <2> QED
    BY <2>1, <2>2
<1>3. CASE StatusAnswer(snap)
  <2>1. Becomes(Applied(Store, snap)) /\ UNCHANGED <<truth, published, hydrated, early, listRow, healing>>
    BY <1>3 DEF StatusAnswer
  <2>2. registry' \in Entries /\ toPresent' \subseteq SnapType
    BY <1>1, <2>1, AppliedKeepsOrder, BecomingKeepsTypes
  <2> QED
    BY <2>1, <2>2 DEF StoreInv
<1>4. CASE RejectStorm(snap)
  BY <1>4 DEF RejectStorm, StoreInv, NoEntry, Entries
<1>5. CASE ListAnswer(snap)
  BY <1>1, <1>5 DEF ListAnswer, StoreInv
<1>6. CASE PollAnswer(snap)
  <2>1. registry' \in Entries
    BY <1>1, <1>6, UpsertRaises DEF PollAnswer, StoreInv
  <2>2. listRow' \in SnapType
    BY <1>1, <1>6 DEF PollAnswer, StoreInv
  <2> QED
    BY <1>6, <2>1, <2>2 DEF PollAnswer, StoreInv
<1>7. CASE HydrateAnswer(snap)
  <2>1. Becomes(AfterHydration(snap)) /\ hydrated' = TRUE /\ early' = <<>>
        /\ UNCHANGED <<truth, published, listRow, healing>>
    BY <1>7 DEF HydrateAnswer
  <2>2. registry' \in Entries /\ toPresent' \subseteq SnapType
    BY <1>1, <2>1, HydrationIsPast, BecomingKeepsTypes
  <2> QED
    BY <2>1, <2>2 DEF StoreInv
<1> QED
  BY <1>2, <1>3, <1>4, <1>5, <1>6, <1>7

(* A patched row is a row.                                                 *)
LEMMA PatchKeepsTypes ==
  ASSUME StoreInv, NEW snap \in SnapType, PatchRow(snap)
  PROVE  listRow' \in SnapType
  BY DEF PatchRow, StoreInv

(* Every step keeps the types.                                             *)
LEMMA StoreStep ==
  ASSUME StoreInv, [StoreNext]_storeVars
  PROVE  StoreInv'
<1>1. CASE UNCHANGED storeVars
  BY <1>1 DEF storeVars, StoreInv
<1>2. CASE ServerChanges
  <2>1. truth' \in SnapType
    BY <1>2 DEF ServerChanges, StoreInv, SnapType
  <2> QED
    BY <1>2, <2>1 DEF ServerChanges, StoreInv
<1>3. ASSUME NEW again \in BOOLEAN, PresentBatch(again) PROVE StoreInv'
  <2>1. listRow' \in SnapType
    BY <1>3, PatchKeepsTypes DEF PresentBatch, StoreInv
  <2> QED
    BY <1>3, <2>1 DEF PresentBatch, StoreInv
<1>4. CASE HealAnswer
  <2>1. listRow' \in SnapType
    BY <1>4, PatchKeepsTypes DEF HealAnswer, StoreInv
  <2> QED
    BY <1>4, <2>1 DEF HealAnswer, StoreInv
<1>5. CASE SyncFromPresentation \/ PollGivesUp \/ EvictInactive \/ UserRevives
  <2>1. registry' \in Entries
    <3>1. registry \in Entries /\ listRow.t \in BOOLEAN /\ NoEntry \in Entries
      BY DEF StoreInv, SnapType, NoEntry, Entries
    <3>2. (registry.pruned \/ listRow.t) \in BOOLEAN
      OBVIOUS
    <3>3. CASE SyncFromPresentation
      BY <3>1, <3>2, <3>3 DEF SyncFromPresentation, Entries
    <3>4. CASE PollGivesUp \/ EvictInactive
      BY <3>1, <3>4 DEF PollGivesUp, EvictInactive, Entries
    <3>5. CASE UserRevives
      <4>1. registry' = [registry EXCEPT !.here = TRUE, !.t = FALSE, !.pruned = FALSE,
                                         !.e = registry.e + 1]
        BY <3>1, <3>5 DEF UserRevives, Entries
      <4>2. registry.e + 1 \in Nat
        BY <3>1 DEF Entries
      <4> QED
        BY <3>1, <4>1, <4>2 DEF Entries
    <3> QED
      BY <1>5, <3>3, <3>4, <3>5
  <2> QED
    BY <1>5, <2>1 DEF SyncFromPresentation, PollGivesUp, EvictInactive, UserRevives, StoreInv
<1>6. CASE AskHeal \/ HealFails \/ Hydrate
  BY <1>6 DEF AskHeal, HealFails, Hydrate, StoreInv
<1>7. ASSUME NEW succeeds \in BOOLEAN, UserPatch(succeeds) PROVE StoreInv'
  <2>1. listRow' \in SnapType
    BY <1>7 DEF UserPatch, StoreInv, SnapType
  <2> QED
    BY <1>7, <2>1 DEF UserPatch, StoreInv
<1> QED
  BY <1>1, <1>2, <1>3, <1>4, <1>5, <1>6, <1>7, SnapshotsKeepTypes DEF StoreNext

-----------------------------------------------------------------------------
(* Only a hydration, or the loss of the entry, lowers a version. *)
LEMMA VersionsRise ==
  ASSUME StoreInv, StoreNext, registry.here, registry'.here, hydrated' = hydrated
  PROVE  registry'.v >= registry.v
<1>1. registry \in Entries /\ registry.v \in Nat /\ Store \in Stores /\ Store.entry = registry
  BY StoreIsStore DEF StoreInv, Entries, Store
<1>2. ~NoEntry.here
  BY DEF NoEntry
<1>3. ASSUME NEW snap \in published, Becomes(Applied(Store, snap)) PROVE registry'.v >= registry.v
  <2>1. snap \in SnapType
    BY DEF StoreInv
  <2> QED
    BY <1>1, <1>3, <2>1, AppliedKeepsOrder DEF Becomes
<1>4. ASSUME NEW snap \in published, PollAnswer(snap) PROVE registry'.v >= registry.v
  <2>1. snap \in SnapType /\ snap.v \in Nat
    BY DEF StoreInv, SnapType
  <2>2. registry'.v = Highest(registry.v, snap.v)
    BY <1>1, <1>4, <2>1, UpsertRaises DEF PollAnswer
  <2> QED
    BY <1>1, <2>1, <2>2, HighestIsBoth
<1>5. CASE registry' = registry
  BY <1>1, <1>5
<1>6. CASE SyncFromPresentation \/ PollGivesUp \/ UserRevives
  <2>1. registry'.v = registry.v
    BY <1>1, <1>6 DEF SyncFromPresentation, PollGivesUp, UserRevives, Entries
  <2> QED
    BY <1>1, <2>1
<1>7. ~EvictInactive /\ ~Hydrate
      /\ \A snap \in published : ~RejectStorm(snap) /\ ~HydrateAnswer(snap)
  BY <1>2 DEF EvictInactive, RejectStorm, Hydrate, HydrateAnswer, StoreInv
<1>8. ASSUME NEW snap \in published, StreamDelivers(snap) PROVE registry'.v >= registry.v
  BY <1>3, <1>5, <1>8 DEF StreamDelivers
<1> QED
  BY <1>3, <1>4, <1>5, <1>6, <1>7, <1>8
     DEF StoreNext, ServerChanges, StatusAnswer, ListAnswer, PresentBatch, AskHeal, HealAnswer,
         HealFails, UserPatch

(* What leaves a terminal status on the screen. *)
LEMMA RowsStayEnded ==
  ASSUME StoreInv, StoreNext, registry.here, registry.e >= listRow.e, listRow.t, ~listRow'.t
  PROVE  listRow'.e > listRow.e \/ UserPatch(TRUE) \/ \E snap \in published : ListAnswer(snap)
<1>1. registry \in Entries /\ registry.e \in Nat /\ listRow \in SnapType /\ listRow.e \in Nat
  BY DEF StoreInv, Entries, SnapType
<1>2. ASSUME NEW snap \in SnapType, PatchRow(snap) PROVE listRow'.e > listRow.e
  <2>1. RowAdmits(snap) /\ listRow' = snap
    BY <1>2 DEF PatchRow
  <2>2. snap.e > registry.e /\ snap.e \in Nat
    BY <2>1 DEF RowAdmits, SnapType
  <2> QED
    BY <1>1, <2>1, <2>2
<1>3. ASSUME NEW again \in BOOLEAN, PresentBatch(again) PROVE listRow'.e > listRow.e
  BY <1>2, <1>3 DEF PresentBatch, StoreInv
<1>4. CASE HealAnswer
  BY <1>2, <1>4 DEF HealAnswer, StoreInv
<1>5. ASSUME NEW snap \in published, PollAnswer(snap) PROVE FALSE
  <2>1. snap \in SnapType /\ snap.e \in Nat
    BY DEF StoreInv, SnapType
  <2>2. registry'.e = Highest(registry.e, snap.e)
    BY <1>1, <1>5, <2>1, UpsertRaises DEF PollAnswer
  <2>3. snap.e <= registry'.e
    BY <1>1, <2>1, <2>2, HighestIsBoth
  <2> QED
    BY <1>5, <2>3 DEF PollAnswer
<1>6. listRow' # listRow
  OBVIOUS
<1>7. ~UserPatch(FALSE)
  BY <1>6 DEF UserPatch
<1> QED
  BY <1>3, <1>4, <1>5, <1>6, <1>7
     DEF StoreNext, ServerChanges, StreamDelivers, StatusAnswer, RejectStorm, HydrateAnswer,
         SyncFromPresentation, AskHeal, HealFails, PollGivesUp, EvictInactive, Hydrate,
         UserRevives

(* No old version takes the place of a newer one in the registry, whatever *)
(* arrives late or twice, a hydration leaves no frame behind that came     *)
(* while it was under way and is still good, and an ended application does *)
(* not come back to life on the screen unasked (orchestrationRegistry,     *)
(* shouldApplyRealtimeEvent), for any number of changes, frames and user   *)
(* actions.                                                                *)
THEOREM RegistryStaysSound == StoreSpec => RegistryIsSound
<1>1. StoreInv /\ [StoreNext]_storeVars
      => [registry.here /\ registry'.here =>
            registry'.v >= registry.v \/ hydrated' # hydrated]_storeVars
  BY VersionsRise
<1>2. StoreInv /\ [StoreNext]_storeVars
      => [~hydrated /\ hydrated' =>
            \A i \in DOMAIN early :
              early[i].v > registry'.v => ~Admits(registry', early[i])]_storeVars
  <2> SUFFICES ASSUME StoreInv, StoreNext, ~hydrated, hydrated', NEW i \in DOMAIN early,
                      early[i].v > registry'.v
               PROVE  ~Admits(registry', early[i])
    OBVIOUS
  <2>1. PICK snap \in published : HydrateAnswer(snap)
    BY DEF StoreNext, ServerChanges, StreamDelivers, StatusAnswer, RejectStorm, ListAnswer,
       PollAnswer, PresentBatch, SyncFromPresentation, AskHeal, HealAnswer, HealFails,
       PollGivesUp, EvictInactive, Hydrate, UserRevives, UserPatch
  <2>2. registry' = AfterHydration(snap).entry
    BY <2>1 DEF HydrateAnswer, Becomes
  <2>3. snap \in SnapType
    BY <2>1 DEF StoreInv
  <2> QED
    BY <2>2, <2>3, HydrationIsPast DEF IsPast
<1>3. StoreInv /\ [StoreNext]_storeVars
      => [registry.here /\ registry.e >= listRow.e /\ listRow.t /\ ~listRow'.t =>
            listRow'.e > listRow.e \/ UserPatch(TRUE)
              \/ \E snap \in published : ListAnswer(snap)]_storeVars
  BY RowsStayEnded
<1>4. StoreInv /\ [StoreNext]_storeVars => StoreInv'
  BY StoreStep
<1> QED
  BY <1>1, <1>2, <1>3, <1>4, StoreStart, PTL
     DEF StoreSpec, RegistryIsSound, RegistryVersionMonotone, HydrationLosesNothing,
         NoPassiveDowngrade

-----------------------------------------------------------------------------
(*****************************************************************************)
(* The extension's session: a call that was refused has met an ended         *)
(* session, as long as no two renewals crossed.                              *)
(*****************************************************************************)
(* What a call of the extension is made of.                                *)
FetchType == [pc : {"idle", "renew", "save", "refused", "call", "retry", "caught"}, with : Token,
              again : BOOLEAN]

(* A token is that of a session that was handed over and taken.            *)
Owned(token) ==
  token.session \in 1..given /\ token.session # bundle /\ token.renewal # 0

(* Where tokens are, and that the session behind a connect token is in     *)
(* nobody's hands yet.                                                     *)
TokensAreOwned ==
  /\ stored # NoSession => Owned(stored.token)
  /\ \A x \in Renewing : Owned(fetching[x].with)
  /\ bundle # 0 => granted[bundle] \in {0, 1}

(* A token that Supabase accepts for its session, or whose session has     *)
(* ended.                                                                  *)
IsCurrent(token) == granted[token.session] \in {0, token.renewal}

(* What a call knows that renews on its own: its token is the stored one,  *)
(* unless nothing is stored any more.                                      *)
KnowsToken(x) ==
  /\ fetching[x].pc = "save" => IsCurrent(fetching[x].with)
  /\ fetching[x].pc # "save" => stored = NoSession \/ stored.token = fetching[x].with
  /\ fetching[x].pc = "refused" => ~Accepted(fetching[x].with)

(* While no two renewals have crossed: one call renews, it knows its token,*)
(* and the stored one is current or about to be replaced.                  *)
RenewsAlone ==
  /\ \A x, y \in Renewing : x = y
  /\ \A x \in Renewing : KnowsToken(x)
  /\ stored # NoSession =>
       IsCurrent(stored.token) \/ \E x \in Renewing : fetching[x].pc = "save"

(* What the proof about the extension's session rests on.                  *)
ExtensionInv == ExtensionTypeOK /\ TokensAreOwned /\ (~crossed => RenewsAlone)

(* What the extension stores.                                              *)
SessionType == [token : Token, good : BOOLEAN]

(* The constants of the session have their types.                          *)
LEMMA SessionTypes ==
  /\ NoToken \in Token /\ NoSession \in SessionType /\ NoFetch \in FetchType
  /\ NoFetch.pc = "idle" /\ NoSession.token = NoToken /\ NoToken.session = 0
  /\ \A n \in Sessions : Fresh(n) \in Token /\ Fresh(n).session = n /\ Fresh(n).renewal = 1
<1>1. 0 \in 0..MaxSessions /\ 0 \in 0..MaxRenewals /\ 1 \in 0..MaxRenewals
      /\ Sessions \subseteq 0..MaxSessions
  BY SessionAssumption DEF Sessions
<1>2. NoToken \in Token /\ NoToken.session = 0
  BY <1>1 DEF NoToken, Token
<1>3. NoSession \in SessionType /\ NoFetch \in FetchType
      /\ NoFetch.pc = "idle" /\ NoSession.token = NoToken
  BY <1>2 DEF NoSession, NoFetch, SessionType, FetchType
<1>4. ASSUME NEW n \in Sessions
      PROVE  Fresh(n) \in Token /\ Fresh(n).session = n /\ Fresh(n).renewal = 1
  BY <1>1 DEF Fresh, Token
<1> QED
  BY <1>2, <1>3, <1>4

(* No session was handed over.                                             *)
LEMMA ExtensionStart == ExtensionInit => ExtensionInv
<1> SUFFICES ASSUME ExtensionInit PROVE ExtensionInv
  OBVIOUS
<1>1. stored = NoSession /\ given = 0 /\ bundle = 0 /\ crossed = FALSE /\ why = "nothing"
      /\ granted = [n \in Sessions |-> 0] /\ fetching = [x \in Fetches |-> NoFetch]
  BY DEF ExtensionInit
<1>2. 0 \in 0..MaxSessions /\ 0 \in 0..MaxRenewals
  BY SessionAssumption
<1>3. fetching \in [Fetches -> FetchType] /\ stored \in SessionType
  BY <1>1, SessionTypes
<1>4. ExtensionTypeOK
  <2>1. given \in 0..MaxSessions /\ bundle \in 0..given
    BY <1>1, <1>2
  <2>2. granted \in [Sessions -> 0..MaxRenewals]
    BY <1>1, <1>2
  <2> QED
    BY <1>1, <1>3, <2>1, <2>2 DEF ExtensionTypeOK, FetchType, SessionType
<1>5. Renewing = {}
  BY <1>1, SessionTypes DEF Renewing
<1> QED
  BY <1>1, <1>4, <1>5 DEF ExtensionInv, TokensAreOwned, RenewsAlone

-----------------------------------------------------------------------------
(* What a step of a request does. *)

(* It ends, asks the server, or throws; a renewal nobody heard of crosses. *)
Leaves(x, next) ==
  /\ next.pc \in {"idle", "call", "retry", "caught"}
  /\ crossed' = (crossed \/ fetching[x].pc = "save")
  /\ UNCHANGED <<stored, granted>>

(* It finds the access token expired. *)
Begins(next) ==
  /\ stored # NoSession
  /\ next = [pc |-> "renew", with |-> stored.token, again |-> next.again]
  /\ crossed' = (crossed \/ Renewing # {})
  /\ UNCHANGED <<stored, granted>>

(* Supabase renews the session it asks for.                                *)
Renews(x, next) ==
  /\ fetching[x].pc = "renew" /\ Accepted(fetching[x].with)
  /\ fetching[x].with.renewal < MaxRenewals
  /\ granted' = [granted EXCEPT ![fetching[x].with.session] = @ + 1]
  /\ next.pc = "save" /\ next.with = NextToken(fetching[x].with)
  /\ UNCHANGED <<stored, crossed>>

(* Supabase refuses the refresh token.                                     *)
IsRefused(x, next) ==
  /\ fetching[x].pc = "renew" /\ ~Accepted(fetching[x].with)
  /\ next.pc = "refused" /\ next.with = fetching[x].with
  /\ UNCHANGED <<stored, granted, crossed>>

(* The call ends and the extension has no session any more.                *)
Drops(next) ==
  next.pc \in {"idle", "caught"} /\ stored' = NoSession /\ UNCHANGED <<granted, crossed>>

(* The renewed session is stored.                                          *)
Saves(x, next) ==
  /\ fetching[x].pc = "save" /\ next.pc \in {"call", "retry"}
  /\ stored' = [token |-> fetching[x].with, good |-> TRUE]
  /\ UNCHANGED <<granted, crossed>>

(* A step of a call is one of the six above.                               *)
LEMMA FetchShapes ==
  ASSUME ExtensionTypeOK, NEW x \in Fetches, FetchStep(x)
  PROVE  \E next \in FetchType :
           /\ fetching' = [fetching EXCEPT ![x] = next]
           /\ why' \in {"nothing", "user", "refused", "bad answer", "retry"}
           /\ UNCHANGED <<given, bundle>>
           /\ \/ Leaves(x, next) \/ Begins(next) \/ Renews(x, next)
              \/ IsRefused(x, next) \/ Drops(next) \/ Saves(x, next)
<1>1. /\ fetching \in [Fetches -> FetchType] /\ fetching[x] \in FetchType
      /\ fetching[x].with \in Token /\ fetching[x].again \in BOOLEAN
      /\ why \in {"nothing", "user", "refused", "bad answer", "retry"} /\ stored \in SessionType
      /\ stored.token \in Token /\ crossed \in BOOLEAN
  BY DEF ExtensionTypeOK, FetchType, SessionType
<1> DEFINE Move(pc) == [fetching[x] EXCEPT !.pc = pc]
           Renewal(again) == [pc |-> "renew", with |-> stored.token, again |-> again]
           Conclusion(next) ==
             /\ fetching' = [fetching EXCEPT ![x] = next]
             /\ why' \in {"nothing", "user", "refused", "bad answer", "retry"}
             /\ UNCHANGED <<given, bundle>>
             /\ \/ Leaves(x, next) \/ Begins(next) \/ Renews(x, next)
                \/ IsRefused(x, next) \/ Drops(next) \/ Saves(x, next)
<1>2. ASSUME NEW pc \in {"idle", "renew", "save", "refused", "call", "retry", "caught"}
      PROVE  Move(pc) \in FetchType /\ Move(pc).pc = pc /\ Move(pc).with = fetching[x].with
  BY <1>1 DEF FetchType
<1>3. ASSUME NEW again \in BOOLEAN
      PROVE  Renewal(again) \in FetchType /\ Renewal(again).again = again
  BY <1>1 DEF FetchType
<1> HIDE DEF Move, Renewal
<1>4. CASE StartFetch(x)
  <2>1. CASE stored.good
    <3>1. fetching' = [fetching EXCEPT ![x] = Move("call")]
      BY <1>1, <1>4, <2>1 DEF StartFetch, Move
    <3>2. Conclusion(Move("call"))
      BY <1>1, <1>2, <1>4, <2>1, <3>1 DEF StartFetch, Leaves
    <3> QED
      BY <1>2, <3>2
  <2>2. CASE ~stored.good
    <3>1. fetching' = [fetching EXCEPT ![x] = Renewal(FALSE)]
      BY <1>1, <1>4, <2>2 DEF StartFetch, Renewal
    <3>2. Begins(Renewal(FALSE))
      BY <1>3, <1>4, <2>2 DEF StartFetch, Begins, Renewal
    <3>3. Conclusion(Renewal(FALSE))
      BY <1>1, <1>4, <3>1, <3>2 DEF StartFetch
    <3> QED
      BY <1>3, <3>3
  <2> QED
    BY <2>1, <2>2
<1>5. CASE ProviderRenews(x)
  <2> DEFINE next == [fetching[x] EXCEPT !.pc = "save", !.with = NextToken(fetching[x].with)]
  <2>1. fetching[x].with.renewal \in 0..MaxRenewals /\ fetching[x].with.renewal < MaxRenewals
    BY <1>1, <1>5 DEF ProviderRenews, Token
  <2>2. NextToken(fetching[x].with) \in Token
    <3>1. fetching[x].with.renewal + 1 \in 0..MaxRenewals
      BY <2>1, SessionAssumption
    <3> QED
      BY <1>1, <3>1 DEF NextToken, Token
  <2>3. next \in FetchType /\ next.pc = "save" /\ next.with = NextToken(fetching[x].with)
    BY <1>1, <2>2 DEF FetchType
  <2>4. fetching' = [fetching EXCEPT ![x] = next]
    BY <1>1, <1>5 DEF ProviderRenews
  <2> HIDE DEF next
  <2>5. Conclusion(next)
    BY <1>1, <1>5, <2>3, <2>4 DEF ProviderRenews, Renews
  <2> QED
    BY <2>3, <2>5
<1>6. CASE ProviderRefuses(x)
  <2>1. fetching' = [fetching EXCEPT ![x] = Move("refused")]
    BY <1>1, <1>6 DEF ProviderRefuses, Move
  <2>2. Conclusion(Move("refused"))
    BY <1>1, <1>2, <1>6, <2>1 DEF ProviderRefuses, IsRefused
  <2> QED
    BY <1>2, <2>2
<1>7. PICK thrown \in FetchType :
        /\ thrown = (IF fetching[x].again THEN Move("caught") ELSE NoFetch)
        /\ thrown.pc \in {"idle", "caught"}
  BY <1>2, SessionTypes
<1>8. Throws(x) => fetching' = [fetching EXCEPT ![x] = thrown]
  BY <1>7 DEF Throws, Move
<1>12. ASSUME NEW next \in {NoFetch, thrown}, fetching' = [fetching EXCEPT ![x] = next],
              NEW reason \in {"refused", "bad answer", "retry"}, Empty(reason),
              UNCHANGED <<granted, given, bundle, crossed>>
       PROVE  \E n \in FetchType : Conclusion(n)
  <2>1. Conclusion(next)
    BY <1>7, <1>12, SessionTypes DEF Empty, Drops
  <2> QED
    BY <1>7, <2>1, SessionTypes
<1>13. ASSUME NEW next \in {NoFetch, thrown}, fetching' = [fetching EXCEPT ![x] = next],
              crossed' = (crossed \/ fetching[x].pc = "save"),
              UNCHANGED <<stored, granted, given, bundle, why>>
       PROVE  \E n \in FetchType : Conclusion(n)
  <2>1. Conclusion(next)
    BY <1>1, <1>7, <1>13, SessionTypes DEF Leaves
  <2> QED
    BY <1>7, <2>1, SessionTypes
<1>14. ASSUME fetching[x].pc # "save", UNCHANGED crossed
       PROVE  crossed' = (crossed \/ fetching[x].pc = "save")
  BY <1>1, <1>14
<1>9. CASE SaveSession(x)
  <2> DEFINE pc == IF fetching[x].again THEN "retry" ELSE "call"
  <2>1. fetching' = [fetching EXCEPT ![x] = Move(pc)]
    BY <1>1, <1>9 DEF SaveSession, Move
  <2>2. pc \in {"call", "retry"}
    OBVIOUS
  <2> HIDE DEF pc
  <2>3. Conclusion(Move(pc))
    BY <1>1, <1>2, <1>9, <2>1, <2>2 DEF SaveSession, Saves
  <2> QED
    BY <1>2, <2>2, <2>3
<1>10. CASE Unauthorized(x)
  <2>1. CASE stored = NoSession
    BY <1>13, <1>14, <1>10, <2>1 DEF Unauthorized
  <2>2. CASE stored # NoSession
    <3>1. fetching' = [fetching EXCEPT ![x] = Renewal(TRUE)]
      BY <1>1, <1>10, <2>2 DEF Unauthorized, Renewal
    <3>2. Begins(Renewal(TRUE))
      BY <1>3, <1>10, <2>2 DEF Unauthorized, Begins, Renewal
    <3>3. Conclusion(Renewal(TRUE))
      BY <1>1, <1>10, <3>1, <3>2 DEF Unauthorized
    <3> QED
      BY <1>3, <3>3
  <2> QED
    BY <2>1, <2>2
<1>11. CASE DropRefused(x) \/ BadAnswer(x) \/ DropCaught(x)
  <2>1. \E next \in {NoFetch, thrown}, reason \in {"refused", "bad answer", "retry"} :
          fetching' = [fetching EXCEPT ![x] = next] /\ Empty(reason)
    BY <1>8, <1>11 DEF DropRefused, BadAnswer, DropCaught
  <2>2. UNCHANGED <<granted, given, bundle, crossed>>
    BY <1>11 DEF DropRefused, BadAnswer, DropCaught
  <2> QED
    BY <1>12, <2>1, <2>2
<1>15. CASE RenewalFails(x) \/ Answered(x)
  <2>1. \E next \in {NoFetch, thrown} : fetching' = [fetching EXCEPT ![x] = next]
    BY <1>8, <1>15 DEF RenewalFails, Answered
  <2>2. crossed' = (crossed \/ fetching[x].pc = "save")
    BY <1>14, <1>15 DEF RenewalFails, Answered
  <2>3. UNCHANGED <<stored, granted, given, bundle, why>>
    BY <1>15 DEF RenewalFails, Answered
  <2> QED
    BY <1>13, <2>1, <2>2, <2>3
<1>16. CASE RetryAnswered(x)
  <2>1. PICK next \in {NoFetch, thrown} :
          /\ fetching' = [fetching EXCEPT ![x] = next]
          /\ Empty("retry") \/ UNCHANGED <<stored, why>>
    BY <1>8, <1>16 DEF RetryAnswered
  <2>2. UNCHANGED <<granted, given, bundle, crossed>> /\ fetching[x].pc # "save"
    BY <1>16 DEF RetryAnswered
  <2> QED
    BY <1>12, <1>13, <1>14, <2>1, <2>2
<1> QED
  BY <1>4, <1>5, <1>6, <1>9, <1>10, <1>11, <1>15, <1>16 DEF FetchStep

(* The steps of a call keep the invariant.                                 *)
LEMMA RequestKeepsSession ==
  ASSUME ExtensionInv, NEW x \in Fetches, FetchStep(x)
  PROVE  ExtensionInv'
<1>1. PICK next \in FetchType :
           /\ fetching' = [fetching EXCEPT ![x] = next]
           /\ why' \in {"nothing", "user", "refused", "bad answer", "retry"}
           /\ UNCHANGED <<given, bundle>>
           /\ \/ Leaves(x, next) \/ Begins(next) \/ Renews(x, next)
              \/ IsRefused(x, next) \/ Drops(next) \/ Saves(x, next)
  BY FetchShapes DEF ExtensionInv
<1>2. /\ fetching \in [Fetches -> FetchType] /\ stored \in SessionType
      /\ granted \in [Sessions -> 0..MaxRenewals] /\ crossed \in BOOLEAN
      /\ given \in 0..MaxSessions /\ bundle \in 0..given /\ given \in Nat
      /\ 1..given \subseteq Sessions
  <2>1. /\ fetching \in [Fetches -> FetchType] /\ stored \in SessionType
        /\ granted \in [Sessions -> 0..MaxRenewals] /\ crossed \in BOOLEAN
        /\ given \in 0..MaxSessions /\ bundle \in 0..given
    BY DEF ExtensionInv, ExtensionTypeOK, FetchType, SessionType
  <2>2. given \in Nat /\ 1..given \subseteq Sessions
    BY <2>1, SessionAssumption DEF Sessions
  <2> QED
    BY <2>1, <2>2
<1>3. /\ fetching' \in [Fetches -> FetchType] /\ fetching'[x] = next
      /\ \A y \in Fetches : y # x => fetching'[y] = fetching[y]
  BY <1>1, <1>2
<1>4. \A y \in Fetches : /\ y \in Renewing <=> fetching[y].pc \in {"renew", "save", "refused"}
                         /\ y \in Renewing' <=> fetching'[y].pc \in {"renew", "save", "refused"}
  BY DEF Renewing
<1>5. Renewing \subseteq Fetches /\ Renewing' \subseteq Fetches
  BY DEF Renewing
<1>6. /\ TokensAreOwned /\ (~crossed => RenewsAlone)
  BY DEF ExtensionInv
<1>7. ASSUME stored' \in SessionType, granted' \in [Sessions -> 0..MaxRenewals],
             crossed' \in BOOLEAN
      PROVE  ExtensionTypeOK'
  BY <1>1, <1>2, <1>3, <1>7 DEF ExtensionTypeOK, FetchType, SessionType
<1>8. \A token : Owned(token)' <=> Owned(token)
  BY <1>1 DEF Owned
<1>9. ASSUME granted' = granted
      PROVE  \A token : (IsCurrent(token)' <=> IsCurrent(token))
                        /\ (Accepted(token)' <=> Accepted(token))
  BY <1>9 DEF IsCurrent, Accepted
<1>10. CASE Leaves(x, next)
  <2>1. UNCHANGED <<stored, granted>> /\ crossed' = (crossed \/ fetching[x].pc = "save") /\ x \notin Renewing'
        /\ (\A y \in Renewing' : y \in Renewing /\ y # x /\ fetching'[y] = fetching[y])
        /\ (\A y \in Renewing : fetching[y].pc = "save" /\ ~crossed' => y \in Renewing' /\ y # x)
    BY <1>3, <1>4, <1>5, <1>10 DEF Leaves
  <2>2. ExtensionTypeOK'
    BY <1>2, <1>7, <2>1
  <2>3. TokensAreOwned'
    BY <1>1, <1>6, <1>8, <2>1 DEF TokensAreOwned
  <2>4. ASSUME ~crossed' PROVE RenewsAlone'
    <3>1. RenewsAlone
      BY <1>6, <2>1, <2>4
    <3>2. \A y \in Renewing' : KnowsToken(y)'
      BY <1>9, <2>1, <3>1 DEF RenewsAlone, KnowsToken
    <3>3. \A y \in Renewing : fetching[y].pc = "save" => y \in Renewing' /\ fetching'[y].pc = "save"
      BY <1>3, <2>1, <2>4
    <3> QED
      BY <1>9, <2>1, <3>1, <3>2, <3>3 DEF RenewsAlone
  <2> QED
    BY <2>1, <2>2, <2>3, <2>4 DEF ExtensionInv
<1>11. CASE Begins(next)
  <2>1. /\ UNCHANGED <<stored, granted>> /\ stored # NoSession
        /\ crossed' = (crossed \/ Renewing # {})
        /\ next.pc = "renew" /\ next.with = stored.token
    BY <1>11 DEF Begins
  <2>2. ExtensionTypeOK'
    BY <1>2, <1>7, <2>1
  <2>3. \A y \in Renewing' : y = x \/ (y \in Renewing /\ fetching'[y] = fetching[y])
    BY <1>3, <1>4, <1>5
  <2>4. TokensAreOwned'
    BY <1>1, <1>3, <1>6, <1>8, <2>1, <2>3 DEF TokensAreOwned
  <2>5. ASSUME ~crossed' PROVE RenewsAlone'
    <3>1. RenewsAlone /\ Renewing = {}
      BY <1>6, <2>1, <2>5
    <3>2. \A y \in Renewing' : y = x
      BY <2>3, <3>1
    <3>3. KnowsToken(x)'
      BY <1>3, <2>1 DEF KnowsToken
    <3>4. IsCurrent(stored.token)
      BY <2>1, <3>1 DEF RenewsAlone
    <3>5. granted' = granted /\ stored' = stored
      BY <2>1
    <3>6. IsCurrent(stored.token)'
      BY <3>4, <3>5 DEF IsCurrent
    <3> QED
      BY <3>2, <3>3, <3>6 DEF RenewsAlone
  <2> QED
    BY <2>2, <2>4, <2>5 DEF ExtensionInv
<1>12. CASE Renews(x, next)
  <2> DEFINE token == fetching[x].with
             s == token.session
  <2>1. /\ x \in Renewing /\ token \in Token /\ s \in 1..given /\ s \in Sessions /\ s # bundle
        /\ granted[s] = token.renewal /\ token.renewal \in 0..MaxRenewals
        /\ token.renewal < MaxRenewals
    BY <1>2, <1>4, <1>6, <1>12 DEF Renews, TokensAreOwned, Owned, Accepted, FetchType, Token
  <2>2. /\ UNCHANGED <<stored, crossed>> /\ next.pc = "save" /\ next.with = NextToken(token)
        /\ granted' = [granted EXCEPT ![s] = granted[s] + 1]
    BY <1>12 DEF Renews
  <2>3. token.renewal + 1 \in 0..MaxRenewals
    BY <2>1, SessionAssumption
  <2>4. granted' \in [Sessions -> 0..MaxRenewals] /\ granted'[s] = token.renewal + 1
        /\ (bundle # 0 => granted'[bundle] = granted[bundle])
    <3>1. bundle # 0 => bundle \in Sessions
      BY <1>2
    <3> HIDE DEF s, token
    <3> QED
      BY <1>2, <2>1, <2>2, <2>3, <3>1
  <2>5. next.with.session = s /\ next.with.renewal = token.renewal + 1
    BY <2>1, <2>2 DEF NextToken, Token
  <2> HIDE DEF s, token
  <2>6. ExtensionTypeOK'
    BY <1>2, <1>7, <2>2, <2>4
  <2>7. \A y \in Renewing' : y = x \/ (y \in Renewing /\ fetching'[y] = fetching[y])
    BY <1>3, <1>4, <1>5
  <2>8. TokensAreOwned'
    <3>1. Owned(next.with)
      BY <2>1, <2>5 DEF Owned
    <3> QED
      BY <1>1, <1>3, <1>6, <1>8, <2>2, <2>4, <2>7, <3>1 DEF TokensAreOwned
  <2>9. ASSUME ~crossed PROVE RenewsAlone'
    <3>1. RenewsAlone
      BY <1>6, <2>9
    <3>2. \A y \in Renewing' : y = x
      BY <2>1, <2>7, <3>1 DEF RenewsAlone
    <3>3. KnowsToken(x)'
      BY <1>3, <2>2, <2>4, <2>5 DEF KnowsToken, IsCurrent
    <3>4. x \in Renewing' /\ fetching'[x].pc = "save"
      BY <1>3, <1>4, <2>2
    <3> QED
      BY <3>2, <3>3, <3>4 DEF RenewsAlone
  <2> QED
    BY <2>2, <2>6, <2>8, <2>9 DEF ExtensionInv
<1>13. CASE IsRefused(x, next)
  <2>1. /\ UNCHANGED <<stored, granted, crossed>> /\ x \in Renewing
        /\ fetching[x].pc = "renew" /\ ~Accepted(fetching[x].with)
        /\ fetching'[x].pc = "refused" /\ fetching'[x].with = fetching[x].with
    BY <1>3, <1>4, <1>13 DEF IsRefused
  <2>2. ExtensionTypeOK'
    BY <1>2, <1>7, <2>1
  <2>3. \A y \in Renewing' : y \in Renewing /\ fetching'[y].with = fetching[y].with
                             /\ (y # x => fetching'[y] = fetching[y])
    BY <1>3, <1>4, <1>5, <2>1
  <2>4. TokensAreOwned'
    BY <1>1, <1>6, <1>8, <2>1, <2>3 DEF TokensAreOwned
  <2>5. ASSUME ~crossed PROVE RenewsAlone'
    <3>1. RenewsAlone
      BY <1>6, <2>5
    <3>2. \A y, z \in Renewing' : y = z
      BY <2>3, <3>1 DEF RenewsAlone
    <3>3. KnowsToken(x)'
      BY <1>9, <2>1, <3>1 DEF RenewsAlone, KnowsToken
    <3>4. \A y \in Renewing : y = x
      BY <2>1, <3>1 DEF RenewsAlone
    <3>5. stored # NoSession => IsCurrent(stored.token)
      BY <2>1, <3>1, <3>4 DEF RenewsAlone
    <3> QED
      BY <1>9, <2>1, <2>3, <3>2, <3>3, <3>4, <3>5 DEF RenewsAlone
  <2> QED
    BY <2>1, <2>2, <2>4, <2>5 DEF ExtensionInv
<1>14. CASE Drops(next)
  <2>1. stored' = NoSession /\ UNCHANGED <<granted, crossed>> /\ next.pc \in {"idle", "caught"}
    BY <1>14 DEF Drops
  <2>2. (\A y \in Renewing' : y \in Renewing /\ fetching'[y] = fetching[y])
    BY <1>3, <1>4, <1>5, <2>1, SessionTypes
  <2>3. ExtensionTypeOK'
    BY <1>2, <1>7, <2>1, SessionTypes
  <2>4. TokensAreOwned'
    BY <1>1, <1>6, <1>8, <2>1, <2>2 DEF TokensAreOwned
  <2>5. ASSUME ~crossed PROVE RenewsAlone'
    <3>1. RenewsAlone
      BY <1>6, <2>5
    <3>2. \A y \in Renewing' : KnowsToken(y)'
      BY <1>9, <2>1, <2>2, <3>1 DEF RenewsAlone, KnowsToken
    <3> QED
      BY <2>1, <2>2, <3>1, <3>2 DEF RenewsAlone
  <2> QED
    BY <2>1, <2>3, <2>4, <2>5 DEF ExtensionInv
<1>15. CASE Saves(x, next)
  <2>1. /\ stored' = [token |-> fetching[x].with, good |-> TRUE] /\ UNCHANGED <<granted, crossed>>
        /\ fetching[x].pc = "save" /\ x \in Renewing /\ x \notin Renewing'
    BY <1>3, <1>4, <1>15 DEF Saves
  <2>2. stored' \in SessionType /\ stored'.token = fetching[x].with
    BY <1>2, <2>1 DEF FetchType, SessionType
  <2>3. \A y \in Renewing' : y \in Renewing /\ y # x /\ fetching'[y] = fetching[y]
    BY <1>3, <1>4, <1>5, <2>1
  <2>4. ExtensionTypeOK'
    BY <1>2, <1>7, <2>1, <2>2
  <2>5. TokensAreOwned'
    BY <1>1, <1>6, <1>8, <2>1, <2>2, <2>3 DEF TokensAreOwned
  <2>6. ASSUME ~crossed PROVE RenewsAlone'
    <3>1. RenewsAlone
      BY <1>6, <2>6
    <3>2. Renewing' = {}
      BY <2>1, <2>3, <3>1 DEF RenewsAlone
    <3>3. IsCurrent(fetching[x].with)
      BY <2>1, <3>1 DEF RenewsAlone, KnowsToken
    <3> QED
      BY <1>9, <2>1, <2>2, <3>2, <3>3 DEF RenewsAlone
  <2> QED
    BY <2>1, <2>4, <2>5, <2>6 DEF ExtensionInv
<1> QED
  BY <1>1, <1>10, <1>11, <1>12, <1>13, <1>14, <1>15

(* Nobody renews a session when something else happens: a refresh that it  *)
(* meets has been crossed.                                                 *)
LEMMA SignOutKeepsSession ==
  ASSUME ExtensionInv, SignOut
  PROVE  ExtensionInv'
<1>1. /\ stored' = NoSession /\ why' = "user" /\ crossed' = (crossed \/ Renewing # {})
      /\ UNCHANGED <<granted, given, bundle, fetching>>
  BY DEF SignOut
<1>2. ExtensionTypeOK'
  BY <1>1, SessionTypes DEF ExtensionInv, ExtensionTypeOK, SessionType
<1>3. Renewing' = Renewing
  BY <1>1 DEF Renewing
<1>4. TokensAreOwned'
  BY <1>1, <1>3 DEF ExtensionInv, TokensAreOwned, Owned
<1>5. ASSUME ~crossed' PROVE RenewsAlone'
  BY <1>1, <1>3, <1>5 DEF RenewsAlone
<1> QED
  BY <1>2, <1>4, <1>5 DEF ExtensionInv

(* The session behind a connect token is stored for the first time.        *)
LEMMA ConnectKeepsSession ==
  ASSUME ExtensionInv, TakeSession
  PROVE  ExtensionInv'
<1>1. /\ bundle # 0 /\ bundle' = 0 /\ UNCHANGED <<granted, given, fetching, why>>
      /\ granted \in [Sessions -> 0..MaxRenewals] /\ crossed \in BOOLEAN
      /\ given \in 0..MaxSessions /\ bundle \in 0..given /\ TokensAreOwned
      /\ stored \in SessionType
  BY DEF TakeSession, ExtensionInv, ExtensionTypeOK, SessionType
<1>2. bundle \in Sessions /\ bundle \in 1..given /\ given \in Nat /\ 0 \in 0..given'
      /\ granted[bundle] \in {0, 1}
  BY <1>1, SessionAssumption DEF Sessions, TokensAreOwned
<1>3. Renewing' = Renewing
  BY <1>1 DEF Renewing
<1>4. \A token : Owned(token) => Owned(token)'
  BY <1>1, <1>2 DEF Owned
<1>5. \A x \in Renewing' : Owned(fetching[x].with)'
  BY <1>1, <1>3, <1>4 DEF TokensAreOwned
<1>6. CASE /\ stored' = [token |-> Fresh(bundle), good |-> TRUE]
           /\ crossed' = (crossed \/ Renewing # {})
  <2>1. stored' \in SessionType /\ stored'.token = Fresh(bundle)
    BY <1>2, <1>6, SessionTypes DEF SessionType
  <2>2. ExtensionTypeOK'
    BY <1>1, <1>2, <1>6, <2>1 DEF ExtensionInv, ExtensionTypeOK, SessionType
  <2>3. Fresh(bundle).session = bundle /\ Fresh(bundle).renewal = 1
    BY <1>2, SessionTypes
  <2>4. Owned(stored.token)'
    BY <1>1, <1>2, <2>1, <2>3 DEF Owned
  <2>5. TokensAreOwned'
    BY <1>1, <1>5, <2>4 DEF TokensAreOwned
  <2>6. ASSUME ~crossed' PROVE RenewsAlone'
    <3>1. Renewing' = {}
      BY <1>3, <1>6, <2>6
    <3>2. IsCurrent(stored.token)'
      BY <1>1, <1>2, <2>1, <2>3 DEF IsCurrent
    <3> QED
      BY <3>1, <3>2 DEF RenewsAlone
  <2> QED
    BY <2>2, <2>5, <2>6 DEF ExtensionInv
<1>7. CASE UNCHANGED <<stored, crossed>>
  <2>1. ExtensionTypeOK'
    BY <1>1, <1>2, <1>7 DEF ExtensionInv, ExtensionTypeOK
  <2>2. TokensAreOwned'
    BY <1>1, <1>4, <1>5, <1>7 DEF TokensAreOwned
  <2>3. ASSUME ~crossed' PROVE RenewsAlone'
    BY <1>1, <1>3, <1>7, <2>3 DEF ExtensionInv, RenewsAlone, KnowsToken, IsCurrent, Accepted
  <2> QED
    BY <2>1, <2>2, <2>3 DEF ExtensionInv
<1> QED
  BY <1>6, <1>7 DEF TakeSession

(* The dashboard starts a session of which nobody holds a token.           *)
LEMMA OfferKeepsSession ==
  ASSUME ExtensionInv, OfferSession
  PROVE  ExtensionInv'
<1>1. /\ bundle = 0 /\ given < MaxSessions /\ given' = given + 1 /\ bundle' = given'
      /\ granted' = [granted EXCEPT ![given'] = 1]
      /\ UNCHANGED <<stored, fetching, crossed, why>>
  BY DEF OfferSession
<1>2. /\ granted \in [Sessions -> 0..MaxRenewals] /\ given \in 0..MaxSessions /\ given \in Nat
      /\ TokensAreOwned /\ (~crossed => RenewsAlone)
  <2>1. granted \in [Sessions -> 0..MaxRenewals] /\ given \in 0..MaxSessions
    BY DEF ExtensionInv, ExtensionTypeOK
  <2>2. TokensAreOwned /\ (~crossed => RenewsAlone)
    BY DEF ExtensionInv
  <2>3. given \in Nat
    BY <2>1, SessionAssumption
  <2> QED
    BY <2>1, <2>2, <2>3
<1>3. /\ given' \in Sessions /\ given' \in 0..MaxSessions /\ given' \in 0..given'
      /\ 1 \in 0..MaxRenewals
  BY <1>1, <1>2, SessionAssumption DEF Sessions
<1>4. /\ granted' \in [Sessions -> 0..MaxRenewals] /\ granted'[given'] = 1
      /\ \A n \in Sessions : n # given' => granted'[n] = granted[n]
  BY <1>1, <1>2, <1>3
<1>5. ExtensionTypeOK'
  BY <1>1, <1>3, <1>4 DEF ExtensionInv, ExtensionTypeOK
<1>6. Renewing' = Renewing
  BY <1>1 DEF Renewing
<1>7. ASSUME NEW token, Owned(token)
      PROVE  Owned(token)' /\ (IsCurrent(token)' <=> IsCurrent(token))
             /\ (Accepted(token)' <=> Accepted(token))
  <2>1. token.session \in 1..given' /\ token.session # given' /\ token.session \in Sessions
    BY <1>1, <1>2, <1>3, <1>7, SessionAssumption DEF Owned, Sessions
  <2>2. granted'[token.session] = granted[token.session]
    BY <1>4, <2>1
  <2>3. Owned(token)'
    BY <1>1, <1>7, <2>1 DEF Owned
  <2>4. (IsCurrent(token)' <=> IsCurrent(token)) /\ (Accepted(token)' <=> Accepted(token))
    BY <2>2 DEF IsCurrent, Accepted
  <2> QED
    BY <2>3, <2>4
<1>8. TokensAreOwned'
  BY <1>1, <1>2, <1>4, <1>6, <1>7 DEF TokensAreOwned
<1>9. ASSUME ~crossed' PROVE RenewsAlone'
  <2>1. RenewsAlone
    BY <1>1, <1>2, <1>9
  <2>2. \A x \in Renewing' : KnowsToken(x)'
    BY <1>1, <1>2, <1>6, <1>7, <2>1 DEF RenewsAlone, KnowsToken, TokensAreOwned
  <2>3. stored' # NoSession => IsCurrent(stored.token)' \/ \E x \in Renewing' : fetching'[x].pc = "save"
    BY <1>1, <1>2, <1>6, <1>7, <2>1 DEF RenewsAlone, TokensAreOwned
  <2> QED
    BY <1>6, <2>1, <2>2, <2>3 DEF RenewsAlone
<1> QED
  BY <1>5, <1>8, <1>9 DEF ExtensionInv

(* What a session that has ended was granted does not matter.              *)
LEMMA EndKeepsSession ==
  ASSUME ExtensionInv, NEW n \in Sessions, SessionEnds(n)
  PROVE  ExtensionInv'
<1>1. /\ granted' = [granted EXCEPT ![n] = 0]
      /\ UNCHANGED <<stored, given, bundle, fetching, crossed, why>>
  BY DEF SessionEnds
<1>2. /\ granted \in [Sessions -> 0..MaxRenewals] /\ 0 \in 0..MaxRenewals
      /\ TokensAreOwned /\ (~crossed => RenewsAlone) /\ given \in 0..MaxSessions
      /\ bundle \in 0..given
  <2>1. /\ granted \in [Sessions -> 0..MaxRenewals] /\ given \in 0..MaxSessions
        /\ bundle \in 0..given
    BY DEF ExtensionInv, ExtensionTypeOK
  <2>2. TokensAreOwned /\ (~crossed => RenewsAlone)
    BY DEF ExtensionInv
  <2>3. 0 \in 0..MaxRenewals
    BY SessionAssumption
  <2> QED
    BY <2>1, <2>2, <2>3
<1>3. /\ granted' \in [Sessions -> 0..MaxRenewals]
      /\ \A m \in Sessions : granted'[m] = granted[m] \/ granted'[m] = 0
  BY <1>1, <1>2
<1>4. ExtensionTypeOK'
  BY <1>1, <1>3 DEF ExtensionInv, ExtensionTypeOK
<1>5. Renewing' = Renewing
  BY <1>1 DEF Renewing
<1>6. 1..given \subseteq Sessions /\ (bundle # 0 => bundle \in Sessions)
  BY <1>2, SessionAssumption DEF Sessions
<1>7. ASSUME NEW token \in Token, Owned(token)
      PROVE  Owned(token)' /\ (IsCurrent(token) => IsCurrent(token)')
  <2>1. token.session \in Sessions /\ Owned(token)'
    BY <1>1, <1>6, <1>7 DEF Owned
  <2> QED
    BY <1>3, <2>1 DEF IsCurrent
<1>8. ASSUME NEW token \in Token, Owned(token), ~Accepted(token), token.renewal # 0
      PROVE  ~Accepted(token)'
  <2>1. token.session \in Sessions
    BY <1>6, <1>8 DEF Owned
  <2> QED
    BY <1>3, <1>8, <2>1 DEF Accepted
<1>9. stored.token \in Token /\ \A x \in Fetches : fetching[x].with \in Token
  BY DEF ExtensionInv, ExtensionTypeOK
<1>10. Renewing \subseteq Fetches
  BY DEF Renewing
<1>11. TokensAreOwned'
  <2>1. bundle' # 0 => granted'[bundle'] \in {0, 1}
    BY <1>1, <1>2, <1>3, <1>6 DEF TokensAreOwned
  <2> QED
    BY <1>1, <1>2, <1>5, <1>7, <1>9, <1>10, <2>1 DEF TokensAreOwned
<1>12. ASSUME ~crossed' PROVE RenewsAlone'
  <2>1. RenewsAlone
    BY <1>1, <1>2, <1>12
  <2>2. ASSUME NEW x \in Renewing'
        PROVE  KnowsToken(x)'
    <3>1. x \in Renewing /\ x \in Fetches /\ Owned(fetching[x].with) /\ KnowsToken(x)
      BY <1>2, <1>5, <1>10, <2>1 DEF TokensAreOwned, RenewsAlone
    <3>2. fetching[x].with.renewal # 0 /\ fetching[x].with \in Token
      BY <1>9, <3>1 DEF Owned
    <3> QED
      BY <1>1, <1>7, <1>8, <3>1, <3>2 DEF KnowsToken
  <2>3. stored' # NoSession => IsCurrent(stored.token)' \/ \E x \in Renewing' : fetching'[x].pc = "save"
    BY <1>1, <1>2, <1>5, <1>7, <1>9, <2>1 DEF RenewsAlone, TokensAreOwned
  <2> QED
    BY <1>5, <2>1, <2>2, <2>3 DEF RenewsAlone
<1> QED
  BY <1>4, <1>11, <1>12 DEF ExtensionInv

(* An expired access token leaves the refresh token as it is.              *)
LEMMA ExpiryKeepsSession ==
  ASSUME ExtensionInv, AccessExpires
  PROVE  ExtensionInv'
<1>1. /\ stored.good /\ stored' = [stored EXCEPT !.good = FALSE] /\ stored \in SessionType
      /\ UNCHANGED <<granted, given, bundle, fetching, crossed, why>>
  BY DEF AccessExpires, ExtensionInv, ExtensionTypeOK, SessionType
<1>2. stored' \in SessionType /\ stored'.token = stored.token
  BY <1>1 DEF SessionType
<1>3. stored # NoSession
  BY <1>1 DEF NoSession
<1>4. ExtensionTypeOK'
  BY <1>1, <1>2 DEF ExtensionInv, ExtensionTypeOK, SessionType
<1>5. Renewing' = Renewing
  BY <1>1 DEF Renewing
<1>6. TokensAreOwned'
  BY <1>1, <1>2, <1>3, <1>5 DEF ExtensionInv, TokensAreOwned, Owned
<1>7. ASSUME ~crossed' PROVE RenewsAlone'
  BY <1>1, <1>2, <1>3, <1>5, <1>7 DEF ExtensionInv, RenewsAlone, KnowsToken, IsCurrent, Accepted
<1> QED
  BY <1>4, <1>6, <1>7 DEF ExtensionInv

(* A stopped service worker forgets its calls; a renewal that was under way*)
(* is noted as crossed.                                                    *)
LEMMA StopKeepsSession ==
  ASSUME ExtensionInv, StopServiceWorker
  PROVE  ExtensionInv'
<1>1. /\ fetching' = [x \in Fetches |-> NoFetch]
      /\ crossed' = (crossed \/ \E x \in Fetches : fetching[x].pc = "save")
      /\ UNCHANGED <<stored, granted, given, bundle, why>>
  BY DEF StopServiceWorker
<1>2. fetching' \in [Fetches -> FetchType]
  BY <1>1, SessionTypes
<1>3. ExtensionTypeOK'
  BY <1>1, <1>2 DEF ExtensionInv, ExtensionTypeOK, FetchType
<1>4. Renewing' = {}
  BY <1>1, SessionTypes DEF Renewing
<1>5. TokensAreOwned'
  BY <1>1, <1>4 DEF ExtensionInv, TokensAreOwned, Owned
<1>6. ASSUME ~crossed' PROVE RenewsAlone'
  <2>1. RenewsAlone /\ Renewing \subseteq Fetches /\ \A x \in Fetches : fetching[x].pc # "save"
    BY <1>1, <1>6 DEF ExtensionInv, Renewing
  <2>2. stored # NoSession => IsCurrent(stored.token)
    BY <2>1 DEF RenewsAlone
  <2> QED
    BY <1>1, <1>4, <2>2 DEF RenewsAlone, IsCurrent
<1> QED
  BY <1>3, <1>5, <1>6 DEF ExtensionInv

(* Every step keeps the session's invariant. *)
LEMMA ExtensionStep ==
  ASSUME ExtensionInv, [ExtensionNext]_extensionVars
  PROVE  ExtensionInv'
<1>1. CASE UNCHANGED extensionVars
  BY <1>1 DEF extensionVars, ExtensionInv, ExtensionTypeOK, TokensAreOwned, Owned, RenewsAlone,
              KnowsToken, IsCurrent, Accepted, Renewing
<1>2. CASE ExtensionNext
  BY <1>2, OfferKeepsSession, ConnectKeepsSession, SignOutKeepsSession, ExpiryKeepsSession,
     StopKeepsSession, EndKeepsSession, RequestKeepsSession DEF ExtensionNext
<1> QED
  BY <1>1, <1>2

(* A refusal that finds a session stored is that of the stored token, and  *)
(* a current token is refused only when its session has ended.             *)
LEMMA RefusalMeansEnded ==
  ASSUME ExtensionInv, NEW x \in Fetches, DropRefused(x), stored # NoSession, ~crossed
  PROVE  granted[stored.token.session] = 0
<1>1. fetching[x].pc = "refused" /\ x \in Renewing
  BY DEF DropRefused, Renewing
<1>2. RenewsAlone /\ KnowsToken(x) /\ Owned(stored.token)
  BY <1>1 DEF ExtensionInv, RenewsAlone, TokensAreOwned
<1>3. stored.token = fetching[x].with /\ ~Accepted(stored.token)
  BY <1>1, <1>2 DEF KnowsToken
<1>4. IsCurrent(stored.token)
  BY <1>1, <1>2 DEF RenewsAlone
<1>5. stored.token.session # 0
  BY <1>2 DEF Owned
<1> QED
  BY <1>3, <1>4, <1>5 DEF Accepted, IsCurrent

(* A session with a good access token is one.                              *)
LEMMA GoodIsSession ==
  ASSUME NEW token
  PROVE  [token |-> token, good |-> TRUE] # NoSession
<1>1. [token |-> token, good |-> TRUE].good
  BY Zenon
<1>2. ~NoSession.good
  BY DEF NoSession
<1> QED
  BY <1>1, <1>2

(* Nobody holds the token of no session.                                   *)
LEMMA NoTokenIsOwned ==
  ASSUME ExtensionInv, NEW token, Owned(token)
  PROVE  token # NoSession.token
<1>1. given \in 0..MaxSessions
  BY DEF ExtensionInv, ExtensionTypeOK
<1>2. 0 \notin 1..given
  BY <1>1, SessionAssumption
<1>3. token.session \in 1..given
  BY DEF Owned
<1>4. NoSession.token.session = 0
  BY DEF NoSession, NoToken
<1> QED
  BY <1>2, <1>3, <1>4

(* No other step empties the storage without one of the other reasons.     *)
LEMMA OnlyRefusalsRefuse ==
  ASSUME ExtensionInv, [ExtensionNext]_extensionVars,
         why' \notin {"user", "bad answer", "retry"}, stored # NoSession, stored' = NoSession
  PROVE  \E x \in Fetches : DropRefused(x)
<1>0. stored \in SessionType /\ Owned(stored.token)
  BY DEF ExtensionInv, ExtensionTypeOK, SessionType, TokensAreOwned
<1>1. ASSUME UNCHANGED stored PROVE FALSE
  BY <1>1
<1>2. CASE OfferSession \/ StopServiceWorker \/ \E n \in Sessions : SessionEnds(n)
  BY <1>2 DEF OfferSession, StopServiceWorker, SessionEnds
<1>3. CASE SignOut
  BY <1>3 DEF SignOut
<1>4. CASE TakeSession
  <2>1. stored' = [token |-> Fresh(bundle), good |-> TRUE]
    BY <1>1, <1>4 DEF TakeSession
  <2> QED
    BY <2>1, GoodIsSession
<1>5. CASE AccessExpires
  <2>1. stored'.token = stored.token
    BY <1>0, <1>5 DEF AccessExpires, SessionType
  <2> QED
    BY <1>0, <2>1, NoTokenIsOwned
<1>6. ASSUME NEW x \in Fetches, FetchStep(x)
      PROVE  DropRefused(x)
  <2>1. CASE SaveSession(x)
    <3>1. stored' = [token |-> fetching[x].with, good |-> TRUE]
      BY <2>1 DEF SaveSession
    <3> QED
      BY <3>1, GoodIsSession
  <2>2. CASE \/ StartFetch(x) \/ ProviderRenews(x) \/ ProviderRefuses(x)
             \/ Answered(x) \/ Unauthorized(x)
    BY <2>2 DEF StartFetch, ProviderRenews, ProviderRefuses, Answered, Unauthorized
  <2>3. CASE RenewalFails(x) \/ BadAnswer(x) \/ RetryAnswered(x) \/ DropCaught(x)
    BY <2>3 DEF RenewalFails, BadAnswer, RetryAnswered, DropCaught, Empty
  <2> QED
    BY <1>6, <2>1, <2>2, <2>3 DEF FetchStep
<1>7. CASE UNCHANGED extensionVars
  BY <1>7 DEF extensionVars
<1> QED
  BY <1>2, <1>3, <1>4, <1>5, <1>6, <1>7 DEF ExtensionNext

-----------------------------------------------------------------------------
(*****************************************************************************)
(* The extension's status: popup and cache show the mode of the account once *)
(* their requests are answered, unless a change crossed them.                *)
(*****************************************************************************)
(* A request for the status.                                               *)
AskType == [pc : {"idle", "asked", "answered"}, got : Status \cup {NoCache},
            from : {"connect", "sync", "popup", "toggle", "page"}]

(* A change of the mode that the popup has asked for.                      *)
PatchType == [pc : {"none", "sent", "fetch"}, to : Modes, heard : BOOLEAN]

(* What the popup is made of.                                              *)
PopupType == [open : BOOLEAN, shows : Modes, render : BOOLEAN]

(* The toggle's own request is under way only after its patch, and alone,  *)
(* an answer is a status, and a popup that hears of a patch is open.       *)
RequestsAreInOrder ==
  /\ \A x \in UnderWay : asks[x].from = "toggle" => patch.pc = "fetch"
  /\ \A x, y \in UnderWay : asks[x].from = "toggle" /\ asks[y].from = "toggle" => x = y
  /\ \A x \in UnderWay : asks[x].pc = "answered" => asks[x].got \in Status
  /\ patch.heard => popup.open

(* The popup waits for the answer to its own click.                        *)
Clicked == patch.pc = "sent" /\ patch.heard

(* What is stored and shown while nothing has crossed a request: an answer *)
(* is never old, the cache is only while a fresh one is under way, and the *)
(* popup only while it has asked itself, or after a click.                 *)
ShownIsCurrent ==
  /\ \A x \in UnderWay : asks[x].pc = "answered" => asks[x].got.mode = atServer.mode
  /\ signedIn /\ cachedStatus # NoCache =>
       cachedStatus.mode = atServer.mode \/ UnderWay # {}
  /\ Clicked => \A x \in UnderWay : asks[x].from # "popup"
  /\ signedIn /\ popup.open /\ ~popup.render /\ ~Clicked =>
       popup.shows = atServer.mode \/ \E x \in UnderWay : asks[x].from = "popup"
  /\ signedIn /\ popup.open /\ ~popup.render /\ Clicked =>
       popup.shows = patch.to /\ patch.to = Opposite(atServer.mode)

(* What the proof about the status rests on.                               *)
StatusInv == StatusTypeOK /\ RequestsAreInOrder /\ (~metAnother => ShownIsCurrent)

(* The types of the parts, named.                                          *)
LEMMA StatusTypes ==
  ASSUME StatusTypeOK
  PROVE  /\ asks \in [Asks -> AskType] /\ patch \in PatchType /\ popup \in PopupType
         /\ cachedStatus \in Status \cup {NoCache} /\ atServer \in Status
         /\ atServer.mode \in Modes /\ atServer.ready \in BOOLEAN
         /\ patch.pc \in {"none", "sent", "fetch"} /\ patch.to \in Modes
         /\ patch.heard \in BOOLEAN /\ popup.shows \in Modes
         /\ popup.open \in BOOLEAN /\ popup.render \in BOOLEAN
         /\ signedIn \in BOOLEAN /\ metAnother \in BOOLEAN /\ modeChanges \in 0..MaxModeChanges
         /\ UnderWay \subseteq Asks
  BY DEF StatusTypeOK, AskType, PatchType, PopupType, Status, UnderWay

(* The constants have their types; the opposite of the opposite is the mode*)
(* itself.                                                                 *)
LEMMA StatusConstants ==
  /\ NoAsk \in AskType /\ NoAsk.pc = "idle" /\ NoChange \in PatchType
  /\ NoChange.pc = "none" /\ ~NoChange.heard
  /\ \A mode \in Modes : Opposite(mode) \in Modes /\ Opposite(Opposite(mode)) = mode
<1>1. NoChange \in PatchType /\ NoChange.pc = "none" /\ ~NoChange.heard
  BY DEF NoChange, PatchType, Modes
<1>2. NoAsk \in AskType /\ NoAsk.pc = "idle"
  BY DEF NoAsk, AskType
<1>3. \A mode \in Modes : Opposite(mode) \in Modes /\ Opposite(Opposite(mode)) = mode
  BY DEF Opposite, Modes
<1> QED
  BY <1>1, <1>2, <1>3

(* Nobody is signed in, nothing is asked.                                  *)
LEMMA StatusStart == StatusInit => StatusInv
<1> SUFFICES ASSUME StatusInit PROVE StatusInv
  OBVIOUS
<1>1. /\ signedIn = FALSE /\ atServer = [mode |-> "review", ready |-> FALSE] /\ modeChanges = 0
      /\ cachedStatus = NoCache /\ asks = [x \in Asks |-> NoAsk] /\ patch = NoChange
      /\ popup = [open |-> FALSE, shows |-> "review", render |-> FALSE] /\ metAnother = FALSE
  BY DEF StatusInit
<1>2. UnderWay = {}
  BY <1>1, StatusConstants DEF UnderWay
<1>3. asks \in [Asks -> AskType] /\ patch \in PatchType
  BY <1>1, StatusConstants
<1>4. popup \in PopupType /\ atServer \in Status /\ 0 \in 0..MaxModeChanges
  BY <1>1, MaxModeAssumption DEF PopupType, Status, Modes
<1>5. StatusTypeOK
  BY <1>1, <1>3, <1>4 DEF StatusTypeOK, AskType, PatchType, PopupType
<1> QED
  BY <1>1, <1>2, <1>5, StatusConstants
  DEF StatusInv, RequestsAreInOrder, ShownIsCurrent, Clicked

(* A request sent, answered, over.                                         *)
LEMMA SentIsUnderWay ==
  ASSUME StatusTypeOK, NEW x \in Asks,
         NEW from \in {"connect", "sync", "popup", "toggle", "page"}, Request(x, from)
  PROVE  /\ asks' \in [Asks -> AskType] /\ x \notin UnderWay /\ UnderWay' = UnderWay \cup {x}
         /\ asks'[x].pc = "asked" /\ asks'[x].from = from
         /\ \A y \in UnderWay : asks'[y] = asks[y]
<1> DEFINE next == [NoAsk EXCEPT !.pc = "asked", !.from = from]
<1>1. next \in AskType /\ next.pc = "asked" /\ next.from = from
  BY DEF NoAsk, AskType
<1>2. asks[x].pc = "idle" /\ asks' = [asks EXCEPT ![x] = next] /\ asks \in [Asks -> AskType]
  BY StatusTypes DEF Request
<1> HIDE DEF next
<1> QED
  BY <1>1, <1>2 DEF UnderWay

(* A request that is over is not under way; the others are as they were.   *)
LEMMA OverIsIdle ==
  ASSUME StatusTypeOK, NEW x \in Asks, asks' = [asks EXCEPT ![x] = NoAsk]
  PROVE  /\ asks' \in [Asks -> AskType] /\ UnderWay' = UnderWay \ {x}
         /\ \A y \in UnderWay' : asks'[y] = asks[y]
<1>1. asks \in [Asks -> AskType] /\ NoAsk \in AskType /\ NoAsk.pc = "idle"
  BY StatusTypes, StatusConstants
<1> QED
  BY <1>1 DEF UnderWay

(* Nothing is known of what is shown once something has crossed.           *)
LEMMA CrossedKeepsStatus ==
  ASSUME StatusTypeOK', RequestsAreInOrder', metAnother'
  PROVE  StatusInv'
  BY DEF StatusInv

(* The type of the status, part by part.                                   *)
LEMMA TypesAreKept ==
  ASSUME asks' \in [Asks -> AskType], patch' \in PatchType, popup' \in PopupType,
         signedIn' \in BOOLEAN, atServer' \in Status, modeChanges' \in 0..MaxModeChanges,
         cachedStatus' \in Status \cup {NoCache}, metAnother' \in BOOLEAN
  PROVE  StatusTypeOK'
  BY DEF StatusTypeOK, AskType, PatchType, PopupType

(* A new request that is no toggle's disturbs no toggle.                   *)
LEMMA OtherRequests ==
  ASSUME StatusInv, NEW x \in Asks, NEW from \in {"connect", "sync", "popup", "page"},
         Request(x, from), patch' = patch, patch.heard => popup'.open
  PROVE  RequestsAreInOrder'
<1>1. /\ UnderWay' = UnderWay \cup {x} /\ asks'[x].from = from /\ asks'[x].pc = "asked"
      /\ \A y \in UnderWay : asks'[y] = asks[y]
  BY SentIsUnderWay DEF StatusInv
<1>2. RequestsAreInOrder
  BY DEF StatusInv
<1> QED
  BY <1>1, <1>2 DEF RequestsAreInOrder

-----------------------------------------------------------------------------
(* The website *)

LEMMA SignInKeepsStatus ==
  ASSUME StatusInv, NEW x \in Asks, NEW of \in Status, SignIn(x, of)
  PROVE  StatusInv'
<1>1. /\ Request(x, "connect") /\ signedIn' = TRUE /\ atServer' = of
      /\ modeChanges' \in 0..MaxModeChanges
      /\ popup' = [popup EXCEPT !.render = popup.open]
      /\ metAnother' = (metAnother \/ ~Quiet) /\ UNCHANGED <<cachedStatus, patch>>
  <2>1. modeChanges \in 0..MaxModeChanges
    BY StatusTypes DEF StatusInv
  <2>2. (of.mode = atServer.mode \/ modeChanges < MaxModeChanges)
        /\ modeChanges' = IF of.mode = atServer.mode THEN modeChanges ELSE modeChanges + 1
    BY DEF SignIn
  <2>3. modeChanges' \in 0..MaxModeChanges
    BY <2>1, <2>2, MaxModeAssumption DEF SignIn
  <2> QED
    BY <2>3 DEF SignIn
<1>2. /\ popup' \in PopupType /\ popup'.open = popup.open /\ popup'.render = popup.open
      /\ metAnother' \in BOOLEAN
  BY <1>1, StatusTypes DEF PopupType, StatusInv
<1>3. /\ asks' \in [Asks -> AskType] /\ UnderWay' = UnderWay \cup {x}
      /\ asks'[x].pc = "asked" /\ asks'[x].from = "connect"
  BY <1>1, SentIsUnderWay DEF StatusInv
<1>4. StatusTypeOK'
  BY <1>1, <1>2, <1>3, StatusTypes, TypesAreKept DEF StatusInv
<1>5. RequestsAreInOrder'
  BY <1>1, <1>2, OtherRequests DEF StatusInv, RequestsAreInOrder
<1>6. ASSUME ~metAnother' PROVE ShownIsCurrent'
  <2>1. UnderWay' = {x} /\ patch'.pc = "none"
    BY <1>1, <1>3, <1>6 DEF Quiet
  <2> QED
    BY <1>2, <1>3, <2>1 DEF ShownIsCurrent, Clicked
<1> QED
  BY <1>4, <1>5, <1>6 DEF StatusInv

(* Signed out, nothing has to be shown.                                    *)
LEMMA DisconnectKeepsStatus ==
  ASSUME StatusInv, DisconnectExtension
  PROVE  StatusInv'
<1>1. /\ signedIn' = FALSE /\ cachedStatus' = NoCache
      /\ popup' = [popup EXCEPT !.render = popup.open]
      /\ metAnother' = (metAnother \/ ~Quiet)
      /\ UNCHANGED <<atServer, modeChanges, asks, patch>>
  BY DEF DisconnectExtension
<1>2. popup' \in PopupType /\ popup'.open = popup.open /\ metAnother' \in BOOLEAN
  BY <1>1, StatusTypes DEF PopupType, StatusInv
<1>3. StatusTypeOK'
  BY <1>1, <1>2, StatusTypes, TypesAreKept DEF StatusInv
<1>4. UnderWay' = UnderWay
  BY <1>1 DEF UnderWay
<1>5. RequestsAreInOrder'
  BY <1>1, <1>2, <1>4 DEF StatusInv, RequestsAreInOrder
<1>6. ASSUME ~metAnother' PROVE ShownIsCurrent'
  <2>1. UnderWay' = {} /\ patch'.pc = "none"
    BY <1>1, <1>4, <1>6 DEF Quiet
  <2> QED
    BY <1>1, <2>1 DEF ShownIsCurrent, Clicked
<1> QED
  BY <1>3, <1>5, <1>6 DEF StatusInv

(* A completed setup leaves the mode as it is.                             *)
LEMMA SetupKeepsStatus ==
  ASSUME StatusInv, CompleteSetup
  PROVE  StatusInv'
<1>1. /\ atServer' = [atServer EXCEPT !.ready = TRUE]
      /\ UNCHANGED <<signedIn, modeChanges, cachedStatus, asks, patch, popup, metAnother>>
  BY DEF CompleteSetup
<1>2. atServer' \in Status /\ atServer'.mode = atServer.mode
  BY <1>1, StatusTypes DEF Status, StatusInv
<1>3. StatusTypeOK'
  BY <1>1, <1>2 DEF StatusInv, StatusTypeOK
<1>4. UnderWay' = UnderWay /\ Clicked' = Clicked
  BY <1>1 DEF UnderWay, Clicked
<1>5. RequestsAreInOrder'
  BY <1>1, <1>4 DEF StatusInv, RequestsAreInOrder
<1>6. ASSUME ~metAnother' PROVE ShownIsCurrent'
  BY <1>1, <1>2, <1>4, <1>6 DEF StatusInv, ShownIsCurrent, Opposite
<1> QED
  BY <1>3, <1>5, <1>6 DEF StatusInv

(* The dashboard's change of the mode is followed by a fresh request.      *)
LEMMA DashboardKeepsStatus ==
  ASSUME StatusInv, NEW x \in Asks, DashboardToggles(x)
  PROVE  StatusInv'
<1>1. /\ Request(x, "sync") /\ atServer' = [atServer EXCEPT !.mode = Opposite(atServer.mode)]
      /\ modeChanges < MaxModeChanges /\ modeChanges' = modeChanges + 1
      /\ metAnother' = (metAnother \/ ~Quiet \/ popup.open)
      /\ UNCHANGED <<signedIn, cachedStatus, patch, popup>>
  BY DEF DashboardToggles
<1>2. modeChanges' \in 0..MaxModeChanges
  BY <1>1, StatusTypes, MaxModeAssumption DEF StatusInv
<1>3. atServer' \in Status /\ metAnother' \in BOOLEAN
  BY <1>1, StatusTypes, StatusConstants DEF Status, StatusInv
<1>4. /\ asks' \in [Asks -> AskType] /\ UnderWay' = UnderWay \cup {x}
      /\ asks'[x].pc = "asked" /\ asks'[x].from = "sync"
  BY <1>1, SentIsUnderWay DEF StatusInv
<1>5. StatusTypeOK'
  BY <1>1, <1>2, <1>3, <1>4, StatusTypes, TypesAreKept DEF StatusInv
<1>6. RequestsAreInOrder'
  BY <1>1, OtherRequests DEF StatusInv, RequestsAreInOrder
<1>7. ASSUME ~metAnother' PROVE ShownIsCurrent'
  <2>1. UnderWay' = {x} /\ patch'.pc = "none" /\ ~popup'.open
    BY <1>1, <1>4, <1>7 DEF Quiet
  <2> QED
    BY <1>4, <2>1 DEF ShownIsCurrent, Clicked
<1> QED
  BY <1>5, <1>6, <1>7 DEF StatusInv

(* A change the extension is not told of counts as a crossing.             *)
LEMMA ElsewhereKeepsStatus ==
  ASSUME StatusInv, ChangedElsewhere
  PROVE  StatusInv'
<1>1. /\ atServer' = [atServer EXCEPT !.mode = Opposite(atServer.mode)]
      /\ modeChanges < MaxModeChanges /\ modeChanges' = modeChanges + 1 /\ metAnother' = TRUE
      /\ UNCHANGED <<signedIn, cachedStatus, asks, patch, popup>>
  BY DEF ChangedElsewhere
<1>2. modeChanges' \in 0..MaxModeChanges
  BY <1>1, StatusTypes, MaxModeAssumption DEF StatusInv
<1>3. atServer' \in Status
  BY <1>1, StatusTypes, StatusConstants DEF Status, StatusInv
<1>4. StatusTypeOK'
  BY <1>1, <1>2, <1>3, StatusTypes, TypesAreKept DEF StatusInv
<1>5. RequestsAreInOrder'
  BY <1>1 DEF StatusInv, RequestsAreInOrder, UnderWay
<1> QED
  BY <1>1, <1>4, <1>5, CrossedKeepsStatus

-----------------------------------------------------------------------------
(* The service worker *)

LEMMA AnswerKeepsStatus ==
  ASSUME StatusInv, NEW x \in Asks, ServerAnswers(x)
  PROVE  StatusInv'
<1> DEFINE next == [asks[x] EXCEPT !.pc = "answered", !.got = atServer]
<1>1. /\ asks[x].pc = "asked" /\ asks' = [asks EXCEPT ![x] = next]
      /\ UNCHANGED <<signedIn, atServer, modeChanges, cachedStatus, patch, popup, metAnother>>
  BY StatusTypes DEF ServerAnswers, StatusInv
<1>2. /\ next \in AskType /\ next.pc = "answered" /\ next.got = atServer
      /\ next.from = asks[x].from
  BY StatusTypes DEF AskType, StatusInv
<1> HIDE DEF next
<1>3. /\ asks' \in [Asks -> AskType] /\ asks'[x] = next
      /\ \A y \in Asks : y # x => asks'[y] = asks[y]
  BY <1>1, <1>2, StatusTypes DEF StatusInv
<1>4. /\ UnderWay' = UnderWay /\ Clicked' = Clicked /\ x \in UnderWay /\ UnderWay \subseteq Asks
      /\ \A y \in UnderWay : asks'[y].from = asks[y].from
  BY <1>1, <1>2, <1>3 DEF UnderWay, Clicked
<1>5. StatusTypeOK'
  BY <1>1, <1>3, StatusTypes, TypesAreKept DEF StatusInv
<1>6. RequestsAreInOrder'
  <2>1. RequestsAreInOrder /\ atServer \in Status
    BY StatusTypes DEF StatusInv
  <2>2. \A y \in UnderWay' : asks'[y].pc = "answered" => asks'[y].got \in Status
    BY <1>2, <1>3, <1>4, <2>1 DEF RequestsAreInOrder
  <2> QED
    BY <1>1, <1>4, <2>1, <2>2 DEF RequestsAreInOrder
<1>7. ASSUME ~metAnother' PROVE ShownIsCurrent'
  <2>1. ShownIsCurrent
    BY <1>1, <1>7 DEF StatusInv
  <2>2. \A y \in UnderWay' : asks'[y].pc = "answered" => asks'[y].got.mode = atServer'.mode
    BY <1>1, <1>2, <1>3, <1>4, <2>1 DEF ShownIsCurrent
  <2>3. Clicked' => \A y \in UnderWay' : asks'[y].from # "popup"
    BY <1>4, <2>1 DEF ShownIsCurrent
  <2>4. (\E y \in UnderWay : asks[y].from = "popup") => \E y \in UnderWay' : asks'[y].from = "popup"
    BY <1>4
  <2>5. Opposite(atServer.mode)' = Opposite(atServer.mode)
    BY <1>1
  <2> QED
    BY <1>1, <1>4, <2>1, <2>2, <2>3, <2>4, <2>5 DEF ShownIsCurrent
<1> QED
  BY <1>5, <1>6, <1>7 DEF StatusInv

(* An answer that was not crossed is the mode of the account: cache and    *)
(* popup show it.                                                          *)
LEMMA FetchKeepsStatus ==
  ASSUME StatusInv, NEW x \in Asks, StatusFetched(x)
  PROVE  StatusInv'
<1>1. /\ asks[x].pc = "answered" /\ asks' = [asks EXCEPT ![x] = NoAsk]
      /\ cachedStatus' = asks[x].got
      /\ UNCHANGED <<signedIn, atServer, modeChanges, metAnother>>
  BY DEF StatusFetched, Stored
<1>2. x \in UnderWay /\ asks[x].got \in Status /\ asks[x].got.mode \in Modes
  <2>1. x \in UnderWay
    BY <1>1 DEF UnderWay
  <2>2. asks[x].got \in Status
    BY <1>1, <2>1 DEF StatusInv, RequestsAreInOrder
  <2> QED
    BY <2>1, <2>2 DEF Status
<1>3. /\ asks' \in [Asks -> AskType] /\ UnderWay' = UnderWay \ {x}
      /\ \A y \in UnderWay' : asks'[y] = asks[y]
  BY <1>1, OverIsIdle DEF StatusInv
<1>4. /\ popup' \in PopupType /\ popup'.open = popup.open /\ popup'.render = popup.render
      /\ popup'.shows = IF asks[x].from = "popup" /\ popup.open THEN asks[x].got.mode
                        ELSE popup.shows
  <2>1. CASE asks[x].from = "popup" /\ popup.open
    <3>1. popup' = [popup EXCEPT !.shows = asks[x].got.mode]
      BY <2>1 DEF StatusFetched
    <3> QED
      BY <1>2, <2>1, <3>1, StatusTypes DEF PopupType, StatusInv
  <2>2. CASE ~(asks[x].from = "popup" /\ popup.open)
    <3>1. popup' = popup
      BY <2>2 DEF StatusFetched
    <3> QED
      BY <2>2, <3>1, StatusTypes DEF StatusInv
  <2> QED
    BY <2>1, <2>2
<1>5. patch' = IF asks[x].from = "toggle" THEN NoChange ELSE patch
  BY DEF StatusFetched
<1>6. patch' \in PatchType /\ (patch'.heard => patch.heard)
  BY <1>5, StatusTypes, StatusConstants DEF StatusInv
<1>7. StatusTypeOK'
  BY <1>1, <1>2, <1>3, <1>4, <1>6, StatusTypes, TypesAreKept DEF StatusInv
<1>8. RequestsAreInOrder /\ (asks[x].from = "toggle" => patch.pc = "fetch")
  BY <1>2 DEF StatusInv, RequestsAreInOrder
<1>9. Clicked' <=> Clicked
  <2>1. CASE asks[x].from = "toggle"
    BY <1>5, <1>8, <2>1, StatusConstants DEF Clicked
  <2>2. CASE asks[x].from # "toggle"
    BY <1>5, <2>2 DEF Clicked
  <2> QED
    BY <2>1, <2>2
<1>10. RequestsAreInOrder'
  <2>1. \A y \in UnderWay' : y \in UnderWay /\ y # x /\ asks'[y] = asks[y]
    BY <1>3
  <2>2. \A y \in UnderWay' : asks'[y].from = "toggle" => patch'.pc = "fetch"
    BY <1>2, <1>5, <1>8, <2>1 DEF RequestsAreInOrder
  <2> QED
    BY <1>4, <1>6, <1>8, <2>1, <2>2 DEF RequestsAreInOrder
<1>11. ASSUME ~metAnother' PROVE ShownIsCurrent'
  <2>1. ShownIsCurrent /\ asks[x].got.mode = atServer.mode
    BY <1>1, <1>2, <1>11 DEF StatusInv, ShownIsCurrent
  <2>2. \A y \in UnderWay' : y \in UnderWay /\ y # x /\ asks'[y] = asks[y]
    BY <1>3
  <2>3. cachedStatus'.mode = atServer'.mode
    BY <1>1, <2>1
  <2>4. \A y \in UnderWay' : /\ asks'[y].pc = "answered" => asks'[y].got.mode = atServer'.mode
                             /\ Clicked' => asks'[y].from # "popup"
    BY <1>1, <1>9, <2>1, <2>2 DEF ShownIsCurrent
  <2>5. ASSUME signedIn', popup'.open, ~popup'.render, ~Clicked'
        PROVE  popup'.shows = atServer'.mode \/ \E y \in UnderWay' : asks'[y].from = "popup"
    <3>1. CASE asks[x].from = "popup"
      BY <1>1, <1>4, <2>1, <2>5, <3>1
    <3>2. CASE asks[x].from # "popup"
      <4>1. popup.shows = atServer.mode \/ \E y \in UnderWay : asks[y].from = "popup"
        BY <1>1, <1>4, <1>9, <2>1, <2>5 DEF ShownIsCurrent
      <4>2. popup'.shows = popup.shows
        BY <1>4, <3>2
      <4>3. \A y \in UnderWay : asks[y].from = "popup" => y \in UnderWay' /\ asks'[y].from = "popup"
        BY <1>3, <3>2
      <4> QED
        BY <1>1, <4>1, <4>2, <4>3
    <3> QED
      BY <3>1, <3>2
  <2>6. ASSUME signedIn', popup'.open, ~popup'.render, Clicked'
        PROVE  popup'.shows = patch'.to /\ patch'.to = Opposite(atServer'.mode)
    <3>1. /\ popup.shows = patch.to /\ patch.to = Opposite(atServer.mode)
          /\ asks[x].from # "popup"
      BY <1>1, <1>2, <1>4, <1>9, <2>1, <2>6 DEF ShownIsCurrent
    <3>2. patch' = patch
      BY <1>5, <1>8, <1>9, <2>6 DEF Clicked
    <3> QED
      BY <1>1, <1>4, <3>1, <3>2
  <2>7. Opposite(atServer.mode)' = Opposite(atServer'.mode)
    OBVIOUS
  <2> QED
    BY <2>3, <2>4, <2>5, <2>6, <2>7 DEF ShownIsCurrent
<1> QED
  BY <1>7, <1>10, <1>11 DEF StatusInv

(* A toggle that is taken back shows what it did before the click.         *)
LEMMA TakenBack ==
  ASSUME StatusTypeOK
  PROVE  /\ TakeBack \in PopupType /\ TakeBack.open = popup.open
         /\ TakeBack.render = popup.render
         /\ TakeBack.shows = IF patch.heard THEN Opposite(patch.to) ELSE popup.shows
<1>1. Opposite(patch.to) \in Modes /\ popup \in PopupType
  BY StatusTypes, StatusConstants
<1> QED
  BY <1>1 DEF TakeBack, PopupType

(* A failed request of the popup's own click takes the click back.         *)
LEMMA FailureKeepsStatus ==
  ASSUME StatusInv, NEW x \in Asks, StatusFails(x)
  PROVE  StatusInv'
<1>1. /\ asks[x].pc = "asked" /\ asks' = [asks EXCEPT ![x] = NoAsk] /\ metAnother' = TRUE
      /\ patch' = IF asks[x].from = "toggle" THEN NoChange ELSE patch
      /\ UNCHANGED <<signedIn, atServer, modeChanges, cachedStatus>>
  BY DEF StatusFails
<1>2. /\ asks' \in [Asks -> AskType] /\ UnderWay' = UnderWay \ {x}
      /\ \A y \in UnderWay' : asks'[y] = asks[y]
  BY <1>1, OverIsIdle DEF StatusInv
<1>3. x \in UnderWay /\ RequestsAreInOrder
  BY <1>1 DEF UnderWay, StatusInv
<1>4. popup' \in PopupType /\ popup'.open = popup.open
  <2>1. popup' = CASE asks[x].from = "toggle" -> TakeBack
                   [] asks[x].from = "popup" /\ popup.open /\ cachedStatus # NoCache ->
                        [popup EXCEPT !.shows = cachedStatus.mode]
                   [] OTHER -> popup
    BY DEF StatusFails
  <2>2. popup \in PopupType
    BY StatusTypes DEF StatusInv
  <2>3. CASE asks[x].from = "toggle"
    BY <2>1, <2>3, TakenBack DEF StatusInv
  <2>4. CASE asks[x].from = "popup" /\ popup.open /\ cachedStatus # NoCache
    <3>1. popup' = [popup EXCEPT !.shows = cachedStatus.mode]
      BY <2>1, <2>4
    <3>2. cachedStatus.mode \in Modes
      BY <2>4, StatusTypes DEF StatusInv, Status
    <3> QED
      BY <2>2, <3>1, <3>2 DEF PopupType
  <2>5. CASE asks[x].from # "toggle" /\ ~(asks[x].from = "popup" /\ popup.open /\ cachedStatus # NoCache)
    BY <2>1, <2>2, <2>5
  <2> QED
    BY <2>3, <2>4, <2>5
<1>5. patch' \in PatchType /\ (patch'.heard => patch.heard)
  BY <1>1, StatusTypes, StatusConstants DEF StatusInv
<1>6. StatusTypeOK'
  BY <1>1, <1>2, <1>4, <1>5, StatusTypes, TypesAreKept DEF StatusInv
<1>7. RequestsAreInOrder'
  <2>1. \A y \in UnderWay' : y \in UnderWay /\ y # x /\ asks'[y] = asks[y]
    BY <1>2
  <2>2. \A y \in UnderWay' : asks'[y].from = "toggle" => patch'.pc = "fetch"
    BY <1>1, <1>3, <2>1 DEF RequestsAreInOrder
  <2> QED
    BY <1>3, <1>4, <1>5, <2>1, <2>2 DEF RequestsAreInOrder
<1> QED
  BY <1>1, <1>6, <1>7, CrossedKeepsStatus

-----------------------------------------------------------------------------
(* The popup: what it renders is waited for.                               *)

LEMMA RenderKeepsStatus ==
  ASSUME StatusInv, NEW x \in Asks, Render(x), ~Clicked, metAnother' \in BOOLEAN,
         ~metAnother' => ShownIsCurrent \/ (UnderWay = {} /\ signedIn)
  PROVE  StatusInv'
<1>1. /\ popup' = [open |-> TRUE, render |-> FALSE,
                   shows |-> IF signedIn /\ cachedStatus # NoCache THEN cachedStatus.mode
                             ELSE IF popup.open THEN popup.shows ELSE "review"]
      /\ IF signedIn THEN Request(x, "popup") ELSE UNCHANGED asks
      /\ UNCHANGED <<signedIn, atServer, modeChanges, cachedStatus, patch>>
  BY DEF Render
<1>2. popup' \in PopupType /\ popup'.open /\ ~popup'.render
  <2> DEFINE first == IF signedIn /\ cachedStatus # NoCache THEN cachedStatus.mode
                      ELSE IF popup.open THEN popup.shows ELSE "review"
  <2>1. first \in Modes
    BY StatusTypes DEF StatusInv, Status, Modes
  <2>2. popup' = [open |-> TRUE, render |-> FALSE, shows |-> first]
    BY <1>1
  <2> HIDE DEF first
  <2> QED
    BY <2>1, <2>2 DEF PopupType
<1>3. ~Clicked'
  BY <1>1 DEF Clicked
<1>4. CASE signedIn
  <2>1. /\ asks' \in [Asks -> AskType] /\ UnderWay' = UnderWay \cup {x}
        /\ asks'[x].pc = "asked" /\ asks'[x].from = "popup"
        /\ \A y \in UnderWay : asks'[y] = asks[y]
    BY <1>1, <1>4, SentIsUnderWay DEF StatusInv
  <2>2. StatusTypeOK'
    BY <1>1, <1>2, <2>1, StatusTypes, TypesAreKept DEF StatusInv
  <2>3. RequestsAreInOrder'
    BY <1>1, <1>2, <1>4, OtherRequests
  <2>4. ASSUME ~metAnother' PROVE ShownIsCurrent'
    <3>1. \A y \in UnderWay : asks[y].pc = "answered" => asks[y].got.mode = atServer.mode
      BY <2>4 DEF ShownIsCurrent
    <3>2. \A y \in UnderWay' : asks'[y].pc = "answered" => asks'[y].got.mode = atServer'.mode
      BY <1>1, <2>1, <3>1
    <3> QED
      BY <1>3, <2>1, <3>2 DEF ShownIsCurrent
  <2> QED
    BY <2>2, <2>3, <2>4 DEF StatusInv
<1>5. CASE ~signedIn
  <2>1. asks' = asks /\ UnderWay' = UnderWay
    BY <1>1, <1>5 DEF UnderWay
  <2>2. StatusTypeOK'
    BY <1>1, <1>2, <2>1, StatusTypes, TypesAreKept DEF StatusInv
  <2>3. RequestsAreInOrder'
    BY <1>1, <1>2, <2>1 DEF StatusInv, RequestsAreInOrder
  <2>4. ASSUME ~metAnother' PROVE ShownIsCurrent'
    <3>1. \A y \in UnderWay : asks[y].pc = "answered" => asks[y].got.mode = atServer.mode
      BY <1>5, <2>4 DEF ShownIsCurrent
    <3> QED
      BY <1>1, <1>3, <1>5, <2>1, <3>1 DEF ShownIsCurrent
  <2> QED
    BY <2>2, <2>3, <2>4 DEF StatusInv
<1> QED
  BY <1>4, <1>5

(* An opened popup shows the cache and asks.                               *)
LEMMA OpenKeepsStatus ==
  ASSUME StatusInv, NEW x \in Asks, OpenPopup(x)
  PROVE  StatusInv'
<1>1. Render(x) /\ ~Clicked
  BY DEF OpenPopup, StatusInv, RequestsAreInOrder, Clicked
<1>2. metAnother' = (metAnother /\ ~(Quiet /\ signedIn)) /\ metAnother \in BOOLEAN
  BY StatusTypes DEF OpenPopup, StatusInv
<1>3. ~metAnother' => ShownIsCurrent \/ (UnderWay = {} /\ signedIn)
  BY <1>2 DEF StatusInv, Quiet
<1> QED
  BY <1>1, <1>2, <1>3, RenderKeepsStatus

(* A popup that hears of a new token asks again.                           *)
LEMMA HearKeepsStatus ==
  ASSUME StatusInv, NEW x \in Asks, HearToken(x)
  PROVE  StatusInv'
<1>1. Render(x) /\ metAnother' = (metAnother \/ ~Quiet) /\ metAnother \in BOOLEAN
  BY StatusTypes DEF HearToken, StatusInv
<1>2. CASE metAnother'
  <2>1. /\ popup' \in PopupType /\ popup'.open
        /\ UNCHANGED <<signedIn, atServer, modeChanges, cachedStatus, patch>>
    <3> DEFINE first == IF signedIn /\ cachedStatus # NoCache THEN cachedStatus.mode
                        ELSE IF popup.open THEN popup.shows ELSE "review"
    <3>1. first \in Modes
      BY StatusTypes DEF StatusInv, Status, Modes
    <3>2. /\ popup' = [open |-> TRUE, render |-> FALSE, shows |-> first]
          /\ UNCHANGED <<signedIn, atServer, modeChanges, cachedStatus, patch>>
      BY <1>1 DEF Render
    <3> HIDE DEF first
    <3> QED
      BY <3>1, <3>2 DEF PopupType
  <2>2. CASE signedIn
    <3>1. Request(x, "popup")
      BY <1>1, <2>2 DEF Render
    <3>2. RequestsAreInOrder' /\ asks' \in [Asks -> AskType]
      BY <2>1, <3>1, OtherRequests, SentIsUnderWay DEF StatusInv
    <3> QED
      BY <1>2, <2>1, <3>2, StatusTypes, TypesAreKept, CrossedKeepsStatus DEF StatusInv
  <2>3. CASE ~signedIn
    <3>1. asks' = asks /\ UnderWay' = UnderWay
      BY <1>1, <2>3 DEF Render, UnderWay
    <3>2. RequestsAreInOrder'
      BY <2>1, <3>1 DEF StatusInv, RequestsAreInOrder
    <3> QED
      BY <1>2, <2>1, <3>1, <3>2, StatusTypes, TypesAreKept, CrossedKeepsStatus DEF StatusInv
  <2> QED
    BY <2>2, <2>3
<1>3. CASE ~metAnother'
  <2>1. ~Clicked /\ ShownIsCurrent
    BY <1>1, <1>3 DEF StatusInv, Quiet, Clicked
  <2> QED
    BY <1>1, <2>1, RenderKeepsStatus
<1> QED
  BY <1>2, <1>3

(* A closed popup shows nothing.                                           *)
LEMMA CloseKeepsStatus ==
  ASSUME StatusInv, ClosePopup
  PROVE  StatusInv'
<1>1. /\ popup' = [popup EXCEPT !.open = FALSE, !.render = FALSE]
      /\ patch' = [patch EXCEPT !.heard = FALSE]
      /\ UNCHANGED <<signedIn, atServer, modeChanges, cachedStatus, asks, metAnother>>
  BY DEF ClosePopup
<1>2. /\ popup' \in PopupType /\ ~popup'.open
      /\ patch' \in PatchType /\ ~patch'.heard /\ patch'.pc = patch.pc
  BY <1>1, StatusTypes DEF PopupType, PatchType, StatusInv
<1>3. UnderWay' = UnderWay
  BY <1>1 DEF UnderWay
<1>4. StatusTypeOK'
  BY <1>1, <1>2, StatusTypes, TypesAreKept DEF StatusInv
<1>5. RequestsAreInOrder'
  BY <1>1, <1>2, <1>3 DEF StatusInv, RequestsAreInOrder
<1>6. ASSUME ~metAnother' PROVE ShownIsCurrent'
  BY <1>1, <1>2, <1>3, <1>6 DEF StatusInv, ShownIsCurrent, Clicked
<1> QED
  BY <1>4, <1>5, <1>6 DEF StatusInv

(* A click shows the opposite mode before the server has it.               *)
LEMMA ToggleKeepsStatus ==
  ASSUME StatusInv, Toggle
  PROVE  StatusInv'
<1>1. /\ popup.open /\ signedIn /\ patch.pc = "none" /\ modeChanges < MaxModeChanges
      /\ popup' = [popup EXCEPT !.shows = Opposite(popup.shows)]
      /\ patch' = [pc |-> "sent", to |-> Opposite(popup.shows), heard |-> TRUE]
      /\ modeChanges' = modeChanges + 1 /\ metAnother' = (metAnother \/ ~Quiet)
      /\ UNCHANGED <<signedIn, atServer, cachedStatus, asks>>
  BY DEF Toggle
<1>2. Opposite(popup.shows) \in Modes
  BY StatusTypes, StatusConstants DEF StatusInv
<1>3. /\ popup' \in PopupType /\ popup'.open = popup.open /\ popup'.render = popup.render
      /\ popup'.shows = Opposite(popup.shows)
  BY <1>1, <1>2, StatusTypes DEF PopupType, StatusInv
<1>4. patch' \in PatchType /\ patch'.pc = "sent" /\ patch'.to = Opposite(popup.shows) /\ patch'.heard
  BY <1>1, <1>2 DEF PatchType
<1>5. modeChanges' \in 0..MaxModeChanges /\ metAnother' \in BOOLEAN
  BY <1>1, StatusTypes, MaxModeAssumption DEF StatusInv
<1>6. UnderWay' = UnderWay
  BY <1>1 DEF UnderWay
<1>7. StatusTypeOK'
  BY <1>1, <1>3, <1>4, <1>5, StatusTypes, TypesAreKept DEF StatusInv
<1>8. RequestsAreInOrder'
  <2>1. RequestsAreInOrder /\ \A x \in UnderWay : asks[x].from # "toggle"
    BY <1>1 DEF StatusInv, RequestsAreInOrder
  <2> QED
    BY <1>1, <1>3, <1>6, <2>1 DEF RequestsAreInOrder
<1>9. ASSUME ~metAnother' PROVE ShownIsCurrent'
  <2>1. UnderWay = {} /\ ShownIsCurrent /\ ~Clicked
    BY <1>1, <1>9 DEF StatusInv, Quiet, Clicked
  <2>2. ~popup.render => popup.shows = atServer.mode
    BY <1>1, <2>1 DEF ShownIsCurrent
  <2>4. cachedStatus # NoCache => cachedStatus.mode = atServer.mode
    BY <1>1, <2>1 DEF ShownIsCurrent
  <2>5. Clicked' /\ UnderWay' = {} /\ popup'.shows = patch'.to
    BY <1>3, <1>4, <1>6, <2>1 DEF Clicked
  <2>6. ~popup'.render => patch'.to = Opposite(atServer.mode)'
    BY <1>1, <1>3, <1>4, <2>2
  <2> QED
    BY <1>1, <2>4, <2>5, <2>6 DEF ShownIsCurrent
<1> QED
  BY <1>7, <1>8, <1>9 DEF StatusInv

(* The server takes the clicked mode, and the answer is asked for.         *)
LEMMA ArrivalKeepsStatus ==
  ASSUME StatusInv, NEW x \in Asks, PatchArrives(x)
  PROVE  StatusInv'
<1>1. /\ patch.pc = "sent" /\ signedIn /\ Request(x, "toggle")
      /\ atServer' = [atServer EXCEPT !.mode = patch.to]
      /\ patch' = [patch EXCEPT !.pc = "fetch"]
      /\ metAnother' = (metAnother \/ UnderWay # {} \/ (popup.open /\ ~patch.heard))
      /\ UNCHANGED <<signedIn, modeChanges, cachedStatus, popup>>
  BY DEF PatchArrives
<1>2. /\ atServer' \in Status /\ atServer'.mode = patch.to /\ metAnother' \in BOOLEAN
      /\ patch' \in PatchType /\ patch'.pc = "fetch" /\ patch'.heard = patch.heard
  BY <1>1, StatusTypes DEF Status, PatchType, StatusInv
<1>3. /\ asks' \in [Asks -> AskType] /\ UnderWay' = UnderWay \cup {x}
      /\ asks'[x].pc = "asked" /\ asks'[x].from = "toggle"
      /\ \A y \in UnderWay : asks'[y] = asks[y]
  BY <1>1, SentIsUnderWay DEF StatusInv
<1>4. StatusTypeOK'
  BY <1>1, <1>2, <1>3, StatusTypes, TypesAreKept DEF StatusInv
<1>5. RequestsAreInOrder'
  <2>1. RequestsAreInOrder /\ \A y \in UnderWay : asks[y].from # "toggle"
    BY <1>1 DEF StatusInv, RequestsAreInOrder
  <2> QED
    BY <1>1, <1>2, <1>3, <2>1 DEF RequestsAreInOrder
<1>6. ASSUME ~metAnother' PROVE ShownIsCurrent'
  <2>1. UnderWay' = {x} /\ ShownIsCurrent /\ (popup.open => Clicked)
    BY <1>1, <1>3, <1>6 DEF StatusInv, Clicked
  <2>2. popup.open /\ ~popup.render => popup.shows = patch.to
    BY <1>1, <2>1 DEF ShownIsCurrent
  <2>3. ~Clicked'
    BY <1>2 DEF Clicked
  <2> QED
    BY <1>1, <1>2, <1>3, <2>1, <2>2, <2>3 DEF ShownIsCurrent
<1> QED
  BY <1>4, <1>5, <1>6 DEF StatusInv

(* A patch that fails takes the click back; one that reached the server    *)
(* unanswered counts as a crossing.                                        *)
LEMMA LostPatchKeepsStatus ==
  ASSUME StatusInv, NEW reached \in BOOLEAN, PatchFails(reached)
  PROVE  StatusInv'
<1>1. /\ patch.pc = "sent" /\ popup' = TakeBack /\ patch' = NoChange
      /\ metAnother' = (metAnother \/ reached)
      /\ UNCHANGED <<signedIn, modeChanges, cachedStatus, asks>>
      /\ atServer' = IF reached /\ signedIn THEN [atServer EXCEPT !.mode = patch.to] ELSE atServer
  BY DEF PatchFails
<1>2. /\ popup' \in PopupType /\ popup'.open = popup.open /\ popup'.render = popup.render
      /\ popup'.shows = IF patch.heard THEN Opposite(patch.to) ELSE popup.shows
  BY <1>1, TakenBack DEF StatusInv
<1>3. atServer' \in Status
  BY <1>1, StatusTypes DEF StatusInv, Status
<1>4. metAnother' \in BOOLEAN /\ UnderWay' = UnderWay
  BY <1>1, StatusTypes DEF StatusInv, UnderWay
<1>5. StatusTypeOK'
  BY <1>1, <1>2, <1>3, <1>4, StatusTypes, StatusConstants, TypesAreKept DEF StatusInv
<1>6. RequestsAreInOrder'
  <2>1. RequestsAreInOrder /\ \A x \in UnderWay : asks[x].from # "toggle"
    BY <1>1 DEF StatusInv, RequestsAreInOrder
  <2> QED
    BY <1>1, <1>4, <2>1, StatusConstants DEF RequestsAreInOrder
<1>7. ASSUME ~metAnother' PROVE ShownIsCurrent'
  <2>1. ShownIsCurrent /\ atServer' = atServer
    BY <1>1, <1>7 DEF StatusInv
  <2>2. ~Clicked'
    BY <1>1, StatusConstants DEF Clicked
  <2>3. ASSUME signedIn, popup.open, ~popup.render
        PROVE  popup'.shows = atServer.mode \/ \E x \in UnderWay : asks[x].from = "popup"
    <3>1. CASE Clicked
      <4>1. popup'.shows = Opposite(patch.to) /\ patch.to = Opposite(atServer.mode)
        BY <1>2, <2>1, <2>3, <3>1 DEF ShownIsCurrent, Clicked
      <4>2. Opposite(Opposite(atServer.mode)) = atServer.mode
        BY StatusTypes, StatusConstants DEF StatusInv
      <4> QED
        BY <4>1, <4>2
    <3>2. CASE ~Clicked
      BY <1>1, <1>2, <2>1, <2>3, <3>2 DEF ShownIsCurrent, Clicked
    <3> QED
      BY <3>1, <3>2
  <2>4. \A x \in UnderWay : asks[x].pc = "answered" => asks[x].got.mode = atServer.mode
    BY <2>1 DEF ShownIsCurrent
  <2>5. signedIn /\ cachedStatus # NoCache => cachedStatus.mode = atServer.mode \/ UnderWay # {}
    BY <2>1 DEF ShownIsCurrent
  <2> QED
    BY <1>1, <1>2, <1>4, <2>1, <2>2, <2>3, <2>4, <2>5 DEF ShownIsCurrent
<1> QED
  BY <1>5, <1>6, <1>7 DEF StatusInv

(* A page's request stores what it hears.                                  *)
LEMMA PageKeepsStatus ==
  ASSUME StatusInv, NEW x \in Asks, PageAsks(x)
  PROVE  StatusInv'
<1>1. /\ Request(x, "page")
      /\ UNCHANGED <<signedIn, atServer, modeChanges, cachedStatus, patch, popup, metAnother>>
  BY DEF PageAsks
<1>2. /\ asks' \in [Asks -> AskType] /\ UnderWay' = UnderWay \cup {x}
      /\ asks'[x].pc = "asked" /\ asks'[x].from = "page"
      /\ \A y \in UnderWay : asks'[y] = asks[y]
  BY <1>1, SentIsUnderWay DEF StatusInv
<1>3. StatusTypeOK'
  BY <1>1, <1>2, StatusTypes, TypesAreKept DEF StatusInv
<1>4. RequestsAreInOrder'
  BY <1>1, OtherRequests DEF StatusInv, RequestsAreInOrder
<1>5. ASSUME ~metAnother' PROVE ShownIsCurrent'
  <2>1. ShownIsCurrent /\ Clicked' = Clicked
    BY <1>1, <1>5 DEF StatusInv, Clicked
  <2>2. \A y \in UnderWay' : /\ asks'[y].pc = "answered" => asks'[y].got.mode = atServer'.mode
                             /\ Clicked' => asks'[y].from # "popup"
    BY <1>1, <1>2, <2>1 DEF ShownIsCurrent
  <2>3. (\E y \in UnderWay : asks[y].from = "popup") => \E y \in UnderWay' : asks'[y].from = "popup"
    BY <1>2
  <2>4. Opposite(atServer.mode)' = Opposite(atServer.mode) /\ UnderWay' # {}
    BY <1>1, <1>2
  <2> QED
    BY <1>1, <2>1, <2>2, <2>3, <2>4 DEF ShownIsCurrent
<1> QED
  BY <1>3, <1>4, <1>5 DEF StatusInv

(* Every step keeps it.                                                    *)
LEMMA StatusStep ==
  ASSUME StatusInv, [StatusNext]_statusVars
  PROVE  StatusInv'
<1>1. CASE UNCHANGED statusVars
  BY <1>1 DEF statusVars, StatusInv, StatusTypeOK, RequestsAreInOrder, ShownIsCurrent, Clicked,
              UnderWay, Opposite
<1>2. CASE StatusNext
  BY <1>2, DisconnectKeepsStatus, SetupKeepsStatus, ElsewhereKeepsStatus, CloseKeepsStatus,
     ToggleKeepsStatus, LostPatchKeepsStatus, SignInKeepsStatus, DashboardKeepsStatus,
     AnswerKeepsStatus, FetchKeepsStatus, FailureKeepsStatus, OpenKeepsStatus, HearKeepsStatus,
     ArrivalKeepsStatus, PageKeepsStatus DEF StatusNext
<1> QED
  BY <1>1, <1>2

(* Once no request is under way, popup and cache show the account's mode.  *)
LEMMA StatusIsShown == StatusInv => ModeIsShown
  BY DEF StatusInv, ShownIsCurrent, ModeIsShown, Quiet, Clicked

-----------------------------------------------------------------------------
(*****************************************************************************)
(* The buttons in posts: one that has queued an application says so.         *)
(*****************************************************************************)
(* What the proof about the buttons rests on.                              *)
PostInv == PostTypeOK /\ QueuedIsShown

(* No button is in a post.                                                 *)
LEMMA PostStart == PostInit => PostInv
<1> SUFFICES ASSUME PostInit PROVE PostInv
  OBVIOUS
<1>1. post \in Posts
  BY PostAssumption DEF PostInit
<1> QED
  BY <1>1, PostAssumption DEF PostInit, PostInv, PostTypeOK, QueuedIsShown, NoButton

(* What the content script knows.                                          *)
ContentType == [valid : BOOLEAN, initialized : BOOLEAN, observing : BOOLEAN,
                check : {"due", "setup", "done"}, banner : {"none", "connect", "setup"}]

(* What a button is made of.                                               *)
ButtonType == [look : {"none", "idle", "loading", "error", "added"}, timer : BOOLEAN,
               queued : 0..MaxTaps, lost : BOOLEAN]

(* What a button may be: one that has queued says so, or its answer was lost. *)
ShowsQueued(b) == b.queued > 0 /\ ~b.lost => b.look = "added" /\ b.queued = 1

(* A step changes one button, into another that shows what it has queued. *)
LEMMA ButtonKeepsPost ==
  ASSUME PostInv, NEW b \in Buttons, NEW next \in ButtonType, ShowsQueued(next),
         button' = [button EXCEPT ![b] = next], inserting' \in 0..2,
         UNCHANGED <<connected, content, post>>
  PROVE  PostInv'
  BY DEF PostInv, PostTypeOK, QueuedIsShown, ButtonType, ShowsQueued

(* Every step keeps what a button shows.                                   *)
LEMMA PostStep ==
  ASSUME PostInv, [PostNext]_postVars
  PROVE  PostInv'
<1>0. /\ button \in [Buttons -> ButtonType]
      /\ \A b \in Buttons : ShowsQueued(button[b])
      /\ MaxTaps \in Nat /\ inserting \in 0..2
  BY PostAssumption DEF PostInv, PostTypeOK, QueuedIsShown, ButtonType, ShowsQueued
<1>1. CASE UNCHANGED postVars
  BY <1>1 DEF postVars, PostInv, PostTypeOK, QueuedIsShown
<1>2. CASE CheckConnection \/ CheckSetup
  BY <1>2 DEF CheckConnection, CheckSetup, PostInv, PostTypeOK, QueuedIsShown
<1>3. CASE Scan
  <2>1. inserting' \in 0..2
    BY <1>0, <1>3 DEF Scan
  <2> QED
    BY <1>3, <2>1 DEF Scan, PostInv, PostTypeOK, QueuedIsShown
<1>11. CASE Invalidate
  <2>1. content \in ContentType
    BY DEF PostInv, PostTypeOK, ContentType
  <2>2. content' = [content EXCEPT !.valid = FALSE, !.initialized = FALSE, !.observing = FALSE]
        /\ inserting' = 0 /\ UNCHANGED <<connected, post, button>>
    BY <1>11 DEF Invalidate
  <2>3. content' \in ContentType
    BY <2>1, <2>2 DEF ContentType
  <2> QED
    BY <2>2, <2>3 DEF PostInv, PostTypeOK, QueuedIsShown, ContentType
<1>4. ASSUME NEW to \in {[token |-> FALSE, ready |-> FALSE], [token |-> TRUE, ready |-> FALSE],
                         [token |-> TRUE, ready |-> TRUE]},
             StorageChanges(to)
      PROVE  PostInv'
  <2>0. content \in ContentType
    BY DEF PostInv, PostTypeOK, ContentType
  <2> DEFINE still == content.initialized /\ to.token = connected.token
  <2>1. content' = content \/ content' = [content EXCEPT !.check = "due", !.initialized = still]
    BY <1>4, <2>0 DEF StorageChanges, ContentType
  <2>2. still \in BOOLEAN
    OBVIOUS
  <2> HIDE DEF still
  <2>3. content' \in ContentType
    BY <2>0, <2>1, <2>2 DEF ContentType
  <2>4. to \in [token : BOOLEAN, ready : BOOLEAN]
    <3>1. \A one, two \in BOOLEAN :
            [token |-> one, ready |-> two] \in [token : BOOLEAN, ready : BOOLEAN]
      OBVIOUS
    <3>2. TRUE \in BOOLEAN /\ FALSE \in BOOLEAN
      OBVIOUS
    <3> QED
      BY <3>1, <3>2, Zenon
  <2>5. connected' \in [token : BOOLEAN, ready : BOOLEAN]
        /\ UNCHANGED <<post, inserting, button>>
    BY <1>4, <2>4 DEF StorageChanges
  <2> QED
    BY <2>3, <2>5 DEF PostInv, PostTypeOK, QueuedIsShown, ContentType
<1>5. ASSUME NEW p \in Posts, DrawPost(p) PROVE PostInv'
  BY <1>0, <1>5 DEF DrawPost, PostInv, PostTypeOK, QueuedIsShown, NoButton
<1>6. ASSUME NEW b \in Buttons, Insert(b) PROVE PostInv'
  <2> DEFINE next == [NoButton EXCEPT !.look = "idle"]
  <2>0. NoButton \in ButtonType /\ NoButton.queued = 0
    BY <1>0 DEF NoButton, ButtonType
  <2>1. next \in ButtonType /\ ShowsQueued(next)
    BY <2>0 DEF ButtonType, ShowsQueued
  <2>2. button' = [button EXCEPT ![b] = next] /\ inserting' \in 0..2
        /\ UNCHANGED <<connected, content, post>>
    BY <1>0, <1>6 DEF Insert
  <2> HIDE DEF next
  <2> QED
    BY <2>1, <2>2, ButtonKeepsPost
<1>7. ASSUME NEW b \in Buttons, Click(b) PROVE PostInv'
  <2> DEFINE next == [button[b] EXCEPT !.look = "loading"]
  <2>1. next \in ButtonType /\ ShowsQueued(next)
    BY <1>0, <1>7 DEF Click, ButtonType, ShowsQueued
  <2>2. button' = [button EXCEPT ![b] = next] /\ inserting' \in 0..2
        /\ UNCHANGED <<connected, content, post>>
    BY <1>0, <1>7 DEF Click
  <2> HIDE DEF next
  <2> QED
    BY <2>1, <2>2, ButtonKeepsPost
<1>8. ASSUME NEW b \in Buttons, Queue(b) PROVE PostInv'
  <2> DEFINE next == [button[b] EXCEPT !.look = "added", !.queued = button[b].queued + 1]
  <2>1. next \in ButtonType /\ ShowsQueued(next)
    BY <1>0, <1>8 DEF Queue, ButtonType, ShowsQueued
  <2>2. button' = [button EXCEPT ![b] = next] /\ inserting' \in 0..2
        /\ UNCHANGED <<connected, content, post>>
    BY <1>0, <1>8 DEF Queue
  <2> HIDE DEF next
  <2> QED
    BY <2>1, <2>2, ButtonKeepsPost
<1>9. ASSUME NEW b \in Buttons, NEW reached \in BOOLEAN, TapFails(b, reached) PROVE PostInv'
  <2> DEFINE queued == IF reached THEN button[b].queued + 1 ELSE button[b].queued
             next == [button[b] EXCEPT !.look = "error", !.timer = TRUE, !.queued = queued,
                                       !.lost = button[b].lost \/ reached]
  <2>1. button[b] \in ButtonType /\ button[b].look = "loading" /\ ShowsQueued(button[b])
        /\ (reached => button[b].queued < MaxTaps)
    BY <1>0, <1>9 DEF TapFails
  <2>2. queued \in 0..MaxTaps /\ (button[b].lost \/ reached) \in BOOLEAN
        /\ (queued > 0 => button[b].lost \/ reached)
    BY <1>0, <2>1 DEF ButtonType, ShowsQueued
  <2>3. button' = [button EXCEPT ![b] = next] /\ inserting' \in 0..2
        /\ UNCHANGED <<connected, content, post>>
    BY <1>0, <1>9 DEF TapFails
  <2> HIDE DEF queued
  <2>4. next \in ButtonType
    BY <2>1, <2>2 DEF ButtonType
  <2>5. next.queued = queued /\ next.lost = (button[b].lost \/ reached)
    BY <2>1 DEF ButtonType
  <2> HIDE DEF next
  <2> QED
    BY <2>2, <2>3, <2>4, <2>5, ButtonKeepsPost DEF ShowsQueued
<1>10. ASSUME NEW b \in Buttons, ErrorGoes(b) PROVE PostInv'
  <2> DEFINE next == [button[b] EXCEPT !.timer = FALSE, !.look = IdleState(button[b].look)]
  <2>1. next \in ButtonType /\ ShowsQueued(next)
    BY <1>0 DEF IdleState, ButtonType, ShowsQueued
  <2>2. button' = [button EXCEPT ![b] = next] /\ inserting' \in 0..2
        /\ UNCHANGED <<connected, content, post>>
    BY <1>0, <1>10 DEF ErrorGoes
  <2> HIDE DEF next
  <2> QED
    BY <2>1, <2>2, ButtonKeepsPost
<1> QED
  BY <1>1, <1>2, <1>3, <1>4, <1>5, <1>6, <1>7, <1>8, <1>9, <1>10, <1>11 DEF PostNext

-----------------------------------------------------------------------------
(*****************************************************************************)
(* The parse of a description: no fact that speaks for it is held against    *)
(* it.                                                                       *)
(*****************************************************************************)
(* The facts that speak for a description.                                 *)
Favourable == {"skill", "moreSkills", "company", "email", "intent", "resumeMatch"}

(* What the outcome has to do with the facts that were found.              *)
ParsingInv ==
  /\ ParsingTypeOK
  /\ parse.pc \in {"accepted", "rejected"} => parse.outcome = ParseOutcome(parse.found)

(* A fact that speaks for the description names no role.                   *)
LEMMA RolesAreKept ==
  ASSUME NEW f \in Favourable, NEW p \in SUBSET Facts
  PROVE  Roles(p \cup {f}) = Roles(p) /\ Roles(p) \in Nat
<1> DEFINE named(s) == s \cap {"title", "listedRole", "sectionRole"}
<1>1. named(p \cup {f}) = named(p)
  BY DEF Favourable
<1>2. Cardinality(named(p)) \in Nat
  <2>1. IsFiniteSet({"title", "listedRole", "sectionRole"})
    <3>1. IsFiniteSet({"title"}) /\ IsFiniteSet({"listedRole"}) /\ IsFiniteSet({"sectionRole"})
      BY FS_Singleton
    <3>2. IsFiniteSet(({"title"} \cup {"listedRole"}) \cup {"sectionRole"})
      BY <3>1, FS_Union
    <3>3. {"title", "listedRole", "sectionRole"} = ({"title"} \cup {"listedRole"}) \cup {"sectionRole"}
      OBVIOUS
    <3> QED
      BY <3>2, <3>3
  <2>2. IsFiniteSet(named(p))
    BY <2>1, FS_Subset
  <2> QED
    BY <2>2, FS_CardinalityType
<1>3. ("tooManyRoles" \in p \cup {f} <=> "tooManyRoles" \in p)
      /\ ("manyRoles" \in p \cup {f} <=> "manyRoles" \in p)
  BY DEF Favourable
<1> HIDE DEF named
<1>4. \A s \in SUBSET Facts : Roles(s) = IF "tooManyRoles" \in s THEN 11
                                          ELSE IF "manyRoles" \in s THEN 6 ELSE Cardinality(named(s))
  BY DEF Roles, named
<1>5. p \cup {f} \in SUBSET Facts
  BY DEF Favourable, Facts, ModelFacts, TextFacts
<1> QED
  BY <1>1, <1>2, <1>3, <1>4, <1>5

(* A favourable fact takes no points from the confidence.                  *)
LEMMA FavourIsPoints ==
  ASSUME NEW f \in Favourable, NEW p \in SUBSET Facts
  PROVE  Confidence(p \cup {f}) >= Confidence(p) /\ Confidence(p) \in Nat
<1> DEFINE q == p \cup {f}
           n == Roles(p)
<1>1. n \in Nat /\ Roles(q) = n
  BY RolesAreKept
<1>2. /\ \A t \in Facts \ Favourable : t \in q <=> t \in p
      /\ \A t \in Favourable : t \in q <=> t \in p \/ t = f
  OBVIOUS
<1>3. /\ q \cap {"skill", "moreSkills"} = {"skill"} <=> "skill" \in q /\ "moreSkills" \notin q
      /\ p \cap {"skill", "moreSkills"} = {"skill"} <=> "skill" \in p /\ "moreSkills" \notin p
  OBVIOUS
<1>4. /\ {"sectionRole", "titleLine", "alias", "knownRole", "title", "short", "buzzwords",
          "clusters", "foreign"} \subseteq Facts \ Favourable
  BY DEF Facts, ModelFacts, TextFacts, Favourable
<1> HIDE DEF q, n
<1>5. /\ HasTitle(q) <=> HasTitle(p) 
      /\ HasHiringIntent(p) => HasHiringIntent(q)
      /\ InfersSkills(q) => InfersSkills(p)
  <2>1. HasTitle(q) <=> HasTitle(p)
    BY <1>1, <1>2, <1>4 DEF HasTitle, LineTitle, n
  <2>2. HasHiringIntent(p) => HasHiringIntent(q)
    BY <1>2, <1>4 DEF HasHiringIntent, SectionRole, Favourable
  <2>3. InfersSkills(q) => InfersSkills(p)
    BY <1>2, <1>4, <2>1 DEF InfersSkills, OntologySkills, Favourable
  <2> QED
    BY <2>1, <2>2, <2>3
<1>6. Penalties(q) <= Penalties(p) /\ Penalties(q) \in Int /\ Penalties(p) \in Int
  BY <1>1, <1>2, <1>4, <1>5 DEF Penalties, Points, n
<1>7. SkillPoints(q) >= SkillPoints(p) /\ SkillPoints(q) \in Int /\ SkillPoints(p) \in Int
  BY <1>2, <1>3 DEF SkillPoints, Points, Favourable
<1> DEFINE source(s) == Points(TitleSource(s) = "alias", 15)
                          + Points(TitleSource(s) = "matched_resume_skills", 10)
<1>8. source(q) >= source(p) /\ source(q) \in Int /\ source(p) \in Int
  BY <1>1, <1>2, <1>4, <1>5 DEF TitleSource, IsAlias, Points, Favourable, n
<1> DEFINE named(s) == Points("title" \in s, 35) + Points("title" \notin s /\ HasTitle(s), 28)
                         + Points(SectionRole(s), 20)
<1>9. named(q) = named(p) /\ named(p) \in Int
  BY <1>2, <1>4, <1>5 DEF SectionRole, Points
<1>10. \A s \in {p, q} : Confidence(s) = LET sum == named(s) + source(s) + SkillPoints(s) - Penalties(s)
                                       IN IF sum < 0 THEN 0 ELSE sum
  <2>1. ASSUME NEW s \in {p, q}
        PROVE  Confidence(s) = LET sum == named(s) + source(s) + SkillPoints(s) - Penalties(s)
                               IN IF sum < 0 THEN 0 ELSE sum
    BY <1>6, <1>7, <2>1 DEF Confidence, Points
  <2> QED
    BY <2>1
<1> HIDE DEF named, source
<1> QED
  BY <1>6, <1>7, <1>8, <1>9, <1>10 DEF q

(* A description with a favourable fact more is rated no lower.            *)
LEMMA FavourDoesNotHurt ==
  ASSUME NEW f \in Favourable, NEW p \in SUBSET Facts
  PROVE  Rank(ParseOutcome(p \cup {f})) >= Rank(ParseOutcome(p))
<1> DEFINE q == p \cup {f}
<1>1. Confidence(q) >= Confidence(p) /\ Confidence(p) \in Nat /\ Confidence(q) \in Nat
      /\ Roles(q) = Roles(p)
  <2>1. q \in SUBSET Facts
    BY DEF Favourable, Facts, ModelFacts, TextFacts
  <2> QED
    BY <2>1, FavourIsPoints, RolesAreKept
<1>2. /\ ("spam" \in q <=> "spam" \in p) /\ ("titleLine" \in q <=> "titleLine" \in p)
      /\ ("resumeMatch" \in p => "resumeMatch" \in q) /\ ("skill" \in p => "skill" \in q)
      /\ (p \cap {"company", "email"} # {} => q \cap {"company", "email"} # {})
  BY DEF Favourable
<1> HIDE DEF q
<1>3. DetectSpam(q) <=> DetectSpam(p)
  BY <1>2 DEF DetectSpam
<1>4. HasRoleOrSkills(p) => HasRoleOrSkills(q)
  BY <1>1, <1>2 DEF HasRoleOrSkills, HasTitle, LineTitle
<1>5. IsAmbiguous(q) => IsAmbiguous(p)
  BY <1>1, <1>2 DEF IsAmbiguous
<1>6. /\ Rank("spam_detected") = 0 /\ Rank("garbage_input") = 0
      /\ Rank("ambiguous_multi_role") = 1 /\ Rank("low_confidence") = 1
      /\ Rank("partial_success") = 2 /\ Rank("success") = 3
  BY DEF Rank
<1>7. \A s \in {p, q} :
        \/ DetectSpam(s) /\ Rank(ParseOutcome(s)) = 0
        \/ ~DetectSpam(s) /\ ~HasRoleOrSkills(s) /\ Rank(ParseOutcome(s)) = 0
        \/ ~DetectSpam(s) /\ HasRoleOrSkills(s) /\ IsAmbiguous(s) /\ Rank(ParseOutcome(s)) = 1
        \/ /\ ~DetectSpam(s) /\ HasRoleOrSkills(s) /\ ~IsAmbiguous(s)
           /\ Rank(ParseOutcome(s)) = IF Confidence(s) >= 75 /\ s \cap {"company", "email"} # {} THEN 3
                                      ELSE IF Confidence(s) >= 50 THEN 2 ELSE 1
  BY <1>6 DEF ParseOutcome
<1> QED
  BY <1>1, <1>2, <1>3, <1>4, <1>5, <1>7 DEF q

(* What a parse of a description is made of.                               *)
ParseType == [pc : {"written", "ask", "accepted", "rejected", "failed"}, attempt : 0..3,
              found : SUBSET Facts, outcome : Outcomes \cup {"none"}]

(* Nothing was found yet.                                                  *)
LEMMA ParsingStart == ParsingInit => ParsingInv
<1> SUFFICES ASSUME ParsingInit PROVE ParsingInv
  OBVIOUS
<1>1. NotParsed \in ParseType /\ NotParsed.pc = "written"
  BY DEF NotParsed, ParseType
<1>2. posting \in SUBSET Facts
  BY SampleAssumption DEF ParsingInit
<1> QED
  BY <1>1, <1>2 DEF ParsingInit, ParsingInv, ParsingTypeOK, ParseType

(* Every step keeps the outcome that of the facts.                         *)
LEMMA ParsingStep ==
  ASSUME ParsingInv, [ParsingNext]_parsingVars
  PROVE  ParsingInv'
<1>0. parse \in ParseType /\ posting \in SUBSET Facts /\ sample \in Samples
      /\ failedParse \in {"none", "explained", "bare"}
  BY DEF ParsingInv, ParsingTypeOK, ParseType
<1>1. ASSUME parse' \in ParseType, posting' \in SUBSET Facts, sample' = sample,
             failedParse' \in {"none", "explained", "bare"},
             parse'.pc \in {"accepted", "rejected"} => parse'.outcome = ParseOutcome(parse'.found)
      PROVE  ParsingInv'
  BY <1>0, <1>1 DEF ParsingInv, ParsingTypeOK, ParseType
<1>2. CASE UNCHANGED parsingVars
  BY <1>2 DEF parsingVars, ParsingInv, ParsingTypeOK
<1>3. ASSUME NEW f \in Facts, Mention(f) PROVE ParsingInv'
  BY <1>0, <1>1, <1>3 DEF Mention
<1>4. CASE StartParse
  <2> DEFINE once == 1
             next == [parse EXCEPT !.pc = "ask", !.attempt = once]
  <2>0. parse' = next /\ once \in 0..3
    BY <1>4 DEF StartParse
  <2> HIDE DEF once
  <2>1. next \in ParseType /\ next.pc = "ask"
    BY <1>0, <2>0 DEF ParseType
  <2> HIDE DEF next
  <2>2. parse'.pc = "ask" /\ parse' \in ParseType
    BY <2>0, <2>1
  <2> QED
    BY <1>0, <1>1, <1>4, <2>2 DEF StartParse
<1>5. ASSUME NEW b \in BOOLEAN, AskFails(b) PROVE ParsingInv'
  <2>1. parse' \in ParseType /\ parse'.pc \in {"ask", "failed"}
    BY <1>0, <1>5 DEF AskFails, ParseType
  <2> QED
    BY <1>0, <1>1, <1>5, <2>1 DEF AskFails
<1>6. ASSUME NEW fits \in BOOLEAN, NEW first \in BOOLEAN, NEW second \in BOOLEAN,
             Answer(fits, first, second)
      PROVE  ParsingInv'
  <2> DEFINE found == Normalized(fits)
             outcome == ParseOutcome(found)
             pc == IF IsApplyEligible(found) THEN "accepted" ELSE "rejected"
  <2>1. found \in SUBSET Facts /\ pc \in {"accepted", "rejected"}
    BY <1>0 DEF Normalized
  <2>2. outcome \in Outcomes
    BY DEF ParseOutcome, Outcomes
  <2>3. /\ parse' = [parse EXCEPT !.found = found, !.outcome = outcome, !.pc = pc]
        /\ failedParse' \in {"none", "explained", "bare"} /\ UNCHANGED <<sample, posting>>
    BY <1>0, <1>6 DEF Answer
  <2> HIDE DEF found, outcome, pc
  <2>4. parse' \in ParseType /\ parse'.outcome = outcome /\ parse'.found = found
    BY <1>0, <2>1, <2>2, <2>3 DEF ParseType
  <2>5. parse'.outcome = ParseOutcome(parse'.found)
    BY <2>4 DEF outcome
  <2> QED
    BY <1>0, <1>1, <2>3, <2>4, <2>5
<1> QED
  BY <1>2, <1>3, <1>4, <1>5, <1>6 DEF ParsingNext

(* A description that was weighed fares no worse for a fact in its favour. *)
LEMMA ParsingIsFair == ParsingInv => NoFactHurts
  BY FavourDoesNotHurt DEF ParsingInv, NoFactHurts, ParsingTypeOK, Favourable

-----------------------------------------------------------------------------
(*****************************************************************************)
(* The mails: a rewrite is for something the critique names, or for the      *)
(* readability of a draft whose greeting hides behind a hook.                *)
(*****************************************************************************)
(* A rewrite is ordered for the critique and by the scores of its draft.   *)
DraftInv ==
  /\ DraftTypeOK
  /\ writing = "rewriting" => reasons = Critique(draft) /\ ShouldTriggerRetry(draft)

(* Scores are whole numbers up to a hundred; a rounded one is off by at    *)
(* most half a point.                                                      *)
LEMMA ScoresAreScores ==
  ASSUME NEW n \in Int
  PROVE  /\ Clamped(n) \in 0..100 /\ Rounded(n) \in 0..100
         /\ n >= 0 => 100 * Rounded(n) <= n + 50
         /\ Rounded(n) = 100 \/ 100 * Rounded(n) > n - 50
<1>1. (n + 50) \div 100 \in Int /\ 100 * ((n + 50) \div 100) <= n + 50
      /\ n + 50 < 100 * ((n + 50) \div 100) + 100
  OBVIOUS
<1> QED
  BY <1>1 DEF Clamped, Rounded

(* How many weak openers there are.                                        *)
WeakOpeners(d) == Cardinality(d \cap {"weakOpener", "secondWeakOpener"})

(* The weak openers are two; without the first only the other counts.      *)
LEMMA OpenersAreCounted ==
  ASSUME NEW d \in SUBSET Traits
  PROVE  /\ WeakOpeners(d) \in Nat
         /\ "weakOpener" \notin d => WeakOpeners(d) = If("secondWeakOpener" \in d, 1)
<1>1. /\ IsFiniteSet({"weakOpener"}) /\ IsFiniteSet({"secondWeakOpener"})
      /\ IsFiniteSet({}) /\ Cardinality({}) = 0 /\ Cardinality({"secondWeakOpener"}) = 1
  BY FS_Singleton, FS_EmptySet
<1>2. IsFiniteSet({"weakOpener"} \cup {"secondWeakOpener"})
  BY <1>1, FS_Union
<1>3. d \cap {"weakOpener", "secondWeakOpener"} \subseteq {"weakOpener"} \cup {"secondWeakOpener"}
  OBVIOUS
<1>4. IsFiniteSet(d \cap {"weakOpener", "secondWeakOpener"})
  BY <1>2, <1>3, FS_Subset
<1>5. WeakOpeners(d) \in Nat
  BY <1>4, FS_CardinalityType DEF WeakOpeners
<1>6. ASSUME "weakOpener" \notin d
      PROVE  d \cap {"weakOpener", "secondWeakOpener"}
               = IF "secondWeakOpener" \in d THEN {"secondWeakOpener"} ELSE {}
  BY <1>6
<1> QED
  BY <1>1, <1>5, <1>6 DEF WeakOpeners, If

(* The sum behind the opening's score.                                     *)
OpeningSum(d) ==
  70 - 22 * WeakOpeners(d)
     + (IF "noRole" \in d THEN 0 ELSE IF "roleLate" \in d THEN -15 ELSE 12)
     + If("companyLate" \notin d, 10) + If("hook" \in d, 8)
     - If("longOpening" \in d, 10)
     - If("greetingLine" \in d /\ "noRole" \notin d, 8)

(* The opening's score is that sum.                                        *)
LEMMA SumOfOpening ==
  ASSUME NEW d \in SUBSET Traits
  PROVE  OpeningSum(d) \in Int /\ OpeningStrength(d) = Clamped(OpeningSum(d))
         /\ OpeningStrength(d) \in 0..100
<1>1. OpeningSum(d) \in Int
  BY OpenersAreCounted DEF OpeningSum, If
<1>2. OpeningStrength(d) = Clamped(OpeningSum(d))
  BY DEF OpeningStrength, OpeningSum, WeakOpeners
<1> QED
  BY <1>1, <1>2, ScoresAreScores

(* Its detectability is a score.                                           *)
LEMMA DetectabilityIsScore == \A d : AiDetectability(d) \in 0..100
<1> TAKE d
<1>1. /\ Punctuation(d) \in Int /\ Banned(d) \in Int /\ Cadence(d) \in Int /\ Robotic(d) \in Int
      /\ Adjectives(d) \in Int /\ If("uniform" \in d, 1200) \in Int
  BY DEF Punctuation, Banned, Cadence, Robotic, Adjectives, If
<1> QED
  BY <1>1, ScoresAreScores DEF AiDetectability

(* So is the composite risk of a draft.                                    *)
LEMMA RiskIsScore == \A d \in SUBSET Traits : CompositeRisk(d) \in 0..100
<1> TAKE d \in SUBSET Traits
<1>1. /\ Punctuation(d) \in Int /\ Banned(d) \in Int /\ Cadence(d) \in Int /\ Robotic(d) \in Int
      /\ Adjectives(d) \in Int /\ Repetition(d) \in Int /\ Enthusiasm(d) \in Int
      /\ StackDumping(d) \in Int
  BY DEF Punctuation, Banned, Cadence, Robotic, Adjectives, Repetition, Enthusiasm, StackDumping, If
<1>2. Generic(d) \in Int
  <2>1. Generic(d) = Clamped(25 * WeakOpeners(d) + If("roleLate" \in d, 10) + If("companyLate" \in d, 8))
    BY DEF Generic, WeakOpeners
  <2> QED
    BY <2>1, OpenersAreCounted DEF Clamped, If
<1> QED
  BY <1>1, <1>2, ScoresAreScores DEF CompositeRisk

(* So is its readability.                                                  *)
LEMMA ReadabilityIsScore == \A d \in SUBSET Traits : Readability(d) \in 0..100
<1> TAKE d \in SUBSET Traits
<1>1. /\ MobilePreview(d) \in Int /\ SentenceFriction(d) \in Int /\ InformationDensity(d) \in Int
      /\ CognitiveEase(d) \in Int /\ ParagraphFlow(d) \in Int /\ If(NamesRole(d), 1000) \in Int
  BY DEF MobilePreview, SentenceFriction, InformationDensity, CognitiveEase, ParagraphFlow, If
<1>2. OpeningStrength(d) \in Int
  BY SumOfOpening
<1>3. ScanSpeed(d) \in Int
  BY <1>1, <1>2, ScoresAreScores DEF ScanSpeed
<1> QED
  BY <1>1, <1>2, <1>3, ScoresAreScores DEF Readability

(* What a draft has of which the critique has nothing to say.              *)
LEMMA NothingToSay ==
  ASSUME NEW d \in SUBSET Traits, Critique(d) = {}
  PROVE  /\ HardFailures(d) = {} /\ "oneParagraph" \notin d /\ "weakOpener" \notin d
         /\ OpeningStrength(d) >= 50 /\ AiDetectability(d) < 70
         /\ Banned(d) = 0 /\ Punctuation(d) = 0 /\ Robotic(d) = 0 /\ StackDumping(d) = 0
         /\ Cadence(d) = 0
<1>1. /\ HardFailures(d) \subseteq Critique(d)
      /\ ("weakOpener" \in d \/ OpeningStrength(d) < 50) => "opening" \in Critique(d)
      /\ Banned(d) >= 40 => "phrases" \in Critique(d)
      /\ Punctuation(d) >= 30 => "punctuation" \in Critique(d)
      /\ StackDumping(d) >= 35 => "tools" \in Critique(d)
      /\ "sameStarters" \in d => "starters" \in Critique(d)
      /\ AiDetectability(d) >= 70 => "tone" \in Critique(d)
      /\ Robotic(d) >= 30 => "corporate" \in Critique(d)
  BY DEF Critique
<1>2. HardFailures(d) = {} /\ "oneParagraph" \notin d
  BY <1>1 DEF HardFailures, BrokenStructure
<1>3. OpeningStrength(d) >= 50 /\ "weakOpener" \notin d
  BY <1>1, SumOfOpening
<1>4. AiDetectability(d) < 70
  BY <1>1, DetectabilityIsScore
<1>5. Banned(d) = 0 /\ Punctuation(d) = 0 /\ Robotic(d) = 0 /\ StackDumping(d) = 0
  BY <1>1 DEF Banned, Punctuation, Robotic, StackDumping, If
<1>6. Cadence(d) = 0
  BY <1>1 DEF Cadence, If
<1> QED
  BY <1>2, <1>3, <1>4, <1>5, <1>6

(* A draft with nothing to criticise has a composite risk below the        *)
(* threshold.                                                              *)
LEMMA RiskIsLow ==
  ASSUME NEW d \in SUBSET Traits, Critique(d) = {}
  PROVE  CompositeRisk(d) < 70
<1>1. Generic(d) \in 0..43
  <2>1. WeakOpeners(d) \in {0, 1}
    BY NothingToSay, OpenersAreCounted DEF If
  <2>2. Generic(d) = Clamped(25 * WeakOpeners(d) + If("roleLate" \in d, 10) + If("companyLate" \in d, 8))
    BY DEF Generic, WeakOpeners
  <2> QED
    BY <2>1, <2>2 DEF Clamped, If
<1>2. Repetition(d) \in 0..60 /\ Enthusiasm(d) \in 0..100 /\ Adjectives(d) \in 0..30
  BY DEF Repetition, Enthusiasm, Adjectives, If
<1> DEFINE sum == 18 * Banned(d) + 20 * Punctuation(d) + 8 * Cadence(d) + 8 * Repetition(d)
                    + 10 * Enthusiasm(d) + 10 * Robotic(d) + 6 * Adjectives(d) + 12 * Generic(d)
                    + 8 * StackDumping(d)
<1>3. /\ Banned(d) = 0 /\ Punctuation(d) = 0 /\ Robotic(d) = 0 /\ StackDumping(d) = 0
      /\ Cadence(d) = 0
  BY NothingToSay
<1>4. sum \in 0..6900
  <2> DEFINE r == Repetition(d)
             n == Enthusiasm(d)
             a == Adjectives(d)
             g == Generic(d)
  <2>1. r \in 0..60 /\ n \in 0..100 /\ a \in 0..30 /\ g \in 0..43
    BY <1>1, <1>2
  <2>2. sum = 18 * 0 + 20 * 0 + 8 * 0 + 8 * r + 10 * n + 10 * 0 + 6 * a + 12 * g + 8 * 0
    BY <1>3, Zenon
  <2> HIDE DEF r, n, a, g, sum
  <2> QED
    BY <2>1, <2>2
<1>5. CompositeRisk(d) = Rounded(sum)
  BY DEF CompositeRisk
<1> HIDE DEF sum
<1>6. sum \in Int /\ sum >= 0 /\ sum <= 6900
  BY <1>4
<1>7. Rounded(sum) \in 0..100 /\ 100 * Rounded(sum) <= sum + 50
  BY <1>6, ScoresAreScores
<1> QED
  BY <1>5, <1>6, <1>7

(* A draft of which the critique has nothing to say reads well, unless a   *)
(* greeting with a hook hides what the mail is about.                      *)
LEMMA PlainReadsWell ==
  ASSUME NEW d \in SUBSET Traits, Critique(d) = {}, ~HookedGreeting(d)
  PROVE  Readability(d) >= 50
<1> DEFINE o == OpeningStrength(d)
           m == MobilePreview(d)
           s == SentenceFriction(d)
           i == InformationDensity(d)
           c == ScanSpeed(d)
           e == CognitiveEase(d)
           p == ParagraphFlow(d)
           sum == 25 * o + 20 * m + 15 * s + 15 * i + 15 * c + 5 * (100 - e) + 5 * p
<1>1. o \in 50..100 /\ "oneParagraph" \notin d /\ "weakOpener" \notin d
  BY NothingToSay, SumOfOpening
<1>2. s \in 35..75 /\ e \in 55..80 /\ p \in 85..93
  BY <1>1 DEF SentenceFriction, CognitiveEase, ParagraphFlow, If
<1>3. m \in 35..95 /\ i \in 55..100
  BY DEF MobilePreview, InformationDensity, If
<1>4. c \in 0..100 /\ (c = 100 \/ 2 * c > o + m - 1)
      /\ (NamesRole(d) => c = 100 \/ 2 * c > o + m + 19)
  <2> DEFINE n == (o + m) * 50 + If(NamesRole(d), 1000)
  <2>1. n \in Int /\ n >= 50 * o + 50 * m /\ (NamesRole(d) => n = 50 * o + 50 * m + 1000)
    BY <1>1, <1>3 DEF If
  <2>2. c = Rounded(n)
    BY DEF ScanSpeed
  <2> HIDE DEF n, c, o, m
  <2>3. c \in 0..100 /\ (c = 100 \/ 100 * c > n - 50)
    BY <2>1, <2>2, ScoresAreScores
  <2> QED
    BY <1>1, <1>3, <2>1, <2>3
<1>5. Readability(d) = Rounded(sum)
  BY DEF Readability
(* Above the critique's threshold the opening has enough for the rest. *)
<1>6. \/ m >= 70 /\ i >= 70 /\ NamesRole(d)
      \/ o >= 57 /\ m >= 45 /\ i >= 70
      \/ o >= 60 /\ m >= 35 /\ i >= 70
      \/ o >= 56 /\ m >= 50 /\ i >= 55
      \/ o >= 50 /\ m >= 50 /\ i >= 85
  <2>1. o = OpeningSum(d)
    <3>1. OpeningSum(d) \in Int /\ OpeningSum(d) <= 100
      BY OpenersAreCounted DEF OpeningSum, If
    <3> QED
      BY <1>1, <3>1, SumOfOpening DEF Clamped
  <2>2. WeakOpeners(d) = If("secondWeakOpener" \in d, 1)
    BY <1>1, OpenersAreCounted
  <2>3. CASE NamesRole(d)
    BY <2>3 DEF MobilePreview, InformationDensity, NamesRole, If
  <2>4. CASE ~NamesRole(d) /\ "greetingLine" \in d
    BY <1>1, <2>1, <2>2, <2>4
    DEF MobilePreview, InformationDensity, NamesRole, OpeningSum, HookedGreeting, If
  <2>5. CASE ~NamesRole(d) /\ "greetingLine" \notin d
    BY <1>1, <2>1, <2>2, <2>5
    DEF MobilePreview, InformationDensity, NamesRole, OpeningSum, If
  <2> QED
    BY <2>3, <2>4, <2>5
<1>7. sum \in Int /\ sum >= 4950
  <2> HIDE DEF o, m, s, i, c, e, p
  <2> QED
    BY <1>1, <1>2, <1>3, <1>4, <1>6
<1> HIDE DEF sum
<1> QED
  BY <1>5, <1>7, ScoresAreScores

(* A rewrite of which the critique names no reason.                        *)
LEMMA UnnamedRewrite ==
  ASSUME NEW d \in SUBSET Traits, ShouldTriggerRetry(d), Critique(d) = {}
  PROVE  Readability(d) < 50 /\ HookedGreeting(d)
<1>1. /\ HardFailures(d) = {} /\ OpeningStrength(d) >= 50 /\ AiDetectability(d) < 70
      /\ OpeningStrength(d) \in 0..100 /\ AiDetectability(d) \in 0..100
  BY NothingToSay, SumOfOpening, DetectabilityIsScore
<1>2. CompositeRisk(d) < 70
  BY RiskIsLow
<1>3. HardFailures(d) \ Hallucinations(d) = {}
  BY <1>1
<1>4. ~(CompositeRisk(d) >= 70)
  BY <1>2, RiskIsScore
<1>5. ~(AiDetectability(d) >= 75) /\ ~(OpeningStrength(d) < OpeningMin)
  BY <1>1 DEF OpeningMin
<1>6. Readability(d) < 50
  BY <1>3, <1>4, <1>5 DEF ShouldTriggerRetry
<1>7. HookedGreeting(d)
  BY <1>6, PlainReadsWell, ReadabilityIsScore
<1> QED
  BY <1>6, <1>7

(* Nothing is written yet.                                                 *)
LEMMA DraftStart == DraftInit => DraftInv
  BY DraftAssumption DEF DraftInit, DraftInv, DraftTypeOK

(* Every step keeps it: the critique is written of the draft at hand, and  *)
(* the draft changes when it is rewritten.                                 *)
LEMMA DraftStep ==
  ASSUME DraftInv, [DraftNext]_draftVars
  PROVE  DraftInv'
<1>0. DraftTypeOK
  BY DEF DraftInv
<1>1. CASE UNCHANGED draftVars
  BY <1>1 DEF draftVars, DraftInv, DraftTypeOK
<1>2. ASSUME NEW t \in Traits, Show(t) PROVE DraftInv'
  BY <1>0, <1>2 DEF Show, DraftInv, DraftTypeOK
<1>3. CASE ModelDrafts \/ DraftingFails \/ KeepDraft
  BY <1>0, <1>3 DEF ModelDrafts, DraftingFails, KeepDraft, DraftInv, DraftTypeOK
<1>4. CASE AskRewrite
  <2>1. Critique(draft) \subseteq Reasons
    BY DEF Critique, HardFailures, BrokenStructure, Hallucinations, Reasons
  <2>2. writing' = "rewriting" /\ reasons' = Critique(draft) /\ UNCHANGED <<firstDraft, draft>>
        /\ ShouldTriggerRetry(draft)
    BY <1>4 DEF AskRewrite
  <2>3. reasons' = Critique(draft') /\ ShouldTriggerRetry(draft')
    BY <2>2
  <2> QED
    BY <1>0, <2>1, <2>2, <2>3 DEF DraftInv, DraftTypeOK
<1>5. ASSUME NEW t \in Traits, Rewrite(t) PROVE DraftInv'
  <2>1. writing' = "rewritten" /\ UNCHANGED <<firstDraft, reasons>> /\ draft' \in SUBSET Traits
    BY <1>0, <1>5 DEF Rewrite, DraftTypeOK
  <2> QED
    BY <1>0, <2>1 DEF DraftInv, DraftTypeOK
<1> QED
  BY <1>1, <1>2, <1>3, <1>4, <1>5 DEF DraftNext

(* A rewrite without a named reason is that of a greeting with a hook.     *)
LEMMA RewritesAreExplained == DraftInv => RewriteHasReason
  BY UnnamedRewrite DEF DraftInv, DraftTypeOK, RewriteHasReason

-----------------------------------------------------------------------------
(* Popup and cache of the extension show the mode of the account once      *)
(* their requests are answered (popup.js, api.js), a button that has       *)
(* queued says so (main.js), and a session the extension drops has ended,  *)
(* or the user, a bad answer to a renewal or a second attempt that failed  *)
(* dropped it (serviceWorker.js) - unless two renewals or a change from    *)
(* elsewhere crossed - for any calls, requests, sessions, posts and taps.  *)
THEOREM ExtensionStaysSound == StatusSpec /\ PostSpec /\ ExtensionSpec => ExtensionIsSound
<1>1. PostInv => QueuedIsShown
  BY DEF PostInv
<1>2. ExtensionInv /\ [ExtensionNext]_extensionVars
      => [stored # NoSession /\ stored' = NoSession /\ ~crossed
          /\ why' \notin {"user", "bad answer", "retry"}
            => granted[stored.token.session] = 0]_extensionVars
  BY OnlyRefusalsRefuse, RefusalMeansEnded
<1> QED
  BY <1>1, <1>2, StatusStart, StatusStep, StatusIsShown, PostStart, PostStep, ExtensionStart,
     ExtensionStep, PTL
     DEF StatusSpec, PostSpec, ExtensionSpec, ExtensionIsSound, SignedOutWhenEnded

(* No fact that speaks for a description lowers what becomes of it         *)
(* (jdParseEnrichment.js, jdParse.js), and no mail is rewritten without a  *)
(* reason its critique names or a readability that is too low for a        *)
(* greeting with a hook (emailQualityEngine.js), for all facts and traits. *)
THEOREM JudgementsStayFair == ParsingSpec /\ DraftSpec => []JudgementsAreFair
<1> QED
  BY ParsingStart, ParsingStep, ParsingIsFair, DraftStart, DraftStep, RewritesAreExplained, PTL
     DEF ParsingSpec, DraftSpec, JudgementsAreFair

-----------------------------------------------------------------------------
(*****************************************************************************)
(* The promotion of models: what an administrator's page shows and asks for  *)
(* was passed or confirmed, so what is offered is.                           *)
(*****************************************************************************)

(* What a page shows, and its calls.                                       *)
DeskType == [pc : {"idle", "asked", "told"}, running : AnyRun, result : AnyRun, history : SUBSET CertRuns,
             listed : SUBSET Candidates, removing : SUBSET Candidates]

(* What a page has under way: promotions, withdrawals, loads and their     *)
(* answers.                                                                *)
CallType == [promote : SUBSET CertRuns, remove : SUBSET Candidates, load : SUBSET LoadReasons,
             answer : SUBSET Lists]

(* What the catalogue has of a model.                                      *)
ChoiceType == [run : AnyRun, offered : BOOLEAN]

(* A run that passed, or that an administrator answers for.                *)
Earned(r) == runRows[r] = "passed" \/ r \in confirmed

(* What a page shows or may show has its verdict and is its own.           *)
DeskIsRight(d, page) ==
  /\ \A r \in page.history : Promotable(d, r)
  /\ page.result # NoRun => Promotable(d, page.result)
  /\ page.pc = "asked" => page.running \in CertRuns /\ DeskOf[page.running] = d

(* So has what it has asked for; a promotion asked for is earned.          *)
CallsAreRight(d, calls) ==
  /\ \A lists \in calls.answer : \A r \in lists.runs : Promotable(d, r)
  /\ \A r \in calls.promote : Promotable(d, r) /\ Earned(r)

(* What is offered was promoted from a run of its own.                     *)
IsEarned(m, row) == row.offered => row.run \in CertRuns /\ CandidateOf[row.run] = m /\ Earned(row.run)

(* What the proof about promotions rests on.                               *)
PromotionInv ==
  /\ runRows \in [CertRuns -> {"none", "running", "lost"} \cup Verdicts]
  /\ choice \in [Candidates -> ChoiceType]
  /\ desk \in [Desks -> DeskType] /\ deskCalls \in [Desks -> CallType]
  /\ confirmed \in SUBSET CertRuns
  /\ \A d \in Desks : DeskIsRight(d, desk[d]) /\ CallsAreRight(d, deskCalls[d])
  /\ \A m \in Candidates : IsEarned(m, choice[m])

(* Nothing is run, shown or offered at first.                              *)
LEMMA PromotionStart == PromotionInit => PromotionInv
<1> SUFFICES ASSUME PromotionInit PROVE PromotionInv
  OBVIOUS
<1>1. \A d \in Desks : /\ desk[d] \in DeskType /\ desk[d].history = {} /\ desk[d].result = NoRun
                       /\ desk[d].pc = "idle"
                       /\ deskCalls[d] \in CallType /\ deskCalls[d].promote = {} /\ deskCalls[d].answer = {}
  BY DEF PromotionInit, DeskType, CallType, AnyRun, LoadReasons
<1>2. \A m \in Candidates : choice[m] \in ChoiceType /\ ~choice[m].offered
  BY DEF PromotionInit, ChoiceType, AnyRun
<1> QED
  BY <1>1, <1>2 DEF PromotionInit, PromotionInv, DeskIsRight, CallsAreRight, IsEarned

(* A run keeps its verdict, and its administrator's word.                  *)
VerdictsStay ==
  /\ runRows' \in [CertRuns -> {"none", "running", "lost"} \cup Verdicts]
  /\ \A r \in CertRuns : runRows[r] \in Verdicts => runRows'[r] = runRows[r]
  /\ confirmed' \in SUBSET CertRuns /\ confirmed \subseteq confirmed'

(* What is right stays right while verdicts stay.                          *)
LEMMA RightStaysRight ==
  ASSUME PromotionInv, VerdictsStay
  PROVE  /\ \A d \in Desks, page \in DeskType : DeskIsRight(d, page) => DeskIsRight(d, page)'
         /\ \A d \in Desks, calls \in CallType : CallsAreRight(d, calls) => CallsAreRight(d, calls)'
         /\ \A m \in Candidates, row \in ChoiceType : IsEarned(m, row) => IsEarned(m, row)'
<1>1. \A d \in Desks, r \in CertRuns : Promotable(d, r) => Promotable(d, r)'
  BY DEF VerdictsStay, Promotable
<1>2. \A r \in CertRuns : Earned(r) => Earned(r)'
  BY DEF VerdictsStay, Earned, Verdicts
<1>3. ASSUME NEW d \in Desks, NEW page \in DeskType, DeskIsRight(d, page) PROVE DeskIsRight(d, page)'
  <2>1. page.history \subseteq CertRuns /\ page.result \in AnyRun
    BY DEF DeskType
  <2> QED
    BY <1>1, <1>3, <2>1 DEF DeskIsRight, AnyRun
<1>4. ASSUME NEW d \in Desks, NEW calls \in CallType, CallsAreRight(d, calls) PROVE CallsAreRight(d, calls)'
  <2>1. calls.promote \subseteq CertRuns /\ \A lists \in calls.answer : lists.runs \subseteq CertRuns
    BY DEF CallType, Lists
  <2> QED
    BY <1>1, <1>2, <1>4, <2>1 DEF CallsAreRight
<1>5. ASSUME NEW m \in Candidates, NEW row \in ChoiceType, IsEarned(m, row) PROVE IsEarned(m, row)'
  BY <1>2, <1>5 DEF IsEarned
<1> QED
  BY <1>3, <1>4, <1>5

(* A step of one page.                                                     *)
LEMMA DeskKeeps ==
  ASSUME PromotionInv, VerdictsStay, NEW d \in Desks, NEW page \in DeskType, NEW calls \in CallType,
         desk' = [desk EXCEPT ![d] = page], deskCalls' = [deskCalls EXCEPT ![d] = calls],
         DeskIsRight(d, page)', CallsAreRight(d, calls)',
         choice' \in [Candidates -> ChoiceType],
         \A m \in Candidates : IsEarned(m, choice[m]) => IsEarned(m, choice[m])'
  PROVE  PromotionInv'
<1>1. desk' \in [Desks -> DeskType] /\ deskCalls' \in [Desks -> CallType]
  BY DEF PromotionInv
<1>2. ASSUME NEW c \in Desks PROVE DeskIsRight(c, desk[c])' /\ CallsAreRight(c, deskCalls[c])'
  <2>1. CASE c = d
    <3>1. desk'[c] = page /\ deskCalls'[c] = calls
      BY <2>1 DEF PromotionInv
    <3> QED
      BY <2>1, <3>1 DEF DeskIsRight, CallsAreRight
  <2>2. CASE c # d
    <3>1. desk'[c] = desk[c] /\ deskCalls'[c] = deskCalls[c]
      BY <2>2 DEF PromotionInv
    <3>2. DeskIsRight(c, desk[c]) /\ CallsAreRight(c, deskCalls[c])
          /\ desk[c] \in DeskType /\ deskCalls[c] \in CallType
      BY DEF PromotionInv
    <3> DEFINE before == desk[c]
               asked == deskCalls[c]
    <3>3. before \in DeskType /\ asked \in CallType
      BY <3>2
    <3> QED
      BY <3>1, <3>2, RightStaysRight DEF DeskIsRight, CallsAreRight, Promotable, Earned
  <2> QED
    BY <2>1, <2>2
<1>3. \A m \in Candidates : IsEarned(m, choice[m])'
  BY DEF PromotionInv, IsEarned, Earned
<1> QED
  BY <1>1, <1>2, <1>3 DEF PromotionInv, VerdictsStay

(* A step of one page that promotes nothing.                               *)
LEMMA LookingKeeps ==
  ASSUME PromotionInv, VerdictsStay, NEW d \in Desks, NEW page \in DeskType, NEW calls \in CallType,
         desk' = [desk EXCEPT ![d] = page], deskCalls' = [deskCalls EXCEPT ![d] = calls],
         DeskIsRight(d, page), CallsAreRight(d, calls), UNCHANGED choice
  PROVE  PromotionInv'
<1>1. DeskIsRight(d, page)' /\ CallsAreRight(d, calls)'
  BY RightStaysRight
<1>2. \A m \in Candidates : choice[m] \in ChoiceType
  BY DEF PromotionInv
<1>3. \A m \in Candidates : IsEarned(m, choice[m]) => IsEarned(m, choice[m])'
  BY <1>2, RightStaysRight DEF IsEarned, Earned
<1>4. choice' \in [Candidates -> ChoiceType]
  BY DEF PromotionInv
<1> QED
  BY <1>1, <1>3, <1>4, DeskKeeps

(* A run is started, answered or given up.                                 *)
LEMMA RunsKeep ==
  ASSUME PromotionInv, NEW d \in Desks,
         (\E r \in CertRuns : StartCertification(d, r)) \/ RunAnswered(d) \/ RunGivenUp(d)
  PROVE  PromotionInv'
<1> DEFINE old == desk[d]
           calls == deskCalls[d]
<1>1. /\ old \in DeskType /\ calls \in CallType /\ DeskIsRight(d, old) /\ CallsAreRight(d, calls)
      /\ desk \in [Desks -> DeskType] /\ deskCalls \in [Desks -> CallType]
      /\ confirmed \in SUBSET CertRuns
      /\ runRows \in [CertRuns -> {"none", "running", "lost"} \cup Verdicts]
  BY DEF PromotionInv
<1>2. ASSUME NEW r \in CertRuns, StartCertification(d, r) PROVE PromotionInv'
  <2> DEFINE page == [old EXCEPT !.pc = "asked", !.running = r, !.result = NoRun]
  <2>1. /\ desk' = [desk EXCEPT ![d] = page] /\ deskCalls' = [deskCalls EXCEPT ![d] = calls]
        /\ UNCHANGED choice /\ DeskOf[r] = d
    BY <1>1, <1>2 DEF StartCertification
  <2>2. VerdictsStay
    BY <1>1, <1>2 DEF StartCertification, VerdictsStay, Verdicts
  <2> HIDE DEF old, calls
  <2>3. /\ page \in DeskType /\ page.pc = "asked" /\ page.running = r /\ page.result = NoRun
        /\ page.history = old.history
    BY <1>1 DEF DeskType, AnyRun
  <2> HIDE DEF page
  <2>4. DeskIsRight(d, page)
    BY <1>1, <2>1, <2>3 DEF DeskIsRight
  <2> QED
    BY <1>1, <2>1, <2>2, <2>3, <2>4, LookingKeeps
<1>3. ASSUME RunAnswered(d) PROVE PromotionInv'
  <2> DEFINE r == old.running
             page == [old EXCEPT !.pc = "told", !.result = r]
             load == calls.load \cup {"run"}
             asked == [calls EXCEPT !.load = load]
  <2>1. /\ desk' = [desk EXCEPT ![d] = page] /\ deskCalls' = [deskCalls EXCEPT ![d] = asked]
        /\ UNCHANGED <<choice, runRows, confirmed>>
    BY <1>1, <1>3 DEF RunAnswered, AskLists
  <2>2. VerdictsStay
    BY <1>1, <2>1 DEF VerdictsStay
  <2>3. r \in CertRuns /\ Promotable(d, r)
    BY <1>1, <1>3 DEF RunAnswered, DeskIsRight, Promotable
  <2>4. load \in SUBSET LoadReasons
    BY <1>1 DEF CallType, LoadReasons
  <2> HIDE DEF old, calls, r, load
  <2>5. /\ page \in DeskType /\ page.pc = "told" /\ page.result = r /\ page.history = old.history
        /\ asked \in CallType /\ asked.promote = calls.promote /\ asked.answer = calls.answer
    BY <1>1, <2>3, <2>4 DEF DeskType, CallType, AnyRun
  <2> HIDE DEF page, asked
  <2>6. DeskIsRight(d, page) /\ CallsAreRight(d, asked)
    BY <1>1, <2>3, <2>5 DEF DeskIsRight, CallsAreRight
  <2> QED
    BY <2>1, <2>2, <2>5, <2>6, LookingKeeps
<1>4. ASSUME RunGivenUp(d) PROVE PromotionInv'
  <2> DEFINE page == [old EXCEPT !.pc = "idle", !.running = NoRun]
  <2>1. /\ desk' = [desk EXCEPT ![d] = page] /\ deskCalls' = [deskCalls EXCEPT ![d] = calls]
        /\ UNCHANGED <<choice, runRows, confirmed>>
    BY <1>1, <1>4 DEF RunGivenUp
  <2>2. VerdictsStay
    BY <1>1, <2>1 DEF VerdictsStay
  <2> HIDE DEF old, calls
  <2>3. /\ page \in DeskType /\ page.pc = "idle" /\ page.result = old.result
        /\ page.history = old.history
    BY <1>1 DEF DeskType, AnyRun
  <2> HIDE DEF page
  <2>4. DeskIsRight(d, page)
    BY <1>1, <2>3 DEF DeskIsRight
  <2> QED
    BY <1>1, <2>1, <2>2, <2>3, <2>4, LookingKeeps
<1> QED
  BY <1>2, <1>3, <1>4

(* What waits for a load goes on as a page that is right.                  *)
LEMMA ReleasedIsRight ==
  ASSUME PromotionInv, NEW d \in Desks, NEW reason \in LoadReasons
  PROVE  /\ Released(d, reason) \in DeskType /\ DeskIsRight(d, Released(d, reason))
         /\ Released(d, reason).history = desk[d].history /\ Released(d, reason).result = desk[d].result
<1> DEFINE old == desk[d]
           pc == IF reason = "run" THEN "idle" ELSE old.pc
           running == IF reason = "run" THEN NoRun ELSE old.running
           removing == IF reason = "remove" THEN {} ELSE old.removing
           page == [old EXCEPT !.pc = pc, !.running = running, !.removing = removing]
<1>1. old \in DeskType /\ DeskIsRight(d, old)
  BY DEF PromotionInv
<1>2. Released(d, reason) = page
  BY DEF Released
<1>3. /\ pc \in {"idle", "asked", "told"} /\ running \in AnyRun /\ removing \in SUBSET Candidates
      /\ pc = "asked" => old.pc = "asked" /\ running = old.running
  BY <1>1 DEF DeskType, AnyRun
<1> HIDE DEF old, pc, running, removing
<1>4. /\ page \in DeskType /\ page.pc = pc /\ page.running = running /\ page.history = old.history
      /\ page.result = old.result
  BY <1>1, <1>3 DEF DeskType
<1> HIDE DEF page
<1>5. DeskIsRight(d, page)
  BY <1>1, <1>3, <1>4 DEF DeskIsRight
<1> QED
  BY <1>2, <1>4, <1>5 DEF old

(* The lists are read, shown, not shown; a row of the history is chosen.   *)
LEMMA ListsKeep ==
  ASSUME PromotionInv, NEW d \in Desks,
         \/ \E reason \in LoadReasons : ReadLists(d, reason) \/ ListsFail(d, reason)
         \/ \E lists \in deskCalls[d].answer : ShowLists(d, lists)
         \/ \E r \in CertRuns : SelectHistory(d, r)
  PROVE  PromotionInv'
<1> DEFINE old == desk[d]
           calls == deskCalls[d]
<1>1. /\ old \in DeskType /\ calls \in CallType /\ DeskIsRight(d, old) /\ CallsAreRight(d, calls)
      /\ desk \in [Desks -> DeskType] /\ deskCalls \in [Desks -> CallType]
      /\ confirmed \in SUBSET CertRuns
      /\ runRows \in [CertRuns -> {"none", "running", "lost"} \cup Verdicts]
  BY DEF PromotionInv
<1>2. VerdictsStay /\ UNCHANGED choice
  BY <1>1 DEF VerdictsStay, ReadLists, ListsFail, ShowLists, SelectHistory
<1>3. ASSUME NEW reason \in LoadReasons, ReadLists(d, reason) PROVE PromotionInv'
  <2> DEFINE runs == {r \in CertRuns : DeskOf[r] = d /\ runRows[r] \in Verdicts}
             models == {m \in Candidates : choice[m].offered}
             lists == [reason |-> reason, runs |-> runs, models |-> models]
             load == calls.load \ {reason}
             answer == calls.answer \cup {lists}
             asked == [calls EXCEPT !.load = load, !.answer = answer]
  <2>1. desk' = [desk EXCEPT ![d] = old] /\ deskCalls' = [deskCalls EXCEPT ![d] = asked]
    BY <1>1, <1>3 DEF ReadLists
  <2>2. lists \in Lists /\ lists.runs = runs
    BY DEF Lists
  <2>3. \A r \in runs : Promotable(d, r)
    BY DEF Promotable
  <2> HIDE DEF lists, runs, models
  <2>4. answer \in SUBSET Lists /\ load \in SUBSET LoadReasons
    BY <1>1, <2>2 DEF CallType
  <2>5. \A l \in answer : \A r \in l.runs : Promotable(d, r)
    BY <1>1, <2>2, <2>3 DEF CallsAreRight
  <2> HIDE DEF old, calls, load, answer
  <2>6. asked \in CallType /\ asked.promote = calls.promote /\ asked.answer = answer
    BY <1>1, <2>4 DEF CallType
  <2> HIDE DEF asked
  <2>7. CallsAreRight(d, asked)
    BY <1>1, <2>5, <2>6 DEF CallsAreRight
  <2> QED
    BY <1>1, <1>2, <2>1, <2>6, <2>7, LookingKeeps
<1>4. ASSUME NEW reason \in LoadReasons, ListsFail(d, reason) PROVE PromotionInv'
  <2> DEFINE load == calls.load \ {reason}
             asked == [calls EXCEPT !.load = load]
             page == Released(d, reason)
  <2>1. desk' = [desk EXCEPT ![d] = page] /\ deskCalls' = [deskCalls EXCEPT ![d] = asked]
    BY <1>1, <1>4 DEF ListsFail
  <2>2. load \in SUBSET LoadReasons
    BY <1>1 DEF CallType
  <2> HIDE DEF old, calls, load
  <2>3. asked \in CallType /\ asked.promote = calls.promote /\ asked.answer = calls.answer
    BY <1>1, <2>2 DEF CallType
  <2>4. page \in DeskType /\ DeskIsRight(d, page)
    BY ReleasedIsRight
  <2> HIDE DEF asked, page
  <2>5. CallsAreRight(d, asked)
    BY <1>1, <2>3 DEF CallsAreRight
  <2> QED
    BY <1>2, <2>1, <2>3, <2>4, <2>5, LookingKeeps
<1>5. ASSUME NEW lists \in deskCalls[d].answer, ShowLists(d, lists) PROVE PromotionInv'
  <2> DEFINE answer == calls.answer \ {lists}
             asked == [calls EXCEPT !.answer = answer]
             released == Released(d, lists.reason)
             runs == lists.runs
             models == lists.models
             page == [released EXCEPT !.history = runs, !.listed = models]
  <2>1. desk' = [desk EXCEPT ![d] = page] /\ deskCalls' = [deskCalls EXCEPT ![d] = asked]
    BY <1>1, <1>5 DEF ShowLists
  <2>2. lists \in Lists /\ answer \in SUBSET Lists
    BY <1>1 DEF CallType
  <2>3. runs \in SUBSET CertRuns /\ models \in SUBSET Candidates /\ lists.reason \in LoadReasons
    BY <2>2 DEF Lists
  <2>4. released \in DeskType /\ DeskIsRight(d, released)
    BY <2>3, ReleasedIsRight
  <2>5. \A r \in runs : Promotable(d, r)
    BY <1>1 DEF CallsAreRight
  <2>6. \A l \in answer : \A r \in l.runs : Promotable(d, r)
    BY <1>1 DEF CallsAreRight
  <2> HIDE DEF old, calls, answer, released, runs, models
  <2>7. /\ asked \in CallType /\ asked.promote = calls.promote /\ asked.answer = answer
        /\ page \in DeskType /\ page.pc = released.pc /\ page.running = released.running
        /\ page.result = released.result /\ page.history = runs
    BY <1>1, <2>2, <2>3, <2>4 DEF CallType, DeskType
  <2> HIDE DEF asked, page
  <2>8. CallsAreRight(d, asked) /\ DeskIsRight(d, page)
    BY <1>1, <2>4, <2>5, <2>6, <2>7 DEF CallsAreRight, DeskIsRight
  <2> QED
    BY <1>2, <2>1, <2>7, <2>8, LookingKeeps
<1>6. ASSUME NEW r \in CertRuns, SelectHistory(d, r) PROVE PromotionInv'
  <2> DEFINE page == [old EXCEPT !.result = r]
  <2>1. desk' = [desk EXCEPT ![d] = page] /\ deskCalls' = [deskCalls EXCEPT ![d] = calls]
    BY <1>1, <1>6 DEF SelectHistory
  <2>2. Promotable(d, r)
    BY <1>1, <1>6 DEF SelectHistory, DeskIsRight
  <2> HIDE DEF old, calls
  <2>3. /\ page \in DeskType /\ page.pc = old.pc /\ page.running = old.running
        /\ page.result = r /\ page.history = old.history
    BY <1>1 DEF DeskType, AnyRun
  <2> HIDE DEF page
  <2>4. DeskIsRight(d, page)
    BY <1>1, <2>2, <2>3 DEF DeskIsRight
  <2> QED
    BY <1>1, <1>2, <2>1, <2>3, <2>4, LookingKeeps
<1> QED
  BY <1>3, <1>4, <1>5, <1>6

(* A promotion is asked for: what has not passed is answered for.          *)
LEMMA AskPromotionKeeps ==
  ASSUME PromotionInv, NEW d \in Desks, AskPromotion(d)
  PROVE  PromotionInv'
<1>1. PICK old \in DeskType, calls \in CallType :
        desk[d] = old /\ deskCalls[d] = calls /\ DeskIsRight(d, old) /\ CallsAreRight(d, calls)
  BY DEF PromotionInv
<1>2. PICK r \in CertRuns : old.result = r /\ Promotable(d, r)
  BY <1>1 DEF AskPromotion, DeskIsRight, DeskType, AnyRun
<1> DEFINE promote == calls.promote \cup {r}
           asked == [calls EXCEPT !.promote = promote]
<1>3. /\ desk' = [desk EXCEPT ![d] = old] /\ deskCalls' = [deskCalls EXCEPT ![d] = asked]
      /\ UNCHANGED <<choice, runRows>>
      /\ confirmed' = IF NeedsWord(r) THEN confirmed \cup {r} ELSE confirmed
  BY <1>1, <1>2 DEF AskPromotion, PromotionInv
<1>4. VerdictsStay
  BY <1>2, <1>3 DEF VerdictsStay, PromotionInv
<1>5. Earned(r)' /\ Promotable(d, r)'
  BY <1>2, <1>3 DEF Earned, NeedsWord, Promotable
<1>6. CallsAreRight(d, calls)' /\ DeskIsRight(d, old)'
  BY <1>1, <1>4, RightStaysRight
<1>7. promote \in SUBSET CertRuns
  BY DEF CallType
<1> HIDE DEF promote
<1>8. asked \in CallType /\ asked.promote = promote /\ asked.answer = calls.answer
  BY <1>7 DEF CallType
<1> HIDE DEF asked
<1>9. CallsAreRight(d, asked)'
  BY <1>5, <1>6, <1>8 DEF CallsAreRight, promote
<1>10. /\ choice' \in [Candidates -> ChoiceType]
       /\ \A m \in Candidates : IsEarned(m, choice[m]) => IsEarned(m, choice[m])'
  BY <1>3, <1>4, RightStaysRight DEF PromotionInv, IsEarned, Earned
<1> QED
  BY <1>3, <1>4, <1>6, <1>8, <1>9, <1>10, DeskKeeps

(* A call for a run or a model ends: it is not repeated by itself.         *)
LEMMA CallsEnd ==
  ASSUME NEW d \in Desks, NEW calls \in CallType, CallsAreRight(d, calls),
         NEW r, NEW m, NEW load \in SUBSET LoadReasons
  PROVE  /\ [calls EXCEPT !.promote = @ \ {r}, !.load = load] \in CallType
         /\ CallsAreRight(d, [calls EXCEPT !.promote = @ \ {r}, !.load = load])
         /\ [calls EXCEPT !.remove = @ \ {m}, !.load = load] \in CallType
         /\ CallsAreRight(d, [calls EXCEPT !.remove = @ \ {m}, !.load = load])
<1> DEFINE promote == calls.promote \ {r}
           remove == calls.remove \ {m}
           first == [calls EXCEPT !.promote = promote, !.load = load]
           second == [calls EXCEPT !.remove = remove, !.load = load]
<1>1. promote \in SUBSET calls.promote /\ promote \in SUBSET CertRuns /\ remove \in SUBSET Candidates
  BY DEF CallType
<1> HIDE DEF promote, remove
<1>2. /\ first \in CallType /\ first.promote = promote /\ first.answer = calls.answer
      /\ second \in CallType /\ second.promote = calls.promote /\ second.answer = calls.answer
  BY <1>1 DEF CallType
<1> HIDE DEF first, second
<1>3. CallsAreRight(d, first) /\ CallsAreRight(d, second)
  BY <1>1, <1>2 DEF CallsAreRight
<1> QED
  BY <1>2, <1>3 DEF first, second, promote, remove

(* A model is promoted from the run it was asked for, or not.              *)
LEMMA PromoteKeeps ==
  ASSUME PromotionInv, NEW d \in Desks, NEW r \in CertRuns, Promote(d, r) \/ PromotionFails(d, r)
  PROVE  PromotionInv'
<1>1. PICK old \in DeskType, calls \in CallType :
        desk[d] = old /\ deskCalls[d] = calls /\ DeskIsRight(d, old) /\ CallsAreRight(d, calls)
  BY DEF PromotionInv
<1>2. PICK load \in SUBSET LoadReasons :
        deskCalls' = [deskCalls EXCEPT ![d] = [calls EXCEPT !.promote = @ \ {r}, !.load = load]]
  <2>1. calls.load \in SUBSET LoadReasons /\ calls.load \cup {"promote"} \in SUBSET LoadReasons
    BY DEF CallType, LoadReasons
  <2>2. CASE Promote(d, r)
    <3>1. PICK heard \in BOOLEAN :
            deskCalls' = [deskCalls EXCEPT ![d].promote = @ \ {r},
                                           ![d].load = IF heard THEN @ \cup {"promote"} ELSE @]
      BY <2>2 DEF Promote
    <3> DEFINE load == IF heard THEN calls.load \cup {"promote"} ELSE calls.load
    <3>2. deskCalls' = [deskCalls EXCEPT ![d] = [calls EXCEPT !.promote = @ \ {r}, !.load = load]]
      BY <1>1, <3>1 DEF PromotionInv
    <3>3. load \in SUBSET LoadReasons
      BY <2>1
    <3> QED
      BY <3>2, <3>3
  <2>3. CASE PromotionFails(d, r)
    <3>1. deskCalls' = [deskCalls EXCEPT ![d] = [calls EXCEPT !.promote = @ \ {r}]]
      BY <1>1, <2>3 DEF PromotionFails, PromotionInv
    <3>2. [calls EXCEPT !.promote = @ \ {r}] = [calls EXCEPT !.promote = @ \ {r}, !.load = calls.load]
      BY DEF CallType
    <3> QED
      BY <2>1, <3>1, <3>2
  <2> QED
    BY <2>2, <2>3
<1> DEFINE asked == [calls EXCEPT !.promote = @ \ {r}, !.load = load]
<1>3. asked \in CallType /\ CallsAreRight(d, asked)
  BY <1>1, CallsEnd
<1> HIDE DEF asked
<1>4. /\ desk' = [desk EXCEPT ![d] = old] /\ UNCHANGED <<runRows, confirmed>>
  BY <1>1 DEF Promote, PromotionFails, PromotionInv
<1>5. VerdictsStay
  BY <1>4 DEF VerdictsStay, PromotionInv
<1>6. DeskIsRight(d, old)' /\ CallsAreRight(d, asked)'
  BY <1>1, <1>3, <1>5, RightStaysRight
<1>7. Earned(r) /\ Earned(r)'
  <2>1. r \in calls.promote
    BY <1>1 DEF Promote, PromotionFails
  <2> QED
    BY <1>1, <1>4, <2>1 DEF CallsAreRight, Earned
<1>8. /\ choice' \in [Candidates -> ChoiceType]
      /\ \A m \in Candidates : IsEarned(m, choice[m]) => IsEarned(m, choice[m])'
  <2>1. CASE Promote(d, r)
    <3> DEFINE row == [run |-> r, offered |-> TRUE]
    <3>1. choice' = [choice EXCEPT ![CandidateOf[r]] = row] /\ CandidateOf[r] \in Candidates
      BY <2>1, PromotionAssumption DEF Promote
    <3>2. row \in ChoiceType /\ row.run = r
      BY DEF ChoiceType, AnyRun
    <3> HIDE DEF row
    <3>3. choice' \in [Candidates -> ChoiceType]
      BY <3>1, <3>2 DEF PromotionInv
    <3>4. ASSUME NEW m \in Candidates, IsEarned(m, choice[m]) PROVE IsEarned(m, choice[m])'
      <4>1. CASE m = CandidateOf[r]
        <5>1. choice'[m] = row
          BY <3>1, <4>1 DEF PromotionInv
        <5> QED
          BY <1>7, <3>2, <4>1, <5>1 DEF IsEarned, Earned
      <4>2. CASE m # CandidateOf[r]
        <5>1. choice'[m] = choice[m]
          BY <3>1, <4>2 DEF PromotionInv
        <5> QED
          BY <1>4, <3>4, <5>1 DEF IsEarned, Earned
      <4> QED
        BY <4>1, <4>2
    <3> QED
      BY <3>3, <3>4
  <2>2. CASE PromotionFails(d, r)
    <3>1. choice' = choice
      BY <2>2 DEF PromotionFails
    <3> QED
      BY <1>4, <3>1 DEF PromotionInv, IsEarned, Earned
  <2> QED
    BY <2>1, <2>2
<1>9. deskCalls' = [deskCalls EXCEPT ![d] = asked]
  BY <1>2 DEF asked
<1> QED
  BY <1>3, <1>4, <1>5, <1>6, <1>8, <1>9, DeskKeeps

(* A model that is withdrawn, or perhaps, is offered no more, or still.    *)
LEMMA RemovalKeeps ==
  ASSUME PromotionInv, NEW d \in Desks, NEW m \in Candidates,
         AskRemoval(d, m) \/ Withdraw(d, m) \/ RemovalFails(d, m)
  PROVE  PromotionInv'
<1>1. PICK old \in DeskType, calls \in CallType :
        desk[d] = old /\ deskCalls[d] = calls /\ DeskIsRight(d, old) /\ CallsAreRight(d, calls)
  BY DEF PromotionInv
<1>2. VerdictsStay
  BY DEF VerdictsStay, PromotionInv, AskRemoval, Withdraw, RemovalFails
<1>3. \A removing \in SUBSET Candidates :
        [old EXCEPT !.removing = removing] \in DeskType /\ DeskIsRight(d, [old EXCEPT !.removing = removing])
  <2> SUFFICES ASSUME NEW removing \in SUBSET Candidates
               PROVE  [old EXCEPT !.removing = removing] \in DeskType
                      /\ DeskIsRight(d, [old EXCEPT !.removing = removing])
    OBVIOUS
  <2> DEFINE page == [old EXCEPT !.removing = removing]
  <2>1. /\ page \in DeskType /\ page.pc = old.pc /\ page.running = old.running
        /\ page.result = old.result /\ page.history = old.history
    BY DEF DeskType
  <2> HIDE DEF page
  <2>2. DeskIsRight(d, page)
    BY <1>1, <2>1 DEF DeskIsRight
  <2> QED
    BY <2>1, <2>2 DEF page
<1>4. CASE AskRemoval(d, m)
  <2> DEFINE page == [old EXCEPT !.removing = {m}]
             remove == calls.remove \cup {m}
             asked == [calls EXCEPT !.remove = remove]
  <2>1. desk' = [desk EXCEPT ![d] = page] /\ deskCalls' = [deskCalls EXCEPT ![d] = asked] /\ choice' = choice
    BY <1>1, <1>4 DEF AskRemoval, PromotionInv
  <2>2. remove \in SUBSET Candidates
    BY DEF CallType
  <2> HIDE DEF remove
  <2>3. asked \in CallType /\ asked.promote = calls.promote /\ asked.answer = calls.answer
    BY <2>2 DEF CallType
  <2>4. page \in DeskType /\ DeskIsRight(d, page)
    BY <1>3
  <2> HIDE DEF asked, page
  <2>5. CallsAreRight(d, asked)
    BY <1>1, <2>3 DEF CallsAreRight
  <2> QED
    BY <1>2, <2>1, <2>3, <2>4, <2>5, LookingKeeps
<1>5. CASE Withdraw(d, m) \/ RemovalFails(d, m)
  <2>1. PICK offered \in BOOLEAN :
          choice' = [choice EXCEPT ![m].offered = offered] /\ (offered => choice[m].offered)
    <3>1. CASE Withdraw(d, m)
      BY <3>1 DEF Withdraw
    <3>2. CASE RemovalFails(d, m)
      <4>1. PICK gone \in BOOLEAN : choice' = [choice EXCEPT ![m].offered = @ /\ ~gone]
        BY <3>2 DEF RemovalFails
      <4> DEFINE still == choice[m].offered /\ ~gone
      <4>2. choice' = [choice EXCEPT ![m].offered = still] /\ still \in BOOLEAN /\ (still => choice[m].offered)
        BY <4>1 DEF PromotionInv, ChoiceType
      <4> HIDE DEF still
      <4> QED
        BY <4>2
    <3> QED
      BY <1>5, <3>1, <3>2
  <2> DEFINE row == choice[m]
             less == [row EXCEPT !.offered = offered]
  <2>2. row \in ChoiceType /\ choice' = [choice EXCEPT ![m] = less] /\ (offered => row.offered)
    BY <2>1 DEF PromotionInv
  <2>3. less \in ChoiceType /\ less.run = row.run /\ less.offered = offered
    <3> HIDE DEF row
    <3> QED
      BY <2>2 DEF ChoiceType
  <2> HIDE DEF less
  <2>4. choice' \in [Candidates -> ChoiceType]
    BY <2>2, <2>3 DEF PromotionInv
  <2>5. ASSUME NEW c \in Candidates, IsEarned(c, choice[c]) PROVE IsEarned(c, choice[c])'
    <3>1. UNCHANGED <<runRows, confirmed>>
      BY <1>5 DEF Withdraw, RemovalFails
    <3>2. CASE c = m
      <4>1. choice'[c] = less
        BY <2>2, <3>2 DEF PromotionInv
      <4> QED
        BY <2>2, <2>3, <2>5, <3>1, <3>2, <4>1 DEF IsEarned, Earned
    <3>3. CASE c # m
      <4>1. choice'[c] = choice[c]
        BY <2>2, <3>3 DEF PromotionInv
      <4> QED
        BY <2>5, <3>1, <4>1 DEF IsEarned, Earned
    <3> QED
      BY <3>2, <3>3
  <2>6. PICK load \in SUBSET LoadReasons, page \in DeskType :
          /\ deskCalls' = [deskCalls EXCEPT ![d] = [calls EXCEPT !.remove = @ \ {m}, !.load = load]]
          /\ desk' = [desk EXCEPT ![d] = page] /\ DeskIsRight(d, page)
    <3>1. calls.load \in SUBSET LoadReasons /\ calls.load \cup {"remove"} \in SUBSET LoadReasons
      BY DEF CallType, LoadReasons
    <3>2. CASE Withdraw(d, m)
      <4>1. /\ deskCalls' = [deskCalls EXCEPT ![d] =
                               [calls EXCEPT !.remove = @ \ {m}, !.load = calls.load \cup {"remove"}]]
            /\ desk' = [desk EXCEPT ![d] = old]
        BY <1>1, <3>2 DEF Withdraw, PromotionInv
      <4> QED
        BY <1>1, <3>1, <4>1
    <3>3. CASE RemovalFails(d, m)
      <4>1. /\ deskCalls' = [deskCalls EXCEPT ![d] = [calls EXCEPT !.remove = @ \ {m}]]
            /\ desk' = [desk EXCEPT ![d] = [old EXCEPT !.removing = {}]]
        BY <1>1, <3>3 DEF RemovalFails, PromotionInv
      <4>2. [calls EXCEPT !.remove = @ \ {m}] = [calls EXCEPT !.remove = @ \ {m}, !.load = calls.load]
        BY DEF CallType
      <4> QED
        BY <1>3, <3>1, <4>1, <4>2
    <3> QED
      BY <1>5, <3>2, <3>3
  <2> DEFINE asked == [calls EXCEPT !.remove = @ \ {m}, !.load = load]
  <2>7. asked \in CallType /\ CallsAreRight(d, asked)
    BY <1>1, CallsEnd
  <2>8. deskCalls' = [deskCalls EXCEPT ![d] = asked]
    BY <2>6
  <2> HIDE DEF asked
  <2>9. DeskIsRight(d, page)' /\ CallsAreRight(d, asked)'
    BY <1>2, <2>6, <2>7, RightStaysRight
  <2> QED
    BY <1>2, <2>4, <2>5, <2>6, <2>7, <2>8, <2>9, DeskKeeps
<1> QED
  BY <1>4, <1>5

(* A run comes to its end in the database.                                 *)
LEMMA StoreKeeps ==
  ASSUME PromotionInv, NEW r \in CertRuns, NEW end \in Verdicts \cup {"lost"}, StoreRun(r, end)
  PROVE  PromotionInv'
<1>1. VerdictsStay
  BY DEF StoreRun, VerdictsStay, PromotionInv, Verdicts
<1>2. UNCHANGED <<choice, desk, deskCalls>>
  BY DEF StoreRun
<1>3. ASSUME NEW d \in Desks PROVE DeskIsRight(d, desk[d])' /\ CallsAreRight(d, deskCalls[d])'
  <2>1. PICK old \in DeskType, calls \in CallType :
          desk[d] = old /\ deskCalls[d] = calls /\ DeskIsRight(d, old) /\ CallsAreRight(d, calls)
    BY DEF PromotionInv
  <2>2. DeskIsRight(d, old)' /\ CallsAreRight(d, calls)' /\ desk'[d] = old /\ deskCalls'[d] = calls
    BY <1>1, <1>2, <2>1, RightStaysRight
  <2> QED
    BY <2>2 DEF DeskIsRight, CallsAreRight
<1>4. ASSUME NEW m \in Candidates PROVE IsEarned(m, choice[m])'
  <2>1. PICK row \in ChoiceType : choice[m] = row /\ IsEarned(m, row)
    BY DEF PromotionInv
  <2>2. IsEarned(m, row)' /\ choice'[m] = row
    BY <1>1, <1>2, <2>1, RightStaysRight
  <2> QED
    BY <2>2 DEF IsEarned
<1> QED
  BY <1>1, <1>2, <1>3, <1>4 DEF PromotionInv, VerdictsStay

(* Every step keeps the invariant.                                         *)
LEMMA PromotionStep == PromotionInv /\ [PromotionNext]_promotionVars => PromotionInv'
<1> SUFFICES ASSUME PromotionInv, [PromotionNext]_promotionVars PROVE PromotionInv'
  OBVIOUS
<1>1. CASE UNCHANGED promotionVars
  BY <1>1 DEF promotionVars, PromotionInv, DeskIsRight, CallsAreRight, IsEarned, Promotable, Earned
<1>2. ASSUME NEW d \in Desks, DeskStep(d) PROVE PromotionInv'
  BY <1>2, RunsKeep, ListsKeep, AskPromotionKeeps, PromoteKeeps, RemovalKeeps DEF DeskStep
<1> QED
  BY <1>1, <1>2, StoreKeeps DEF PromotionNext

(* What is offered is earned.                                              *)
LEMMA PromotionsAreEarned == PromotionInv => PromotedIsEarned
BY DEF PromotionInv, PromotedIsEarned, DeskIsRight, IsEarned, Earned

-----------------------------------------------------------------------------
(*****************************************************************************)
(* The platform's AI: what a process keeps is configured, what is configured *)
(* has a key, and the panel saves what it shows.                             *)
(*****************************************************************************)

(* What a request of an administrator is made of.                          *)
AiReqType ==
  {r \in [pc : {"idle", "model", "keys", "write", "global", "active", "list", "try", "switch"},
          model : AnyModel, todo : SUBSET AiProviders, alone : BOOLEAN] :
     r.pc \in {"model", "keys", "write", "active", "switch"} => r.model \in CertModels}

(* What the panel shows.                                                   *)
PanelType == [provider : AiProviders \cup {NoProvider}, model : AnyModel, options : SUBSET CertModels,
              loading : AiProviders \cup {NoProvider}, listed : BOOLEAN, keys : SUBSET PlatformKeys,
              config : AnyModel, refresh : {"no", "plain", "sync"}]

(* The types of the platform's AI.                                         *)
AiShapes ==
  /\ catalogue \in [CertModels -> [active : BOOLEAN, certified : BOOLEAN]]
  /\ aiKeys \in [PlatformKeys -> {"absent", "off", "on"}]
  /\ aiConfig \in AnyModel /\ aiCache \in Copy /\ aiLoad \in Copy
  /\ aiReq \in [AiAdmins -> AiReqType] /\ panel \in PanelType
  /\ aiHistory \in [changes : 0..MaxAiChanges, excused : BOOLEAN]

(* A copy that is kept or read is current, or was read before a write.     *)
CopiesAreCurrent ==
  /\ aiCache # NoCopy => aiCache.early \/ aiCache.model = aiConfig
  /\ aiLoad # NoCopy => aiLoad.early \/ aiLoad.model = aiConfig

(* The configured provider has a key, or none with a model has one.        *)
NoneAt(p) == UsableKeys(p) = {} \/ ModelsFor(p) = {}

(* A configured provider has a key, or no provider has a key and a model.  *)
Served == aiConfig # NoModel => UsableKeys(ModelOf[aiConfig]) # {} \/ \A p \in AiProviders : NoneAt(p)

(* Where a request looks for another provider.                             *)
FailoverPcs == {"global", "active", "list", "try", "switch"}

(* What a request has found out, if nothing came between its statements.   *)
FoundOut(request) ==
  /\ request.pc = "write" => UsableKeys(ModelOf[request.model]) # {}
  /\ request.pc = "active" => request.model = aiConfig
  /\ request.pc = "try" => \A p \in AiProviders : /\ p \in request.todo => UsableKeys(p) # {}
                                                  /\ p \notin request.todo => NoneAt(p)
  /\ request.pc = "switch" => UsableKeys(ModelOf[request.model]) # {}

(* A request that nothing came between is the only one, and what it found  *)
(* out still holds.                                                        *)
LonelyRequestsKnow ==
  \A a \in AiAdmins : aiReq[a].alone /\ aiReq[a].pc # "idle" =>
    /\ \A b \in AiAdmins \ {a} : aiReq[b].pc = "idle"
    /\ FoundOut(aiReq[a])

(* Unless it is excused, or a failover is under way, who can be is served. *)
ServiceIsKept ==
  ~aiHistory.excused /\ (\A a \in AiAdmins : aiReq[a].pc \notin FailoverPcs) => Served

(* The panel's model is one of its provider's, and so are its options once *)
(* they are listed; what  it loads is for the provider it shows.            *)
PanelFits(p) ==
  /\ p.loading \in {NoProvider, p.provider}
  /\ p.model # NoModel => ModelOf[p.model] = p.provider
  /\ p.listed /\ p.loading = NoProvider => \A m \in p.options : ModelOf[m] = p.provider
  /\ p.refresh = "plain" => p.provider # NoProvider

(* What the proof about the platform's AI rests on.                        *)
AiInv == AiShapes /\ CopiesAreCurrent /\ LonelyRequestsKnow /\ ServiceIsKept /\ PanelFits(panel)

(* The constants have their types.                                         *)
LEMMA AiConstants ==
  /\ NoCopy \in Copy /\ NoRequest \in AiReqType /\ NoRequest.pc = "idle"
  /\ \A m \in CertModels : ModelOf[m] \in AiProviders /\ m # NoModel
BY PlatformAiAssumption DEF NoCopy, Copy, NoRequest, AiReqType, AnyModel

(* Every provider has its keys, nobody asks for anything.                  *)
LEMMA AiStart == AiInit => AiInv
<1> SUFFICES ASSUME AiInit PROVE AiInv
  OBVIOUS
<1>1. \A a \in AiAdmins : aiReq[a] = NoRequest
  BY DEF AiInit
<1>2. AiShapes
  BY AiConstants, PlatformAiAssumption DEF AiInit, AiShapes, PanelType, AnyModel
<1>3. CopiesAreCurrent /\ PanelFits(panel)
  BY DEF AiInit, CopiesAreCurrent, PanelFits
<1>4. LonelyRequestsKnow
  BY <1>1, AiConstants DEF LonelyRequestsKnow
<1>5. Served
  BY DEF AiInit, Served
<1> QED
  BY <1>2, <1>3, <1>4, <1>5 DEF AiInv, ServiceIsKept

(* A step of the panel alone.                                              *)
LEMMA PanelKeeps ==
  ASSUME AiInv, UNCHANGED <<catalogue, aiKeys, aiConfig, aiCache, aiLoad, aiReq, aiHistory>>,
         NEW next \in PanelType, panel' = next, PanelFits(next)
  PROVE  AiInv'
<1>1. AiShapes'
  BY DEF AiInv, AiShapes
<1>2. CopiesAreCurrent' /\ LonelyRequestsKnow' /\ ServiceIsKept'
  BY DEF AiInv, CopiesAreCurrent, LonelyRequestsKnow, ServiceIsKept, FoundOut, Served, NoneAt, UsableKeys,
         ModelsFor, Certified
<1> QED
  BY <1>1, <1>2 DEF AiInv, PanelFits

(* The draft of the panel has a provider, and a model of it if any.        *)
LEMMA DraftFits ==
  ASSUME AiShapes, NEW listing \in SUBSET PlatformKeys
  PROVE  \E p \in AiProviders, m \in AnyModel :
           Draft(aiConfig, listing) = [provider |-> p, model |-> m] /\ (m # NoModel => ModelOf[m] = p)
<1>1. aiConfig \in AnyModel
  BY DEF AiShapes
<1>2. SavedProvider(aiConfig) \in AiProviders \cup {NoProvider}
      /\ (aiConfig # NoModel => SavedProvider(aiConfig) = ModelOf[aiConfig])
      /\ (SavedProvider(aiConfig) = NoProvider => aiConfig = NoModel)
  BY <1>1, AiConstants, PlatformAiAssumption DEF SavedProvider, AnyModel
<1>3. CASE \E p \in AiProviders : SavedProvider(aiConfig) = p /\ HasKeys(listing, p)
  <2>1. Draft(aiConfig, listing) = [provider |-> SavedProvider(aiConfig), model |-> aiConfig]
    BY <1>3 DEF Draft
  <2>2. SavedProvider(aiConfig) \in AiProviders
    BY <1>3
  <2> QED
    BY <1>1, <1>2, <2>1, <2>2
<1>4. CASE ~(\E p \in AiProviders : SavedProvider(aiConfig) = p /\ HasKeys(listing, p)) /\ listing # {}
  <2>1. Draft(aiConfig, listing) = [provider |-> KeyOf[CHOOSE k \in listing : TRUE], model |-> NoModel]
    BY <1>4 DEF Draft
  <2>2. KeyOf[CHOOSE k \in listing : TRUE] \in AiProviders /\ NoModel \in AnyModel
    BY <1>4, PlatformAiAssumption DEF AnyModel
  <2> QED
    BY <2>1, <2>2
<1>5. CASE ~(\E p \in AiProviders : SavedProvider(aiConfig) = p /\ HasKeys(listing, p)) /\ listing = {}
  <2> DEFINE p == IF SavedProvider(aiConfig) # NoProvider THEN SavedProvider(aiConfig)
                  ELSE CHOOSE q \in AiProviders : TRUE
  <2>1. Draft(aiConfig, listing) = [provider |-> p, model |-> aiConfig]
    BY <1>5 DEF Draft
  <2>2. p \in AiProviders /\ (aiConfig # NoModel => ModelOf[aiConfig] = p)
    BY <1>2, PlatformAiAssumption
  <2> HIDE DEF p
  <2> QED
    BY <1>1, <2>1, <2>2
<1> QED
  BY <1>3, <1>4, <1>5

(* The panel is refreshed.                                                 *)
LEMMA RefreshKeeps ==
  ASSUME AiInv, RefreshPanel
  PROVE  AiInv'
<1>1. PICK old \in PanelType : panel = old /\ PanelFits(old)
  BY DEF AiInv, AiShapes
<1> DEFINE listing == {k \in PlatformKeys : aiKeys[k] = "on"}
<1>2. PICK p \in AiProviders, m \in AnyModel :
        Draft(aiConfig, listing) = [provider |-> p, model |-> m] /\ (m # NoModel => ModelOf[m] = p)
  <2>1. listing \in SUBSET PlatformKeys
    OBVIOUS
  <2> HIDE DEF listing
  <2> QED
    BY <2>1, DraftFits DEF AiInv
<1> DEFINE provider == IF old.refresh = "sync" THEN p ELSE old.provider
           model == IF old.refresh = "sync" THEN m ELSE old.model
           next == [old EXCEPT !.keys = listing, !.config = aiConfig, !.refresh = "no", !.provider = provider,
                               !.model = model, !.loading = provider]
<1>3. panel' = next
  <2> DEFINE proposal == IF panel.refresh = "sync" THEN Draft(aiConfig, listing)
                      ELSE [provider |-> panel.provider, model |-> panel.model]
  <2>1. panel' = [panel EXCEPT !.keys = listing, !.config = aiConfig, !.refresh = "no",
                               !.provider = proposal.provider, !.model = proposal.model,
                               !.loading = proposal.provider]
    BY DEF RefreshPanel
  <2>2. proposal.provider = provider /\ proposal.model = model
    <3>1. CASE old.refresh = "sync"
      BY <1>1, <1>2, <3>1
    <3>2. CASE old.refresh # "sync"
      BY <1>1, <3>2
    <3> QED
      BY <3>1, <3>2
  <2> HIDE DEF proposal, provider, model, listing
  <2> QED
    BY <1>1, <2>1, <2>2
<1>4. /\ provider \in AiProviders /\ model \in AnyModel
      /\ model # NoModel => ModelOf[model] = provider
  BY <1>1, <1>2 DEF PanelFits, PanelType, RefreshPanel
<1>5. listing \in SUBSET PlatformKeys /\ aiConfig \in AnyModel
  BY DEF AiInv, AiShapes
<1> HIDE DEF listing, provider, model
<1>6. /\ next \in PanelType /\ next.provider = provider /\ next.model = model /\ next.loading = provider
      /\ next.refresh = "no"
  BY <1>4, <1>5 DEF PanelType
<1> HIDE DEF next
<1>7. PanelFits(next)
  BY <1>4, <1>6, PlatformAiAssumption DEF PanelFits
<1> QED
  BY <1>3, <1>6, <1>7, PanelKeeps DEF RefreshPanel

(* A provider is chosen; models come, or do not; one is chosen.            *)
LEMMA FieldsKeep ==
  ASSUME AiInv,
         \/ ModelsLoaded \/ ModelsFail
         \/ \E p \in AiProviders : ChangeProvider(p)
         \/ \E m \in CertModels : ChooseModel(m)
  PROVE  AiInv'
<1>1. PICK old \in PanelType : panel = old /\ PanelFits(old)
  BY DEF AiInv, AiShapes
<1>2. ASSUME ModelsLoaded PROVE AiInv'
  <2> DEFINE offered == ModelsFor(old.loading)
             model == IF old.model \in offered THEN old.model
                      ELSE IF HasKeys(old.keys, old.loading) \/ old.model = NoModel THEN FirstOf(offered)
                      ELSE old.model
             next == [old EXCEPT !.options = offered, !.loading = NoProvider, !.listed = TRUE, !.model = model]
  <2>1. panel' = next /\ old.loading # NoProvider
    BY <1>1, <1>2 DEF ModelsLoaded
  <2>2. old.loading = old.provider
    BY <1>1, <2>1 DEF PanelFits
  <2>3. offered \in SUBSET CertModels /\ \A m \in offered : ModelOf[m] = old.provider
    BY <2>2 DEF ModelsFor
  <2>4. FirstOf(offered) = NoModel \/ FirstOf(offered) \in offered
    BY DEF FirstOf
  <2>5. model \in AnyModel /\ (model # NoModel => ModelOf[model] = old.provider)
    <3> HIDE DEF offered
    <3> QED
      BY <1>1, <2>3, <2>4 DEF PanelFits, PanelType, AnyModel
  <2> HIDE DEF offered, model
  <2>6. /\ next \in PanelType /\ next.provider = old.provider /\ next.model = model
        /\ next.loading = NoProvider /\ next.options = offered /\ next.refresh = old.refresh
    BY <2>3, <2>5 DEF PanelType
  <2> HIDE DEF next
  <2>7. PanelFits(next)
    BY <1>1, <2>3, <2>5, <2>6 DEF PanelFits
  <2> QED
    BY <1>2, <2>1, <2>6, <2>7, PanelKeeps DEF ModelsLoaded
<1>3. ASSUME ModelsFail PROVE AiInv'
  <2> DEFINE next == [old EXCEPT !.loading = NoProvider, !.listed = FALSE]
  <2>1. panel' = next
    BY <1>1, <1>3 DEF ModelsFail
  <2>2. /\ next \in PanelType /\ next.provider = old.provider /\ next.model = old.model
        /\ next.loading = NoProvider /\ ~next.listed /\ next.refresh = old.refresh
    BY DEF PanelType
  <2> HIDE DEF next
  <2>3. PanelFits(next)
    BY <1>1, <2>2 DEF PanelFits
  <2> QED
    BY <1>3, <2>1, <2>2, <2>3, PanelKeeps DEF ModelsFail
<1>4. ASSUME NEW p \in AiProviders, ChangeProvider(p) PROVE AiInv'
  <2> DEFINE next == [old EXCEPT !.provider = p, !.model = NoModel, !.loading = p]
  <2>1. panel' = next
    BY <1>1, <1>4 DEF ChangeProvider
  <2>2. /\ next \in PanelType /\ next.provider = p /\ next.model = NoModel
        /\ next.loading = p
    BY DEF PanelType, AnyModel
  <2> HIDE DEF next
  <2>3. PanelFits(next)
    BY <1>1, <2>2, PlatformAiAssumption DEF PanelFits
  <2> QED
    BY <1>4, <2>1, <2>2, <2>3, PanelKeeps DEF ChangeProvider
<1>5. ASSUME NEW m \in CertModels, ChooseModel(m) PROVE AiInv'
  <2> DEFINE next == [old EXCEPT !.model = m]
  <2>1. panel' = next /\ ModelOf[m] = old.provider
    BY <1>1, <1>5 DEF ChooseModel, PanelFits
  <2>2. /\ next \in PanelType /\ next.provider = old.provider /\ next.model = m
        /\ next.loading = old.loading /\ next.options = old.options /\ next.listed = old.listed
        /\ next.refresh = old.refresh
    BY DEF PanelType, AnyModel
  <2> HIDE DEF next
  <2>3. PanelFits(next)
    BY <1>1, <2>1, <2>2 DEF PanelFits
  <2> QED
    BY <1>5, <2>1, <2>2, <2>3, PanelKeeps DEF ChooseModel
<1> QED
  BY <1>2, <1>3, <1>4, <1>5

(* The copies: read, kept, expired.                                        *)
LEMMA CopiesKeep ==
  ASSUME AiInv, ReadConfig \/ KeepCopy \/ CopyExpires
  PROVE  AiInv'
<1>1. UNCHANGED <<catalogue, aiKeys, aiConfig, aiReq, panel, aiHistory>>
  BY DEF ReadConfig, KeepCopy, CopyExpires
<1>2. aiCache' \in Copy /\ aiLoad' \in Copy /\ CopiesAreCurrent'
  <2>1. CASE ReadConfig
    <3> DEFINE usable == Certified(aiConfig)
    <3>1. /\ aiCache' = aiCache /\ aiCache = NoCopy /\ aiConfig # NoModel /\ aiConfig' = aiConfig
          /\ aiLoad' = [model |-> aiConfig, usable |-> usable, early |-> FALSE]
      BY <2>1 DEF ReadConfig
    <3>2. aiConfig \in AnyModel /\ usable \in BOOLEAN
      BY <3>1 DEF AiInv, AiShapes, Certified, AnyModel
    <3> HIDE DEF usable
    <3> QED
      BY <3>1, <3>2, AiConstants DEF Copy, CopiesAreCurrent
  <2>2. CASE KeepCopy
    BY <2>2, AiConstants DEF KeepCopy, AiInv, AiShapes, CopiesAreCurrent
  <2>3. CASE CopyExpires
    BY <2>3, AiConstants DEF CopyExpires, AiInv, AiShapes, CopiesAreCurrent
  <2> QED
    BY <2>1, <2>2, <2>3
<1>3. AiShapes'
  BY <1>1, <1>2 DEF AiInv, AiShapes
<1>4. LonelyRequestsKnow' /\ ServiceIsKept' /\ PanelFits(panel)'
  BY <1>1 DEF AiInv, LonelyRequestsKnow, ServiceIsKept, FoundOut, Served, NoneAt, UsableKeys,
              ModelsFor, Certified, PanelFits
<1> QED
  BY <1>2, <1>3, <1>4 DEF AiInv

(* A change is counted, and noted if no failover looks at it.              *)
LEMMA ChangesAreCounted ==
  ASSUME AiInv, NEW more \in BOOLEAN, AiChange(more)
  PROVE  /\ aiHistory' \in [changes : 0..MaxAiChanges, excused : BOOLEAN]
         /\ aiHistory'.excused = (aiHistory.excused \/ more)
<1> DEFINE n == aiHistory.changes + 1
           now == aiHistory.excused \/ more
<1>1. aiHistory.changes \in 0..MaxAiChanges /\ aiHistory.changes < MaxAiChanges
  BY DEF AiChange, AiInv, AiShapes
<1>2. n \in 0..MaxAiChanges /\ now \in BOOLEAN
  BY <1>1, PlatformAiAssumption DEF AiInv, AiShapes
<1>3. aiHistory' = [changes |-> n, excused |-> now]
  BY DEF AiChange
<1> HIDE DEF n
<1>4. aiHistory' \in [changes : 0..MaxAiChanges, excused : BOOLEAN] /\ aiHistory'.excused = now
  <2> HIDE DEF now
  <2> QED
    BY <1>2, <1>3
<1> QED
  BY <1>4

(* ... and not noted if one does.                                          *)
LEMMA UnnotedChange ==
  ASSUME AiInv, AiChange(FALSE)
  PROVE  aiHistory' \in [changes : 0..MaxAiChanges, excused : BOOLEAN] /\ aiHistory'.excused = aiHistory.excused
<1>1. (aiHistory.excused \/ FALSE) = aiHistory.excused
  BY DEF AiInv, AiShapes
<1>2. /\ aiHistory' \in [changes : 0..MaxAiChanges, excused : BOOLEAN]
      /\ aiHistory'.excused = (aiHistory.excused \/ FALSE)
  <2>1. FALSE \in BOOLEAN
    OBVIOUS
  <2> QED
    BY <2>1, ChangesAreCounted, Zenon
<1> QED
  BY <1>1, <1>2, Zenon

(* ... and noted if none does.                                             *)
LEMMA NotedChange ==
  ASSUME AiInv, AiChange(TRUE)
  PROVE  aiHistory' \in [changes : 0..MaxAiChanges, excused : BOOLEAN] /\ aiHistory'.excused
BY ChangesAreCounted

(* Requests that are crossed are what they were, and lonely no more.       *)
LEMMA CrossedRequests ==
  ASSUME AiShapes
  PROVE  /\ Crossed \in [AiAdmins -> AiReqType]
         /\ \A b \in AiAdmins : Crossed[b].pc = aiReq[b].pc /\ Crossed[b].alone = (aiReq[b].pc = "idle")
<1> SUFFICES ASSUME NEW b \in AiAdmins
             PROVE  Crossed[b] \in AiReqType /\ Crossed[b].pc = aiReq[b].pc
                    /\ Crossed[b].alone = (aiReq[b].pc = "idle")
  BY DEF Crossed
<1> DEFINE request == aiReq[b]
           alone == aiReq[b].pc = "idle"
<1>1. request \in AiReqType /\ alone \in BOOLEAN /\ Crossed[b] = [request EXCEPT !.alone = alone]
  BY DEF AiShapes, Crossed
<1> HIDE DEF request, alone
<1>2. Crossed[b] \in AiReqType /\ Crossed[b].pc = request.pc /\ Crossed[b].alone = alone
  BY <1>1 DEF AiReqType
<1> QED
  BY <1>2 DEF request, alone

(* While keys and models stay, so does what is found out about them.       *)
LEMMA ServiceStays ==
  ASSUME AiInv, UNCHANGED <<catalogue, aiKeys, aiConfig>>, aiHistory'.excused = aiHistory.excused,
         (\A b \in AiAdmins : aiReq'[b].pc \notin FailoverPcs)
           => \A b \in AiAdmins : aiReq[b].pc \notin FailoverPcs
  PROVE  ServiceIsKept'
BY DEF AiInv, ServiceIsKept, Served, NoneAt, UsableKeys, ModelsFor, Certified

(* The copies, while the configuration stays and none is added.            *)
LEMMA CopiesStay ==
  ASSUME AiInv, UNCHANGED <<aiConfig, aiLoad>>, aiCache' \in {aiCache, NoCopy}
  PROVE  CopiesAreCurrent' /\ aiCache' \in Copy
BY AiConstants DEF AiInv, AiShapes, CopiesAreCurrent

(* A model more: it is offered, and every request under way is crossed.   *)
LEMMA PromoteModelKeeps ==
  ASSUME AiInv, NEW m \in CertModels, PromoteModel(m)
  PROVE  AiInv'
<1>1. UNCHANGED <<aiKeys, aiConfig, aiCache, aiLoad, panel>> /\ aiReq' = Crossed /\ AiChange(TRUE)
      /\ catalogue' = [catalogue EXCEPT ![m] = [active |-> TRUE, certified |-> TRUE]]
  BY DEF PromoteModel
<1>2. aiHistory' \in [changes : 0..MaxAiChanges, excused : BOOLEAN] /\ aiHistory'.excused
  BY <1>1, NotedChange
<1>3. aiReq' \in [AiAdmins -> AiReqType] /\ \A b \in AiAdmins : aiReq'[b].alone = (aiReq'[b].pc = "idle")
  BY <1>1, CrossedRequests DEF AiInv
<1>4. catalogue' \in [CertModels -> [active : BOOLEAN, certified : BOOLEAN]]
  BY <1>1 DEF AiInv, AiShapes
<1>5. LonelyRequestsKnow' /\ ServiceIsKept'
  BY <1>2, <1>3 DEF LonelyRequestsKnow, ServiceIsKept
<1>6. CopiesAreCurrent' /\ PanelFits(panel)'
  BY <1>1 DEF AiInv, CopiesAreCurrent, PanelFits
<1> QED
  BY <1>1, <1>2, <1>3, <1>4, <1>5, <1>6 DEF AiInv, AiShapes

(* A model less: nothing can be found that could not be before.            *)
LEMMA DeactivateModelKeeps ==
  ASSUME AiInv, NEW m \in CertModels, DeactivateModel(m)
  PROVE  AiInv'
<1>1. /\ UNCHANGED <<aiKeys, aiConfig, aiCache, aiLoad, aiReq, panel>> /\ AiChange(FALSE)
      /\ catalogue' = [catalogue EXCEPT ![m] = [active |-> FALSE, certified |-> FALSE]]
  BY DEF DeactivateModel
<1>2. aiHistory' \in [changes : 0..MaxAiChanges, excused : BOOLEAN] /\ aiHistory'.excused = aiHistory.excused
  BY <1>1, UnnotedChange
<1>3. catalogue' \in [CertModels -> [active : BOOLEAN, certified : BOOLEAN]]
      /\ \A n \in CertModels : Certified(n)' => Certified(n)
  BY <1>1 DEF AiInv, AiShapes, Certified
<1>4. \A p : UsableKeys(p)' = UsableKeys(p) /\ (NoneAt(p) => NoneAt(p)')
  BY <1>1, <1>3 DEF UsableKeys, ModelsFor, NoneAt
<1>5. ASSUME NEW a \in AiAdmins, aiReq'[a].alone, aiReq'[a].pc # "idle"
      PROVE  /\ \A b \in AiAdmins \ {a} : aiReq'[b].pc = "idle"
             /\ FoundOut(aiReq[a])'
  <2>1. /\ \A b \in AiAdmins \ {a} : aiReq[b].pc = "idle"
        /\ FoundOut(aiReq[a]) /\ aiReq'[a] = aiReq[a]
    BY <1>1, <1>5 DEF AiInv, LonelyRequestsKnow
  <2> QED
    BY <1>1, <1>4, <2>1 DEF FoundOut
<1>6. Served => Served'
  BY <1>1, <1>4 DEF Served
<1>7. LonelyRequestsKnow' /\ ServiceIsKept' /\ CopiesAreCurrent' /\ PanelFits(panel)'
  <2>1. LonelyRequestsKnow'
    BY <1>5 DEF LonelyRequestsKnow
  <2>2. ServiceIsKept'
    BY <1>1, <1>2, <1>6 DEF AiInv, ServiceIsKept
  <2> QED
    BY <1>1, <2>1, <2>2 DEF AiInv, CopiesAreCurrent, PanelFits
<1> QED
  BY <1>1, <1>2, <1>3, <1>7 DEF AiInv, AiShapes

(* The panel is told how its request ended.                                *)
LEMMA ToldFits ==
  ASSUME AiInv, NEW a \in AiAdmins, NEW refresh \in {"no", "plain", "sync"}, PanelTold(a, refresh),
         refresh = "plain" /\ a = PanelAdmin => panel.provider # NoProvider
  PROVE  panel' \in PanelType /\ PanelFits(panel)'
<1>1. PICK old \in PanelType : panel = old /\ PanelFits(old)
  BY DEF AiInv, AiShapes
<1>2. CASE a # PanelAdmin
  BY <1>1, <1>2 DEF PanelTold, PanelFits
<1>3. CASE a = PanelAdmin
  <2> DEFINE next == [old EXCEPT !.refresh = refresh]
  <2>1. panel' = next
    BY <1>1, <1>3 DEF PanelTold
  <2>2. /\ next \in PanelType /\ next.provider = old.provider /\ next.model = old.model
        /\ next.loading = old.loading /\ next.options = old.options /\ next.listed = old.listed
        /\ next.refresh = refresh
    BY DEF PanelType
  <2> HIDE DEF next
  <2>3. PanelFits(next)
    BY <1>1, <1>3, <2>2 DEF PanelFits
  <2> QED
    BY <2>1, <2>2, <2>3 DEF PanelFits
<1> QED
  BY <1>2, <1>3

(* A key more.                                                             *)
LEMMA AddKeyKeeps ==
  ASSUME AiInv, NEW a \in AiAdmins, NEW k \in PlatformKeys, MayChange(a), AddKey(a, k)
  PROVE  AiInv'
<1>1. /\ UNCHANGED <<catalogue, aiConfig, aiLoad>> /\ aiReq' = Crossed /\ AiChange(TRUE)
      /\ aiCache' = NoCopy /\ PanelTold(a, "plain") /\ aiKeys' = [aiKeys EXCEPT ![k] = "on"]
  BY DEF AddKey, DropCopy
<1>2. aiHistory' \in [changes : 0..MaxAiChanges, excused : BOOLEAN] /\ aiHistory'.excused
  BY <1>1, NotedChange
<1>3. aiReq' \in [AiAdmins -> AiReqType] /\ \A b \in AiAdmins : aiReq'[b].alone = (aiReq'[b].pc = "idle")
  BY <1>1, CrossedRequests DEF AiInv
<1>4. aiKeys' \in [PlatformKeys -> {"absent", "off", "on"}]
  BY <1>1 DEF AiInv, AiShapes
<1>5. LonelyRequestsKnow' /\ ServiceIsKept'
  BY <1>2, <1>3 DEF LonelyRequestsKnow, ServiceIsKept
<1>6. panel' \in PanelType /\ PanelFits(panel)'
  BY <1>1, ToldFits DEF MayChange
<1> QED
  BY <1>1, <1>2, <1>3, <1>4, <1>5, <1>6, CopiesStay DEF AiInv, AiShapes

(* A request begins: it is lonely if nobody else has one, and nobody else  *)
(* is lonely any more.                                                     *)
LEMMA BeginningKeeps ==
  ASSUME AiInv, NEW a \in AiAdmins, NEW request \in AiReqType, BeginRequest(a, request),
         request.pc \in {"model", "global"}
  PROVE  /\ aiReq' \in [AiAdmins -> AiReqType] /\ LonelyRequestsKnow'
         /\ \A b \in AiAdmins : aiReq'[b].pc = IF b = a THEN request.pc ELSE aiReq[b].pc
<1> DEFINE alone == Alone(a)
           next == [request EXCEPT !.alone = alone]
           passed == Crossed
<1>1. aiReq' = [passed EXCEPT ![a] = next] /\ alone \in BOOLEAN
  BY DEF BeginRequest, Alone
<1>2. /\ passed \in [AiAdmins -> AiReqType]
      /\ \A b \in AiAdmins : passed[b].pc = aiReq[b].pc /\ passed[b].alone = (aiReq[b].pc = "idle")
  BY CrossedRequests DEF AiInv
<1> HIDE DEF alone, passed
<1>3. next \in AiReqType /\ next.pc = request.pc /\ next.alone = alone
  BY <1>1 DEF AiReqType
<1> HIDE DEF next
<1>4. \A b \in AiAdmins : aiReq'[b] = IF b = a THEN next ELSE passed[b]
  BY <1>1, <1>2
<1>5. aiReq' \in [AiAdmins -> AiReqType]
  BY <1>1, <1>2, <1>3
<1>6. \A b \in AiAdmins : aiReq'[b].pc = IF b = a THEN request.pc ELSE aiReq[b].pc
  BY <1>2, <1>3, <1>4
<1>7. ASSUME NEW b \in AiAdmins, aiReq'[b].alone, aiReq'[b].pc # "idle"
      PROVE  /\ \A c \in AiAdmins \ {b} : aiReq'[c].pc = "idle"
             /\ FoundOut(aiReq[b])'
  <2>1. b = a /\ alone
    BY <1>2, <1>3, <1>4, <1>7
  <2>2. \A c \in AiAdmins \ {a} : aiReq'[c].pc = "idle"
    BY <1>6, <2>1 DEF alone, Alone
  <2>3. aiReq'[a].pc \in {"model", "global"}
    BY <1>6
  <2>4. FoundOut(aiReq[b])'
    BY <2>1, <2>3 DEF FoundOut
  <2> QED
    BY <2>1, <2>2, <2>4
<1> QED
  BY <1>5, <1>6, <1>7 DEF LonelyRequestsKnow

(* A save is asked for, a key is changed.                                  *)
LEMMA AsksKeep ==
  ASSUME AiInv, NEW a \in AiAdmins,
         \/ \E m \in CertModels : AskSave(a, m)
         \/ \E k \in PlatformKeys, to \in {"absent", "off", "on"} : ChangeKey(a, k, to)
  PROVE  AiInv'
<1>1. /\ UNCHANGED <<catalogue, aiConfig, aiCache, aiLoad, panel>> /\ AiChange(FALSE)
      /\ aiReq[a].pc = "idle"
  BY DEF AskSave, ChangeKey, BeginRequest
<1>2. aiHistory' \in [changes : 0..MaxAiChanges, excused : BOOLEAN] /\ aiHistory'.excused = aiHistory.excused
  BY <1>1, UnnotedChange
<1>3. CopiesAreCurrent' /\ PanelFits(panel)'
  BY <1>1 DEF AiInv, CopiesAreCurrent, PanelFits
<1>4. ASSUME NEW m \in CertModels, AskSave(a, m) PROVE AiInv'
  <2> DEFINE request == [NoRequest EXCEPT !.pc = "model", !.model = m]
  <2>1. request \in AiReqType /\ request.pc = "model"
    BY DEF NoRequest, AiReqType, AnyModel
  <2>2. BeginRequest(a, request) /\ aiKeys' = aiKeys
    BY <1>4 DEF AskSave
  <2> HIDE DEF request
  <2>3. /\ aiReq' \in [AiAdmins -> AiReqType] /\ LonelyRequestsKnow'
        /\ \A b \in AiAdmins : aiReq'[b].pc = IF b = a THEN "model" ELSE aiReq[b].pc
    BY <2>1, <2>2, BeginningKeeps
  <2>4. ServiceIsKept'
    BY <1>1, <1>2, <2>2, <2>3, ServiceStays DEF FailoverPcs
  <2> QED
    BY <1>1, <1>2, <1>3, <2>2, <2>3, <2>4 DEF AiInv, AiShapes
<1>5. ASSUME NEW k \in PlatformKeys, NEW to \in {"absent", "off", "on"}, ChangeKey(a, k, to) PROVE AiInv'
  <2> DEFINE request == [NoRequest EXCEPT !.pc = "global"]
  <2>1. request \in AiReqType /\ request.pc = "global"
    BY DEF NoRequest, AiReqType, AnyModel
  <2>2. BeginRequest(a, request) /\ aiKeys' = [aiKeys EXCEPT ![k] = to]
    BY <1>5 DEF ChangeKey
  <2> HIDE DEF request
  <2>3. /\ aiReq' \in [AiAdmins -> AiReqType] /\ LonelyRequestsKnow'
        /\ \A b \in AiAdmins : aiReq'[b].pc = IF b = a THEN "global" ELSE aiReq[b].pc
    BY <2>1, <2>2, BeginningKeeps
  <2>4. ServiceIsKept'
    BY <2>3 DEF ServiceIsKept, FailoverPcs
  <2>5. aiKeys' \in [PlatformKeys -> {"absent", "off", "on"}]
    BY <2>2 DEF AiInv, AiShapes
  <2> QED
    BY <1>1, <1>2, <1>3, <2>3, <2>4, <2>5 DEF AiInv, AiShapes
<1> QED
  BY <1>4, <1>5

(* A request goes on, with what it has found out.                          *)
LEMMA RequestsGoOn ==
  ASSUME AiInv, NEW a \in AiAdmins, aiReq[a].pc # "idle", NEW next \in AiReqType,
         aiReq' = [aiReq EXCEPT ![a] = next],
         next.alone /\ next.pc # "idle" => aiReq[a].alone /\ FoundOut(next)'
  PROVE  aiReq' \in [AiAdmins -> AiReqType] /\ LonelyRequestsKnow'
         /\ \A b \in AiAdmins : aiReq'[b] = IF b = a THEN next ELSE aiReq[b]
<1>1. aiReq' \in [AiAdmins -> AiReqType] /\ \A b \in AiAdmins : aiReq'[b] = IF b = a THEN next ELSE aiReq[b]
  BY DEF AiInv, AiShapes
<1>2. ASSUME NEW b \in AiAdmins, aiReq'[b].alone, aiReq'[b].pc # "idle"
      PROVE  /\ \A c \in AiAdmins \ {b} : aiReq'[c].pc = "idle"
             /\ FoundOut(aiReq[b])'
  <2>1. CASE b # a
    BY <1>1, <1>2, <2>1 DEF AiInv, LonelyRequestsKnow
  <2>2. CASE b = a
    <3>1. aiReq[a].alone /\ FoundOut(next)' /\ aiReq'[b] = next
      BY <1>1, <1>2, <2>2
    <3>2. \A c \in AiAdmins \ {a} : aiReq[c].pc = "idle"
      BY <3>1 DEF AiInv, LonelyRequestsKnow
    <3> QED
      BY <1>1, <2>2, <3>1, <3>2 DEF FoundOut
  <2> QED
    BY <2>1, <2>2
<1> QED
  BY <1>1, <1>2 DEF LonelyRequestsKnow

(* A request ends.                                                         *)
LEMMA EndedRequests ==
  ASSUME AiInv, NEW a \in AiAdmins, aiReq[a].pc # "idle", NEW refresh \in {"no", "sync"}, EndRequest(a, refresh)
  PROVE  /\ aiReq' \in [AiAdmins -> AiReqType] /\ LonelyRequestsKnow'
         /\ \A b \in AiAdmins : aiReq'[b] = IF b = a THEN NoRequest ELSE aiReq[b]
         /\ panel' \in PanelType /\ PanelFits(panel)'
<1>1. aiReq' = [aiReq EXCEPT ![a] = NoRequest] /\ PanelTold(a, refresh)
  BY DEF EndRequest
<1>2. panel' \in PanelType /\ PanelFits(panel)'
  BY <1>1, ToldFits
<1> QED
  BY <1>1, <1>2, AiConstants, RequestsGoOn

(* What a request leaves is excused if it was crossed.                    *)
LEMMA JudgedRequests ==
  ASSUME AiInv, NEW a \in AiAdmins, Judged(a)
  PROVE  /\ aiHistory' \in [changes : 0..MaxAiChanges, excused : BOOLEAN]
         /\ aiHistory'.excused <=> ~aiReq[a].alone
<1> DEFINE excused == ~aiReq[a].alone
<1>1. aiHistory' = [aiHistory EXCEPT !.excused = excused] /\ excused \in BOOLEAN
      /\ aiHistory \in [changes : 0..MaxAiChanges, excused : BOOLEAN]
  BY DEF Judged, AiInv, AiShapes
<1> HIDE DEF excused
<1>2. aiHistory' \in [changes : 0..MaxAiChanges, excused : BOOLEAN] /\ aiHistory'.excused = excused
  BY <1>1
<1> QED
  BY <1>2 DEF excused

(* A save that goes on, or is refused.                                     *)
LEMMA SavingKeeps ==
  ASSUME AiInv, NEW a \in AiAdmins, SaveStep(a) \/ SaveRefused(a)
  PROVE  AiInv'
<1>1. /\ UNCHANGED <<catalogue, aiKeys, aiConfig, aiCache, aiLoad, aiHistory>>
      /\ aiReq[a].pc \in {"model", "keys"} /\ aiReq[a] \in AiReqType
  BY DEF SaveStep, SaveRefused, AiInv, AiShapes
<1>2. CopiesAreCurrent'
  BY <1>1 DEF AiInv, CopiesAreCurrent
<1>3. CASE SaveStep(a)
  <2>1. panel' = panel
    BY <1>3 DEF SaveStep
  <2>2. PICK old \in AiReqType : aiReq[a] = old
    BY <1>1
  <2>3. PICK pc \in {"keys", "write"} :
          /\ aiReq' = [aiReq EXCEPT ![a] = [old EXCEPT !.pc = pc]]
          /\ pc = "write" => UsableKeys(ModelOf[old.model]) # {}
    BY <1>3, <2>2 DEF SaveStep, Advance, AiInv, AiShapes
  <2> DEFINE next == [old EXCEPT !.pc = pc]
  <2>a. old.model \in CertModels
    BY <1>1, <2>2 DEF AiReqType
  <2>4. next \in AiReqType /\ next.pc = pc /\ next.alone = old.alone /\ next.model = old.model
    BY <2>a DEF AiReqType
  <2>5. aiReq' = [aiReq EXCEPT ![a] = next]
    BY <2>3
  <2> HIDE DEF next
  <2>6. FoundOut(next)'
    BY <1>1, <2>3, <2>4 DEF FoundOut, UsableKeys
  <2>7. /\ aiReq' \in [AiAdmins -> AiReqType] /\ LonelyRequestsKnow'
        /\ \A b \in AiAdmins : aiReq'[b] = IF b = a THEN next ELSE aiReq[b]
    BY <1>1, <2>2, <2>4, <2>5, <2>6, RequestsGoOn
  <2>8. ServiceIsKept'
    <3>1. \A b \in AiAdmins : aiReq'[b].pc \notin FailoverPcs => aiReq[b].pc \notin FailoverPcs
      BY <1>1, <2>7 DEF FailoverPcs
    <3> QED
      BY <1>1, <3>1, ServiceStays
  <2> QED
    BY <1>1, <1>2, <2>1, <2>7, <2>8 DEF AiInv, AiShapes, PanelFits
<1>4. CASE SaveRefused(a)
  <2>1. EndRequest(a, "no")
    BY <1>4 DEF SaveRefused
  <2>2. /\ aiReq' \in [AiAdmins -> AiReqType] /\ LonelyRequestsKnow'
        /\ \A b \in AiAdmins : aiReq'[b] = IF b = a THEN NoRequest ELSE aiReq[b]
        /\ panel' \in PanelType /\ PanelFits(panel)'
    BY <1>1, <2>1, EndedRequests
  <2>3. \A b \in AiAdmins : aiReq'[b].pc \notin FailoverPcs => aiReq[b].pc \notin FailoverPcs
    BY <1>1, <2>2 DEF FailoverPcs
  <2>4. ServiceIsKept'
    BY <1>1, <2>3, ServiceStays
  <2> QED
    BY <1>1, <1>2, <2>2, <2>4 DEF AiInv, AiShapes
<1> QED
  BY <1>3, <1>4

(* The configuration is written.                                           *)
LEMMA WritingKeeps ==
  ASSUME AiInv, NEW a \in AiAdmins, SaveWrite(a) \/ SwitchProvider(a)
  PROVE  AiInv'
<1>1. /\ WriteConfig(aiReq[a].model) /\ EndRequest(a, "sync") /\ Judged(a) /\ UNCHANGED <<catalogue, aiKeys>>
      /\ aiReq[a].pc \in {"write", "switch"} /\ aiReq[a].model \in CertModels
  BY DEF SaveWrite, SwitchProvider, AiInv, AiShapes, AiReqType
<1>2. /\ aiReq' \in [AiAdmins -> AiReqType] /\ LonelyRequestsKnow'
      /\ \A b \in AiAdmins : aiReq'[b] = IF b = a THEN NoRequest ELSE aiReq[b]
      /\ panel' \in PanelType /\ PanelFits(panel)'
  BY <1>1, EndedRequests
<1>3. /\ aiHistory' \in [changes : 0..MaxAiChanges, excused : BOOLEAN]
      /\ aiHistory'.excused <=> ~aiReq[a].alone
  BY <1>1, JudgedRequests
<1>4. /\ aiConfig' = aiReq[a].model /\ aiConfig' \in AnyModel /\ aiCache' = NoCopy
      /\ aiLoad' = [aiLoad EXCEPT !.early = aiLoad # NoCopy]
  BY <1>1 DEF WriteConfig, DropCopy, AnyModel
<1>5. aiLoad' \in Copy /\ (aiLoad' # NoCopy => aiLoad'.early)
  <2>1. PICK load \in Copy : aiLoad = load
    BY DEF AiInv, AiShapes
  <2>2. CASE load = NoCopy
    <3>1. aiLoad' = [NoCopy EXCEPT !.early = FALSE]
      BY <1>4, <2>1, <2>2
    <3>2. aiLoad' = NoCopy
      BY <3>1 DEF NoCopy
    <3> QED
      BY <3>2, AiConstants
  <2>3. CASE load # NoCopy
    <3>1. aiLoad' = [load EXCEPT !.early = TRUE]
      BY <1>4, <2>1, <2>3
    <3> QED
      BY <3>1 DEF Copy
  <2> QED
    BY <2>2, <2>3
<1>6. CopiesAreCurrent'
  BY <1>4, <1>5 DEF CopiesAreCurrent
<1>7. ServiceIsKept'
  <2>1. CASE aiReq[a].alone
    <3>1. UsableKeys(ModelOf[aiReq[a].model]) # {}
      BY <1>1, <2>1 DEF AiInv, LonelyRequestsKnow, FoundOut
    <3>2. (UsableKeys(ModelOf[aiConfig]) # {})'
      BY <1>1, <1>4, <3>1 DEF UsableKeys
    <3> QED
      BY <3>2 DEF ServiceIsKept, Served
  <2>2. CASE ~aiReq[a].alone
    BY <1>3, <2>2 DEF ServiceIsKept
  <2> QED
    BY <2>1, <2>2
<1> QED
  BY <1>1, <1>2, <1>3, <1>4, <1>5, <1>6, <1>7, AiConstants DEF AiInv, AiShapes

(* A failover goes on.                                                     *)
LEMMA FailoverKeeps ==
  ASSUME AiInv, NEW a \in AiAdmins, FailoverStep(a) \/ \E p \in AiProviders : TryProvider(a, p)
  PROVE  AiInv'
<1>1. UNCHANGED <<catalogue, aiKeys, aiConfig, aiCache, aiLoad, panel, aiHistory>>
  BY DEF FailoverStep, TryProvider
<1>2. PICK old \in AiReqType : aiReq[a] = old
  BY DEF AiInv, AiShapes
<1>3. /\ aiReq \in [AiAdmins -> AiReqType] /\ aiConfig \in AnyModel
      /\ old.alone /\ old.pc # "idle" => FoundOut(old)
      /\ \A p : UsableKeys(p)' = UsableKeys(p) /\ NoneAt(p)' = NoneAt(p)
  BY <1>1, <1>2 DEF AiInv, AiShapes, LonelyRequestsKnow, UsableKeys, NoneAt, ModelsFor, Certified
<1>4. \E next \in AiReqType :
        /\ aiReq' = [aiReq EXCEPT ![a] = next] /\ old.pc \in FailoverPcs /\ next.pc \in FailoverPcs
        /\ next.alone = old.alone /\ (next.alone => FoundOut(next)')
  <2>1. CASE old.pc = "global" /\ aiConfig # NoModel
             /\ aiReq' = [aiReq EXCEPT ![a].pc = "active", ![a].model = aiConfig]
    <3>a. PICK m \in CertModels : m = aiConfig
      BY <1>3, <2>1 DEF AnyModel
    <3> DEFINE next == [old EXCEPT !.pc = "active", !.model = m]
    <3>1. aiReq' = [aiReq EXCEPT ![a] = next] /\ old.pc = "global"
      BY <1>2, <1>3, <2>1, <3>a
    <3>2. next \in AiReqType /\ next.pc = "active" /\ next.model = m /\ next.alone = old.alone
      BY DEF AiReqType, AnyModel
    <3> HIDE DEF next
    <3>3. FoundOut(next)'
      <4>1. next.model = aiConfig' /\ next.pc = "active"
        BY <1>1, <3>a, <3>2
      <4> QED
        BY <4>1 DEF FoundOut
    <3> QED
      BY <3>1, <3>2, <3>3 DEF FailoverPcs
  <2>2. CASE old.pc = "active" /\ Advance(a, "list")
    <3> DEFINE next == [old EXCEPT !.pc = "list"]
    <3>1. aiReq' = [aiReq EXCEPT ![a] = next]
      BY <1>2, <1>3, <2>2 DEF Advance
    <3>2. next \in AiReqType /\ next.pc = "list" /\ next.alone = old.alone
      BY DEF AiReqType
    <3> HIDE DEF next
    <3>3. FoundOut(next)'
      BY <3>2 DEF FoundOut
    <3> QED
      BY <2>2, <3>1, <3>2, <3>3 DEF FailoverPcs
  <2>3. CASE LET able == {p \in AiProviders : UsableKeys(p) # {}}
             IN  /\ old.pc = "list" /\ able # {}
                 /\ aiReq' = [aiReq EXCEPT ![a].pc = "try", ![a].todo = able]
    <3>a. PICK able \in SUBSET AiProviders : able = {p \in AiProviders : UsableKeys(p) # {}}
      OBVIOUS
    <3> DEFINE next == [old EXCEPT !.pc = "try", !.todo = able]
    <3>1. aiReq' = [aiReq EXCEPT ![a] = next] /\ old.pc = "list"
      BY <1>2, <1>3, <2>3, <3>a
    <3>2. \A p \in AiProviders : /\ p \in able => UsableKeys(p) # {}
                                 /\ p \notin able => NoneAt(p)
      BY <3>a DEF NoneAt
    <3>3. next \in AiReqType /\ next.pc = "try" /\ next.todo = able /\ next.alone = old.alone
      BY DEF AiReqType
    <3> HIDE DEF next
    <3>4. FoundOut(next)'
      <4>1. next.pc = "try" /\ next.todo = able
        BY <3>3
      <4>2. \A p \in AiProviders : /\ p \in able => UsableKeys(p)' # {}
                                   /\ p \notin able => NoneAt(p)'
        BY <1>3, <3>2
      <4> QED
        BY <4>1, <4>2 DEF FoundOut
    <3> QED
      BY <3>1, <3>3, <3>4 DEF FailoverPcs
  <2>4. ASSUME NEW p \in AiProviders, NEW m \in ModelsFor(p), old.pc = "try", p \in old.todo,
               aiReq' = [aiReq EXCEPT ![a].pc = "switch", ![a].model = m, ![a].todo = {}]
        PROVE  \E next \in AiReqType :
                 /\ aiReq' = [aiReq EXCEPT ![a] = next] /\ old.pc \in FailoverPcs /\ next.pc \in FailoverPcs
                 /\ next.alone = old.alone /\ (next.alone => FoundOut(next)')
    <3> DEFINE next == [old EXCEPT !.pc = "switch", !.model = m, !.todo = {}]
    <3>1. aiReq' = [aiReq EXCEPT ![a] = next]
      BY <1>2, <1>3, <2>4
    <3>2. m \in CertModels /\ ModelOf[m] = p
      BY DEF ModelsFor
    <3>3. next \in AiReqType /\ next.pc = "switch" /\ next.model = m /\ next.alone = old.alone
      BY <3>2 DEF AiReqType, AnyModel
    <3> HIDE DEF next
    <3>4. ASSUME next.alone PROVE FoundOut(next)'
      <4>1. UsableKeys(p) # {}
        BY <1>3, <2>4, <3>3, <3>4 DEF FoundOut
      <4>2. UsableKeys(ModelOf[next.model]) # {}
        BY <3>2, <3>3, <4>1
      <4>3. (UsableKeys(ModelOf[next.model]) # {})'
        BY <1>1, <4>2 DEF UsableKeys
      <4> QED
        BY <3>3, <4>3 DEF FoundOut
    <3> QED
      BY <2>4, <3>1, <3>3, <3>4 DEF FailoverPcs
  <2>5. ASSUME NEW p \in AiProviders, old.pc = "try", p \in old.todo, ModelsFor(p) = {},
               aiReq' = [aiReq EXCEPT ![a].todo = @ \ {p}]
        PROVE  \E next \in AiReqType :
                 /\ aiReq' = [aiReq EXCEPT ![a] = next] /\ old.pc \in FailoverPcs /\ next.pc \in FailoverPcs
                 /\ next.alone = old.alone /\ (next.alone => FoundOut(next)')
    <3> DEFINE todo == old.todo \ {p}
               next == [old EXCEPT !.todo = todo]
    <3>1. aiReq' = [aiReq EXCEPT ![a] = next]
      BY <1>2, <1>3, <2>5
    <3>2. todo \in SUBSET AiProviders
      BY DEF AiReqType
    <3> HIDE DEF todo
    <3>3. next \in AiReqType /\ next.pc = "try" /\ next.todo = todo /\ next.alone = old.alone
      BY <2>5, <3>2 DEF AiReqType
    <3> HIDE DEF next
    <3>4. ASSUME next.alone PROVE FoundOut(next)'
      <4>1. \A q \in AiProviders : /\ q \in old.todo => UsableKeys(q) # {}
                                   /\ q \notin old.todo => NoneAt(q)
        BY <1>3, <2>5, <3>3, <3>4 DEF FoundOut
      <4>2. NoneAt(p)
        BY <2>5 DEF NoneAt
      <4>3. \A q \in AiProviders : /\ q \in todo => UsableKeys(q) # {}
                                   /\ q \notin todo => NoneAt(q)
        BY <4>1, <4>2 DEF todo
      <4> QED
        BY <1>3, <3>3, <4>3 DEF FoundOut
    <3> QED
      BY <2>5, <3>1, <3>3, <3>4 DEF FailoverPcs
  <2>6. CASE FailoverStep(a)
    BY <1>2, <2>1, <2>2, <2>3, <2>6 DEF FailoverStep
  <2>7. ASSUME NEW p \in AiProviders, TryProvider(a, p)
        PROVE  \E next \in AiReqType :
                 /\ aiReq' = [aiReq EXCEPT ![a] = next] /\ old.pc \in FailoverPcs /\ next.pc \in FailoverPcs
                 /\ next.alone = old.alone /\ (next.alone => FoundOut(next)')
    <3>1. old.pc = "try" /\ p \in old.todo
      BY <1>2, <2>7 DEF TryProvider
    <3>2. \/ \E m \in ModelsFor(p) :
               aiReq' = [aiReq EXCEPT ![a].pc = "switch", ![a].model = m, ![a].todo = {}]
          \/ ModelsFor(p) = {} /\ aiReq' = [aiReq EXCEPT ![a].todo = @ \ {p}]
      BY <2>7 DEF TryProvider
    <3> QED
      BY <2>4, <2>5, <3>1, <3>2
  <2> QED
    BY <2>6, <2>7
<1>5. PICK next \in AiReqType :
        /\ aiReq' = [aiReq EXCEPT ![a] = next] /\ old.pc \in FailoverPcs /\ next.pc \in FailoverPcs
        /\ next.alone = old.alone /\ (next.alone => FoundOut(next)')
  BY <1>4
<1>6. /\ aiReq' \in [AiAdmins -> AiReqType] /\ LonelyRequestsKnow'
      /\ \A b \in AiAdmins : aiReq'[b] = IF b = a THEN next ELSE aiReq[b]
  <2>1. old.pc # "idle"
    BY <1>5 DEF FailoverPcs
  <2> QED
    BY <1>2, <1>5, <2>1, RequestsGoOn
<1>7. ServiceIsKept'
  BY <1>1, <1>2, <1>5, <1>6, ServiceStays
<1> QED
  BY <1>1, <1>6, <1>7 DEF AiInv, AiShapes, CopiesAreCurrent, PanelFits

(* A failover finds nothing to do, or nothing it could do.                 *)
LEMMA NoFailoverKeeps ==
  ASSUME AiInv, NEW a \in AiAdmins, NoFailover(a)
  PROVE  AiInv'
<1>1. /\ UNCHANGED <<catalogue, aiKeys, aiConfig, aiLoad>> /\ aiCache' = NoCopy
      /\ EndRequest(a, "sync") /\ Judged(a) /\ aiReq[a].pc # "idle"
  BY DEF NoFailover, DropCopy
<1>2. /\ aiReq' \in [AiAdmins -> AiReqType] /\ LonelyRequestsKnow'
      /\ \A b \in AiAdmins : aiReq'[b] = IF b = a THEN NoRequest ELSE aiReq[b]
      /\ panel' \in PanelType /\ PanelFits(panel)'
  BY <1>1, EndedRequests
<1>3. /\ aiHistory' \in [changes : 0..MaxAiChanges, excused : BOOLEAN]
      /\ aiHistory'.excused <=> ~aiReq[a].alone
  BY <1>1, JudgedRequests
<1>4. ServiceIsKept'
  <2>1. CASE aiReq[a].alone
    <3>1. FoundOut(aiReq[a])
      BY <1>1, <2>1 DEF AiInv, LonelyRequestsKnow
    <3>2. Served
      <4>1. CASE aiReq[a].pc = "global" /\ aiConfig = NoModel
        BY <4>1 DEF Served
      <4>2. CASE aiReq[a].pc = "active" /\ UsableKeys(ModelOf[aiReq[a].model]) # {}
        BY <3>1, <4>2 DEF Served, FoundOut
      <4>3. CASE \A p \in AiProviders : UsableKeys(p) = {}
        BY <4>3 DEF Served, NoneAt
      <4>4. ASSUME NEW p \in AiProviders, aiReq[a].pc = "try", aiReq[a].todo = {p}, ModelsFor(p) = {}
            PROVE  Served
        <5>1. \A q \in AiProviders : NoneAt(q)
          BY <3>1, <4>4 DEF FoundOut, NoneAt
        <5> QED
          BY <5>1 DEF Served
      <4> QED
        BY <4>1, <4>2, <4>3, <4>4 DEF NoFailover
    <3> QED
      BY <1>1, <3>2 DEF ServiceIsKept, Served, NoneAt, UsableKeys, ModelsFor, Certified
  <2>2. CASE ~aiReq[a].alone
    BY <1>3, <2>2 DEF ServiceIsKept
  <2> QED
    BY <2>1, <2>2
<1> QED
  BY <1>1, <1>2, <1>3, <1>4, CopiesStay DEF AiInv, AiShapes

(* Every step keeps the invariant.                                         *)
LEMMA AiStep == AiInv /\ [AiNext]_aiVars => AiInv'
<1> SUFFICES ASSUME AiInv, [AiNext]_aiVars PROVE AiInv'
  OBVIOUS
<1>1. CASE UNCHANGED aiVars
  BY <1>1 DEF aiVars, AiInv, AiShapes, CopiesAreCurrent, LonelyRequestsKnow, ServiceIsKept, FoundOut, Served,
              NoneAt, UsableKeys, ModelsFor, Certified, PanelFits
<1>2. ASSUME NEW a \in AiAdmins,
             \/ \E m \in CertModels : MaySave(a, m) /\ AskSave(a, m)
             \/ SaveStep(a) \/ SaveRefused(a) \/ SaveWrite(a)
             \/ \E k \in PlatformKeys : MayChange(a) /\ AddKey(a, k)
             \/ \E k \in PlatformKeys, to \in {"absent", "off", "on"} : MayChange(a) /\ ChangeKey(a, k, to)
             \/ FailoverStep(a) \/ NoFailover(a) \/ SwitchProvider(a)
             \/ \E p \in AiProviders : TryProvider(a, p)
      PROVE  AiInv'
  BY <1>2, AsksKeep, SavingKeeps, WritingKeeps, AddKeyKeeps, FailoverKeeps, NoFailoverKeeps
<1> QED
  BY <1>1, <1>2, PromoteModelKeeps, DeactivateModelKeeps, CopiesKeep, RefreshKeeps, FieldsKeep DEF AiNext

(* The three properties follow.                                            *)
LEMMA AiIsSound == AiInv => CopyIsCurrent /\ ServedWhilePossible /\ PanelSavesWhatItShows
<1> SUFFICES ASSUME AiInv PROVE CopyIsCurrent /\ ServedWhilePossible /\ PanelSavesWhatItShows
  OBVIOUS
<1>1. CopyIsCurrent
  BY DEF AiInv, CopiesAreCurrent, CopyIsCurrent
<1>2. ServedWhilePossible
  BY DEF AiInv, ServiceIsKept, Served, NoneAt, ServedWhilePossible, FailoverPcs
<1>3. PanelSavesWhatItShows
  BY AiConstants DEF AiInv, AiShapes, PanelType, PanelFits, PanelSavesWhatItShows, CanSave
<1> QED
  BY <1>1, <1>2, <1>3

-----------------------------------------------------------------------------
(*****************************************************************************)
(* The certification: sums, quotients and the scores of two attempts, and    *)
(* what an attempt more or less is worth.                                    *)
(*****************************************************************************)

(* The constants of the repository: two attempts, and thresholds that are  *)
(* not below the ones it ships with.                                       *)
AsShipped == AttemptCount = 2 /\ PassThreshold >= 1 /\ RecommendThreshold >= 90

(* An attempt that was made.                                               *)
RunType == [success : BOOLEAN, resume : 0..100, email : 0..100, cost : Nat]

(* The types of a run of the certification: two attempts when it is saved. *)
BenchInv ==
  /\ bench \in [pc : {"idle", "attempt", "saved", "refused"}, runs : Seq(RunType),
                step : Steps, resume : 0..100, cost : Nat]
  /\ bench.pc = "attempt" => Len(bench.runs) < AttemptCount
  /\ bench.pc = "idle" => Len(bench.runs) = 0
  /\ bench.pc = "saved" => Len(bench.runs) = AttemptCount

(* Division: the quotient is where it should be ...                        *)
LEMMA Quotient ==
  ASSUME NEW a \in Nat, NEW d \in Nat \ {0}
  PROVE  /\ a \div d \in Nat
         /\ d * (a \div d) <= a /\ a < d * (a \div d) + d
OBVIOUS

(* ... and grows with what is divided.                                     *)
LEMMA QuotientGrows ==
  ASSUME NEW a \in Nat, NEW b \in Nat, NEW d \in Nat \ {0}, a <= b
  PROVE  a \div d <= b \div d
<1> DEFINE q == a \div d
           r == b \div d
<1>1. q \in Nat /\ r \in Nat /\ d * q <= b /\ b < d * r + d
  BY Quotient
<1>2. ASSUME r < q PROVE FALSE
  <2> HIDE DEF q, r
  <2>1. r + 1 <= q
    BY <1>1, <1>2
  <2>2. d * (r + 1) <= d * q
    BY <1>1, <2>1
  <2>3. d * (r + 1) = d * r + d
    BY <1>1
  <2> QED
    BY <1>1, <2>2, <2>3
<1> QED
  <2> HIDE DEF q, r
  <2>1. q <= r
    BY <1>1, <1>2
  <2> QED
    BY <2>1 DEF q, r

(* The sum of two numbers.                                                 *)
LEMMA TotalOfTwo ==
  ASSUME NEW numbers \in [1..2 -> Nat]
  PROVE  Total(numbers, 2) = numbers[1] + numbers[2]
<1> DEFINE sums == [i \in 0..2 |-> IF i = 0 THEN 0 ELSE IF i = 1 THEN numbers[1] ELSE numbers[1] + numbers[2]]
           Is(f) == f = [i \in 0..2 |-> IF i = 0 THEN 0 ELSE f[i - 1] + numbers[i]]
           sum == CHOOSE f : Is(f)
<1>1. Total(numbers, 2) = sum[2]
  BY DEF Total
<1>2. Is(sums)
  <2>1. \A i \in 0..2 : sums[i] = IF i = 0 THEN 0 ELSE sums[i - 1] + numbers[i]
    OBVIOUS
  <2> QED
    BY <2>1
<1>3. Is(sum)
  <2> HIDE DEF Is
  <2> QED
    BY <1>2
<1>4. sum[0] = 0 /\ sum[1] = sum[0] + numbers[1] /\ sum[2] = sum[1] + numbers[2]
  <2> HIDE DEF sum
  <2> QED
    BY <1>3
<1> QED
  <2> HIDE DEF sum
  <2> QED
    BY <1>1, <1>4

(* The score of two attempts, from how many of them succeeded.             *)
PairScore(r, s) ==
  IF r.success /\ s.success THEN (2 * (ScoreOf(r) + ScoreOf(s)) + 2) \div 4
  ELSE IF r.success THEN ScoreOf(r) ELSE IF s.success THEN ScoreOf(s) ELSE 0

(* The share of two attempts that succeeded.                               *)
PairShare(r, s) ==
  IF r.success /\ s.success THEN 100 ELSE IF r.success \/ s.success THEN 50 ELSE 0

(* The value for money of a score.                                         *)
PairValue(score, cost) ==
  LET value == IF cost = 0 THEN 100 * score ELSE (20 * score + 3 * cost) \div (6 * cost)
  IN  IF value > 100 THEN 100 ELSE value

(* The overall score of all three.                                         *)
PairOverall(score, value, share) == (6 * score + 2 * value + 2 * share + 5) \div 10

(* The score of an attempt is a score, better for a better mail.           *)
LEMMA ScoreIsScore ==
  ASSUME NEW r \in RunType
  PROVE  ScoreOf(r) \in 0..100
BY DEF RunType, ScoreOf, AttemptScore

(* A better mail makes a better attempt.                                   *)
LEMMA BetterMail ==
  ASSUME NEW p \in 0..100, NEW m \in 0..100, NEW n \in 0..100, m <= n
  PROVE  AttemptScore(p, m) <= AttemptScore(p, n)
BY DEF AttemptScore

(* So is that of two attempts, better for better ones.                     *)
LEMMA PairIsScore ==
  ASSUME NEW r \in RunType, NEW s \in RunType
  PROVE  PairScore(r, s) \in 0..100
<1>1. ScoreOf(r) \in 0..100 /\ ScoreOf(s) \in 0..100
  BY ScoreIsScore
<1>2. (2 * (ScoreOf(r) + ScoreOf(s)) + 2) \div 4 \in 0..100
  BY <1>1
<1> QED
  BY <1>1, <1>2 DEF PairScore

(* Two better attempts make a better score.                                *)
LEMMA BetterPair ==
  ASSUME NEW r \in RunType, NEW s \in RunType, NEW t \in RunType, NEW u \in RunType,
         r.success <=> t.success, s.success <=> u.success,
         ScoreOf(r) <= ScoreOf(t), ScoreOf(s) <= ScoreOf(u)
  PROVE  PairScore(r, s) <= PairScore(t, u)
<1>1. /\ ScoreOf(r) \in 0..100 /\ ScoreOf(s) \in 0..100
      /\ ScoreOf(t) \in 0..100 /\ ScoreOf(u) \in 0..100
  BY ScoreIsScore
<1>a. PICK a \in 0..100, b \in 0..100, x \in 0..100, y \in 0..100 :
        a = ScoreOf(r) /\ b = ScoreOf(s) /\ x = ScoreOf(t) /\ y = ScoreOf(u)
  BY <1>1
<1>b. a <= x /\ b <= y
  BY <1>a
<1>2. (2 * (a + b) + 2) \div 4 <= (2 * (x + y) + 2) \div 4
  <2>1. 2 * (a + b) + 2 \in Nat /\ 2 * (x + y) + 2 \in Nat /\ 2 * (a + b) + 2 <= 2 * (x + y) + 2
        /\ 4 \in Nat \ {0}
    BY <1>b
  <2> QED
    BY <2>1, QuotientGrows
<1>3. CASE r.success /\ s.success
  <2>1. PairScore(r, s) = (2 * (a + b) + 2) \div 4 /\ PairScore(t, u) = (2 * (x + y) + 2) \div 4
    BY <1>a, <1>3 DEF PairScore
  <2> QED
    BY <1>2, <2>1
<1>4. CASE r.success /\ ~s.success
  <2>1. PairScore(r, s) = a /\ PairScore(t, u) = x
    BY <1>a, <1>4 DEF PairScore
  <2> QED
    BY <1>b, <2>1
<1>5. CASE ~r.success /\ s.success
  <2>1. PairScore(r, s) = b /\ PairScore(t, u) = y
    BY <1>a, <1>5 DEF PairScore
  <2> QED
    BY <1>b, <2>1
<1>6. CASE ~r.success /\ ~s.success
  <2>1. PairScore(r, s) = 0 /\ PairScore(t, u) = 0
    BY <1>6 DEF PairScore
  <2> QED
    BY <2>1
<1> QED
  BY <1>3, <1>4, <1>5, <1>6

(* The value for money falls with the cost and grows with the score.       *)
LEMMA ValueForMoney ==
  ASSUME NEW s \in 0..100, NEW t \in 0..100, s <= t, NEW c \in Nat, NEW d \in Nat, c <= d
  PROVE  /\ PairValue(s, c) \in 0..100 /\ PairValue(s, d) \in 0..100
         /\ PairValue(s, c) <= PairValue(t, c)
         /\ PairValue(s, d) <= PairValue(s, c)
<1> DEFINE Worth(score, cost) == (20 * score + 3 * cost) \div (6 * cost)
<1>1. ASSUME NEW x \in 0..100, NEW k \in Nat \ {0}
      PROVE  /\ Worth(x, k) \in Nat
             /\ 6 * (k * Worth(x, k)) <= 20 * x + 3 * k
             /\ 20 * x + 3 * k < 6 * (k * Worth(x, k)) + 6 * k
  <2>1. 20 * x + 3 * k \in Nat /\ 6 * k \in Nat \ {0}
    OBVIOUS
  <2>2. Worth(x, k) \in Nat
    BY <2>1, Quotient
  <2>3. (6 * k) * Worth(x, k) <= 20 * x + 3 * k /\ 20 * x + 3 * k < (6 * k) * Worth(x, k) + 6 * k
    BY <2>1, Quotient
  <2> HIDE DEF Worth
  <2>4. (6 * k) * Worth(x, k) = 6 * (k * Worth(x, k))
    BY <2>2
  <2> QED
    BY <2>2, <2>3, <2>4
<1>2. ASSUME c # 0 PROVE Worth(s, c) <= Worth(t, c)
  <2>1. 20 * s + 3 * c \in Nat /\ 20 * t + 3 * c \in Nat /\ 6 * c \in Nat \ {0} /\ 20 * s + 3 * c <= 20 * t + 3 * c
    BY <1>2
  <2> QED
    BY <2>1, QuotientGrows
<1>3. ASSUME c # 0 PROVE Worth(s, d) <= Worth(s, c)
  <2>1. PICK q \in Nat : q = Worth(s, c) /\ 20 * s + 3 * c < 6 * (c * q) + 6 * c
    BY <1>1, <1>3
  <2>a. d \in Nat \ {0}
    BY <1>3
  <2>2. PICK r \in Nat : r = Worth(s, d) /\ 6 * (d * r) <= 20 * s + 3 * d
    BY <1>1, <2>a
  <2>3. ASSUME q < r PROVE FALSE
    <3>1. PICK k \in Nat : r = q + 1 + k
      <4>1. r - q - 1 \in Nat /\ r = q + 1 + (r - q - 1)
        BY <2>3
      <4> QED
        BY <4>1
    <3>2. d * r = d * q + d + d * k /\ d * k \in Nat /\ d * q \in Nat /\ c * q \in Nat
      BY <3>1
    <3>3. PICK e \in Nat : d = c + e
      <4>1. d - c \in Nat /\ d = c + (d - c)
        OBVIOUS
      <4> QED
        BY <4>1
    <3>4. d * q = c * q + e * q /\ e * q \in Nat
      BY <3>3
    <3>5. PICK x \in Nat, y \in Nat, z \in Nat, w \in Nat :
            /\ x = c * q /\ y = e * q /\ z = d * k /\ w = d * r /\ w = (x + y) + d + z
      BY <3>2, <3>4
    <3>6. 20 * s + 3 * c < 6 * x + 6 * c /\ 6 * w <= 20 * s + 3 * d
      BY <2>1, <2>2, <3>5
    <3>7. 20 * s \in Nat /\ c <= d
      OBVIOUS
    <3> QED
      BY <3>5, <3>6, <3>7
  <2> QED
    <3>1. r <= q
      BY <2>3
    <3> QED
      BY <3>1, <2>1, <2>2
<1>4. ASSUME NEW k \in Nat \ {0} PROVE Worth(s, k) <= 100 * s
  <2>1. PICK q \in Nat : q = Worth(s, k) /\ 6 * (k * q) <= 20 * s + 3 * k
    BY <1>1
  <2>2. ASSUME 100 * s < q PROVE FALSE
    <3>1. PICK e \in Nat : k = 1 + e
      <4>1. k - 1 \in Nat /\ k = 1 + (k - 1)
        OBVIOUS
      <4> QED
        BY <4>1
    <3>2. k * q = q + e * q /\ e * q \in Nat
      BY <3>1
    <3>3. e * q >= e
      <4>1. PICK f \in Nat : q = 1 + f
        <5>1. q - 1 \in Nat /\ q = 1 + (q - 1)
          BY <2>2
        <5> QED
          BY <5>1
      <4>2. e * q = e + e * f /\ e * f \in Nat
        BY <4>1
      <4> QED
        BY <4>2
    <3> QED
      BY <2>1, <2>2, <3>1, <3>2, <3>3
  <2> QED
    <3>1. q <= 100 * s
      BY <2>2
    <3> QED
      BY <3>1, <2>1
<1>5. /\ c # 0 => Worth(s, c) \in Nat /\ Worth(t, c) \in Nat
      /\ d # 0 => Worth(s, d) \in Nat
  BY <1>1
<1>6. /\ c # 0 => Worth(s, c) <= Worth(t, c) /\ Worth(s, d) <= Worth(s, c)
      /\ d # 0 => Worth(s, d) <= 100 * s
      /\ c # 0 => d # 0
  BY <1>2, <1>3, <1>4
<1> DEFINE value(score, cost) == IF cost = 0 THEN 100 * score ELSE Worth(score, cost)
<1>7. \A score, cost : PairValue(score, cost) = IF value(score, cost) > 100 THEN 100 ELSE value(score, cost)
  BY DEF PairValue
<1> HIDE DEF Worth
<1>8. /\ value(s, c) \in Nat /\ value(t, c) \in Nat /\ value(s, d) \in Nat
      /\ value(s, c) <= value(t, c) /\ value(s, d) <= value(s, c)
  BY <1>5, <1>6
<1> HIDE DEF value
<1> QED
  BY <1>7, <1>8

(* The overall score grows with all three.                                 *)
LEMMA OverallGrows ==
  ASSUME NEW s \in 0..100, NEW v \in 0..100, NEW h \in 0..100, NEW t \in 0..100, NEW w \in 0..100,
         s <= t, v <= w
  PROVE  PairOverall(s, v, h) <= PairOverall(t, w, h)
BY DEF PairOverall

(* A failed attempt keeps the overall score below ninety, unless the other *)
(* is flawless; two of them make it nothing.                               *)
LEMMA FailureCosts ==
  ASSUME NEW s \in 0..100, NEW v \in 0..100
  PROVE  /\ s < 100 => PairOverall(s, v, 50) < 90
         /\ PairOverall(0, 0, 0) = 0
BY DEF PairOverall

(* A score of nothing has no value, whatever it cost.                      *)
LEMMA NothingForNothing ==
  ASSUME NEW c \in Nat
  PROVE  PairValue(0, c) = 0
<1>1. ASSUME c # 0 PROVE (20 * 0 + 3 * c) \div (6 * c) = 0
  <2>1. PICK q \in Nat : q = (20 * 0 + 3 * c) \div (6 * c) /\ (6 * c) * q <= 20 * 0 + 3 * c
    BY <1>1, Quotient
  <2>2. ASSUME q # 0 PROVE FALSE
    <3>1. PICK f \in Nat : q = 1 + f
      <4>1. q - 1 \in Nat /\ q = 1 + (q - 1)
        BY <2>2
      <4> QED
        BY <4>1
    <3>2. (6 * c) * q = 6 * c + 6 * (c * f) /\ c * f \in Nat
      BY <3>1
    <3> QED
      BY <1>1, <2>1, <3>2
  <2> QED
    BY <2>1, <2>2
<1> QED
  BY <1>1 DEF PairValue

(* What the scores of two attempts are.                                    *)
LEMMA TwoAttempts ==
  ASSUME NEW runs \in Seq(RunType), Len(runs) = 2
  PROVE  /\ DOMAIN runs = 1..2 /\ runs \in [1..2 -> RunType]
         /\ TotalCost(runs) = runs[1].cost + runs[2].cost
         /\ AttemptCount = 2 => ReliabilityScore(runs) = PairShare(runs[1], runs[2])
         /\ CertificationScore(runs) = PairScore(runs[1], runs[2])
<1>1. DOMAIN runs = 1..2 /\ runs \in [1..2 -> RunType]
  BY LenProperties
<1>2. /\ runs[1] \in RunType /\ runs[2] \in RunType
      /\ ScoreOf(runs[1]) \in Nat /\ ScoreOf(runs[2]) \in Nat
      /\ runs[1].cost \in Nat /\ runs[2].cost \in Nat
  <2>1. runs[1] \in RunType /\ runs[2] \in RunType
    BY <1>1
  <2>2. ScoreOf(runs[1]) \in 0..100 /\ ScoreOf(runs[2]) \in 0..100
    BY <2>1, ScoreIsScore
  <2>3. runs[1].cost \in Nat /\ runs[2].cost \in Nat
    BY <2>1 DEF RunType
  <2>4. ScoreOf(runs[1]) \in Nat /\ ScoreOf(runs[2]) \in Nat
    <3>1. \A k \in 0..100 : k \in Nat
      OBVIOUS
    <3> QED
      BY <2>2, <3>1
  <2> QED
    BY <2>1, <2>3, <2>4
<1>3. TotalCost(runs) = runs[1].cost + runs[2].cost
  <2> DEFINE costs == [i \in 1..2 |-> runs[i].cost]
  <2>1. costs \in [1..2 -> Nat] /\ costs[1] = runs[1].cost /\ costs[2] = runs[2].cost
    BY <1>1 DEF RunType
  <2>2. TotalCost(runs) = Total(costs, 2)
    BY <1>1 DEF TotalCost
  <2> HIDE DEF costs
  <2> QED
    BY <2>1, <2>2, TotalOfTwo
<1>4. Total([i \in DOMAIN runs |-> ScoreOf(runs[i])], Len(runs)) = ScoreOf(runs[1]) + ScoreOf(runs[2])
  <2> DEFINE scores == [i \in 1..2 |-> ScoreOf(runs[i])]
  <2>1. scores \in [1..2 -> Nat] /\ scores[1] = ScoreOf(runs[1]) /\ scores[2] = ScoreOf(runs[2])
    <3>1. \A i \in 1..2 : ScoreOf(runs[i]) \in Nat
      BY <1>2
    <3> QED
      BY <3>1
  <2>2. Total([i \in DOMAIN runs |-> ScoreOf(runs[i])], Len(runs)) = Total(scores, 2)
    BY <1>1
  <2> HIDE DEF scores
  <2> QED
    BY <2>1, <2>2, TotalOfTwo
<1> DEFINE good == Successes(runs)
<1>5. good = {i \in {1, 2} : runs[i].success}
  BY <1>1 DEF Successes
<1>6. CASE runs[1].success /\ runs[2].success
  <2>1. Cardinality(good) = 2
    <3>1. Cardinality({1}) = 1 /\ IsFiniteSet({1})
      BY FS_Singleton
    <3>2. good = {1} \cup {2}
      BY <1>5, <1>6
    <3>3. Cardinality({1} \cup {2}) = IF 2 \in {1} THEN Cardinality({1}) ELSE Cardinality({1}) + 1
      BY <3>1, FS_AddElement
    <3> QED
      BY <3>1, <3>2, <3>3
  <2>2. ScoreOf(runs[1]) \in 0..100 /\ ScoreOf(runs[2]) \in 0..100
    BY <1>2, ScoreIsScore
  <2>3. AttemptCount = 2 => ReliabilityScore(runs) = PairShare(runs[1], runs[2])
    BY <1>6, <2>1 DEF ReliabilityScore, PairShare, Percent
  <2>4. CertificationScore(runs) = PairScore(runs[1], runs[2])
    <3> HIDE DEF good
    <3>1. CertificationScore(runs) = (2 * (ScoreOf(runs[1]) + ScoreOf(runs[2])) + 2) \div 4
      BY <1>4, <2>1 DEF CertificationScore, good
    <3> QED
      BY <1>6, <3>1 DEF PairScore
  <2> QED
    BY <1>1, <1>3, <2>3, <2>4
<1>7. CASE ~runs[1].success /\ ~runs[2].success
  <2>1. Cardinality(good) = 0
    <3>1. good = {}
      BY <1>5, <1>7
    <3> QED
      BY <3>1, FS_EmptySet
  <2>3. AttemptCount = 2 => ReliabilityScore(runs) = PairShare(runs[1], runs[2])
    BY <1>7, <2>1 DEF ReliabilityScore, PairShare, Percent
  <2>4. CertificationScore(runs) = PairScore(runs[1], runs[2])
    BY <1>7, <2>1 DEF CertificationScore, PairScore
  <2> QED
    BY <1>1, <1>3, <2>3, <2>4
<1>8. ASSUME NEW i \in {1, 2}, NEW j \in {1, 2}, i # j, runs[i].success, ~runs[j].success
      PROVE  /\ AttemptCount = 2 => ReliabilityScore(runs) = 50
             /\ CertificationScore(runs) = ScoreOf(runs[i])
  <2>1. Cardinality(good) = 1
    <3>1. good = {i}
      BY <1>5, <1>8
    <3> QED
      BY <3>1, FS_Singleton
  <2>2. ScoreOf(runs[j]) = 0 /\ ScoreOf(runs[i]) \in Nat
    BY <1>2, <1>8 DEF ScoreOf
  <2>3. ScoreOf(runs[1]) + ScoreOf(runs[2]) = ScoreOf(runs[i])
    BY <1>2, <1>8, <2>2
  <2>4. CertificationScore(runs) = (2 * ScoreOf(runs[i]) + 1) \div 2
    BY <1>4, <2>1, <2>3 DEF CertificationScore
  <2> QED
    BY <2>1, <2>2, <2>4 DEF ReliabilityScore, Percent
<1>9. CASE runs[1].success /\ ~runs[2].success
  BY <1>1, <1>3, <1>8, <1>9 DEF PairShare, PairScore
<1>10. CASE ~runs[1].success /\ runs[2].success
  BY <1>1, <1>3, <1>8, <1>10 DEF PairShare, PairScore
<1> QED
  BY <1>6, <1>7, <1>9, <1>10

(* ... and their overall score.                                            *)
LEMMA OverallOfTwo ==
  ASSUME NEW runs \in Seq(RunType), Len(runs) = 2, AttemptCount = 2
  PROVE  LET score == PairScore(runs[1], runs[2])
         IN  /\ OverallScore(runs) =
                  PairOverall(score, PairValue(score, runs[1].cost + runs[2].cost), PairShare(runs[1], runs[2]))
             /\ CertificationScore(runs) = score
BY TwoAttempts DEF OverallScore, NormalizedValue, PairOverall, PairValue

(* The score of a parse is a score.                                        *)
LEMMA ParseIsScore ==
  ASSUME NEW f
  PROVE  ResumeScore(f) \in 0..100
<1>1. \A x : IsFiniteSet({x}) /\ Cardinality({x}) = 1
  BY FS_Singleton
<1>2. \A x, y : x # y => IsFiniteSet({x, y}) /\ Cardinality({x, y}) = 2
  <2> SUFFICES ASSUME NEW x, NEW y, x # y PROVE IsFiniteSet({x, y}) /\ Cardinality({x, y}) = 2
    OBVIOUS
  <2>1. /\ IsFiniteSet({x} \cup {y})
        /\ Cardinality({x} \cup {y}) = IF y \in {x} THEN Cardinality({x}) ELSE Cardinality({x}) + 1
    BY <1>1, FS_AddElement
  <2>2. {x} \cup {y} = {x, y} /\ y \notin {x}
    OBVIOUS
  <2>3. Cardinality({x}) = 1
    BY <1>1
  <2>4. Cardinality({x} \cup {y}) = 2
    BY <2>1, <2>2, <2>3
  <2> QED
    BY <2>1, <2>2, <2>4, Zenon
<1>3. /\ IsFiniteSet({"name", "email", "skills3"}) /\ Cardinality({"name", "email", "skills3"}) = 3
      /\ IsFiniteSet({"phone", "location", "summary"}) /\ Cardinality({"phone", "location", "summary"}) = 3
  <2>1. ASSUME NEW x, NEW y, NEW z, x # y, z # x, z # y
        PROVE  IsFiniteSet({x, y, z}) /\ Cardinality({x, y, z}) = 3
    <3>1. IsFiniteSet({x, y}) /\ Cardinality({x, y}) = 2
      BY <1>2, <2>1
    <3>2. /\ IsFiniteSet({x, y} \cup {z})
          /\ Cardinality({x, y} \cup {z}) = IF z \in {x, y} THEN Cardinality({x, y}) ELSE Cardinality({x, y}) + 1
      BY <3>1, FS_AddElement
    <3>3. {x, y} \cup {z} = {x, y, z} /\ z \notin {x, y}
      BY <2>1
    <3> QED
      BY <3>1, <3>2, <3>3
  <2> QED
    BY <2>1
<1>4. /\ IsFiniteSet({"phone", "location", "summary", "projects"})
      /\ Cardinality({"phone", "location", "summary", "projects"}) = 4
  <2>1. /\ IsFiniteSet({"phone", "location", "summary"} \cup {"projects"})
        /\ Cardinality({"phone", "location", "summary"} \cup {"projects"}) =
             IF "projects" \in {"phone", "location", "summary"} THEN Cardinality({"phone", "location", "summary"})
             ELSE Cardinality({"phone", "location", "summary"}) + 1
    BY <1>3, FS_AddElement
  <2>2. /\ {"phone", "location", "summary"} \cup {"projects"} = {"phone", "location", "summary", "projects"}
        /\ "projects" \notin {"phone", "location", "summary"}
    OBVIOUS
  <2> QED
    BY <1>3, <2>1, <2>2
<1>5. ASSUME NEW s, IsFiniteSet(s) PROVE CountOf(s, f) \in Nat /\ CountOf(s, f) <= Cardinality(s)
  <2>1. s \cap f \in SUBSET s
    OBVIOUS
  <2>2. IsFiniteSet(s \cap f) /\ Cardinality(s \cap f) <= Cardinality(s)
    BY <1>5, <2>1, FS_Subset
  <2> QED
    BY <2>2, FS_CardinalityType DEF CountOf
<1>6. PICK k \in Nat : k = CountOf({"name", "email", "skills3"}, f) /\ k <= 3
  BY <1>3, <1>5
<1>7. RequiredScore(f) \in 0..100
  BY <1>6 DEF RequiredScore, Percent
<1>8. /\ CountOf({"phone", "location", "summary", "projects"}, f) \in 0..4
      /\ CountOf({"skills5"}, f) \in 0..1 /\ CountOf({"experience"}, f) \in 0..1
      /\ CountOf({"education"}, f) \in 0..1 /\ CountOf({"skillsFound"}, f) \in 0..1
      /\ CountOf({"nameFound", "emailFound"}, f) \in 0..2
  <2>1. CountOf({"phone", "location", "summary", "projects"}, f) \in 0..4
    BY <1>4, <1>5
  <2>2. \A x : CountOf({x}, f) \in 0..1
    <3> SUFFICES ASSUME NEW x PROVE CountOf({x}, f) \in 0..1
      OBVIOUS
    <3>1. IsFiniteSet({x}) /\ Cardinality({x}) = 1
      BY <1>1
    <3>2. CountOf({x}, f) \in Nat /\ CountOf({x}, f) <= Cardinality({x})
      BY <1>5, <3>1
    <3> QED
      BY <3>1, <3>2
  <2>3. CountOf({"nameFound", "emailFound"}, f) \in 0..2
    <3>1. IsFiniteSet({"nameFound", "emailFound"}) /\ Cardinality({"nameFound", "emailFound"}) = 2
      BY <1>2
    <3>2. CountOf({"nameFound", "emailFound"}, f) \in Nat
          /\ CountOf({"nameFound", "emailFound"}, f) <= Cardinality({"nameFound", "emailFound"})
      BY <1>5, <3>1
    <3> QED
      BY <3>1, <3>2
  <2> QED
    BY <2>1, <2>2, <2>3
<1>9. CompletenessScore(f) \in 0..100 /\ GroundingScore(f) \in 0..100
  BY <1>8 DEF CompletenessScore, GroundingScore
<1>10. PICK a \in 0..100, b \in 0..100, c \in 0..100 :
         a = RequiredScore(f) /\ b = CompletenessScore(f) /\ c = GroundingScore(f)
  BY <1>7, <1>9
<1>11. ResumeScore(f) = (20 * 100 + 25 * a + 30 * b + 25 * c + 50) \div 100
  BY <1>10 DEF ResumeScore
<1> QED
  BY <1>11

(* The bench is idle and empty.                                            *)
LEMMA BenchStart == CertInit => BenchInv
BY EmptySeq DEF CertInit, BenchInv, Steps

(* An attempt that ends is noted.                                          *)
LEMMA EndKeeps ==
  ASSUME BenchInv, NEW run \in RunType, bench.pc = "attempt", EndAttempt(run)
  PROVE  BenchInv'
<1> DEFINE B == [pc : {"idle", "attempt", "saved", "refused"}, runs : Seq(RunType),
                 step : Steps, resume : 0..100, cost : Nat]
           next == Append(bench.runs, run)
           pc == IF Len(bench.runs) + 1 = AttemptCount THEN "saved" ELSE "attempt"
<1>1. bench \in B /\ bench.runs \in Seq(RunType) /\ Len(bench.runs) \in Nat /\ Len(bench.runs) < AttemptCount
  <2>1. bench.runs \in Seq(RunType)
    BY DEF BenchInv
  <2> QED
    BY <2>1, LenProperties DEF BenchInv
<1>2. next \in Seq(RunType) /\ Len(next) = Len(bench.runs) + 1
  BY <1>1, AppendProperties
<1>3. pc \in {"saved", "attempt"} /\ (pc = "saved" => Len(next) = AttemptCount)
      /\ (pc = "attempt" => Len(next) < AttemptCount)
  BY <1>1, <1>2, CertificationAssumption
<1>4. bench' = [bench EXCEPT !.runs = next, !.step = "resume_parse", !.resume = 0, !.cost = 0, !.pc = pc]
  BY DEF EndAttempt
<1>5. PICK to \in {"saved", "attempt"}, made \in Seq(RunType) : to = pc /\ made = next
  BY <1>2, <1>3
<1> HIDE DEF next, pc
<1>6. bench' = [bench EXCEPT !.runs = made, !.step = "resume_parse", !.resume = 0, !.cost = 0, !.pc = to]
  BY <1>4, <1>5
<1>7. "resume_parse" \in Steps
  BY DEF Steps
<1>8. bench' \in B /\ bench'.pc = to /\ bench'.runs = made
  <2>1. PICK old \in B : old = bench
    BY <1>1
  <2>2. PICK first \in Steps : first = "resume_parse"
    BY <1>7
  <2>3. bench' = [old EXCEPT !.runs = made, !.step = first, !.resume = 0, !.cost = 0, !.pc = to]
    BY <1>6, <2>1, <2>2
  <2>4. 0 \in 0..100 /\ 0 \in Nat
    OBVIOUS
  <2> QED
    BY <2>3, <2>4
<1>9. (to = "saved" => Len(made) = AttemptCount) /\ (to = "attempt" => Len(made) < AttemptCount)
  BY <1>3, <1>5
<1> QED
  BY <1>8, <1>9 DEF BenchInv

(* Every step keeps the types of the bench.                                *)
LEMMA BenchStep == BenchInv /\ [CertNext]_bench => BenchInv'
<1> SUFFICES ASSUME BenchInv, [CertNext]_bench PROVE BenchInv'
  OBVIOUS
<1> DEFINE B == [pc : {"idle", "attempt", "saved", "refused"}, runs : Seq(RunType),
                 step : Steps, resume : 0..100, cost : Nat]
<1>a. bench \in B /\ StepCosts \subseteq Nat /\ JudgeScores \subseteq 0..100 /\ AttemptCount \in Nat \ {0}
  BY CertificationAssumption DEF BenchInv
<1>1. CASE bench' = bench
  BY <1>1 DEF BenchInv
<1>2. ASSUME NEW have \in SUBSET TextSources, NEW upload \in BOOLEAN, StartRun(have, upload)
      PROVE  BenchInv'
  <2>1. PICK pc \in {"attempt", "refused"} : bench' = [bench EXCEPT !.pc = pc]
    BY <1>2 DEF StartRun
  <2>2. bench' \in B /\ bench'.pc = pc /\ bench'.runs = bench.runs /\ Len(bench.runs) = 0
    BY <1>a, <1>2, <2>1 DEF StartRun, BenchInv
  <2> QED
    BY <1>a, <2>2 DEF BenchInv
<1>3. ASSUME NEW f \in ParsedResumes, NEW cost \in StepCosts, ParseResume(f, cost)
      PROVE  BenchInv'
  <2>1. PICK score \in 0..100 : score = ResumeScore(f)
    BY ParseIsScore
  <2>2. bench' = [bench EXCEPT !.step = "email_generation", !.resume = score, !.cost = cost]
    BY <1>3, <2>1 DEF ParseResume
  <2>3. bench' \in B /\ bench'.pc = bench.pc /\ bench'.runs = bench.runs
    BY <1>a, <2>2 DEF Steps
  <2> QED
    BY <2>3 DEF BenchInv
<1>4. ASSUME NEW cost \in StepCosts, GenerateEmail(cost)
      PROVE  BenchInv'
  <2>1. PICK c \in Nat : bench' = [bench EXCEPT !.step = "judge_scoring", !.cost = c]
    <3> DEFINE c == bench.cost + cost
    <3>1. c \in Nat
      BY <1>a
    <3>2. bench' = [bench EXCEPT !.step = "judge_scoring", !.cost = c]
      BY <1>4, <1>a DEF GenerateEmail
    <3> HIDE DEF c
    <3> QED
      BY <3>1, <3>2
  <2>2. bench' \in B /\ bench'.pc = bench.pc /\ bench'.runs = bench.runs
    BY <1>a, <2>1 DEF Steps
  <2> QED
    BY <2>2 DEF BenchInv
<1>5. ASSUME NEW score \in JudgeScores, NEW cost \in StepCosts, JudgeEmail(score, cost)
      PROVE  BenchInv'
  <2> DEFINE run == [success |-> TRUE, resume |-> bench.resume, email |-> score, cost |-> bench.cost + cost]
  <2>1. run \in RunType
    BY <1>a DEF RunType
  <2>2. bench.pc = "attempt" /\ EndAttempt(run)
    BY <1>5 DEF JudgeEmail
  <2> HIDE DEF run
  <2> QED
    BY <2>1, <2>2, EndKeeps
<1>6. ASSUME AttemptFails PROVE BenchInv'
  <2> DEFINE run == [success |-> FALSE, resume |-> 0, email |-> 0, cost |-> bench.cost]
  <2>1. run \in RunType
    BY <1>a DEF RunType
  <2>2. bench.pc = "attempt" /\ EndAttempt(run)
    BY <1>6 DEF AttemptFails
  <2> HIDE DEF run
  <2> QED
    BY <2>1, <2>2, EndKeeps
<1> QED
  BY <1>1, <1>2, <1>3, <1>4, <1>5, <1>6 DEF CertNext

(* A run with one attempt better, or cheaper, is rated no worse.           *)
LEMMA BetterRun ==
  ASSUME AsShipped, NEW runs \in Seq(RunType), Len(runs) = 2, NEW better \in Seq(RunType), Len(better) = 2,
         NEW i \in 1..2, \A j \in 1..2 : j # i => better[j] = runs[j],
         better[i].success <=> runs[i].success, ScoreOf(runs[i]) <= ScoreOf(better[i]),
         better[i].cost <= runs[i].cost
  PROVE  OverallScore(runs) <= OverallScore(better)
<1>1. PICK r \in RunType, s \in RunType : r = runs[1] /\ s = runs[2]
  BY TwoAttempts
<1>2. PICK t \in RunType, u \in RunType : t = better[1] /\ u = better[2]
  BY TwoAttempts
<1>3. /\ r.success <=> t.success
      /\ s.success <=> u.success
      /\ ScoreOf(r) <= ScoreOf(t) /\ ScoreOf(s) <= ScoreOf(u)
      /\ t.cost <= r.cost /\ u.cost <= s.cost
      /\ \A x \in {r, s, t, u} : x.cost \in Nat /\ ScoreOf(x) \in 0..100
  <2>1. \A x \in {r, s, t, u} : x.cost \in Nat /\ ScoreOf(x) \in 0..100
    BY ScoreIsScore DEF RunType
  <2>2. CASE i = 1
    <3>1. u = s /\ better[i] = t /\ runs[i] = r
      BY <1>1, <1>2, <2>2
    <3>2. /\ r.success <=> t.success
          /\ ScoreOf(r) <= ScoreOf(t) /\ t.cost <= r.cost
      BY <3>1
    <3>3. ScoreOf(s) <= ScoreOf(s) /\ s.cost <= s.cost
      <4>1. (\A y \in 0..100 : y <= y) /\ \A y \in Nat : y <= y
        OBVIOUS
      <4> QED
        BY <2>1, <4>1, Zenon
    <3> QED
      BY <2>1, <3>1, <3>2, <3>3, Zenon
  <2>3. CASE i = 2
    <3>1. t = r /\ better[i] = u /\ runs[i] = s
      BY <1>1, <1>2, <2>3
    <3>2. /\ s.success <=> u.success
          /\ ScoreOf(s) <= ScoreOf(u) /\ u.cost <= s.cost
      BY <3>1
    <3>3. ScoreOf(r) <= ScoreOf(r) /\ r.cost <= r.cost
      <4>1. (\A y \in 0..100 : y <= y) /\ \A y \in Nat : y <= y
        OBVIOUS
      <4> QED
        BY <2>1, <4>1, Zenon
    <3> QED
      BY <2>1, <3>1, <3>2, <3>3, Zenon
  <2> QED
    BY <2>2, <2>3
<1>4. PICK p \in 0..100, q \in 0..100 : p = PairScore(r, s) /\ q = PairScore(t, u)
  BY PairIsScore
<1>5. p <= q
  BY <1>3, <1>4, BetterPair
<1>6. PICK c \in Nat, d \in Nat : c = t.cost + u.cost /\ d = r.cost + s.cost
  BY <1>3
<1>7. c <= d
  BY <1>3, <1>6
<1>8. PICK v \in 0..100, w \in 0..100, x \in 0..100 :
        v = PairValue(p, d) /\ x = PairValue(p, c) /\ w = PairValue(q, c)
  <2>1. q <= q /\ c <= c
    OBVIOUS
  <2>2. PairValue(p, d) \in 0..100 /\ PairValue(p, c) \in 0..100
    BY <1>5, <1>7, ValueForMoney
  <2>3. PairValue(q, c) \in 0..100
    BY <2>1, ValueForMoney
  <2> QED
    BY <2>2, <2>3
<1>9. v <= x /\ x <= w
  BY <1>5, <1>7, <1>8, ValueForMoney
<1>10. PICK h \in 0..100 : h = PairShare(r, s) /\ h = PairShare(t, u)
  <2>1. PairShare(r, s) = PairShare(t, u) /\ PairShare(r, s) \in 0..100
    BY <1>3 DEF PairShare
  <2> QED
    BY <2>1
<1>11. OverallScore(runs) = PairOverall(p, v, h) /\ OverallScore(better) = PairOverall(q, w, h)
  BY <1>1, <1>2, <1>4, <1>6, <1>8, <1>10, OverallOfTwo DEF AsShipped
<1>12. v <= w
  BY <1>9
<1> QED
  <2>1. PairOverall(p, v, h) <= PairOverall(q, w, h)
    BY <1>5, <1>12, OverallGrows
  <2> QED
    BY <1>11, <2>1, Zenon

(* With the repository's constants, the rating of two attempts is fair.    *)
LEMMA RatingsAreFair == AsShipped /\ BenchInv => RatingIsFair
<1> SUFFICES ASSUME AsShipped, BenchInv, bench.pc = "saved" PROVE RatingIsFair
  BY DEF RatingIsFair
<1>1. PICK runs \in Seq(RunType) : runs = bench.runs /\ Len(runs) = 2
  BY DEF BenchInv, AsShipped
<1>2. PICK r \in RunType, s \in RunType : r = runs[1] /\ s = runs[2]
  BY <1>1, TwoAttempts
<1>3. DOMAIN runs = 1..2
  BY <1>1, TwoAttempts
<1> DEFINE score == PairScore(r, s)
           value == PairValue(score, r.cost + s.cost)
           share == PairShare(r, s)
<1>4. /\ OverallScore(runs) = PairOverall(score, value, share) /\ CertificationScore(runs) = score
      /\ score \in 0..100 /\ value \in 0..100 /\ share \in 0..100
      /\ r.cost + s.cost \in Nat
  <2>1. OverallScore(runs) = PairOverall(score, value, share) /\ CertificationScore(runs) = score
    BY <1>1, <1>2, OverallOfTwo DEF AsShipped
  <2>2. score \in 0..100
    BY PairIsScore
  <2>3. r.cost + s.cost \in Nat
    BY DEF RunType
  <2>4. value \in 0..100
    <3>1. PICK x \in 0..100, k \in Nat : x = score /\ k = r.cost + s.cost
      BY <2>2, <2>3
    <3>2. x <= x /\ k <= k
      OBVIOUS
    <3>3. PairValue(x, k) \in 0..100
      BY <3>2, ValueForMoney
    <3> QED
      BY <3>1, <3>3, Zenon
  <2>5. share \in 0..100
    BY DEF PairShare
  <2> QED
    BY <2>1, <2>2, <2>3, <2>4, <2>5
<1>5. ModelRecommended(runs) => (\A i \in DOMAIN runs : runs[i].success) \/ CertificationScore(runs) = 100
  <2>1. ASSUME ~(r.success /\ s.success), score < 100
        PROVE  ~ModelRecommended(runs)
    <3>1. share = 50 \/ (share = 0 /\ score = 0 /\ value = 0)
      BY <1>4, <2>1, NothingForNothing DEF PairShare, PairScore
    <3>2. PICK x \in 0..100, y \in 0..100, z \in 0..100 : x = score /\ y = value /\ z = share
      BY <1>4
    <3>3. x < 100 /\ OverallScore(runs) = PairOverall(x, y, z)
      BY <1>4, <2>1, <3>2
    <3>4. z = 50 \/ (z = 0 /\ x = 0 /\ y = 0)
      BY <3>1, <3>2
    <3> HIDE DEF score, value, share
    <3>5. PairOverall(x, y, z) < 90
      BY <3>3, <3>4 DEF PairOverall
    <3> QED
      BY <3>3, <3>5, CertificationAssumption DEF ModelRecommended, AsShipped, PairOverall
  <2>2. score = 100 \/ score < 100
    <3>1. \A x \in 0..100 : x = 100 \/ x < 100
      OBVIOUS
    <3> QED
      BY <1>4, <3>1, Zenon
  <2>3. r.success /\ s.success => \A i \in DOMAIN runs : runs[i].success
    BY <1>2, <1>3
  <2> QED
    BY <1>4, <2>1, <2>2, <2>3
<1>6. ModelPasses(runs) => \E i \in DOMAIN runs : runs[i].success
  <2> SUFFICES ASSUME ~r.success, ~s.success
               PROVE  ~ModelPasses(runs)
    BY <1>2, <1>3
  <2>1. share = 0 /\ score = 0 /\ value = 0
    BY <1>4, NothingForNothing DEF PairShare, PairScore
  <2> HIDE DEF score, value, share
  <2> QED
    BY <1>4, <2>1, FailureCosts, CertificationAssumption DEF ModelPasses, AsShipped
<1>7. ASSUME NEW i \in 1..2, runs[i].success, NEW m \in JudgeScores, m >= runs[i].email
      PROVE  OverallScore([runs EXCEPT ![i].email = m]) >= OverallScore(runs)
  <2> DEFINE old == runs[i]
             run == [old EXCEPT !.email = m]
             runs2 == [runs EXCEPT ![i] = run]
  <2>1. old \in RunType /\ m \in 0..100
    BY <1>1, <1>3, TwoAttempts, CertificationAssumption
  <2>2. /\ run \in RunType /\ (run.success <=> old.success) /\ run.cost = old.cost
        /\ run.resume = old.resume /\ run.email = m
    BY <2>1 DEF RunType
  <2>3. ScoreOf(old) <= ScoreOf(run)
    <3>1. old.resume \in 0..100 /\ old.email \in 0..100 /\ old.email <= m
      BY <1>7, <2>1 DEF RunType
    <3>2. AttemptScore(old.resume, old.email) <= AttemptScore(old.resume, m)
      BY <2>1, <3>1, BetterMail
    <3>3. ScoreOf(old) = AttemptScore(old.resume, old.email) /\ ScoreOf(run) = AttemptScore(old.resume, m)
      BY <1>7, <2>2 DEF ScoreOf
    <3> QED
      BY <3>2, <3>3
  <2>4. [runs EXCEPT ![i].email = m] = runs2
    BY <1>1
  <2> HIDE DEF run
  <2>5. runs2 \in Seq(RunType) /\ Len(runs2) = 2 /\ runs2[i] = run
        /\ \A j \in 1..2 : j # i => runs2[j] = runs[j]
    BY <1>1, <2>2, ExceptSeq
  <2> HIDE DEF runs2
  <2>6. /\ runs2[i].success <=> runs[i].success
        /\ ScoreOf(runs[i]) <= ScoreOf(runs2[i]) /\ runs2[i].cost <= runs[i].cost
    <3>1. old.cost <= old.cost
      BY <2>1 DEF RunType
    <3> QED
      BY <2>2, <2>3, <2>5, <3>1
  <2>7. OverallScore(runs) <= OverallScore(runs2)
    BY <1>1, <2>5, <2>6, BetterRun
  <2>8. OverallScore(runs2) >= OverallScore(runs)
    BY <2>7
  <2> QED
    BY <2>4, <2>8, Zenon
<1>8. ASSUME NEW i \in 1..2, NEW c \in StepCosts
      PROVE  OverallScore([runs EXCEPT ![i].cost = @ + c]) <= OverallScore(runs)
  <2> DEFINE old == runs[i]
             cost == old.cost + c
             run == [old EXCEPT !.cost = cost]
             runs2 == [runs EXCEPT ![i] = run]
  <2>1. old \in RunType /\ cost \in Nat /\ old.cost \in Nat /\ cost >= old.cost
    <3>1. old \in RunType
      BY <1>1, <1>3, TwoAttempts
    <3>2. old.cost \in Nat /\ c \in Nat
      BY <3>1, CertificationAssumption DEF RunType
    <3> HIDE DEF old
    <3> QED
      BY <3>1, <3>2
  <2>2. [runs EXCEPT ![i].cost = @ + c] = runs2
    BY <1>1
  <2> HIDE DEF cost
  <2>3. /\ run \in RunType /\ (run.success <=> old.success) /\ run.cost = cost
        /\ run.resume = old.resume /\ run.email = old.email
    BY <2>1 DEF RunType
  <2>4. ScoreOf(run) = ScoreOf(old)
    BY <2>3 DEF ScoreOf
  <2> HIDE DEF run
  <2>5. runs2 \in Seq(RunType) /\ Len(runs2) = 2 /\ runs2[i] = run
        /\ \A j \in 1..2 : j # i => runs2[j] = runs[j]
    BY <1>1, <2>3, ExceptSeq
  <2> HIDE DEF runs2
  <2>6. /\ runs[i].success <=> runs2[i].success
        /\ ScoreOf(runs2[i]) <= ScoreOf(runs[i]) /\ runs[i].cost <= runs2[i].cost
    <3>1. ScoreOf(old) <= ScoreOf(old)
      <4>1. \A y \in 0..100 : y <= y
        OBVIOUS
      <4>2. ScoreOf(old) \in 0..100
        BY <2>1, ScoreIsScore, Zenon
      <4> QED
        BY <4>1, <4>2, Zenon
    <3>2. old.cost <= cost
      BY <2>1
    <3> QED
      BY <2>3, <2>4, <2>5, <3>1, <3>2
  <2>7. \A j \in 1..2 : j # i => runs[j] = runs2[j]
    BY <2>5
  <2>8. OverallScore(runs2) <= OverallScore(runs)
    BY <1>1, <2>5, <2>6, <2>7, BetterRun
  <2> QED
    BY <2>2, <2>8, Zenon
<1> QED
  BY <1>1, <1>3, <1>5, <1>6, <1>7, <1>8 DEF RatingIsFair

(* A model is rated fairly if the repository's constants are kept (two     *)
(* attempts, no threshold below those it ships with), it is offered only   *)
(* when it passed or an administrator insists; a copy of the configuration *)
(* is current unless it was read before a write, a provider with a key is  *)
(* configured while there is one, and the panel saves what it shows        *)
(* (certificationScoring.js, platformAiConfigService.js,                   *)
(* OneTapAiConfigPanel.tsx).                                               *)
THEOREM PlatformAiStaysSound ==
  AsShipped => (CertSpec /\ PromotionSpec /\ AiSpec => []PlatformAiIsSound)
<1> SUFFICES ASSUME AsShipped PROVE CertSpec /\ PromotionSpec /\ AiSpec => []PlatformAiIsSound
  OBVIOUS
<1>1. BenchInv => RatingIsFair
  BY RatingsAreFair
<1> QED
  BY <1>1, BenchStart, BenchStep, PromotionStart, PromotionStep, PromotionsAreEarned, AiStart, AiStep,
     AiIsSound, PTL
     DEF CertSpec, PromotionSpec, AiSpec, PlatformAiIsSound

====
