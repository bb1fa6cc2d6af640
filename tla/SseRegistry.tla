----------------------------- MODULE SseRegistry -----------------------------
(***************************************************************************)
(* The registry of one user's event streams in a web process: one response *)
(* per browser tab.  Tabs reconnect before the server has noticed that the *)
(* connection before is gone, so close events, failed writes and the       *)
(* reaper of silent connections reach the registry late.                   *)
(***************************************************************************)
EXTENDS Naturals

CONSTANTS BrowserTabs,   \* tab ids of the user
          MaxStreams     \* bound: connections opened in all

ASSUME RegistryAssumption == MaxStreams \in Nat /\ BrowserTabs # {}

VARIABLES entryOf,       \* connectionsByUserTab: the tab's response, 0 for none
          stream,        \* the responses, in the order of their requests
          streams        \* how many there have been

registryVars == <<entryOf, stream, streams>>

Streams == 1..MaxStreams

(* open: not ended;  beat: a heartbeat has been written within the zombie *)
(* timeout;  heard: its close event was handled;  dropped: history.       *)
StreamRow == [tab : BrowserTabs, open : BOOLEAN, beat : BOOLEAN, heard : BOOLEAN,
              dropped : BOOLEAN]

RegistryTypeOK ==
  /\ streams \in 0..MaxStreams
  /\ stream \in [Streams -> StreamRow]
  /\ entryOf \in [BrowserTabs -> 0..MaxStreams]

RegistryInit ==
  /\ streams = 0
  /\ entryOf = [t \in BrowserTabs |-> 0]
  /\ stream = [s \in Streams |-> [tab |-> CHOOSE t \in BrowserTabs : TRUE, open |-> FALSE,
                                  beat |-> FALSE, heard |-> TRUE, dropped |-> FALSE]]

Begun == 1..streams

(* A plausible bug: whatever the tab has now is removed. *)
FaultyRemoved(s) == [entryOf EXCEPT ![stream[s].tab] = 0]

(* removeConnection: only the entry that is this response's. *)
Removed(s) ==
  [entryOf EXCEPT ![stream[s].tab] = IF @ = s THEN 0 ELSE @]

(* addConnection ends the response the tab had. *)
OpenStream(t) ==
  /\ streams < MaxStreams
  /\ streams' = streams + 1
  /\ stream' = [s \in Streams |->
       IF s = streams + 1
       THEN [tab |-> t, open |-> TRUE, beat |-> TRUE, heard |-> FALSE, dropped |-> FALSE]
       ELSE [stream[s] EXCEPT !.open = @ /\ entryOf[t] # s]]
  /\ entryOf' = [entryOf EXCEPT ![t] = streams + 1]

(* HEARTBEAT_MS: the write, and touchHeartbeat for the entry that is its own. *)
Beat(s) ==
  /\ stream[s].open /\ ~stream[s].heard
  /\ stream' = [stream EXCEPT ![s].beat = @ \/ entryOf[stream[s].tab] = s]
  /\ UNCHANGED <<entryOf, streams>>

(* SSE_ZOMBIE_TIMEOUT_MS without one: the process was busy or suspended. *)
FallSilent(s) ==
  /\ stream[s].open /\ stream[s].beat
  /\ stream' = [stream EXCEPT ![s].beat = FALSE]
  /\ UNCHANGED <<entryOf, streams>>

(* The client goes away; the socket ends before its event is handled. *)
Disconnect(s) ==
  /\ stream[s].open
  /\ stream' = [stream EXCEPT ![s].open = FALSE]
  /\ UNCHANGED <<entryOf, streams>>

(* The close event of a response that ended, whoever ended it: cleanup. *)
HandleClose(s) ==
  /\ ~stream[s].open /\ ~stream[s].heard
  /\ entryOf' = Removed(s)
  /\ stream' = [stream EXCEPT ![s].heard = TRUE]
  /\ UNCHANGED streams

(* sseZombieReaper: every silent entry is ended and removed. *)
ReapZombies ==
  /\ LET Silent(t) == entryOf[t] # 0 /\ ~stream[entryOf[t]].beat
     IN  /\ \E t \in BrowserTabs : Silent(t)
         /\ stream' = [s \in Streams |->
              [stream[s] EXCEPT !.open = @ /\ ~(Silent(stream[s].tab) /\ entryOf[stream[s].tab] = s)]]
         /\ entryOf' = [t \in BrowserTabs |-> IF Silent(t) THEN 0 ELSE entryOf[t]]
  /\ UNCHANGED streams

(* broadcastToUser removes the entries that have ended; a write that finds *)
(* the peer gone ends the response (sseSafeWrite: its removeConnection has *)
(* no tab id and removes nothing), any other exception takes the entry and *)
(* leaves the response open.                                               *)
Broadcast(reset, throws) ==
  LET Entry(s) == entryOf[stream[s].tab] = s
      Live(s)  == s \in Begun /\ Entry(s) /\ stream[s].open
  IN  /\ \A s \in reset \cup throws : Live(s)
      /\ stream' = [s \in Streams |->
           [stream[s] EXCEPT !.open = @ /\ s \notin reset, !.dropped = @ \/ s \in throws]]
      /\ entryOf' = [t \in BrowserTabs |->
           IF entryOf[t] # 0 /\ (~stream[entryOf[t]].open \/ entryOf[t] \in throws)
           THEN 0 ELSE entryOf[t]]
      /\ UNCHANGED streams

RegistryNext ==
  \/ \E t \in BrowserTabs : OpenStream(t)
  \/ \E s \in Begun : Beat(s) \/ FallSilent(s) \/ Disconnect(s) \/ HandleClose(s)
  \/ ReapZombies
  \/ \E reset, throws \in SUBSET Begun : reset \cap throws = {} /\ Broadcast(reset, throws)

RegistrySpec == RegistryInit /\ [][RegistryNext]_registryVars

-----------------------------------------------------------------------------
(* However late the end of a tab's earlier connections is noticed, by      *)
(* their close events, a failed write or the reaper: the newest one, while *)
(* it is open, is the one the tab's events are written to, unless a write  *)
(* to it threw.                                                            *)
NewestIsServed ==
  \A s \in Begun :
    stream[s].open /\ ~stream[s].dropped
      => /\ entryOf[stream[s].tab] = s
         /\ \A later \in s + 1..streams : stream[later].tab # stream[s].tab
=============================================================================
