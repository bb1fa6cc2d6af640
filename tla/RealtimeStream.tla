---------------------------- MODULE RealtimeStream ----------------------------
(***************************************************************************)
(* From the fan-out of an event to the screen of the leading tab: the      *)
(* replay buffer of a user, the SSE request with its replay, the client's  *)
(* transport and the coordinator that queues replayed events, feeds the    *)
(* registry and batches what is presented.                                 *)
(*                                                                         *)
(* One user, one tab, one application: event n carries version n, so the   *)
(* registry and the screen are each described by a version.  What the      *)
(* registry does with versions that arrive late is in ClientStore.         *)
(***************************************************************************)
EXTENDS Naturals, Sequences, FiniteSets

CONSTANTS MaxEvents,      \* bound: events published
          MaxCuts,        \* bound: connections lost
          MaxReconnects,  \* MAX_RECONNECTS_PER_WINDOW
          MaxBacklog,     \* MAX_REPLAY_BACKLOG
          Retained        \* MAXLEN_APPROX

ASSUME StreamAssumption ==
  /\ {MaxEvents, MaxCuts, MaxReconnects} \subseteq Nat
  /\ {MaxBacklog, Retained} \subseteq Nat \ {0}

VARIABLES streamMode,    \* redis, or memory for a single process
          lastEvent,     \* event ids allocated, in the order of their clocks
          ownEvents,     \* those published by the process that serves the tab
          appending,     \* ids allocated, not yet appended
          replayBuffer,  \* the user's buffer or stream
          streamTop,     \* highest id the stream ever had
          expiredTo,     \* ids up to this one are older than the retention
          fanningOut,    \* ids appended, not yet fanned out
          conn,          \* the SSE request
          phase,         \* of the client's transport
          reconnects,    \* reconnectCount
          cutsLeft,
          lastEventId,   \* the cursor in sessionStorage, 0 when there is none
          replayQueue,
          replayCount,
          recovery,      \* runReconnectRecovery
          preHydration,  \* preHydrationBuffer
          known,         \* the registry's version
          batched,       \* pending in the batch processor, 0 when nothing is
          shown          \* the version on the screen

serverVars == <<streamMode, lastEvent, ownEvents, appending, replayBuffer, streamTop,
                expiredTo, fanningOut>>
tabVars == <<replayQueue, replayCount, recovery, preHydration, known, batched, shown>>
linkVars == <<phase, reconnects, cutsLeft, lastEventId>>
streamVars == <<serverVars, conn, linkVars, tabVars>>

Events == 1..MaxEvents

ReplayEnd == 0

(* owed: what the request must carry: the buffered events after its cursor *)
(* when it came, and everything fanned out to it since.  unread: history,  *)
(* the buffer could not be read, and "unavailable" passes for an answer.   *)
NoConn == [pc |-> "none", from |-> 0, wire |-> <<>>, owed |-> {}, written |-> {},
           fetched |-> {}, unread |-> FALSE]

NoRecovery == [tier |-> 0, atLeast |-> 0]

HighestOf(S) == IF S = {} THEN 0 ELSE CHOOSE n \in S : \A m \in S : m <= n

StreamTypeOK ==
  /\ {lastEvent, streamTop, expiredTo, lastEventId, known, batched, shown} \subseteq 0..MaxEvents
  /\ ownEvents \cup appending \cup replayBuffer \cup fanningOut \subseteq Events
  /\ conn.pc \in {"none", "reading", "fetched", "replayed", "failed", "live"}
  /\ conn.from \in 0..MaxEvents /\ conn.wire \in Seq(0..MaxEvents)
  /\ conn.owed \cup conn.written \cup conn.fetched \subseteq Events
  /\ phase \in {"idle", "replaying", "live", "stopped"}
  /\ reconnects \in 0..MaxReconnects + 1 /\ cutsLeft \in 0..MaxCuts
  /\ replayQueue \in Seq(Events) /\ preHydration \subseteq Events
  /\ recovery.tier \in {0, 2, 3}

StreamInit ==
  /\ streamMode \in {"memory", "redis"}
  /\ lastEvent = 0 /\ ownEvents = {} /\ appending = {}
  /\ replayBuffer = {} /\ streamTop = 0 /\ expiredTo = 0 /\ fanningOut = {}
  /\ conn = NoConn
  /\ phase = "idle" /\ reconnects = 0 /\ cutsLeft = MaxCuts /\ lastEventId = 0
  /\ replayQueue = <<>> /\ replayCount = 0
  /\ recovery = NoRecovery /\ preHydration = {}
  /\ known = 0 /\ batched = 0 /\ shown = 0

-----------------------------------------------------------------------------
(* The server: publication and retention *)

Unexpired(ids) == {n \in ids : n > expiredTo}

Newest(ids) == {n \in ids : Cardinality({m \in ids : m > n}) < Retained}

(* appendReplayEvent allocates the id; in memory it appends, and drops     *)
(* what is too much or too old, in the same step.                          *)
PublishInMemory ==
  /\ streamMode = "memory"
  /\ lastEvent < MaxEvents
  /\ lastEvent' = lastEvent + 1
  /\ replayBuffer' = Unexpired(Newest(replayBuffer \cup {lastEvent'}))
  /\ fanningOut' = fanningOut \cup {lastEvent'}
  /\ UNCHANGED <<streamMode, ownEvents, appending, streamTop, expiredTo, conn, linkVars, tabVars>>

AllocateId(own) ==
  /\ streamMode = "redis"
  /\ lastEvent < MaxEvents
  /\ lastEvent' = lastEvent + 1
  /\ appending' = appending \cup {lastEvent'}
  /\ ownEvents' = IF own THEN ownEvents \cup {lastEvent'} ELSE ownEvents
  /\ UNCHANGED <<streamMode, replayBuffer, streamTop, expiredTo, fanningOut, conn,
                 linkVars, tabVars>>

(* MAXLEN "~": at least the newest entries are kept. *)
Trimmed(ids, kept) ==
  /\ \E low \in 0..lastEvent : kept = {n \in ids : n > low}
  /\ Newest(ids) \subseteq kept

(* XADD fails, or refuses an id that is not above the stream's top, which  *)
(* another process may have raised; the event is fanned out all the same.  *)
AppendToStream(n) ==
  /\ n \in appending
  /\ appending' = appending \ {n}
  /\ \/ n > streamTop /\ Trimmed(replayBuffer \cup {n}, replayBuffer') /\ streamTop' = n
     \/ UNCHANGED <<replayBuffer, streamTop>>
  /\ fanningOut' = fanningOut \cup {n}
  /\ UNCHANGED <<streamMode, lastEvent, ownEvents, expiredTo, conn, linkVars, tabVars>>

(* The clock passes the retention of an event. *)
Expire ==
  /\ expiredTo < lastEvent
  /\ expiredTo' = expiredTo + 1
  /\ UNCHANGED <<streamMode, lastEvent, ownEvents, appending, replayBuffer, streamTop,
                 fanningOut, conn, linkVars, tabVars>>

(* trimExpiredStreams *)
TrimStream ==
  /\ streamMode = "redis"
  /\ replayBuffer' = Unexpired(replayBuffer)
  /\ UNCHANGED <<streamMode, lastEvent, ownEvents, appending, streamTop, expiredTo, fanningOut,
                 conn, linkVars, tabVars>>

(* A message that returns from Redis to the process that published it is   *)
(* taken for a duplicate (wasAlreadyEmitted in the subscriber).            *)
Reaches(n) == streamMode = "memory" \/ n \notin ownEvents

(* A plausible bug: registered once the replay is written. *)
FaultyRegistered == conn.pc \in {"replayed", "live"}

(* addConnection comes before the replay is read: a request is broadcast   *)
(* to from its first moment.                                               *)
Registered == conn.pc # "none"

(* fanOutRealtimePayload, the gateway's or the bridge's handler and        *)
(* broadcastToUser.                                                        *)
FanOutToTab(n) ==
  /\ n \in fanningOut
  /\ fanningOut' = fanningOut \ {n}
  /\ conn' = IF conn.pc = "none" \/ ~Reaches(n) THEN conn
             ELSE [conn EXCEPT !.owed = @ \cup {n},
                     !.wire = IF Registered THEN Append(@, n) ELSE @,
                     !.written = IF Registered THEN @ \cup {n} ELSE @]
  /\ UNCHANGED <<streamMode, lastEvent, ownEvents, appending, replayBuffer, streamTop, expiredTo,
                 linkVars, tabVars>>

-----------------------------------------------------------------------------
(* The request and its replay *)

(* readReplayAfter: in memory a cursor that is not in the buffer gives the *)
(* whole buffer.                                                           *)
Replayed(from) ==
  IF streamMode = "redis" THEN {n \in replayBuffer : n > from}
  ELSE {n \in Unexpired(replayBuffer) : from \notin replayBuffer \/ n > from}

(* The status is ok.  Else it is "miss" or "expired", and setting a header *)
(* once they are flushed throws: the request stays open, and no replay.end *)
(* is ever written.                                                        *)
ReplayAnswers(from) == Replayed(from) # {} \/ (streamMode = "memory" /\ replayBuffer = {})

InOrder(ids) == CHOOSE s \in [1..Cardinality(ids) -> ids] :
                  \A i, j \in 1..Cardinality(ids) : i < j => s[i] < s[j]

(* A plausible bug: nothing is written when there is nothing to replay. *)
FaultyReplayFrames(ids) == InOrder(ids) \o (IF ids = {} THEN <<>> ELSE <<ReplayEnd>>)

ReplayFrames(ids) == InOrder(ids) \o <<ReplayEnd>>

WithReplay(request) ==
  IF ReplayAnswers(request.from)
  THEN [request EXCEPT !.pc = "fetched", !.fetched = Replayed(request.from)]
  ELSE [request EXCEPT !.pc = "failed"]

(* connect() and streamRealtimeController up to its first await, by which  *)
(* a buffer in memory has been read.  The phase follows from whether the   *)
(* client sent a cursor.  The back-off outlasts the flush intervals.       *)
Connect ==
  /\ conn.pc = "none" /\ phase = "idle" /\ batched = 0
  /\ LET asked == [NoConn EXCEPT !.pc = "reading", !.from = lastEventId,
                     !.owed = {n \in Unexpired(replayBuffer) : n > lastEventId}]
     IN  conn' = CASE lastEventId = 0 -> [NoConn EXCEPT !.pc = "live"]
                   [] lastEventId # 0 /\ streamMode = "redis" -> asked
                   [] lastEventId # 0 /\ streamMode = "memory" -> WithReplay(asked)
  /\ phase' = IF lastEventId = 0 THEN "live" ELSE "replaying"
  /\ UNCHANGED <<serverVars, reconnects, cutsLeft, lastEventId, tabVars>>

(* Redis has read the stream, and its answer is on its way; or it cannot,  *)
(* and the request goes on with nothing ...                                *)
ReadReplay ==
  /\ conn.pc = "reading"
  /\ conn' \in {WithReplay(conn), [conn EXCEPT !.pc = "fetched", !.unread = TRUE]}
  /\ UNCHANGED <<serverVars, linkVars, tabVars>>

(* ... and what there is is written, after what was broadcast meanwhile. *)
WriteReplay ==
  /\ conn.pc = "fetched"
  /\ conn' = [conn EXCEPT !.pc = "replayed", !.fetched = {},
                !.wire = @ \o ReplayFrames(conn.fetched),
                !.written = @ \cup conn.fetched]
  /\ UNCHANGED <<serverVars, linkVars, tabVars>>

(* scheduleReconnect: more than so many in a window and the transport      *)
(* stops for good; the window may have passed (anew).                      *)
ScheduleReconnect(anew) ==
  LET count == (IF anew THEN 0 ELSE reconnects) + 1
  IN  /\ reconnects' = count
      /\ phase' = IF count > MaxReconnects THEN "stopped" ELSE "idle"

(* The connection breaks, or no heartbeat comes: what is on the wire is lost. *)
Cut(anew) ==
  /\ conn.pc # "none"
  /\ cutsLeft > 0
  /\ cutsLeft' = cutsLeft - 1
  /\ conn' = NoConn
  /\ ScheduleReconnect(anew)
  /\ UNCHANGED <<serverVars, lastEventId, tabVars>>

(* The serving process restarts: a buffer in memory is lost. *)
RestartServer(anew) ==
  /\ conn.pc # "none"
  /\ cutsLeft > 0
  /\ cutsLeft' = cutsLeft - 1
  /\ conn' = NoConn
  /\ ScheduleReconnect(anew)
  /\ IF streamMode = "memory" THEN replayBuffer' = {} /\ fanningOut' = {}
     ELSE UNCHANGED <<replayBuffer, fanningOut>>
  /\ UNCHANGED <<streamMode, lastEvent, ownEvents, appending, streamTop, expiredTo,
                 lastEventId, tabVars>>

-----------------------------------------------------------------------------
(* The client *)

(* An accepted event raises the registry's version and joins the batch. *)
Present(n) ==
  /\ known' = HighestOf({known, n})
  /\ batched' = IF n >= known THEN n ELSE batched

(* handleFrame, for an event *)
ReceiveEvent ==
  /\ conn.wire # <<>> /\ Head(conn.wire) # ReplayEnd
  /\ conn' = [conn EXCEPT !.wire = Tail(@)]
  /\ LET n == Head(conn.wire)
     IN  /\ lastEventId' = n
         /\ CASE phase = "replaying" ->
                   /\ replayQueue' = IF Len(replayQueue) >= MaxBacklog THEN <<n>>
                                     ELSE Append(replayQueue, n)
                   /\ replayCount' = 1
                   /\ UNCHANGED <<preHydration, known, batched>>
              [] phase # "replaying" /\ recovery.tier = 3 ->
                   /\ preHydration' = preHydration \cup {n}
                   /\ UNCHANGED <<replayQueue, replayCount, known, batched>>
              [] OTHER ->
                   /\ Present(n)
                   /\ UNCHANGED <<replayQueue, replayCount, preHydration>>
  /\ UNCHANGED <<serverVars, phase, reconnects, cutsLeft, recovery, shown>>

QueuedIds == {replayQueue[i] : i \in DOMAIN replayQueue}

(* processReplayQueue: the batch processor is paused meanwhile, so that    *)
(* nothing that is replayed joins the batch, and flushNow then empties it  *)
(* without handing it on.                                                  *)
ProcessReplayQueue ==
  /\ known' = HighestOf(QueuedIds \cup {known})
  /\ batched' = 0
  /\ replayQueue' = <<>>

(* runReconnectRecovery: the tier depends on how long the tab was away;    *)
(* tier 2 asks for the applications that are not terminal, tier 3 may be   *)
(* refused by its guard.                                                   *)
Recovers ==
  \/ (replayCount > 0) /\ recovery' = NoRecovery
  \/ recovery' = [tier |-> 2, atLeast |-> lastEvent]
  \/ recovery' \in {[tier |-> 3, atLeast |-> lastEvent], NoRecovery}

ReceiveReplayEnd ==
  /\ conn.wire # <<>> /\ Head(conn.wire) = ReplayEnd
  /\ conn' = [conn EXCEPT !.wire = Tail(@)]
  /\ phase' = "live"
  /\ ProcessReplayQueue
  /\ Recovers
  /\ replayCount' = 0
  /\ UNCHANGED <<serverVars, reconnects, cutsLeft, lastEventId, preHydration, shown>>

(* runTier2TargetedHeal: a status goes the way of an event. *)
Tier2Answer ==
  /\ recovery.tier = 2
  /\ \E v \in recovery.atLeast..lastEvent : Present(v)
  /\ recovery' = NoRecovery
  /\ UNCHANGED <<serverVars, conn, linkVars, replayQueue, replayCount, preHydration, shown>>

(* hydrateBootstrap: the registry becomes the snapshot, then what came     *)
(* meanwhile is applied.                                                   *)
Tier3Answer ==
  /\ recovery.tier = 3
  /\ \E v \in recovery.atLeast..lastEvent :
       LET newer == {n \in preHydration : n >= v}
       IN  /\ known' = HighestOf({v} \cup newer)
           /\ batched' = HighestOf({batched} \cup newer)
  /\ recovery' = NoRecovery /\ preHydration' = {}
  /\ UNCHANGED <<serverVars, conn, linkVars, replayQueue, replayCount, shown>>

(* The timers of the batch processor and of the cache batcher. *)
FlushBatch ==
  /\ batched > 0
  /\ shown' = batched
  /\ batched' = 0
  /\ UNCHANGED <<serverVars, conn, linkVars, replayQueue, replayCount, recovery, preHydration, known>>

-----------------------------------------------------------------------------
ServerStep == \/ \E n \in Events : AppendToStream(n) \/ FanOutToTab(n)
              \/ ReadReplay \/ WriteReplay

ClientStep == \/ Connect \/ ReceiveEvent \/ ReceiveReplayEnd
              \/ Tier2Answer \/ Tier3Answer \/ FlushBatch

StreamNext ==
  \/ PublishInMemory
  \/ \E own \in BOOLEAN : AllocateId(own)
  \/ Expire
  \/ TrimStream
  \/ \E anew \in BOOLEAN : Cut(anew) \/ RestartServer(anew)
  \/ ServerStep
  \/ ClientStep

(* What is sent is handled: both event loops run, TCP delivers or breaks. *)
StreamSpec ==
  /\ StreamInit /\ [][StreamNext]_streamVars
  /\ WF_streamVars(ServerStep) /\ WF_streamVars(ClientStep)

-----------------------------------------------------------------------------
(* What the buffer need not hold any more. *)
Outlived == 1..expiredTo \cup {n \in Events : n + Retained <= lastEvent}

(* A replay that is answered leaves no gap: what was buffered when the     *)
(* request came and what was fanned out while its replay was read is all   *)
(* on its connection (streamRealtimeController registers, then reads),     *)
(* unless Redis could not be read.                                         *)
AnsweredReplayHasNoGap ==
  conn.pc = "replayed" /\ ~conn.unread => conn.owed \subseteq conn.written \cup Outlived

(* A tab that replays goes live, loses its connection, or waits for an     *)
(* answer whose status was "miss" or "expired" (see ReplayAnswers).        *)
ReplayEnds == phase = "replaying" ~> phase # "replaying" \/ conn.pc = "failed"
=============================================================================
