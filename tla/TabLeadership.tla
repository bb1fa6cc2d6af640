---------------------------- MODULE TabLeadership ----------------------------
(***************************************************************************)
(* Which of a browser's tabs leads.  A lease in localStorage is claimed,   *)
(* renewed and given back without a lock: reading and writing it are two   *)
(* steps, and the other tabs hear of a write by a storage event.  The tab  *)
(* that leads hydrates its registry and then opens the event stream.       *)
(***************************************************************************)
EXTENDS Naturals

CONSTANTS Tabs,
          MaxCloses    \* bound: tabs closed or killed

ASSUME TabAssumption == MaxCloses \in Nat

VARIABLES lease,       \* localStorage
          tab,         \* where a tab is: off, up, between read and write, closing
          leaseRead,   \* what it read
          leads,       \* isLeader
          told,        \* tabs with a storage event to handle
          hydration,   \* of a tab's registry: none, asked, done, failed
          streaming,   \* transportConnected
          closesLeft

tabsVars == <<lease, tab, leaseRead, leads, told, hydration, streaming, closesLeft>>

NoTab == "none"

NoLease == [holder |-> NoTab, expired |-> FALSE]

Running == {t \in Tabs : tab[t] # "off"}

Lease == [holder : Tabs \cup {NoTab}, expired : BOOLEAN]

TabsTypeOK ==
  /\ lease \in Lease
  /\ tab \in [Tabs -> {"off", "up", "claim", "closing"}]
  /\ leaseRead \in [Tabs -> Lease]
  /\ leads \in [Tabs -> BOOLEAN] /\ streaming \in [Tabs -> BOOLEAN]
  /\ told \subseteq Tabs
  /\ hydration \in [Tabs -> {"none", "asked", "done", "failed"}]
  /\ closesLeft \in 0..MaxCloses

TabsInit ==
  /\ lease = NoLease
  /\ tab = [t \in Tabs |-> "off"]
  /\ leaseRead = [t \in Tabs |-> NoLease]
  /\ leads = [t \in Tabs |-> FALSE]
  /\ told = {}
  /\ hydration = [t \in Tabs |-> "none"]
  /\ streaming = [t \in Tabs |-> FALSE]
  /\ closesLeft = MaxCloses

-----------------------------------------------------------------------------
(* writeLease and removeItem: every other tab gets a storage event. *)
WriteLease(t, value) ==
  /\ lease' = value
  /\ told' = told \cup (Running \ {t})

HoldLease(t) == WriteLease(t, [holder |-> t, expired |-> FALSE])

(* readLease in tryClaim, by the watch timer or for a storage event. *)
ReadLease(t) ==
  /\ tab[t] = "up"
  /\ leaseRead' = [leaseRead EXCEPT ![t] = lease]
  /\ tab' = [tab EXCEPT ![t] = "claim"]
  /\ told' = told \ {t}
  /\ UNCHANGED <<lease, leads, hydration, streaming, closesLeft>>

(* start: the first claim; a new tab has an empty registry. *)
Open(t) ==
  /\ tab[t] = "off"
  /\ leaseRead' = [leaseRead EXCEPT ![t] = lease]
  /\ tab' = [tab EXCEPT ![t] = "claim"]
  /\ UNCHANGED <<lease, leads, told, hydration, streaming, closesLeft>>

(* onBecomeLeader: hydrate first, joining a hydration that is under way. *)
BecomeLeader(t) ==
  /\ leads' = [leads EXCEPT ![t] = TRUE]
  /\ IF hydration[t] = "done"
     THEN streaming' = [streaming EXCEPT ![t] = TRUE] /\ UNCHANGED hydration
     ELSE hydration' = [hydration EXCEPT ![t] = "asked"] /\ UNCHANGED streaming

(* onLoseLeadership *)
LoseLeadership(t) ==
  /\ leads' = [leads EXCEPT ![t] = FALSE]
  /\ streaming' = [streaming EXCEPT ![t] = FALSE]
  /\ UNCHANGED hydration

(* A plausible bug: a lease that ran out still counts. *)
FaultyMayClaim(t, read) == read.holder \in {NoTab, t}

(* shouldHoldLease *)
MayClaim(t, read) == read.holder \in {NoTab, t} \/ read.expired

(* The rest of tryClaim, on what was read. *)
Claim(t) ==
  /\ tab[t] = "claim"
  /\ tab' = [tab EXCEPT ![t] = "up"]
  /\ IF MayClaim(t, leaseRead[t])
     THEN /\ HoldLease(t)
          /\ IF leads[t] THEN UNCHANGED <<leads, hydration, streaming>> ELSE BecomeLeader(t)
     ELSE /\ IF leads[t] THEN LoseLeadership(t) ELSE UNCHANGED <<leads, hydration, streaming>>
          /\ UNCHANGED <<lease, told>>
  /\ UNCHANGED <<leaseRead, closesLeft>>

(* The heartbeat writes without reading.  Storage events are handled in    *)
(* milliseconds, before the next timer.                                    *)
Heartbeat(t) ==
  /\ tab[t] = "up" /\ leads[t] /\ t \notin told
  /\ HoldLease(t)
  /\ UNCHANGED <<tab, leaseRead, leads, hydration, streaming, closesLeft>>

(* LEASE_TTL_MS passes without a heartbeat: the holder is gone, or its     *)
(* timers are throttled in the background.                                 *)
ExpireLease ==
  /\ lease.holder # NoTab /\ ~lease.expired /\ told = {}
  /\ lease' = [lease EXCEPT !.expired = TRUE]
  /\ UNCHANGED <<tab, leaseRead, leads, told, hydration, streaming, closesLeft>>

ExpireUnrenewed == lease.holder # NoTab /\ tab[lease.holder] = "off" /\ ExpireLease

(* A plausible bug: the stream is opened whatever happened meanwhile. *)
FaultyMayStream(t) == TRUE

(* connectTransport: only for the tab that leads now. *)
MayStream(t) == leads[t]

(* hydrateBootstrap answers; the awaiting onBecomeLeader goes on. *)
Hydrated(t) ==
  /\ hydration[t] = "asked"
  /\ hydration' = [hydration EXCEPT ![t] = "done"]
  /\ streaming' = [streaming EXCEPT ![t] = @ \/ MayStream(t)]
  /\ UNCHANGED <<lease, tab, leaseRead, leads, told, closesLeft>>

(* The request fails: onBecomeLeader is left with an exception. *)
HydrationFails(t) ==
  /\ hydration[t] = "asked"
  /\ hydration' = [hydration EXCEPT ![t] = "failed"]
  /\ UNCHANGED <<lease, tab, leaseRead, leads, told, streaming, closesLeft>>

(* The function that start returns: read the lease ... *)
StartClosing(t) ==
  /\ tab[t] = "up" /\ closesLeft > 0
  /\ closesLeft' = closesLeft - 1
  /\ tab' = [tab EXCEPT ![t] = "closing"]
  /\ leaseRead' = [leaseRead EXCEPT ![t] = lease]
  /\ UNCHANGED <<lease, leads, told, hydration, streaming>>

Gone(t) ==
  /\ tab' = [tab EXCEPT ![t] = "off"]
  /\ leaseRead' = [leaseRead EXCEPT ![t] = NoLease]
  /\ leads' = [leads EXCEPT ![t] = FALSE]
  /\ streaming' = [streaming EXCEPT ![t] = FALSE]
  /\ hydration' = [hydration EXCEPT ![t] = "none"]

(* ... and remove it, whosever it is by now. *)
Close(t) ==
  /\ tab[t] = "closing"
  /\ Gone(t)
  /\ IF leads[t] /\ leaseRead[t].holder = t
     THEN lease' = NoLease /\ told' = (told \cup Running) \ {t}
     ELSE told' = told \ {t} /\ UNCHANGED lease
  /\ UNCHANGED closesLeft

(* A tab that is killed gives nothing back. *)
Kill(t) ==
  /\ tab[t] # "off" /\ closesLeft > 0
  /\ closesLeft' = closesLeft - 1
  /\ Gone(t)
  /\ told' = told \ {t}
  /\ UNCHANGED lease

TabStep(t) == ReadLease(t) \/ Claim(t) \/ Close(t)

TabsNext ==
  \/ \E t \in Tabs :
       \/ Open(t) \/ TabStep(t)
       \/ Heartbeat(t) \/ StartClosing(t) \/ Kill(t)
       \/ Hydrated(t) \/ HydrationFails(t)
  \/ ExpireLease

ClaimAlone(t) == (\A u \in Tabs \ {t} : tab[u] # "claim") /\ Claim(t)

(* The timers of a running tab fire, requests end, an unrenewed lease runs *)
(* out.  A claim takes microseconds of the watch timer's two seconds: two  *)
(* tabs do not fall into each other's claims every time.                   *)
TabsSpec ==
  /\ TabsInit /\ [][TabsNext]_tabsVars
  /\ \A t \in Tabs : WF_tabsVars(TabStep(t)) /\ WF_tabsVars(Hydrated(t) \/ HydrationFails(t))
  /\ \A t \in Tabs : SF_tabsVars(ClaimAlone(t))
  /\ WF_tabsVars(ExpireUnrenewed)

-----------------------------------------------------------------------------
(* Two tabs may lead for a moment (both read an expired lease, or a        *)
(* heartbeat overwrites a claim), but a leader whose lease is another's    *)
(* always has a storage event to learn it from (tryClaim, onStorage).      *)
StaleLeaderIsTold ==
  \A t \in Tabs : leads[t] /\ tab[t] = "up" /\ lease.holder # t => t \in told

(* A stream is open only in a tab that leads, also when leadership was     *)
(* lost while the registry was being hydrated (connectTransport).          *)
OnlyLeadersStream == \A t \in Tabs : streaming[t] => leads[t]

(* A tab that streams leads, and one that leads wrongly is about to know.  *)
LeadersAreKnown == StaleLeaderIsTold /\ OnlyLeadersStream

(* Leadership settles: as long as a tab runs, there comes a time when      *)
(* exactly one leads, after whatever was closed, killed or throttled.      *)
OneLeaderComes ==
  Running # {} ~> Running = {} \/ \E t \in Tabs : \A u \in Tabs : leads[u] <=> u = t
=============================================================================
