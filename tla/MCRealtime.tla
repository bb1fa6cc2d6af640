----------------------------- MODULE MCRealtime -----------------------------
(***************************************************************************)
(* The realtime path, from the publication of a change to the screen, with *)
(* the fairness of its components: one of Parts takes steps.               *)
(***************************************************************************)
EXTENDS PublishPipeline, RealtimeStream, ClientStore, TabLeadership, TLC

CONSTANTS Parts

VARIABLE part

OnlyPublish ==
  /\ part = "publish"
  /\ UNCHANGED <<part, streamVars, storeVars, tabsVars>>

OnlyStream ==
  /\ part = "stream"
  /\ UNCHANGED <<part, pubVars, storeVars, tabsVars>>

OnlyStore ==
  /\ part = "store"
  /\ UNCHANGED <<part, pubVars, streamVars, tabsVars>>

OnlyTabs ==
  /\ part = "tabs"
  /\ UNCHANGED <<part, pubVars, streamVars, storeVars>>

(* The other components stay where they begin. *)
MCInit ==
  /\ part \in Parts
  /\ PublishInit
  /\ StreamInit
  /\ part = "stream" \/ streamMode = "memory"
  /\ StoreInit
  /\ TabsInit

MCNext ==
  \/ OnlyPublish /\ PublishNext
  \/ OnlyStream /\ StreamNext
  \/ OnlyStore /\ StoreNext
  \/ OnlyTabs /\ TabsNext

vars == <<part, pubVars, streamVars, storeVars, tabsVars>>

(* The fairness of the components' own specifications. *)
MCFairness ==
  /\ WF_vars(OnlyPublish /\ FlushStep) /\ WF_vars(OnlyPublish /\ BatchTimer)
  /\ WF_vars(OnlyPublish /\ Sweep)
  /\ \A p \in Publishers : WF_vars(OnlyPublish /\ PublisherStep(p))
  /\ WF_vars(OnlyStream /\ ServerStep) /\ WF_vars(OnlyStream /\ ClientStep)
  /\ WF_vars(OnlyStore /\ AskHeal) /\ SF_vars(OnlyStore /\ HealAnswer)
  /\ \A t \in Tabs :
       /\ WF_vars(OnlyTabs /\ TabStep(t))
       /\ WF_vars(OnlyTabs /\ (Hydrated(t) \/ HydrationFails(t)))
       /\ SF_vars(OnlyTabs /\ ClaimAlone(t))
  /\ WF_vars(OnlyTabs /\ ExpireUnrenewed)

MCSpec == MCInit /\ [][MCNext]_vars /\ MCFairness
=============================================================================
