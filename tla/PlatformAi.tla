------------------------------ MODULE PlatformAi ------------------------------
(***************************************************************************)
(* The AI the platform offers its users: the certified models, the         *)
(* platform's keys, the one model that is configured, the copy of that     *)
(* configuration a process keeps for 30 seconds, and the administrators'   *)
(* panel.  When a changed key leaves the configured provider without any,  *)
(* the same request looks for another provider, statement by statement.    *)
(***************************************************************************)
EXTENDS Certification, ModelPromotion

CONSTANTS AiProviders, CertModels, PlatformKeys,
          ModelOf,        \* certified model -> its provider
          KeyOf,          \* key -> its provider
          NoModel, NoProvider,
          AiAdmins,       \* requests of administrators; one is of the panel modelled here
          PanelAdmin,
          MaxAiChanges    \* bound: changes to keys, models and configuration

ASSUME PlatformAiAssumption ==
  /\ ModelOf \in [CertModels -> AiProviders] /\ KeyOf \in [PlatformKeys -> AiProviders]
  /\ NoModel \notin CertModels /\ NoProvider \notin AiProviders /\ AiProviders # {}
  /\ PanelAdmin \in AiAdmins /\ MaxAiChanges \in Nat

VARIABLES catalogue,  \* curated_ai_models: is_active, certified
          aiKeys,     \* platform_ai_credentials: absent, off (inactive, or of weight 0), on
          aiConfig,   \* platform_ai_global_config: the model
          aiCache,    \* the process's copy
          aiLoad,     \* the copy being read
          aiReq,      \* administrator -> the request under way
          panel,      \* OneTapAiConfigPanel
          aiHistory   \* changes; whether a gap was left by what no failover looks at

aiVars == <<catalogue, aiKeys, aiConfig, aiCache, aiLoad, aiReq, panel, aiHistory>>

AnyModel == CertModels \cup {NoModel}

Copy == [model : AnyModel, usable : BOOLEAN, early : BOOLEAN]   \* early: read before a write

NoCopy == [model |-> NoModel, usable |-> FALSE, early |-> FALSE]

AiTypeOK ==
  /\ catalogue \in [CertModels -> [active : BOOLEAN, certified : BOOLEAN]]
  /\ aiKeys \in [PlatformKeys -> {"absent", "off", "on"}]
  /\ aiConfig \in AnyModel
  /\ aiCache \in Copy /\ aiLoad \in Copy
  /\ \A a \in AiAdmins :
       /\ aiReq[a].pc \in {"idle", "model", "keys", "write", "global", "active", "list", "try",
                           "switch"}
       /\ aiReq[a].model \in AnyModel /\ aiReq[a].todo \subseteq AiProviders
       /\ aiReq[a].alone \in BOOLEAN
  /\ panel.provider \in AiProviders \cup {NoProvider}
  /\ panel.model \in AnyModel /\ panel.options \subseteq CertModels
  /\ panel.loading \in AiProviders \cup {NoProvider} /\ panel.listed \in BOOLEAN
  /\ panel.keys \subseteq PlatformKeys /\ panel.config \in AnyModel
  /\ panel.refresh \in {"no", "plain", "sync"}
  /\ aiHistory \in [changes : 0..MaxAiChanges, excused : BOOLEAN]

NoRequest == [pc |-> "idle", model |-> NoModel, todo |-> {}, alone |-> TRUE]

SavedProvider(m) == IF m = NoModel THEN NoProvider ELSE ModelOf[m]

UsableKeys(p) == {k \in PlatformKeys : KeyOf[k] = p /\ aiKeys[k] = "on"}

(* Nothing is configured yet, or some model whose provider has a key. *)
AiInit ==
  /\ catalogue = [m \in CertModels |-> [active |-> TRUE, certified |-> TRUE]]
  /\ aiKeys = [k \in PlatformKeys |-> "on"]
  /\ aiConfig \in {m \in AnyModel : m = NoModel \/ UsableKeys(ModelOf[m]) # {}}
  /\ aiCache = NoCopy /\ aiLoad = NoCopy
  /\ aiReq = [a \in AiAdmins |-> NoRequest]
  /\ panel = [provider |-> NoProvider, model |-> NoModel, options |-> {}, loading |-> NoProvider,
              listed |-> FALSE, keys |-> {}, config |-> NoModel, refresh |-> "sync"]
  /\ aiHistory = [changes |-> 0, excused |-> FALSE]

-----------------------------------------------------------------------------
(* Models, keys, configuration *)

Certified(m) == catalogue[m].active /\ catalogue[m].certified

ModelsFor(p) == {m \in CertModels : ModelOf[m] = p /\ Certified(m)}

AiChange(more) ==
  /\ aiHistory.changes < MaxAiChanges
  /\ aiHistory' = [changes |-> aiHistory.changes + 1, excused |-> aiHistory.excused \/ more]

(* Whatever comes between the statements of a request ends its loneliness. *)
Crossed == [a \in AiAdmins |-> [aiReq[a] EXCEPT !.alone = aiReq[a].pc = "idle"]]

(* Promoting and withdrawing a model is one statement each; neither looks  *)
(* at the configuration or at its copies.                                  *)
PromoteModel(m) ==
  /\ AiChange(TRUE)
  /\ catalogue' = [catalogue EXCEPT ![m] = [active |-> TRUE, certified |-> TRUE]]
  /\ aiReq' = Crossed
  /\ UNCHANGED <<aiKeys, aiConfig, aiCache, aiLoad, panel>>

DeactivateModel(m) ==
  /\ AiChange(FALSE)
  /\ catalogue' = [catalogue EXCEPT ![m] = [active |-> FALSE, certified |-> FALSE]]
  /\ UNCHANGED <<aiKeys, aiConfig, aiCache, aiLoad, aiReq, panel>>

(* A write that is answered drops the process's copy; a copy being read is *)
(* stored all the same.                                                    *)
DropCopy == aiCache' = NoCopy

WriteConfig(m) ==
  /\ aiConfig' = m /\ DropCopy
  /\ aiLoad' = [aiLoad EXCEPT !.early = aiLoad # NoCopy]

(* A user's request needs the configuration.  An absent one is not kept.   *)
ReadConfig ==
  /\ aiCache = NoCopy /\ aiLoad = NoCopy /\ aiConfig # NoModel
  /\ aiLoad' = [model |-> aiConfig, usable |-> Certified(aiConfig), early |-> FALSE]
  /\ UNCHANGED <<catalogue, aiKeys, aiConfig, aiCache, aiReq, panel, aiHistory>>

KeepCopy ==
  /\ aiLoad # NoCopy
  /\ aiCache' = aiLoad /\ aiLoad' = NoCopy
  /\ UNCHANGED <<catalogue, aiKeys, aiConfig, aiReq, panel, aiHistory>>

CopyExpires ==
  /\ aiCache # NoCopy /\ aiCache' = NoCopy
  /\ UNCHANGED <<catalogue, aiKeys, aiConfig, aiLoad, aiReq, panel, aiHistory>>

-----------------------------------------------------------------------------
(* Requests of administrators *)

Alone(a) == \A b \in AiAdmins \ {a} : aiReq[b].pc = "idle"

BeginRequest(a, request) ==
  /\ aiReq[a].pc = "idle"
  /\ aiReq' = [Crossed EXCEPT ![a] = [request EXCEPT !.alone = Alone(a)]]

Advance(a, pc) == aiReq' = [aiReq EXCEPT ![a].pc = pc]

(* The panel's own request is followed by a refresh when it succeeded. *)
PanelTold(a, refresh) ==
  panel' = IF a = PanelAdmin THEN [panel EXCEPT !.refresh = refresh] ELSE panel

EndRequest(a, refresh) ==
  aiReq' = [aiReq EXCEPT ![a] = NoRequest] /\ PanelTold(a, refresh)

(* What a request leaves is judged when it ran by itself. *)
Judged(a) == aiHistory' = [aiHistory EXCEPT !.excused = ~aiReq[a].alone]

(* upsertGlobalConfigController: the model, then the keys are looked up,   *)
(* then the row is written.                                                *)
AskSave(a, m) ==
  /\ AiChange(FALSE)
  /\ BeginRequest(a, [NoRequest EXCEPT !.pc = "model", !.model = m])
  /\ UNCHANGED <<catalogue, aiKeys, aiConfig, aiCache, aiLoad, panel>>

SaveStep(a) ==
  /\ \/ aiReq[a].pc = "model" /\ Certified(aiReq[a].model) /\ Advance(a, "keys")
     \/ aiReq[a].pc = "keys" /\ UsableKeys(ModelOf[aiReq[a].model]) # {} /\ Advance(a, "write")
  /\ UNCHANGED <<catalogue, aiKeys, aiConfig, aiCache, aiLoad, panel, aiHistory>>

SaveRefused(a) ==
  /\ \/ aiReq[a].pc = "model" /\ ~Certified(aiReq[a].model)
     \/ aiReq[a].pc = "keys" /\ UsableKeys(ModelOf[aiReq[a].model]) = {}
  /\ EndRequest(a, "no")
  /\ UNCHANGED <<catalogue, aiKeys, aiConfig, aiCache, aiLoad, aiHistory>>

SaveWrite(a) ==
  /\ aiReq[a].pc = "write"
  /\ WriteConfig(aiReq[a].model)
  /\ EndRequest(a, "sync")
  /\ Judged(a)
  /\ UNCHANGED <<catalogue, aiKeys>>

(* createPlatformCredentialController does not look for a failover. *)
AddKey(a, k) ==
  /\ aiKeys[k] = "absent" /\ aiReq[a].pc = "idle"
  /\ AiChange(TRUE)
  /\ aiKeys' = [aiKeys EXCEPT ![k] = "on"]
  /\ DropCopy /\ aiReq' = Crossed /\ PanelTold(a, "plain")
  /\ UNCHANGED <<catalogue, aiConfig, aiLoad>>

(* Switched on or off, its weight set or taken to 0, or deleted. *)
ChangeKey(a, k, to) ==
  /\ aiKeys[k] \notin {"absent", to}
  /\ AiChange(FALSE)
  /\ aiKeys' = [aiKeys EXCEPT ![k] = to]
  /\ BeginRequest(a, [NoRequest EXCEPT !.pc = "global"])
  /\ UNCHANGED <<catalogue, aiConfig, aiCache, aiLoad, panel>>

(* maybeAutoFailoverGlobalConfig *)
FailoverStep(a) ==
  /\ \/ /\ aiReq[a].pc = "global" /\ aiConfig # NoModel
        /\ aiReq' = [aiReq EXCEPT ![a].pc = "active", ![a].model = aiConfig]
     \/ /\ aiReq[a].pc = "active" /\ UsableKeys(ModelOf[aiReq[a].model]) = {}
        /\ Advance(a, "list")
     \/ LET able == {p \in AiProviders : UsableKeys(p) # {}}
        IN  /\ aiReq[a].pc = "list" /\ able # {}
            /\ aiReq' = [aiReq EXCEPT ![a].pc = "try", ![a].todo = able]
  /\ UNCHANGED <<catalogue, aiKeys, aiConfig, aiCache, aiLoad, panel, aiHistory>>

(* In the order of their names, which does not matter here; of a           *)
(* provider's models the one with the highest score.                       *)
TryProvider(a, p) ==
  /\ aiReq[a].pc = "try" /\ p \in aiReq[a].todo
  /\ \/ \E m \in ModelsFor(p) :
          aiReq' = [aiReq EXCEPT ![a].pc = "switch", ![a].model = m, ![a].todo = {}]
     \/ /\ ModelsFor(p) = {} /\ aiReq[a].todo # {p}
        /\ aiReq' = [aiReq EXCEPT ![a].todo = @ \ {p}]
  /\ UNCHANGED <<catalogue, aiKeys, aiConfig, aiCache, aiLoad, panel, aiHistory>>

NoFailover(a) ==
  /\ \/ aiReq[a].pc = "global" /\ aiConfig = NoModel
     \/ aiReq[a].pc = "active" /\ UsableKeys(ModelOf[aiReq[a].model]) # {}
     \/ aiReq[a].pc = "list" /\ \A p \in AiProviders : UsableKeys(p) = {}
     \/ aiReq[a].pc = "try" /\ \E p \in AiProviders : aiReq[a].todo = {p} /\ ModelsFor(p) = {}
  /\ DropCopy /\ EndRequest(a, "sync") /\ Judged(a)
  /\ UNCHANGED <<catalogue, aiKeys, aiConfig, aiLoad>>

SwitchProvider(a) ==
  /\ aiReq[a].pc = "switch"
  /\ WriteConfig(aiReq[a].model)
  /\ EndRequest(a, "sync") /\ Judged(a)
  /\ UNCHANGED <<catalogue, aiKeys>>

-----------------------------------------------------------------------------
(* The panel *)

HasKeys(listedKeys, p) == \E k \in listedKeys : KeyOf[k] = p

FirstOf(models) == IF models = {} THEN NoModel ELSE CHOOSE m \in models : TRUE

(* deriveDraftFromServer: what is saved while its provider has keys, else  *)
(* a provider that has, without a model.                                   *)
Draft(config, listedKeys) ==
  LET saved == SavedProvider(config)
  IN  IF \E p \in AiProviders : saved = p /\ HasKeys(listedKeys, p)
      THEN [provider |-> saved, model |-> config]
      ELSE IF listedKeys # {} THEN [provider |-> KeyOf[CHOOSE k \in listedKeys : TRUE], model |-> NoModel]
      ELSE [provider |-> IF saved # NoProvider THEN saved ELSE CHOOSE p \in AiProviders : TRUE,
            model |-> config]

(* A new list of keys makes the fields fetch the models again. *)
RefreshPanel ==
  /\ panel.refresh # "no"
  /\ LET listedKeys == {k \in PlatformKeys : aiKeys[k] = "on"}
         draft == IF panel.refresh = "sync" THEN Draft(aiConfig, listedKeys)
                  ELSE [provider |-> panel.provider, model |-> panel.model]
     IN  panel' = [panel EXCEPT !.keys = listedKeys, !.config = aiConfig, !.refresh = "no",
                                !.provider = draft.provider, !.model = draft.model,
                                !.loading = draft.provider]
  /\ UNCHANGED <<catalogue, aiKeys, aiConfig, aiCache, aiLoad, aiReq, aiHistory>>

FaultyChangeProvider(p) ==
  /\ panel.provider \notin {p, NoProvider}
  /\ panel' = [panel EXCEPT !.provider = p, !.model = NoModel,
                            !.loading = IF @ = NoProvider THEN p ELSE @]
  /\ UNCHANGED <<catalogue, aiKeys, aiConfig, aiCache, aiLoad, aiReq, aiHistory>>

(* The answer to an earlier fetch is dropped; the earlier options stay     *)
(* until this one's come.                                                  *)
ChangeProvider(p) ==
  /\ panel.provider \notin {p, NoProvider}
  /\ panel' = [panel EXCEPT !.provider = p, !.model = NoModel, !.loading = p]
  /\ UNCHANGED <<catalogue, aiKeys, aiConfig, aiCache, aiLoad, aiReq, aiHistory>>

(* handleModelsLoaded: the model of the draft if it is offered, else the   *)
(* first one.                                                              *)
ModelsLoaded ==
  /\ panel.loading # NoProvider
  /\ LET offered == ModelsFor(panel.loading)
     IN  panel' = [panel EXCEPT
                     !.options = offered, !.loading = NoProvider, !.listed = TRUE,
                     !.model = IF @ \in offered THEN @
                               ELSE IF HasKeys(panel.keys, panel.loading) \/ @ = NoModel
                                    THEN FirstOf(offered) ELSE @]
  /\ UNCHANGED <<catalogue, aiKeys, aiConfig, aiCache, aiLoad, aiReq, aiHistory>>

(* The list of the fields is emptied, the panel's options are not. *)
ModelsFail ==
  /\ panel.loading # NoProvider
  /\ panel' = [panel EXCEPT !.loading = NoProvider, !.listed = FALSE]
  /\ UNCHANGED <<catalogue, aiKeys, aiConfig, aiCache, aiLoad, aiReq, aiHistory>>

ChooseModel(m) ==
  /\ panel.loading = NoProvider /\ panel.listed /\ m \in panel.options
  /\ panel.model # m
  /\ panel' = [panel EXCEPT !.model = m]
  /\ UNCHANGED <<catalogue, aiKeys, aiConfig, aiCache, aiLoad, aiReq, aiHistory>>

CanSave ==
  /\ panel.model \in panel.options
  /\ HasKeys(panel.keys, panel.provider)
  /\ \/ panel.config # panel.model \/ SavedProvider(panel.config) # panel.provider
     \/ panel.config # NoModel /\ ~HasKeys(panel.keys, SavedProvider(panel.config))

MaySave(a, m) == a = PanelAdmin => panel.refresh = "no" /\ CanSave /\ m = panel.model

MayChange(a) == a = PanelAdmin => panel.refresh = "no" /\ panel.provider # NoProvider

AiNext ==
  \/ \E m \in CertModels : PromoteModel(m) \/ DeactivateModel(m)
  \/ ReadConfig \/ KeepCopy \/ CopyExpires
  \/ \E a \in AiAdmins :
       \/ \E m \in CertModels : MaySave(a, m) /\ AskSave(a, m)
       \/ SaveStep(a) \/ SaveRefused(a) \/ SaveWrite(a)
       \/ \E k \in PlatformKeys : MayChange(a) /\ AddKey(a, k)
       \/ \E k \in PlatformKeys, to \in {"absent", "off", "on"} :
            MayChange(a) /\ ChangeKey(a, k, to)
       \/ FailoverStep(a) \/ NoFailover(a) \/ SwitchProvider(a)
       \/ \E p \in AiProviders : TryProvider(a, p)
  \/ RefreshPanel \/ ModelsLoaded \/ ModelsFail
  \/ \E p \in AiProviders : ChangeProvider(p)
  \/ \E m \in CertModels : ChooseModel(m)

AiSpec == AiInit /\ [][AiNext]_aiVars

-----------------------------------------------------------------------------
(* Properties *)

(* The copy a process keeps names the model that is configured, unless it  *)
(* was being read when the configuration was written.                      *)
CopyIsCurrent == aiCache # NoCopy => aiCache.early \/ aiCache.model = aiConfig

(* After a change of keys or configuration that ran by itself, and until a *)
(* key or a model is added, the configured provider has a key, or no       *)
(* provider with a certified model has one (platformAiConfigService.js).   *)
ServedWhilePossible ==
  (aiConfig # NoModel /\ ~aiHistory.excused /\ \A a \in AiAdmins : aiReq[a].pc = "idle") =>
    \/ UsableKeys(ModelOf[aiConfig]) # {}
    \/ \A p \in AiProviders : UsableKeys(p) = {} \/ ModelsFor(p) = {}

(* What the panel would save is a model of the provider it shows, whatever *)
(* order fetches, refreshes and choices come in (OneTapAiConfigPanel.tsx). *)
PanelSavesWhatItShows == CanSave => ModelOf[panel.model] = panel.provider

(* The platform's AI: models are rated fairly and offered when they passed *)
(* or an administrator insists, and the configured one is what he saw,     *)
(* what is used and what has a key.                                        *)
PlatformAiIsSound ==
  /\ RatingIsFair /\ PromotedIsEarned
  /\ CopyIsCurrent /\ ServedWhilePossible /\ PanelSavesWhatItShows
=============================================================================
