----------------------------- MODULE MCPlatform -----------------------------
(***************************************************************************)
(* The components beside the application lifecycle that carry its events,  *)
(* texts and views, checked in one run: the first state picks one of       *)
(* Parts, and only that one takes steps.  The states of the run are those  *)
(* of each component, side by side.                                        *)
(***************************************************************************)
EXTENDS PublishPipeline, RealtimeStream, ClientStore, TabLeadership,
        PgRetries, ResumeJobs, SseRegistry, ExtensionSession,
        TrackerStatuses, ApplyComposer, ApplicationsPage, JdParsing,
        EmailDrafts, ExtensionStatus, LinkedInPosts, Certification,
        ModelPromotion, PlatformAi, ProviderCalls, EmailEdits, TLC

CONSTANTS Parts, k1, m3, p1, p2, key3

VARIABLE part

OneCredential == <<k1>>

(* A parse with everything, one that names nothing, one that invents.      *)
ThreeParses == {ResumeFacts, {}, ResumeFacts \ {"nameFound", "emailFound", "skillsFound"}}

ProviderOfModel == [m \in CertModels |-> IF m = m3 THEN p2 ELSE p1]

ProviderOfKey == [k \in PlatformKeys |-> IF k = key3 THEN p2 ELSE p1]

(* One administrator, two runs of one model.                               *)
CandidateOfRun == [r \in CertRuns |-> CHOOSE m \in Candidates : TRUE]

DeskOfRun == [r \in CertRuns |-> CHOOSE d \in Desks : TRUE]

OnlyPublish ==
  /\ part = "publish"
  /\ UNCHANGED <<part, streamVars, storeVars, tabsVars, gatewayVars, resumeVars,
                registryVars, retryVars, extensionVars, trackerVars, composerVars, pageVars,
                parsingVars, draftVars, statusVars, postVars, bench, promotionVars,
                aiVars, callsVars, editVars>>

OnlyStream ==
  /\ part = "stream"
  /\ UNCHANGED <<part, pubVars, storeVars, tabsVars, gatewayVars, resumeVars,
                registryVars, retryVars, extensionVars, trackerVars, composerVars, pageVars,
                parsingVars, draftVars, statusVars, postVars, bench, promotionVars,
                aiVars, callsVars, editVars>>

OnlyStore ==
  /\ part = "store"
  /\ UNCHANGED <<part, pubVars, streamVars, tabsVars, gatewayVars, resumeVars,
                registryVars, retryVars, extensionVars, trackerVars, composerVars, pageVars,
                parsingVars, draftVars, statusVars, postVars, bench, promotionVars,
                aiVars, callsVars, editVars>>

OnlyTabs ==
  /\ part = "tabs"
  /\ UNCHANGED <<part, pubVars, streamVars, storeVars, gatewayVars, resumeVars,
                registryVars, retryVars, extensionVars, trackerVars, composerVars, pageVars,
                parsingVars, draftVars, statusVars, postVars, bench, promotionVars,
                aiVars, callsVars, editVars>>

OnlyGateway ==
  /\ part = "gateway"
  /\ UNCHANGED <<part, pubVars, streamVars, storeVars, tabsVars, resumeVars,
                registryVars, retryVars, extensionVars, trackerVars, composerVars, pageVars,
                parsingVars, draftVars, statusVars, postVars, bench, promotionVars,
                aiVars, callsVars, editVars>>

OnlyResume ==
  /\ part = "resumes"
  /\ UNCHANGED <<part, pubVars, streamVars, storeVars, tabsVars, gatewayVars,
                registryVars, retryVars, extensionVars, trackerVars, composerVars, pageVars,
                parsingVars, draftVars, statusVars, postVars, bench, promotionVars,
                aiVars, callsVars, editVars>>

OnlyRegistry ==
  /\ part = "registry"
  /\ UNCHANGED <<part, pubVars, streamVars, storeVars, tabsVars, gatewayVars,
                resumeVars, retryVars, extensionVars, trackerVars, composerVars, pageVars,
                parsingVars, draftVars, statusVars, postVars, bench, promotionVars,
                aiVars, callsVars, editVars>>

OnlyRetry ==
  /\ part = "queries"
  /\ UNCHANGED <<part, pubVars, streamVars, storeVars, tabsVars, gatewayVars,
                resumeVars, registryVars, extensionVars, trackerVars, composerVars, pageVars,
                parsingVars, draftVars, statusVars, postVars, bench, promotionVars,
                aiVars, callsVars, editVars>>

OnlyExtension ==
  /\ part = "extension"
  /\ UNCHANGED <<part, pubVars, streamVars, storeVars, tabsVars, gatewayVars,
                resumeVars, registryVars, retryVars, trackerVars, composerVars, pageVars,
                parsingVars, draftVars, statusVars, postVars, bench, promotionVars,
                aiVars, callsVars, editVars>>

OnlyTracker ==
  /\ part = "tracker"
  /\ UNCHANGED <<part, pubVars, streamVars, storeVars, tabsVars, gatewayVars,
                resumeVars, registryVars, retryVars, extensionVars, composerVars, pageVars,
                parsingVars, draftVars, statusVars, postVars, bench, promotionVars,
                aiVars, callsVars, editVars>>

OnlyComposer ==
  /\ part = "composer"
  /\ UNCHANGED <<part, pubVars, streamVars, storeVars, tabsVars, gatewayVars,
                resumeVars, registryVars, retryVars, extensionVars, trackerVars, pageVars,
                parsingVars, draftVars, statusVars, postVars, bench, promotionVars,
                aiVars, callsVars, editVars>>

OnlyPage ==
  /\ part = "page"
  /\ UNCHANGED <<part, pubVars, streamVars, storeVars, tabsVars, gatewayVars,
                resumeVars, registryVars, retryVars, extensionVars, trackerVars, composerVars,
                parsingVars, draftVars, statusVars, postVars, bench, promotionVars,
                aiVars, callsVars, editVars>>

OnlyParsing ==
  /\ part = "parsing"
  /\ UNCHANGED <<part, pubVars, streamVars, storeVars, tabsVars, gatewayVars,
                resumeVars, registryVars, retryVars, extensionVars, trackerVars, composerVars,
                pageVars, draftVars, statusVars, postVars, bench, promotionVars,
                aiVars, callsVars, editVars>>

OnlyDraft ==
  /\ part = "drafts"
  /\ UNCHANGED <<part, pubVars, streamVars, storeVars, tabsVars, gatewayVars,
                resumeVars, registryVars, retryVars, extensionVars, trackerVars, composerVars,
                pageVars, parsingVars, statusVars, postVars, bench, promotionVars,
                aiVars, callsVars, editVars>>

OnlyStatus ==
  /\ part = "status"
  /\ UNCHANGED <<part, pubVars, streamVars, storeVars, tabsVars, gatewayVars,
                resumeVars, registryVars, retryVars, extensionVars, trackerVars, composerVars,
                pageVars, parsingVars, draftVars, postVars, bench, promotionVars,
                aiVars, callsVars, editVars>>

OnlyPost ==
  /\ part = "posts"
  /\ UNCHANGED <<part, pubVars, streamVars, storeVars, tabsVars, gatewayVars,
                resumeVars, registryVars, retryVars, extensionVars, trackerVars, composerVars,
                pageVars, parsingVars, draftVars, statusVars, bench, promotionVars,
                aiVars, callsVars, editVars>>

OnlyCert ==
  /\ part = "certification"
  /\ UNCHANGED <<part, pubVars, streamVars, storeVars, tabsVars, gatewayVars,
                resumeVars, registryVars, retryVars, extensionVars, trackerVars, composerVars,
                pageVars, parsingVars, draftVars, statusVars, postVars, promotionVars,
                aiVars, callsVars, editVars>>

OnlyPromotion ==
  /\ part = "promotion"
  /\ UNCHANGED <<part, pubVars, streamVars, storeVars, tabsVars, gatewayVars,
                resumeVars, registryVars, retryVars, extensionVars, trackerVars, composerVars,
                pageVars, parsingVars, draftVars, statusVars, postVars, bench,
                aiVars, callsVars, editVars>>

OnlyAi ==
  /\ part = "platformAi"
  /\ UNCHANGED <<part, pubVars, streamVars, storeVars, tabsVars, gatewayVars,
                resumeVars, registryVars, retryVars, extensionVars, trackerVars, composerVars,
                pageVars, parsingVars, draftVars, statusVars, postVars, bench,
                promotionVars, callsVars, editVars>>

OnlyCalls ==
  /\ part = "calls"
  /\ UNCHANGED <<part, pubVars, streamVars, storeVars, tabsVars, gatewayVars,
                resumeVars, registryVars, retryVars, extensionVars, trackerVars, composerVars,
                pageVars, parsingVars, draftVars, statusVars, postVars, bench,
                promotionVars, aiVars, editVars>>

OnlyEdit ==
  /\ part = "edits"
  /\ UNCHANGED <<part, pubVars, streamVars, storeVars, tabsVars, gatewayVars,
                resumeVars, registryVars, retryVars, extensionVars, trackerVars, composerVars,
                pageVars, parsingVars, draftVars, statusVars, postVars, bench,
                promotionVars, aiVars, callsVars>>

(* The other components stay where they begin. *)
MCInit ==
  /\ part \in Parts
  /\ PublishInit
  /\ StreamInit
  /\ part = "stream" \/ streamMode = "memory"
  /\ StoreInit
  /\ TabsInit
  /\ GatewayInit
  /\ ResumeInit
  /\ RegistryInit
  /\ RetryInit
  /\ ExtensionInit
  /\ TrackerInit
  /\ ComposerInit
  /\ part = "composer" \/ (~autoMode /\ chosen = CHOOSE s \in Styles : TRUE)
  /\ PageInit
  /\ part = "page" \/ view = CHOOSE v \in Views : TRUE
  /\ ParsingInit
  /\ part = "parsing" \/ sample = CHOOSE s \in Samples : TRUE
  /\ DraftInit
  /\ part = "drafts" \/ firstDraft = CHOOSE d \in Drafts : TRUE
  /\ StatusInit
  /\ PostInit
  /\ CertInit
  /\ PromotionInit
  /\ AiInit
  /\ aiConfig \in {NoModel} \cup (IF part = "platformAi" THEN {m3} ELSE {})
  /\ CallsInit
  /\ part = "calls" \/ ask = NotAsked("openai")
  /\ EditInit
  /\ part = "edits" \/ letterRow.status = "generated"

MCNext ==
  \/ OnlyPublish /\ PublishNext
  \/ OnlyStream /\ StreamNext
  \/ OnlyStore /\ StoreNext
  \/ OnlyTabs /\ TabsNext
  \/ OnlyGateway /\ GatewayNext
  \/ OnlyResume /\ ResumeNext
  \/ OnlyRegistry /\ RegistryNext
  \/ OnlyRetry /\ RetryNext
  \/ OnlyExtension /\ ExtensionNext
  \/ OnlyTracker /\ TrackerNext
  \/ OnlyComposer /\ ComposerNext
  \/ OnlyPage /\ PageNext
  \/ OnlyParsing /\ ParsingNext
  \/ OnlyDraft /\ DraftNext
  \/ OnlyStatus /\ StatusNext
  \/ OnlyPost /\ PostNext
  \/ OnlyCert /\ CertNext
  \/ OnlyPromotion /\ PromotionNext
  \/ OnlyAi /\ AiNext
  \/ OnlyCalls /\ CallsNext
  \/ OnlyEdit /\ EditNext

vars == <<part, pubVars, streamVars, storeVars, tabsVars, gatewayVars,
          resumeVars, registryVars, retryVars, extensionVars, trackerVars, composerVars,
          pageVars, parsingVars, draftVars, statusVars, postVars, bench,
          promotionVars, aiVars, callsVars, editVars>>

MCSafetySpec == MCInit /\ [][MCNext]_vars

(* Every component's state has its type (the type invariants of the        *)
(* components, each looked at where its state changes).                    *)
PlatformTypeOK ==
  /\ part = "publish" => PublishTypeOK
  /\ part = "stream" => StreamTypeOK
  /\ part = "store" => StoreTypeOK
  /\ part = "tabs" => TabsTypeOK
  /\ part = "gateway" => GatewayTypeOK
  /\ part = "resumes" => ResumeTypeOK
  /\ part = "registry" => RegistryTypeOK
  /\ part = "queries" => RetryTypeOK
  /\ part = "extension" => ExtensionTypeOK
  /\ part = "tracker" => TrackerTypeOK
  /\ part = "composer" => ComposerTypeOK
  /\ part = "page" => PageTypeOK
  /\ part = "parsing" => ParsingTypeOK
  /\ part = "drafts" => DraftTypeOK
  /\ part = "status" => StatusTypeOK
  /\ part = "posts" => PostTypeOK
  /\ part = "certification" => CertTypeOK
  /\ part = "promotion" => PromotionTypeOK
  /\ part = "platformAi" => AiTypeOK
  /\ part = "calls" => CallsTypeOK
  /\ part = "edits" => EditTypeOK
=============================================================================
