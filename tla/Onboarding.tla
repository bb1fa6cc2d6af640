------------------------------ MODULE Onboarding ------------------------------
(***************************************************************************)
(* The way of a new user to the dashboard: what the server says of the     *)
(* account (buildSetupStatus), the page's cached copy of it, the guards    *)
(* that send the page where the copy and the browser's stored choices say, *)
(* and the steps of the onboarding page.                                   *)
(***************************************************************************)
EXTENDS Naturals, FiniteSets

VARIABLES member,  \* the server: resumes, mail, AI credential, subscription
          trigger,  \* paywall_trigger, or "off"
          choices,   \* localStorage: the steps skipped or dismissed
          setup,    \* the page's ["setup-status"] query: what it holds, and its fetch
          place,    \* the route shown, and the celebration
          action,   \* the user's request under way
          unseen    \* history: the member changed elsewhere, or a fetch has failed

onboardVars == <<member, trigger, choices, setup, place, action, unseen>>

Triggers == {"off", "after_plan_selection", "after_onboarding", "before_first_apply"}
Routes == {"home", "onboarding", "dashboard", "setup", "subscriptions"}
SetupFacts == {"resume", "mail", "subscribed"}
ParseStatuses == {"missing", "processing", "failed", "ready"}
NoAction == [do |-> "none", at |-> "home"]
NoSetupFetch == [pc |-> "none", facts |-> {}]
NewFetch == [NoSetupFetch EXCEPT !.pc = "asked"]
NothingKnown == [known |-> FALSE, facts |-> {}, parse |-> "missing", fetch |-> NewFetch]

OnboardTypeOK ==
  /\ member \in [newest : {"none", "parsing", "late", "failed", "parsed"}, older : BOOLEAN,
                  mail : SUBSET {"gmail", "password"}, ai : BOOLEAN, subscribed : BOOLEAN]
  /\ trigger \in Triggers /\ choices \subseteq {"emailSkipped", "extensionDone"}
  /\ setup \in [known : BOOLEAN, facts : SUBSET SetupFacts, parse : ParseStatuses,
                fetch : [pc : {"none", "asked", "read"}, facts : SUBSET SetupFacts]]
  /\ place \in [at : Routes, celebrating : BOOLEAN]
  /\ action \in [do : {"none", "upload", "uploaded", "saved"}, at : Routes] /\ unseen \in BOOLEAN

-----------------------------------------------------------------------------
(* The server *)

Resumes == {r \in {"newest", "older"} : IF r = "newest" THEN member.newest # "none"
                                        ELSE member.older}
Parsed == {r \in Resumes : r = "older" \/ member.newest = "parsed"}

(* computeHasValidResume: the default resume is the newest one, and any    *)
(* parsed resume of the user will do.                                      *)
HasValidResume == Resumes # {} /\ Parsed # {}

(* resolveResumeParseStatus: 15 minutes after the upload it has failed. *)
ResumeParseStatus ==
  IF Resumes = {} THEN "missing" ELSE IF HasValidResume THEN "ready"
  ELSE IF member.newest \in {"failed", "late"} THEN "failed" ELSE "processing"

(* resolveResumeForAutoApply: the latest parsed resume, else the default   *)
(* one, which must be parsed then.                                         *)
ResolvedResume == IF Parsed = {} THEN "none" ELSE IF "newest" \in Parsed THEN "newest" ELSE "older"

AccountFacts ==
  {f \in SetupFacts : CASE f = "resume" -> Resumes # {}
                   [] f = "mail" -> member.mail # {}
                   [] f = "subscribed" -> member.subscribed}

-----------------------------------------------------------------------------
(* The guards *)

(* isLoading: the first fetch *)
Loading(s) == ~s.known /\ s.fetch.pc # "none"

(* computeOnboardingFlow *)
FlowStep(s, kept) ==
  IF "resume" \notin s.facts THEN "resume"
  ELSE IF "mail" \notin s.facts /\ "emailSkipped" \notin kept THEN "email"
  ELSE IF "extensionDone" \notin kept THEN "extension" ELSE "complete"

(* shouldRequireSubscriptionForPath, shouldEnforceSubscriptionPaywall *)
MustSubscribe(s, at) ==
  /\ s.known /\ "subscribed" \notin s.facts
  /\ trigger \in {"after_plan_selection", "after_onboarding"} /\ at # "subscriptions"
  /\ trigger = "after_onboarding" => at # "onboarding"

(* AuthenticatedHomeRedirect, resolvePostAuthPath *)
FromHome(s, kept) ==
  IF s.known /\ "subscribed" \notin s.facts /\ trigger = "after_plan_selection" THEN "subscriptions"
  ELSE IF s.known /\ FlowStep(s, kept) = "complete" THEN "dashboard" ELSE "onboarding"

(* SubscriptionGuard waits for the first status, but not on /onboarding    *)
(* and /subscriptions and not without pricing; OnboardingGuard does not.   *)
Guarded(s, kept, at) ==
  IF at = "home" THEN IF Loading(s) THEN "home" ELSE FromHome(s, kept)
  ELSE IF at \in {"dashboard", "setup"} /\ trigger # "off" /\ Loading(s) THEN at
  ELSE IF MustSubscribe(s, at) THEN "subscriptions"
  ELSE IF at = "dashboard" /\ FlowStep(s, kept) # "complete" THEN "onboarding" ELSE at

(* The page a status, the stored choices and a wish lead to: redirects are *)
(* followed, and an onboarding page that is complete celebrates.           *)
ShownAt(s, kept, at) ==
  LET there == Guarded(s, kept, Guarded(s, kept, at))
  IN [at |-> there,
      celebrating |-> there = "onboarding" /\ s.known /\ FlowStep(s, kept) = "complete"]

(* A celebration that has begun goes on. *)
Refreshed(s, kept) ==
  LET now == ShownAt(s, kept, place.at)
  IN [now EXCEPT !.celebrating = @ \/ (place.celebrating /\ now.at = "onboarding")]

(* A new page (a reload, the way back from Google): nothing is known yet. *)
NewPage(at) ==
  /\ setup' = NothingKnown /\ place' = ShownAt(NothingKnown, choices, at) /\ unseen' = FALSE

OnboardInit ==
  /\ trigger \in Triggers
  /\ member \in [newest : {"none"}, older : {FALSE}, mail : {{}}, ai : BOOLEAN, subscribed : BOOLEAN]
  /\ choices = {} /\ setup = NothingKnown /\ place = ShownAt(NothingKnown, {}, "home")
  /\ action = NoAction /\ unseen = FALSE

-----------------------------------------------------------------------------
(* The status query *)

(* A plausible bug: a fetch under way is joined. *)
FaultyAskAgain(s) == IF s.fetch.pc # "none" THEN s ELSE [s EXCEPT !.fetch = NewFetch]

(* invalidateQueries and refetch() drop a fetch under way once there is    *)
(* data; before, they join it.                                             *)
AskAgain(s) == IF Loading(s) THEN s ELSE [s EXCEPT !.fetch = NewFetch]

(* The queries of buildSetupStatus: the subscription, the resume rows and  *)
(* the mail; then whether a resume is valid, and the answer.               *)
StatusRead ==
  /\ setup.fetch.pc = "asked"
  /\ setup' = [setup EXCEPT !.fetch = [pc |-> "read", facts |-> AccountFacts]]
  /\ unseen' = FALSE
  /\ UNCHANGED <<member, trigger, choices, place, action>>

StatusAnswered ==
  /\ setup.fetch.pc = "read"
  /\ setup' = [known |-> TRUE, facts |-> setup.fetch.facts, fetch |-> NoSetupFetch,
               parse |-> IF "resume" \in setup.fetch.facts THEN ResumeParseStatus ELSE "missing"]
  /\ place' = Refreshed(setup', choices)
  /\ UNCHANGED <<member, trigger, choices, action, unseen>>

(* After its retries; what was known is kept. *)
SetupFails ==
  /\ setup.fetch.pc # "none"
  /\ setup' = [setup EXCEPT !.fetch = NoSetupFetch]
  /\ place' = Refreshed(setup', choices) /\ unseen' = TRUE
  /\ UNCHANGED <<member, trigger, choices, action>>

(* useResumeParsePolling asks again only for data that is older than       *)
(* staleTime, which may be so at any time.                                 *)
PollParsing ==
  /\ setup.known /\ setup.fetch.pc = "none" /\ setup.parse = "processing"
  /\ place.at \notin {"home", "onboarding"}
  /\ setup' = AskAgain(setup)
  /\ UNCHANGED <<member, trigger, choices, place, action, unseen>>

-----------------------------------------------------------------------------
(* Resumes *)

CurrentStep == FlowStep(setup, choices)
OnStep(step) ==
  /\ place.at = "onboarding" /\ ~place.celebrating /\ ~Loading(setup) /\ CurrentStep = step
OnSetup == place.at = "setup" /\ ~Loading(setup)

(* The onboarding page's upload needs an AI credential or a plan with AI;  *)
(* the row is there before the answer, parsing goes on behind it.  The     *)
(* setup page's upload waits for the parse, and a failing one leaves the   *)
(* resumes as they were.                                                   *)
ChooseFile ==
  /\ action = NoAction /\ (OnStep("resume") \/ OnSetup)
  /\ action' = [do |-> "upload", at |-> place.at]
  /\ UNCHANGED <<member, trigger, choices, setup, place, unseen>>

WithNewest(state) ==
  [member EXCEPT !.newest = state, !.older = @ \/ member.newest = "parsed"]

UploadStored ==
  /\ action.do = "upload"
  /\ \/ /\ action.at = "onboarding" /\ member.ai
        /\ member' = WithNewest("parsing")
     \/ action.at = "setup" /\ member' = WithNewest("parsed")
  /\ action' = [action EXCEPT !.do = "uploaded"]
  /\ UNCHANGED <<trigger, choices, setup, place, unseen>>

UploadRefused ==
  /\ action.do = "upload" /\ action' = NoAction
  /\ UNCHANGED <<member, trigger, choices, setup, place, unseen>>

(* handleResumeUpload writes the resume into the status and asks again. *)
UploadAnswered ==
  /\ action.do = "uploaded" /\ action' = NoAction
  /\ setup' = AskAgain([setup EXCEPT !.facts =
                          IF action.at = "onboarding" /\ setup.known THEN @ \cup {"resume"} ELSE @])
  /\ place' = Refreshed(setup', choices)
  /\ UNCHANGED <<member, trigger, choices, unseen>>

(* The background job. *)
ParseEnds(state) ==
  /\ member.newest \in {"parsing", "late"} /\ state # member.newest
  /\ member' = [member EXCEPT !.newest = state]
  /\ UNCHANGED <<trigger, choices, setup, place, action, unseen>>

-----------------------------------------------------------------------------
(* Mail *)

(* Google's page and back; a refusal changes nothing. *)
ConnectGmail(allowed) ==
  /\ action = NoAction /\ "gmail" \notin member.mail /\ (OnStep("email") \/ OnSetup)
  /\ member' = [member EXCEPT !.mail = IF allowed THEN @ \cup {"gmail"} ELSE @]
  /\ NewPage(place.at)
  /\ UNCHANGED <<trigger, choices, action>>

(* saveCredentials, and gmail.disconnect: onUpdate follows the answer. *)
SaveMail(mail) ==
  /\ action = NoAction
  /\ \/ (OnStep("email") \/ OnSetup) /\ mail = member.mail \cup {"password"}
     \/ OnSetup /\ "gmail" \in member.mail /\ mail = member.mail \ {"gmail"}
  /\ member' = [member EXCEPT !.mail = mail] /\ action' = [do |-> "saved", at |-> place.at]
  /\ UNCHANGED <<trigger, choices, setup, place, unseen>>

MailSaved ==
  /\ action.do = "saved" /\ action' = NoAction
  /\ choices' = IF action.at = "onboarding" THEN choices \ {"emailSkipped"} ELSE choices
  /\ setup' = AskAgain(setup)
  /\ place' = Refreshed(setup', choices')
  /\ UNCHANGED <<member, trigger, unseen>>

(* A refresh token is found revoked: nobody tells the page. *)
GmailRevoked ==
  /\ "gmail" \in member.mail
  /\ member' = [member EXCEPT !.mail = @ \ {"gmail"}] /\ unseen' = TRUE
  /\ UNCHANGED <<trigger, choices, setup, place, action>>

-----------------------------------------------------------------------------
(* Steps and ways *)

(* handleGoToDashboard: what is left of the steps counts as skipped. *)
SkipForNow ==
  /\ action = NoAction /\ (OnStep("email") \/ OnStep("extension"))
  /\ choices' = choices \cup {"extensionDone"}
                 \cup (IF "mail" \in setup.facts THEN {} ELSE {"emailSkipped"})
  /\ place' = ShownAt(setup, choices', "dashboard")
  /\ UNCHANGED <<member, trigger, setup, action, unseen>>

(* ExtensionInstallPrompt settles, installed or not. *)
ExtensionSettled ==
  /\ action = NoAction /\ OnStep("extension")
  /\ choices' = choices \cup {"extensionDone"}
  /\ place' = [place EXCEPT !.celebrating = TRUE]
  /\ UNCHANGED <<member, trigger, setup, action, unseen>>

CelebrationEnds ==
  /\ place.celebrating
  /\ place' = ShownAt(setup, choices, "dashboard")
  /\ UNCHANGED <<member, trigger, choices, setup, action, unseen>>

(* verify of the checkout: the entitlement is merged into the status,      *)
(* whatever was known of it, and asked for again.                          *)
Subscribe ==
  /\ place.at = "subscriptions" /\ action = NoAction /\ ~member.subscribed
  /\ member' = [member EXCEPT !.subscribed = TRUE]
  /\ setup' = [AskAgain(setup) EXCEPT !.known = TRUE, !.facts = @ \cup {"subscribed"}]
  /\ place' = Refreshed(setup', choices)
  /\ UNCHANGED <<trigger, choices, action, unseen>>

Visit(at) ==
  /\ action = NoAction /\ ~place.celebrating /\ at # place.at
  /\ place.at \in {"dashboard", "setup", "subscriptions"} /\ at \notin {"home", "onboarding"}
  /\ place' = ShownAt(setup, choices, at)
  /\ UNCHANGED <<member, trigger, choices, setup, action, unseen>>

(* The bound: only a page that has its status is reloaded. *)
Reload(at) ==
  /\ action = NoAction /\ at # "subscriptions" /\ setup.fetch.pc = "none" /\ NewPage(at)
  /\ UNCHANGED <<member, trigger, choices, action>>

OnboardNext ==
  \/ StatusRead \/ StatusAnswered \/ SetupFails \/ PollParsing
  \/ ChooseFile \/ UploadStored \/ UploadRefused \/ UploadAnswered
  \/ \E state \in {"parsed", "failed", "late"} : ParseEnds(state)
  \/ \E allowed \in BOOLEAN : ConnectGmail(allowed)
  \/ \E mail \in SUBSET {"gmail", "password"} : SaveMail(mail)
  \/ MailSaved \/ GmailRevoked \/ SkipForNow \/ ExtensionSettled \/ CelebrationEnds \/ Subscribe
  \/ \E at \in Routes : Visit(at) \/ Reload(at)

OnboardSpec == OnboardInit /\ [][OnboardNext]_onboardVars

-----------------------------------------------------------------------------
(* Once nothing is under way, the page shown is the one the account and    *)
(* the stored choices call for, and the onboarding page is at the step     *)
(* that is owed - if no fetch has failed and nothing changed elsewhere.    *)
StepIsOwed ==
  setup.fetch.pc = "none" /\ action = NoAction /\ ~unseen /\ ~place.celebrating =>
    LET truth == [setup EXCEPT !.known = TRUE, !.facts = AccountFacts]
    IN  /\ setup.known /\ FlowStep(setup, choices) = FlowStep(truth, choices)
        /\ Guarded(truth, choices, place.at) = place.at

(* What the setup calls ready can be applied with: some resume is found. *)
ReadyIsUsable == ResumeParseStatus = "ready" <=> ResolvedResume # "none"

(* Nobody leaves the dashboard for the onboarding but by a new page, for   *)
(* want of mail, or because nothing was known of the account.              *)
NobodyIsSentBack ==
  [][setup.known /\ place.at = "dashboard" /\ place'.at = "onboarding" =>
       \/ setup' = NothingKnown \/ unseen'
       \/ member'.mail = {} /\ "emailSkipped" \notin choices']_onboardVars

(* The onboarding shows the step that is owed, what it calls ready can be  *)
(* used, and who has reached the dashboard is not sent back.               *)
OnboardingIsSound == [](StepIsOwed /\ ReadyIsUsable) /\ NobodyIsSentBack
=============================================================================
