---------------------------- MODULE AdminSettings ----------------------------
(***************************************************************************)
(* The settings administrators change while the product runs.  Four pages  *)
(* of forms write three tables: billing, trial and referral settings share *)
(* app_settings, of which every server process keeps a copy for thirty     *)
(* seconds; the trial page also writes the limits in feature_definitions,  *)
(* the detection page extension_detection_config.  A save runs key after   *)
(* key, outside any transaction.                                           *)
(***************************************************************************)
EXTENDS Naturals, FiniteSets

CONSTANTS SwitchKeys,       \* the settings of the billing page
          TrialMode,        \* trial_mode: its default is the usage trial
          TrialKeys,        \* the settings of the time trial
          ReferralKeys,     \* the settings of the referral page
          QuotaKeys,        \* the limits of the usage trial
          DetectionKeys,    \* the fields of extension_detection_config
          SettingValues, Default,
          BadValue,         \* what can be typed and is refused
          SettingPages,     \* pages: what for, and the process that answers it
          Lookups,          \* calls of loadSettings: a name, and the process
          MaxOpenPages, MaxSettingSteps, MaxLookups    \* bounds

AppKeys == SwitchKeys \cup {TrialMode} \cup TrialKeys \cup ReferralKeys

SettingKeys == AppKeys \cup QuotaKeys \cup DetectionKeys

ASSUME SettingsAssumption ==
  /\ TrialMode \notin SwitchKeys \cup TrialKeys \cup ReferralKeys
  /\ SwitchKeys \cap TrialKeys = {} /\ SwitchKeys \cap ReferralKeys = {}
  /\ TrialKeys \cap ReferralKeys = {}
  /\ AppKeys \cap QuotaKeys = {} /\ AppKeys \cap DetectionKeys = {}
  /\ QuotaKeys \cap DetectionKeys = {}
  /\ Default \in SettingValues /\ BadValue \notin SettingValues
  /\ \A p \in SettingPages : p[1] \in {"billing", "trial", "referral", "detection"}
  /\ {MaxOpenPages, MaxSettingSteps, MaxLookups} \subseteq Nat

VARIABLES setting,      \* the three tables: key -> value
          settingCopy,  \* process -> what settingsService keeps
          lookup,       \* lookup -> how far a call of loadSettings is
          form,         \* page -> what it shows and what its save still has to do
          straggling,   \* page -> writes of limits under way
          overtaken,    \* page -> keys it has not read, or that were written since
          settingCount  \* edits and saves made; lookups

settingVars == <<setting, settingCopy, lookup, form, straggling, overtaken, settingCount>>

AppServers == {p[2] : p \in SettingPages} \cup {l[2] : l \in Lookups}

Values == SettingValues \cup {BadValue}

Copy == [held : BOOLEAN, view : [AppKeys -> Values], missed : SUBSET AppKeys]

SettingsTypeOK ==
  /\ setting \in [SettingKeys -> SettingValues]
  /\ settingCopy \in [AppServers -> Copy]
  /\ \A l \in Lookups : lookup[l].pc \in {"idle", "asked", "answered"} /\ lookup[l].got \in Copy
  /\ \A p \in SettingPages :
       /\ form[p].pc \in {"blank", "open", "saving", "limits"}
       /\ {form[p].shown, form[p].draft, form[p].ask} \subseteq [SettingKeys -> Values]
       /\ form[p].left \subseteq SettingKeys
       /\ straggling[p] \subseteq QuotaKeys \X Values
       /\ overtaken[p] \subseteq SettingKeys
  /\ settingCount \in [steps : 0..MaxSettingSteps, lookups : 0..MaxLookups]

AllDefault == [k \in SettingKeys |-> Default]

DefaultCopy == [k \in AppKeys |-> Default]      \* DEFAULTS

NoSettings == [held |-> FALSE, view |-> DefaultCopy, missed |-> {}]

Blank == [pc |-> "blank", shown |-> AllDefault, draft |-> AllDefault, ask |-> AllDefault, left |-> {}]

(* Either trial may be on. *)
SettingsInit ==
  /\ setting \in {[AllDefault EXCEPT ![TrialMode] = v] : v \in SettingValues}
  /\ settingCopy = [s \in AppServers |-> NoSettings]
  /\ lookup = [l \in Lookups |-> [pc |-> "idle", got |-> NoSettings]]
  /\ form = [p \in SettingPages |-> Blank]
  /\ straggling = [p \in SettingPages |-> {}]
  /\ overtaken = [p \in SettingPages |-> SettingKeys]
  /\ settingCount = [steps |-> 0, lookups |-> 0]

-----------------------------------------------------------------------------
(* The pages *)

IsFor(p, what) == p[1] = what

TrialFields == {TrialMode} \cup TrialKeys \cup QuotaKeys

(* What a page's draft holds, and its save sends.  The billing page takes  *)
(* the whole answer of the server for its draft.                           *)
Fields(p) ==
  IF IsFor(p, "billing") THEN AppKeys
  ELSE IF IsFor(p, "trial") THEN TrialFields
  ELSE IF IsFor(p, "referral") THEN ReferralKeys
  ELSE DetectionKeys

OwnFields(p) == IF IsFor(p, "billing") THEN SwitchKeys ELSE Fields(p)

(* What it reads of the answer: the referral page asks for names that      *)
(* getReferralSettings does not use, and shows its defaults.               *)
ReadFields(p) == IF IsFor(p, "referral") THEN {} ELSE Fields(p)

Loaded(p) == [k \in SettingKeys |-> IF k \in ReadFields(p) THEN setting[k] ELSE Default]

UsageTrial(f) == f[TrialMode] = Default

(* The inputs shown: of the trial page, those of the mode chosen.          *)
BillingInputs == SwitchKeys
TrialInputs(f) == {TrialMode} \cup (IF UsageTrial(f) THEN QuotaKeys ELSE TrialKeys)
ReferralInputs == ReferralKeys
DetectionInputs == DetectionKeys

Inputs(p) ==
  IF IsFor(p, "billing") THEN BillingInputs
  ELSE IF IsFor(p, "trial") THEN TrialInputs(form[p].draft)
  ELSE IF IsFor(p, "referral") THEN ReferralInputs
  ELSE DetectionInputs

(* A number of days or a score may be out of its range; the other inputs   *)
(* are choices, or numbers nobody checks.                                  *)
Typed(k) == SettingValues \cup (IF k \in TrialKeys \cup DetectionKeys THEN {BadValue} ELSE {})

Shows(p, f) == form' = [form EXCEPT ![p] = [Blank EXCEPT !.pc = "open", !.shown = f, !.draft = f]]

ShowsLoaded(p) == Shows(p, Loaded(p)) /\ overtaken' = [overtaken EXCEPT ![p] = {}]

(* load, when the page comes; one that failed shows no form. *)
OpenForm(p) ==
  /\ form[p].pc = "blank"
  /\ Cardinality({q \in SettingPages : form[q].pc # "blank"}) < MaxOpenPages
  /\ ShowsLoaded(p)
  /\ UNCHANGED <<setting, settingCopy, lookup, straggling, settingCount>>

LeaveForm(p) ==
  /\ form[p].pc = "open"
  /\ form' = [form EXCEPT ![p] = Blank]
  /\ overtaken' = [overtaken EXCEPT ![p] = SettingKeys]
  /\ UNCHANGED <<setting, settingCopy, lookup, straggling, settingCount>>

(* The inputs stay enabled while a save is under way. *)
Type(p, k, v) ==
  /\ form[p].pc # "blank" /\ k \in Inputs(p)
  /\ settingCount.steps < MaxSettingSteps
  /\ form' = [form EXCEPT ![p].draft[k] = v]
  /\ settingCount' = [settingCount EXCEPT !.steps = @ + 1]
  /\ UNCHANGED <<setting, settingCopy, lookup, straggling, overtaken>>

ResetDetection(p) ==
  /\ form[p].pc = "open" /\ IsFor(p, "detection")
  /\ form' = [form EXCEPT ![p].draft = form[p].shown]
  /\ UNCHANGED <<setting, settingCopy, lookup, straggling, overtaken, settingCount>>

-----------------------------------------------------------------------------
(* A save *)

IsDirty(p) == form[p].draft # form[p].shown

(* parseScore: the detection page refuses a bad score itself. *)
MaySave(p) ==
  /\ IsFor(p, "billing") \/ IsFor(p, "detection") => IsDirty(p)
  /\ IsFor(p, "detection") => \A k \in DetectionKeys : form[p].draft[k] # BadValue

Sent(p) ==
  IF IsFor(p, "trial") /\ ~UsageTrial(form[p].draft) THEN Fields(p) \ QuotaKeys ELSE Fields(p)

SaveSettings(p) ==
  /\ form[p].pc = "open" /\ MaySave(p)
  /\ settingCount.steps < MaxSettingSteps
  /\ form' = [form EXCEPT ![p].pc = "saving", ![p].ask = form[p].draft, ![p].left = Sent(p)]
  /\ settingCount' = [settingCount EXCEPT !.steps = @ + 1]
  /\ UNCHANGED <<setting, settingCopy, lookup, straggling, overtaken>>

(* The rows change; pages that show them and copies of them are old.       *)
Written(values) ==
  setting' = [k \in SettingKeys |-> IF k \in DOMAIN values THEN values[k] ELSE setting[k]]

Overtaken(keys) == overtaken' = [p \in SettingPages |-> overtaken[p] \cup keys]

MissedBy(copy, k) == IF copy.held THEN [copy EXCEPT !.missed = @ \cup {k}] ELSE copy

(* A plausible bug: a process keeps its copy when it writes. *)
FaultyInvalidate(writer, k) ==
  /\ settingCopy' = [s \in AppServers |-> IF s = writer THEN settingCopy[s]
                                          ELSE MissedBy(settingCopy[s], k)]
  /\ lookup' = [l \in Lookups |-> [lookup[l] EXCEPT !.got = MissedBy(@, k)]]

(* updateSetting: the process that wrote drops its copy, the others keep   *)
(* theirs.                                                                 *)
Invalidate(writer, k) ==
  /\ settingCopy' = [s \in AppServers |-> IF s = writer THEN NoSettings
                                          ELSE MissedBy(settingCopy[s], k)]
  /\ lookup' = [l \in Lookups |-> [lookup[l] EXCEPT !.got = MissedBy(@, k)]]

StoreSetting(p, k) ==
  /\ form[p].pc = "saving" /\ k \in form[p].left \cap AppKeys
  /\ form[p].ask[k] # BadValue
  /\ Written([i \in {k} |-> form[p].ask[k]]) /\ Overtaken({k})
  /\ Invalidate(p[2], k)
  /\ form' = [form EXCEPT ![p].left = @ \ {k}]
  /\ UNCHANGED <<straggling, settingCount>>

(* One UPDATE of the one row, and the page shows what it returns unless    *)
(* the answer is lost.                                                     *)
StoreDetection(p) ==
  /\ form[p].pc = "saving" /\ IsFor(p, "detection")
  /\ Written([i \in DetectionKeys |-> form[p].ask[i]])
  /\ \/ /\ Shows(p, form[p].ask)
        /\ overtaken' = [q \in SettingPages |-> IF q = p THEN {} ELSE overtaken[q] \cup DetectionKeys]
     \/ /\ form' = [form EXCEPT ![p].pc = "open", ![p].left = {}]
        /\ Overtaken(DetectionKeys)
  /\ UNCHANGED <<settingCopy, lookup, straggling, settingCount>>

(* A value that is refused, or a failing database: the keys written so far *)
(* stay, the page keeps its draft.                                         *)
RefuseSave(p) ==
  /\ form[p].pc = "saving"
  /\ form' = [form EXCEPT ![p].pc = "open", ![p].left = {}]
  /\ UNCHANGED <<setting, settingCopy, lookup, straggling, overtaken, settingCount>>

-----------------------------------------------------------------------------
(* The limits of the usage trial, all at once *)

Limits(p) == {<<k, form[p].ask[k]>> : k \in QuotaKeys}

SendLimits(p) ==
  /\ form[p].pc = "saving" /\ IsFor(p, "trial")
  /\ form[p].left # {} /\ form[p].left \subseteq QuotaKeys
  /\ straggling' = [straggling EXCEPT ![p] = @ \cup Limits(p)]
  /\ form' = [form EXCEPT ![p].pc = "limits", ![p].left = {}]
  /\ UNCHANGED <<setting, settingCopy, lookup, overtaken, settingCount>>

StoreLimit(p, limit) ==
  /\ limit \in straggling[p]
  /\ Written([i \in {limit[1]} |-> limit[2]]) /\ Overtaken({limit[1]})
  /\ straggling' = [straggling EXCEPT ![p] = @ \ {limit}]
  /\ UNCHANGED <<settingCopy, lookup, form, settingCount>>

(* Promise.all: the first that fails ends the save, and the others go on.  *)
LimitFails(p, limit) ==
  /\ limit \in straggling[p]
  /\ straggling' = [straggling EXCEPT ![p] = @ \ {limit}]
  /\ form' = IF form[p].pc = "limits" /\ limit \in Limits(p)
             THEN [form EXCEPT ![p].pc = "open"] ELSE form
  /\ UNCHANGED <<setting, settingCopy, lookup, overtaken, settingCount>>

Stored(p) ==
  \/ form[p].pc = "saving" /\ form[p].left = {}
  \/ form[p].pc = "limits" /\ Limits(p) \cap straggling[p] = {}

(* The billing page shows the settings as its save left them; trial and    *)
(* referral page load again.  What was typed meanwhile is gone.            *)
ShowStored(p) ==
  /\ Stored(p)
  /\ ShowsLoaded(p)
  /\ UNCHANGED <<setting, settingCopy, lookup, straggling, settingCount>>

(* The save went through, the load after it did not. *)
ReloadFails(p) ==
  /\ Stored(p) /\ (IsFor(p, "trial") \/ IsFor(p, "referral"))
  /\ form' = [form EXCEPT ![p].pc = "open"]
  /\ UNCHANGED <<setting, settingCopy, lookup, straggling, overtaken, settingCount>>

-----------------------------------------------------------------------------
(* loadSettings, as everybody calls it who asks for a setting *)

LookUp(l) ==
  /\ lookup[l].pc = "idle" /\ ~settingCopy[l[2]].held
  /\ settingCount.lookups < MaxLookups
  /\ lookup' = [lookup EXCEPT ![l] = [pc |-> "asked", got |-> NoSettings]]
  /\ settingCount' = [settingCount EXCEPT !.lookups = @ + 1]
  /\ UNCHANGED <<setting, settingCopy, form, straggling, overtaken>>

(* getAllSettings, or the defaults if it throws. *)
Answered(l, copy) ==
  /\ lookup[l].pc = "asked"
  /\ lookup' = [lookup EXCEPT ![l] = [pc |-> "answered", got |-> copy]]
  /\ UNCHANGED <<setting, settingCopy, form, straggling, overtaken, settingCount>>

ReadSettings(l) ==
  Answered(l, [held |-> TRUE, view |-> [k \in AppKeys |-> setting[k]], missed |-> {}])

ReadFails(l) == Answered(l, [held |-> TRUE, view |-> DefaultCopy, missed |-> AppKeys])

(* The answer becomes the copy, whatever was written since it was read.    *)
KeepSettings(l) ==
  /\ lookup[l].pc = "answered"
  /\ settingCopy' = [settingCopy EXCEPT ![l[2]] = lookup[l].got]
  /\ lookup' = [lookup EXCEPT ![l] = [pc |-> "idle", got |-> NoSettings]]
  /\ UNCHANGED <<setting, form, straggling, overtaken, settingCount>>

(* CACHE_TTL_MS *)
CopyEnds(s) ==
  /\ settingCopy[s].held
  /\ settingCopy' = [settingCopy EXCEPT ![s] = NoSettings]
  /\ UNCHANGED <<setting, lookup, form, straggling, overtaken, settingCount>>

PageStep(p) ==
  \/ OpenForm(p) \/ LeaveForm(p) \/ ResetDetection(p)
  \/ \E k \in SettingKeys : \E v \in Typed(k) : Type(p, k, v)
  \/ SaveSettings(p) \/ RefuseSave(p) \/ StoreDetection(p) \/ SendLimits(p)
  \/ \E k \in AppKeys : StoreSetting(p, k)
  \/ \E limit \in straggling[p] : StoreLimit(p, limit) \/ LimitFails(p, limit)
  \/ ShowStored(p) \/ ReloadFails(p)

SettingsNext ==
  \/ \E p \in SettingPages : PageStep(p)
  \/ \E l \in Lookups : LookUp(l) \/ ReadSettings(l) \/ ReadFails(l) \/ KeepSettings(l)
  \/ \E s \in AppServers : CopyEnds(s)

SettingsSpec == SettingsInit /\ [][SettingsNext]_settingVars

-----------------------------------------------------------------------------
(* Properties *)

(* "invalidates cache": a copy that is kept differs from the table only in *)
(* what another process has written since it was read, what was written    *)
(* between the reading and the keeping, and after a failed read.           *)
CopiesAreCurrent ==
  \A s \in AppServers : settingCopy[s].held =>
    \A k \in AppKeys \ settingCopy[s].missed : settingCopy[s].view[k] = setting[k]

(* A page shows as stored what is stored, until somebody writes it.        *)
ShownIsStored ==
  \A p \in SettingPages : \A k \in ReadFields(p) \ overtaken[p] : form[p].shown[k] = setting[k]

(* A save changes what its administrator typed, or what had changed since  *)
(* the page read it: the billing page alone takes back what other pages    *)
(* saved, and only what it has not seen; the referral page resets its own. *)
Meant(p, k) ==
  \/ k \in OwnFields(p) /\ (setting'[k] # form[p].shown[k] \/ IsFor(p, "referral"))
  \/ k \in Fields(p) \cap overtaken[p]

NothingIsUndone ==
  [][\A k \in SettingKeys : setting'[k] # setting[k] =>
       \E p \in SettingPages : (form[p].pc = "saving" \/ straggling[p] # {}) /\ Meant(p, k)]_settingVars

SettingsAreSound == [](CopiesAreCurrent /\ ShownIsStored) /\ NothingIsUndone
=============================================================================
