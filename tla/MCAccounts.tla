----------------------------- MODULE MCAccounts -----------------------------
(***************************************************************************)
(* The components that decide who a user is and what he may use: session,  *)
(* setup, plans, payments, quota, mail accounts, keys.  As in MCPlatform,  *)
(* one of Parts takes steps.                                               *)
(***************************************************************************)
EXTENDS BillingAccess, QuotaAccounting, MailAccounts, UserSession,
        Onboarding, AiCredentials, PlanEditor, CheckoutPages,
        AdminSettings, TLC

CONSTANTS Parts

VARIABLE part

TwoDeals == {[amount |-> 400, days |-> 30], [amount |-> 90, days |-> 365]}

(* The forms of the administrators, and the processes they are answered by. *)
FourPages == {<<"billing", "s1">>, <<"trial", "s2">>, <<"referral", "s1">>, <<"detection", "s1">>}

OneLookup == {<<"lookup", "s1">>}

OnlyBilling ==
  /\ part = "billing"
  /\ UNCHANGED <<part, quotaVars, mailVars, sessionVars, onboardVars, chainVars,
                planVars, shopVars, settingVars>>

OnlyQuota ==
  /\ part = "quota"
  /\ UNCHANGED <<part, billingVars, mailVars, sessionVars, onboardVars, chainVars,
                planVars, shopVars, settingVars>>

OnlyMail ==
  /\ part = "mail"
  /\ UNCHANGED <<part, billingVars, quotaVars, sessionVars, onboardVars, chainVars,
                planVars, shopVars, settingVars>>

OnlySession ==
  /\ part = "session"
  /\ UNCHANGED <<part, billingVars, quotaVars, mailVars, onboardVars, chainVars,
                planVars, shopVars, settingVars>>

OnlyOnboard ==
  /\ part = "onboarding"
  /\ UNCHANGED <<part, billingVars, quotaVars, mailVars, sessionVars, chainVars,
                planVars, shopVars, settingVars>>

OnlyChain ==
  /\ part = "chain"
  /\ UNCHANGED <<part, billingVars, quotaVars, mailVars, sessionVars, onboardVars,
                planVars, shopVars, settingVars>>

OnlyPlan ==
  /\ part = "planEditor"
  /\ UNCHANGED <<part, billingVars, quotaVars, mailVars, sessionVars, onboardVars,
                chainVars, shopVars, settingVars>>

OnlyShop ==
  /\ part = "checkout"
  /\ UNCHANGED <<part, billingVars, quotaVars, mailVars, sessionVars, onboardVars,
                chainVars, planVars, settingVars>>

OnlySettings ==
  /\ part = "settings"
  /\ UNCHANGED <<part, billingVars, quotaVars, mailVars, sessionVars, onboardVars,
                chainVars, planVars, shopVars>>

(* The other components stay where they begin. *)
MCInit ==
  /\ part \in Parts
  /\ BillingInit
  /\ QuotaInit
  /\ part = "quota" \/ planQuota = CHOOSE q \in Quotas : TRUE
  /\ MailInit
  /\ SessionInit
  /\ part = "session" \/ (login.who = NoIdentity /\ server.of = [a \in Identities |-> "new"])
  /\ OnboardInit
  /\ part = "onboarding" \/ (trigger = "off" /\ ~member.ai /\ ~member.subscribed)
  /\ ChainInit
  /\ part = "chain" \/ chain = [c \in UserKeys |-> NoRow]
  /\ PlanInit
  /\ (part = "planEditor" => singleBadge /\ \E p \in PlanIds : plans[p].popular)
  /\ part = "planEditor" \/ (singleBadge /\ \A p \in PlanIds : ~plans[p].popular)
  /\ ShopInit
  /\ (part = "checkout" => shop.deal.amount = 400)
  /\ part = "checkout" \/ shop = CHOOSE s \in [deal : Deals, cut : Cuts, open : {"open"}] : TRUE
  /\ SettingsInit
  /\ setting = AllDefault

MCNext ==
  \/ OnlyBilling /\ BillingNext
  \/ OnlyQuota /\ QuotaNext
  \/ OnlyMail /\ MailNext
  \/ OnlySession /\ SessionNext
  \/ OnlyOnboard /\ OnboardNext
  \/ OnlyChain /\ ChainNext
  \/ OnlyPlan /\ PlanNext
  \/ OnlyShop /\ ShopNext
  \/ OnlySettings /\ SettingsNext

vars == <<part, billingVars, quotaVars, mailVars, sessionVars, onboardVars,
          chainVars, planVars, shopVars, settingVars>>

MCSafetySpec == MCInit /\ [][MCNext]_vars

(* Every component's state has its type (the type invariants of the        *)
(* components, each looked at where its state changes).                    *)
AccountsTypeOK ==
  /\ part = "billing" => BillingTypeOK
  /\ part = "quota" => QuotaTypeOK
  /\ part = "mail" => MailTypeOK
  /\ part = "session" => SessionTypeOK
  /\ part = "onboarding" => OnboardTypeOK
  /\ part = "chain" => ChainTypeOK
  /\ part = "planEditor" => PlanTypeOK
  /\ part = "checkout" => ShopTypeOK
  /\ part = "settings" => SettingsTypeOK
=============================================================================
