------------------------------ MODULE PlanEditor ------------------------------
(***************************************************************************)
(* The plans on sale, and the administrators who edit them.  An editor     *)
(* works on a draft of a plan as it was listed; saving it runs statement   *)
(* after statement.  Only the first, which takes the popular badge from    *)
(* the other plans, is inside the transaction: every later one goes        *)
(* through the pool and stays when the save fails.                         *)
(***************************************************************************)
EXTENDS CheckoutPages, Functions

CONSTANTS PlanIds,      \* plans, by slug
          FirstPlans,   \* those there from the beginning
          PlanFeatures, \* the features of the picker: boolean, active
          PriceIds,     \* rows of plan_price_points
          Offers,       \* an amount and a period
          BadOffers,    \* those without a valid period
          NoOffer,      \* no such option
          PlanEditors,  \* administrators' pages
          MaxPlanSaves  \* bound: saves

ASSUME PlanAssumption ==
  /\ FirstPlans \subseteq PlanIds /\ PlanIds # {} /\ IsFiniteSet(FirstPlans)
  /\ ExistsInjection(FirstPlans, PriceIds)     \* there is a price for each of them
  /\ BadOffers \subseteq Offers /\ BadOffers # Offers /\ NoOffer \notin Offers
  /\ MaxPlanSaves \in Nat

VARIABLES plans,        \* plans, plan_entitlements with value true, plan_features
          prices,       \* plan_price_points
          singleBadge,  \* the setting single_popular_plan: one badge at most
          planOp,       \* editor -> its draft and how far its save is
          planHistory   \* saves; whether popular saves have crossed, broken off or
                        \* run with the setting off

planVars == <<plans, prices, singleBadge, planOp, planHistory>>

PlanForm == [plan : PlanIds, create : BOOLEAN, popular : BOOLEAN, features : SUBSET PlanFeatures,
          priced : [PriceIds -> Offers \cup {NoOffer}], fresh : BOOLEAN,
          limits : BOOLEAN]

PlanTypeOK ==
  /\ plans \in [PlanIds -> [there : BOOLEAN, popular : BOOLEAN, granted : SUBSET PlanFeatures,
                            shown : SUBSET PlanFeatures]]
  /\ prices \in [PriceIds -> [there : BOOLEAN, plan : PlanIds, offer : Offers]]
  /\ \A e \in PlanEditors :
       /\ planOp[e].pc \in {"closed", "open", "create", "clear", "update", "price", "grant", "list",
                            "show", "commit"}
       /\ planOp[e].form \in PlanForm
       /\ planOp[e].cleared \subseteq PlanIds
       /\ planOp[e].old \subseteq PlanFeatures
       /\ planOp[e].alone \in BOOLEAN
  /\ singleBadge \in BOOLEAN
  /\ planHistory \in [saves : 0..MaxPlanSaves, crossed : BOOLEAN]

AnyPlan == CHOOSE p \in PlanIds : TRUE

GoodOffer == CHOOSE o \in Offers \ BadOffers : TRUE      \* emptyPricePoint

NoPlan == [there |-> FALSE, popular |-> FALSE, granted |-> {}, shown |-> {}]

NoDraft == [plan |-> AnyPlan, create |-> FALSE, popular |-> FALSE, features |-> {},
            priced |-> [i \in PriceIds |-> NoOffer], fresh |-> FALSE, limits |-> TRUE]

NoSave == [pc |-> "closed", form |-> NoDraft, cleared |-> {}, old |-> {},
           alone |-> FALSE]

(* One price each, every feature, at most one badge. *)
PlanInit ==
  /\ \E badge \in SUBSET FirstPlans :
       /\ Cardinality(badge) <= 1
       /\ plans = [p \in PlanIds |->
                     IF p \in FirstPlans THEN [there |-> TRUE, popular |-> p \in badge,
                                              granted |-> PlanFeatures, shown |-> PlanFeatures]
                     ELSE NoPlan]
  /\ LET own == CHOOSE f \in [FirstPlans -> PriceIds] : IsInjective(f)
     IN  prices = [i \in PriceIds |->
                     [there |-> i \in Range(own), offer |-> GoodOffer,
                      plan |-> IF i \in Range(own) THEN AntiFunction(own)[i] ELSE AnyPlan]]
  /\ singleBadge \in BOOLEAN
  /\ planOp = [e \in PlanEditors |-> NoSave]
  /\ planHistory = [saves |-> 0, crossed |-> FALSE]

-----------------------------------------------------------------------------
(* updateSetting *)
SwitchSingleBadge ==
  /\ singleBadge' = ~singleBadge
  /\ UNCHANGED <<plans, prices, planOp, planHistory>>

-----------------------------------------------------------------------------
(* The editor *)

PricesOf(p) == {i \in PriceIds : prices[i].there /\ prices[i].plan = p}

(* draftFromPlan: what is granted is selected as well; a plan without a    *)
(* price gets an option to fill in.                                        *)
DraftOf(p) ==
  [NoDraft EXCEPT !.plan = p, !.popular = plans[p].popular,
                  !.features = plans[p].shown \cup plans[p].granted,
                  !.priced = [i \in PriceIds |-> IF i \in PricesOf(p) THEN prices[i].offer ELSE NoOffer],
                  !.fresh = PricesOf(p) = {}]

Opens(e, form) ==
  /\ planOp[e].pc = "closed" /\ planHistory.saves < MaxPlanSaves
  /\ planOp' = [planOp EXCEPT ![e].pc = "open", ![e].form = form]
  /\ UNCHANGED <<plans, prices, singleBadge, planHistory>>

OpenEdit(e, p) == plans[p].there /\ Opens(e, DraftOf(p))

(* The copy's options still bear the ids of the source's. *)
OpenDuplicate(e, p, slug) ==
  /\ plans[p].there /\ ~plans[slug].there
  /\ Opens(e, [DraftOf(p) EXCEPT !.plan = slug, !.create = TRUE, !.popular = FALSE])

OpenBlank(e, slug) ==
  /\ ~plans[slug].there
  /\ Opens(e, [NoDraft EXCEPT !.plan = slug, !.create = TRUE, !.fresh = TRUE])

(* What the administrator may have made of a draft, one thing being        *)
(* changed.  The badge is asked for again while another plan has it.       *)
BadgeTurned(form) == [form EXCEPT !.popular = ~@]
FeatureTurned(form, f) == [form EXCEPT !.features = (@ \ {f}) \cup ({f} \ @)]
OptionAdded(form) == [form EXCEPT !.fresh = TRUE]
OptionChanged(form, i, offer) == [form EXCEPT !.priced[i] = offer]     \* removed: NoOffer
LimitMistyped(form) == [form EXCEPT !.limits = FALSE]

Edited(form) ==
  LET right == [form EXCEPT !.limits = TRUE] IN
  {right, BadgeTurned(right), OptionAdded(right), LimitMistyped(right)}
    \cup {FeatureTurned(right, f) : f \in PlanFeatures}
    \cup {OptionChanged(right, i, o) :
             i \in {j \in PriceIds : form.priced[j] # NoOffer}, o \in Offers \cup {NoOffer}}

HasAnOption(form) == form.fresh \/ \E i \in PriceIds : form.priced[i] # NoOffer

(* handleSave.  Closing discards the draft, after a question.              *)
AskPlanSave(e, form) ==
  /\ planOp[e].pc = "open" /\ planHistory.saves < MaxPlanSaves
  /\ HasAnOption(form)
  /\ planOp' = [planOp EXCEPT ![e] = [NoSave EXCEPT !.pc = IF form.create THEN "create" ELSE "clear",
                                                    !.form = form]]
  /\ planHistory' = [planHistory EXCEPT !.saves = @ + 1]
  /\ UNCHANGED <<plans, prices, singleBadge>>

CloseEditor(e) ==
  /\ planOp[e].pc = "open" /\ planOp' = [planOp EXCEPT ![e] = NoSave]
  /\ UNCHANGED <<plans, prices, singleBadge, planHistory>>

-----------------------------------------------------------------------------
(* A save, statement by statement *)

SaveGoes(e, pc) == planOp' = [planOp EXCEPT ![e].pc = pc]

(* The error comes back to the editor, which keeps its draft. *)
BackToEditor(e) ==
  planOp' = [planOp EXCEPT ![e] = [NoSave EXCEPT !.pc = "open", !.form = planOp[e].form]]

(* Saves of popular plans that are between their first statement and the   *)
(* commit, and the rows they keep locked.                                  *)
SaveUnderWay == {"update", "price", "grant", "list", "show", "commit"}
Badging(e) == planOp[e].pc \in SaveUnderWay /\ planOp[e].form.popular
LockedBy(e) == planOp[e].cleared
FreeFor(e, p) == \A d \in PlanEditors \ {e} : p \notin LockedBy(d)

(* createPlanWithConfig: the slug is unique. *)
CreatePlan(e) ==
  LET p == planOp[e].form.plan IN
  /\ planOp[e].pc = "create"
  /\ IF plans[p].there THEN BackToEditor(e) /\ UNCHANGED plans
     ELSE plans' = [plans EXCEPT ![p].there = TRUE] /\ SaveGoes(e, "clear")
  /\ UNCHANGED <<prices, singleBadge, planHistory>>

OthersWithBadge(p) == {q \in PlanIds : q # p /\ plans[q].popular}

(* isSinglePopularPlanEnabled, then clearPopularExcept, which waits for    *)
(* rows that another save has locked.  With the setting off nothing is     *)
(* cleared, and the save settles nothing.                                  *)
ClearPopular(e) ==
  LET form == planOp[e].form
      others == IF singleBadge THEN OthersWithBadge(form.plan) ELSE {}
      meets == \E d \in PlanEditors \ {e} : Badging(d)
  IN
  /\ planOp[e].pc = "clear"
  /\ IF ~form.popular THEN SaveGoes(e, "update") /\ UNCHANGED planHistory
     ELSE /\ \A p \in others : FreeFor(e, p)
          /\ planOp' = [d \in PlanEditors |->
                IF d = e THEN [planOp[e] EXCEPT !.pc = "update", !.cleared = others,
                                              !.alone = singleBadge /\ ~meets]
                ELSE [planOp[d] EXCEPT !.alone = @ /\ ~Badging(d)]]
          /\ planHistory' = [planHistory EXCEPT !.crossed = @ \/ meets \/ ~singleBadge]
  /\ UNCHANGED <<plans, prices, singleBadge>>

(* updatePlan, by another connection than the transaction's.               *)
UpdatePlan(e) ==
  LET form == planOp[e].form IN
  /\ planOp[e].pc = "update" /\ FreeFor(e, form.plan)
  /\ plans' = [plans EXCEPT ![form.plan].popular = form.popular]
  /\ SaveGoes(e, "price")
  /\ UNCHANGED <<prices, singleBadge, planHistory>>

(* updatePricePoint's WHERE. *)
Own(p, i) == prices[i].there /\ prices[i].plan = p

(* What the options make of the prices, those in done being written.       *)
Priced(form, done) ==
  [i \in PriceIds |-> IF i \in done /\ Own(form.plan, i)
                      THEN [prices[i] EXCEPT !.offer = form.priced[i]] ELSE prices[i]]

(* The options in turn, up to the first without a period; one that the     *)
(* draft does not list is left as it is.                                   *)
SavePrices(e) ==
  LET form == planOp[e].form
      listed == {i \in PriceIds : form.priced[i] # NoOffer}
      bad == {i \in listed : form.priced[i] \in BadOffers}
  IN
  /\ planOp[e].pc = "price"
  /\ \/ /\ bad = {} /\ ~form.fresh
        /\ prices' = Priced(form, listed) /\ SaveGoes(e, "grant")
     \/ /\ bad = {} /\ form.fresh
        /\ \E i \in PriceIds :
              /\ ~prices[i].there
              /\ prices' = [Priced(form, listed) EXCEPT ![i] = [there |-> TRUE, plan |-> form.plan,
                                                                  offer |-> GoodOffer]]
        /\ SaveGoes(e, "grant")
     \/ /\ bad # {}
        /\ \E done \in SUBSET (listed \ bad) : prices' = Priced(form, done)
        /\ BackToEditor(e)
  /\ planHistory' = [planHistory EXCEPT !.crossed = @ \/ (bad # {} /\ form.popular)]
  /\ UNCHANGED <<plans, singleBadge>>

(* A feature that is not selected is not in what the editor sends: its     *)
(* entitlement stays.                                                      *)
GrantFeatures(e) ==
  LET form == planOp[e].form IN
  /\ planOp[e].pc = "grant"
  /\ plans' = [plans EXCEPT ![form.plan].granted = @ \cup form.features]
  /\ IF form.limits
     THEN SaveGoes(e, "list") /\ UNCHANGED planHistory
     ELSE /\ BackToEditor(e)
          /\ planHistory' = [planHistory EXCEPT !.crossed = @ \/ form.popular]
  /\ UNCHANGED <<prices, singleBadge>>

(* replacePlanFeatures deletes the rows that it sees ...                   *)
ListFeatures(e) ==
  /\ planOp[e].pc = "list"
  /\ planOp' = [planOp EXCEPT ![e].pc = "show", ![e].old = plans[planOp[e].form.plan].shown]
  /\ UNCHANGED <<plans, prices, singleBadge, planHistory>>

(* ... and inserts its own; one that is there by now is refused.           *)
ShowFeatures(e) ==
  LET op == planOp[e]
      kept == plans[op.form.plan].shown \ op.old
  IN
  /\ op.pc = "show"
  /\ IF kept \cap op.form.features # {}
     THEN /\ BackToEditor(e) /\ UNCHANGED plans
          /\ planHistory' = [planHistory EXCEPT !.crossed = @ \/ op.form.popular]
     ELSE /\ plans' = [plans EXCEPT ![op.form.plan].shown = kept \cup op.form.features]
          /\ SaveGoes(e, "commit") /\ UNCHANGED planHistory
  /\ UNCHANGED <<prices, singleBadge>>

(* A popular save that met no other and came to its end has settled whose  *)
(* badge it is.                                                            *)
CommitSave(e) ==
  LET op == planOp[e] IN
  /\ op.pc = "commit"
  /\ plans' = [p \in PlanIds |-> IF p \in op.cleared THEN [plans[p] EXCEPT !.popular = FALSE]
                                 ELSE plans[p]]
  /\ planOp' = [planOp EXCEPT ![e] = NoSave]
  /\ planHistory' = [planHistory EXCEPT !.crossed = @ /\ ~(op.form.popular /\ op.alone)]
  /\ UNCHANGED <<prices, singleBadge>>

(* The database fails, or the process: what was written stays, the badges  *)
(* stay where they were.                                                   *)
SaveBreaks(e) ==
  /\ planOp[e].pc \in SaveUnderWay \cup {"clear"}
  /\ BackToEditor(e)
  /\ planHistory' = [planHistory EXCEPT !.crossed = @ \/ Badging(e)]
  /\ UNCHANGED <<plans, prices, singleBadge>>

PlanNext ==
  \/ SwitchSingleBadge
  \/ \E e \in PlanEditors :
       \/ \E p \in PlanIds : \/ OpenEdit(e, p) \/ OpenBlank(e, p)
                             \/ \E slug \in PlanIds : OpenDuplicate(e, p, slug)
       \/ \E form \in Edited(planOp[e].form) : AskPlanSave(e, form)
       \/ CloseEditor(e) \/ CreatePlan(e) \/ ClearPopular(e) \/ UpdatePlan(e) \/ SavePrices(e)
       \/ GrantFeatures(e) \/ ListFeatures(e) \/ ShowFeatures(e) \/ CommitSave(e) \/ SaveBreaks(e)

PlanSpec == PlanInit /\ [][PlanNext]_planVars

-----------------------------------------------------------------------------
(* What the pricing page says is included is granted to who buys it,       *)
(* however many editors save, and wherever a save breaks off.              *)
ShownIsGranted == \A p \in PlanIds : plans[p].shown \subseteq plans[p].granted

(* Unless saves of popular plans have crossed, broken off or run with the  *)
(* setting off, and nobody has settled it since, one plan at most has the  *)
(* badge.                                                                  *)
OneBadge ==
  ~planHistory.crossed /\ (\A e \in PlanEditors : ~Badging(e)) =>
    Cardinality({p \in PlanIds : plans[p].popular}) <= 1

(* A price is changed by a save of its own plan only: a copy of a plan     *)
(* that still bears its ids never touches it, and no price goes away or    *)
(* over to another plan.                                                   *)
PricesStayHome ==
  [][\A i \in PriceIds : prices[i].there /\ prices'[i] # prices[i] =>
       /\ prices'[i].there /\ prices'[i].plan = prices[i].plan
       /\ \E e \in PlanEditors : planOp[e].pc = "price" /\ planOp[e].form.plan = prices[i].plan]_planVars

-----------------------------------------------------------------------------
(* Plans and shop together: the plans on sale grant what they show, one    *)
(* has the badge, and a copy of a plan leaves its prices alone.  A payment *)
(* buys what was ordered, once unless its settlement met another, at no    *)
(* more than was shown, a discount once; and no paid subscription becomes  *)
(* a trial.                                                                *)
SalesAreSound ==
  /\ [](ShownIsGranted /\ OneBadge)
  /\ PricesStayHome
  /\ [](OneDiscount /\ ChargedAsShown /\ GrantsWhatWasOrdered)
  /\ SettledForGood
  /\ TrialsDoNotReplace
=============================================================================
