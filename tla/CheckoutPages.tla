---------------------------- MODULE CheckoutPages ----------------------------
(***************************************************************************)
(* One user's pricing and subscription pages.  A page shows a plan as it   *)
(* was when the page read it; the server decides on amount and discount    *)
(* when an order is made and on the period when its payment is settled.    *)
(* Settling is up to the page's verification and to the provider's         *)
(* webhook: both look for the payment, read the live row and write to it,  *)
(* under READ COMMITTED, so that two settlements of one user may count a   *)
(* payment twice or write over one another.  (Rows, failures and campaign  *)
(* slots in detail: BillingAccess.)                                        *)
(***************************************************************************)
EXTENDS Integers, FiniteSets

CONSTANTS ShopPages,      \* open pages
          PricingPages,   \* those that are pages/pricing.tsx, not pages/subscriptions.tsx
          MaxOrders,      \* bound: orders at the payment provider
          Deals,          \* what a price point may say: [amount (paise), days]
          Cuts,           \* the discountType of the campaign: some of "none", "percent", "fixed"
          CutPercent, CutPaise,   \* its discountAmount, by the type
          MaxShopTurns,   \* bound: orders, edits of the price, settings switched, periods that end
          MaxSettlements  \* bound: settlements begun

ASSUME ShopAssumption ==
  /\ PricingPages \subseteq ShopPages
  /\ Deals \subseteq [amount : Nat \ {0}, days : Nat \ {0}]
  /\ Cuts \subseteq {"none", "percent", "fixed"}
  /\ MaxOrders \in Nat /\ CutPercent \in 0..100 /\ CutPaise \in Nat /\ MaxShopTurns \in Nat
  /\ MaxSettlements \in Nat

VARIABLES shop,        \* the plan's price point, the campaign's discountType, the settings
          order,       \* payment_attempts, payments and what the provider knows; the
                       \* days of access that are there for a payment
          access,      \* the live row of user_subscriptions, and the campaigns redeemed
          settling,    \* order -> how far its verification and its webhook are
          shopPage,    \* what a page shows and waits for
          shopHistory  \* what excuses: changes, overlapping or unclaimed discounts,
                       \* orders whose settlement met another one

shopVars == <<shop, order, access, settling, shopPage, shopHistory>>

ShopOrders == 1..MaxOrders

NoOrder == 0

Settlers == {"verify", "webhook"}

ShopAmounts == {d.amount : d \in Deals}

ShopPeriods == {d.days : d \in Deals}

PlanCard == [amount : ShopAmounts \cup {0}, trial : BOOLEAN, cut : BOOLEAN, changes : 0..MaxShopTurns]

ShopTypeOK ==
  /\ shop \in [deal : Deals, cut : Cuts,
               open : {"open", "checkoutOff", "paywallOff"}]
  /\ \A o \in ShopOrders :
       /\ order[o].pc \in {"none", "open", "captured", "paid"}
       /\ order[o].amount \in Nat \ 1..99 /\ order[o].shown \in Nat /\ order[o].cut \in BOOLEAN
       /\ order[o].days \in ShopPeriods \cup {0} /\ order[o].granted \in Nat
       /\ order[o].edited \in BOOLEAN /\ order[o].since \in 0..MaxShopTurns
  /\ access \in [status : {"none", "trialing", "active"}, ending : BOOLEAN, redeemed : SUBSET {"trial", "discount"}]
  /\ \A o \in ShopOrders, s \in Settlers :
       /\ settling[o][s].pc \in {"idle", "asked", "read", "write", "done"}
       /\ settling[o][s].days \in ShopPeriods \cup {0} /\ settling[o][s].live \in BOOLEAN
       /\ settling[o][s].base \in [ShopOrders -> Nat]
  /\ \A t \in ShopPages :
       /\ shopPage[t].busy \in {"away", "rest", "order", "modal", "verify", "claim", "cancel", "refresh", "stuck"}
       /\ shopPage[t].card \in PlanCard /\ shopPage[t].canPay \in BOOLEAN
       /\ shopPage[t].status \in {"none", "trialing", "active"} /\ shopPage[t].ending \in BOOLEAN
       /\ shopPage[t].order \in ShopOrders \cup {NoOrder}
  /\ shopHistory \in [changes : 0..MaxShopTurns, overlap : BOOLEAN, unclaimed : BOOLEAN,
                      met : SUBSET ShopOrders]

Paid(o) == order[o].pc = "paid"          \* payments has its row

Unpaid(o) == order[o].pc \in {"open", "captured"}

ShopIsOpen == shop.open = "open"

FaultyEligible(campaign) == campaign = "discount" => shop.cut # "none"

(* evaluate: a campaign is for those who have not redeemed it. *)
Eligible(campaign) ==
  /\ campaign = "discount" => shop.cut # "none"
  /\ campaign \notin access.redeemed

(* computeDiscountPaise; Math.round of halves goes up. *)
Discount(amount) ==
  LET off == IF shop.cut = "percent" THEN (amount * CutPercent + 50) \div 100
             ELSE IF shop.cut = "fixed" THEN CutPaise ELSE 0
  IN  IF off < amount THEN off ELSE amount

FaultyAtLeastMinimum(amount) == amount

(* The provider takes no order of less than a rupee. *)
AtLeastMinimum(amount) == IF amount < 100 THEN 100 ELSE amount

(* The card as GET /api/pricing describes the plan now. *)
CardNow == [amount |-> shop.deal.amount, trial |-> Eligible("trial"),
            cut |-> Eligible("discount"), changes |-> shopHistory.changes]

NoCard == [amount |-> 0, trial |-> FALSE, cut |-> FALSE, changes |-> 0]

NothingGranted == [o \in ShopOrders |-> 0]

NoSettlement == [pc |-> "idle", days |-> 0, live |-> FALSE, base |-> NothingGranted]

NoPage == [busy |-> "away", card |-> NoCard, canPay |-> TRUE,
           status |-> "none", ending |-> FALSE, order |-> NoOrder]

ShopInit ==
  /\ shop \in [deal : Deals, cut : Cuts, open : {"open"}]
  /\ order = [o \in ShopOrders |-> [pc |-> "none", amount |-> 0, shown |-> 0, cut |-> FALSE, days |-> 0,
                                    granted |-> 0, edited |-> FALSE, since |-> 0]]
  /\ access = [status |-> "none", ending |-> FALSE, redeemed |-> {}]
  /\ settling = [o \in ShopOrders |-> [s \in Settlers |-> NoSettlement]]
  /\ shopHistory = [changes |-> 0, overlap |-> FALSE, unclaimed |-> FALSE, met |-> {}]
  /\ shopPage = [t \in ShopPages |-> NoPage]

PageTurns(t, to) == shopPage' = [shopPage EXCEPT ![t].busy = to, ![t].order = NoOrder]

-----------------------------------------------------------------------------
(* The bound on orders and changes.                                        *)
MayTakeTurn ==
  shopHistory.changes + Cardinality({o \in ShopOrders : order[o].pc # "none"}) < MaxShopTurns

(* An administrator edits the price point or switches a setting; the       *)
(* access period ends.                                                     *)
OneMoreChange ==
  /\ MayTakeTurn
  /\ shopHistory' = [shopHistory EXCEPT !.changes = @ + 1]

EditPricePoint ==
  /\ OneMoreChange
  /\ \E d \in Deals : d # shop.deal /\ shop' = [shop EXCEPT !.deal = d]
  /\ order' = [o \in ShopOrders |-> [order[o] EXCEPT !.edited = @ \/ Unpaid(o)]]
  /\ UNCHANGED <<access, settling, shopPage>>

SwitchSetting ==
  /\ OneMoreChange
  /\ \E to \in {"open", "checkoutOff", "paywallOff"} : to # shop.open /\ shop' = [shop EXCEPT !.open = to]
  /\ UNCHANGED <<order, access, settling, shopPage>>

PeriodEnds ==
  /\ OneMoreChange
  /\ access.status # "none"
  /\ access' = [access EXCEPT !.status = "none"]
  /\ UNCHANGED <<shop, order, settling, shopPage>>

-----------------------------------------------------------------------------
(* A page: what it reads, what it offers.                                  *)
Reads(t) ==
  shopPage' = [shopPage EXCEPT ![t] =
    IF t \in PricingPages THEN [NoPage EXCEPT !.busy = "rest", !.card = CardNow]
    ELSE [busy |-> "rest", card |-> CardNow, canPay |-> shop.open # "checkoutOff",
          status |-> access.status, ending |-> access.status # "none" /\ access.ending,
          order |-> NoOrder]]

(* Opened or reloaded, whatever it was waiting for. *)
OpenPage(t) ==
  /\ shopPage[t].busy \in {"away", "rest", "modal", "verify", "refresh", "stuck"}
  /\ Reads(t)
  /\ UNCHANGED <<shop, order, access, settling, shopHistory>>

(* The pricing page offers a trial before it offers to subscribe; the      *)
(* subscriptions page knows the subscription it read.                      *)
ShowsTrial(t) == shopPage[t].card.trial /\ (t \in PricingPages \/ shopPage[t].status = "none")

ShowsSubscribe(t) ==
  /\ ~ShowsTrial(t)
  /\ t \in PricingPages \/ (shopPage[t].status # "active" /\ shopPage[t].canPay)

(* handleSubscribe: without the provider's script it returns, and nothing  *)
(* ends the page's busy state.                                             *)
AskOrder(t) ==
  /\ shopPage[t].busy = "rest" /\ ShowsSubscribe(t)
  /\ \/ PageTurns(t, "order")
     \/ PageTurns(t, "stuck")
  /\ UNCHANGED <<shop, order, access, settling, shopHistory>>

(* createCheckout: the amount is the server's, at this moment. *)
CreateOrder(t, o) ==
  /\ shopPage[t].busy = "order" /\ ShopIsOpen /\ MayTakeTurn
  /\ order[o].pc = "none" /\ \A p \in ShopOrders : p < o => order[p].pc # "none"
  /\ LET cut == shopPage[t].card.cut /\ Eligible("discount")
     IN  /\ order' = [order EXCEPT ![o] = [pc |-> "open", cut |-> cut, days |-> shop.deal.days, granted |-> 0,
                        amount |-> AtLeastMinimum(shop.deal.amount - (IF cut THEN Discount(shop.deal.amount) ELSE 0)),
                        shown |-> shopPage[t].card.amount, edited |-> FALSE,
                        since |-> shopPage[t].card.changes]]
         /\ shopHistory' = [shopHistory EXCEPT !.overlap = @ \/ (cut /\ \E p \in ShopOrders : Unpaid(p) /\ order[p].cut)]
  /\ shopPage' = [shopPage EXCEPT ![t].busy = "modal", ![t].order = o]
  /\ UNCHANGED <<shop, access, settling>>

OrderRefused(t) ==
  /\ shopPage[t].busy = "order"
  /\ PageTurns(t, "rest")
  /\ UNCHANGED <<shop, order, access, settling, shopHistory>>

(* The provider's modal.  It may be dismissed, and a payment begun in it   *)
(* may still be captured later, when no handler hears of it.               *)
PayInModal(t) ==
  /\ shopPage[t].busy = "modal" /\ order[shopPage[t].order].pc = "open"
  /\ order' = [order EXCEPT ![shopPage[t].order].pc = "captured"]
  /\ settling' = [settling EXCEPT ![shopPage[t].order]["verify"] = [NoSettlement EXCEPT !.pc = "asked"]]
  /\ shopPage' = [shopPage EXCEPT ![t].busy = "verify"]
  /\ UNCHANGED <<shop, access, shopHistory>>

DismissModal(t) ==
  /\ shopPage[t].busy = "modal"
  /\ PageTurns(t, "rest")
  /\ UNCHANGED <<shop, order, access, settling, shopHistory>>

CapturedLate(o) ==
  /\ order[o].pc = "open" /\ \A t \in ShopPages : shopPage[t].order # o
  /\ order' = [order EXCEPT ![o].pc = "captured"]
  /\ UNCHANGED <<shop, access, settling, shopPage, shopHistory>>

-----------------------------------------------------------------------------
(* grantAccessPeriod, called by verify-payment, unless the paywall has     *)
(* been switched off, and by handleOrderPaid, once for an order and        *)
(* whatever the settings.  A page may have been left meanwhile.            *)
UnderWay(o, s) == settling[o][s].pc \in {"read", "write"}

(* Orders whose settlement is between its first look and its end. *)
MetBy(o, s) == {p \in ShopOrders : \E r \in Settlers : <<p, r>> # <<o, s>> /\ UnderWay(p, r)}

Called(o, s) ==
  /\ Cardinality({w \in ShopOrders \X Settlers : settling[w[1]][w[2]].pc \notin {"idle", "asked"}})
       < MaxSettlements
  /\ \/ s = "verify" /\ settling[o][s].pc = "asked" /\ shop.open # "paywallOff"
     \/ s = "webhook" /\ settling[o][s].pc = "idle" /\ order[o].pc \in {"captured", "paid"}

(* The settlement ends; a page that waits for it turns to the result.      *)
SettlementEnds(o, s) == settling' = [settling EXCEPT ![o][s] = [NoSettlement EXCEPT !.pc = "done"]]

Answers(o, s, to) ==
  shopPage' = [t \in ShopPages |->
    IF s = "verify" /\ shopPage[t].busy = "verify" /\ shopPage[t].order = o
    THEN [shopPage[t] EXCEPT !.busy = to, !.order = NoOrder] ELSE shopPage[t]]

(* The price point's duration at this moment, then: is the payment known?  *)
FindsNoPayment(o, s) ==
  /\ Called(o, s) /\ ~Paid(o)
  /\ settling' = [settling EXCEPT ![o][s] = [NoSettlement EXCEPT !.pc = "read", !.days = shop.deal.days]]
  /\ shopHistory' = [shopHistory EXCEPT !.met = @ \cup (IF MetBy(o, s) = {} THEN {} ELSE MetBy(o, s) \cup {o})]
  /\ UNCHANGED <<shop, order, access, shopPage>>

(* It is: nothing is granted or claimed again.  What is asked for the      *)
(* answer may fail.                                                        *)
FindsPayment(o, s) ==
  /\ Called(o, s) /\ Paid(o)
  /\ SettlementEnds(o, s)
  /\ \E to \in {"refresh", "rest"} : Answers(o, s, to)
  /\ UNCHANGED <<shop, order, access, shopHistory>>

ReadsLiveRow(o, s) ==
  /\ settling[o][s].pc = "read"
  /\ settling' = [settling EXCEPT ![o][s] =
                    [@ EXCEPT !.pc = "write", !.live = access.status # "none",
                              !.base = [p \in ShopOrders |-> order[p].granted]]]
  /\ UNCHANGED <<shop, order, access, shopPage, shopHistory>>

(* What the row holds afterwards: what it held when it was read, and the   *)
(* period.  A new row takes nothing away.                                  *)
WithPeriod(o, s) ==
  [p \in ShopOrders |->
     (IF settling[o][s].live THEN settling[o][s].base[p] ELSE order[p].granted)
       + (IF p = o THEN settling[o][s].days ELSE 0)]

(* The row's write, the payment's and the commit.  A new row is refused by *)
(* the index if there is a live one.  Verification claims the campaign's   *)
(* slot if it can, and may fail before or after that; the webhook claims   *)
(* none.                                                                   *)
WritesPeriod(o, s) ==
  /\ settling[o][s].pc = "write"
  /\ settling[o][s].live \/ access.status = "none"
  /\ order' = [p \in ShopOrders |-> [order[p] EXCEPT !.granted = WithPeriod(o, s)[p],
                                                     !.pc = IF p = o THEN "paid" ELSE @]]
  /\ \E claims \in {FALSE, s = "verify"}, to \in {"refresh", "rest"} :
       /\ access' = [status |-> "active", ending |-> settling[o][s].live /\ access.ending,
                     redeemed |-> access.redeemed \cup (IF claims /\ order[o].cut THEN {"discount"} ELSE {})]
       /\ shopHistory' = [shopHistory EXCEPT !.unclaimed = @ \/ (order[o].cut /\ ~claims)]
       /\ Answers(o, s, to)
  /\ SettlementEnds(o, s)
  /\ UNCHANGED shop

(* Refused, by the paywall's setting or the index, or the database fails:  *)
(* the transaction leaves nothing.                                         *)
SettlementFails(o, s) ==
  /\ settling[o][s].pc \in {"asked", "read", "write"}
  /\ SettlementEnds(o, s)
  /\ Answers(o, s, "rest")
  /\ UNCHANGED <<shop, order, access, shopHistory>>

(* The page's request fails on its way back; the server knows nothing.     *)
AnswerLost(t) ==
  /\ shopPage[t].busy = "verify"
  /\ PageTurns(t, "rest")
  /\ UNCHANGED <<shop, order, access, settling, shopHistory>>

-----------------------------------------------------------------------------
(* A trial: in one transaction, refused by the one-live-row index.         *)
AskTrial(t) ==
  /\ shopPage[t].busy = "rest" /\ ShowsTrial(t)
  /\ PageTurns(t, "claim")
  /\ UNCHANGED <<shop, order, access, settling, shopHistory>>

TrialClaimed(t) ==
  /\ shopPage[t].busy = "claim" /\ Eligible("trial") /\ access.status = "none"
  /\ access' = [status |-> "trialing", ending |-> FALSE, redeemed |-> access.redeemed \cup {"trial"}]
  /\ PageTurns(t, "refresh")
  /\ UNCHANGED <<shop, order, settling, shopHistory>>

TrialRefused(t) ==
  /\ shopPage[t].busy = "claim"
  /\ PageTurns(t, "rest")
  /\ UNCHANGED <<shop, order, access, settling, shopHistory>>

(* The subscription's card, on the subscriptions page only. *)
MayCancel(t) == t \notin PricingPages /\ shopPage[t].status = "active" /\ ~shopPage[t].ending

(* handleCancel: the row that is live when the request arrives. *)
AskCancel(t) ==
  /\ shopPage[t].busy = "rest" /\ MayCancel(t)
  /\ PageTurns(t, "cancel")
  /\ UNCHANGED <<shop, order, access, settling, shopHistory>>

CancelAtPeriodEnd(t) ==
  /\ shopPage[t].busy = "cancel"
  /\ access' = [access EXCEPT !.ending = @ \/ access.status # "none"]
  /\ PageTurns(t, "refresh")
  /\ UNCHANGED <<shop, order, settling, shopHistory>>

(* refreshAfterActivation, and the pricing page's goAfterActivation, which *)
(* leaves.  A read that fails leaves the subscriptions page as it was.     *)
RefreshPage(t) ==
  /\ shopPage[t].busy = "refresh"
  /\ \/ t \in PricingPages /\ shopPage' = [shopPage EXCEPT ![t] = NoPage]
     \/ t \notin PricingPages /\ (Reads(t) \/ PageTurns(t, "rest"))
  /\ UNCHANGED <<shop, order, access, settling, shopHistory>>

ShopNext ==
  \/ EditPricePoint \/ SwitchSetting \/ PeriodEnds
  \/ \E t \in ShopPages :
       \/ OpenPage(t) \/ AskOrder(t) \/ OrderRefused(t) \/ PayInModal(t) \/ DismissModal(t)
       \/ AnswerLost(t) \/ AskTrial(t) \/ TrialClaimed(t) \/ TrialRefused(t) \/ AskCancel(t) \/ CancelAtPeriodEnd(t) \/ RefreshPage(t)
       \/ \E o \in ShopOrders : CreateOrder(t, o)
  \/ \E o \in ShopOrders :
       \/ CapturedLate(o)
       \/ \E s \in Settlers :
            \/ FindsNoPayment(o, s) \/ FindsPayment(o, s) \/ ReadsLiveRow(o, s) \/ WritesPeriod(o, s)
            \/ SettlementFails(o, s)

ShopSpec == ShopInit /\ [][ShopNext]_shopVars

-----------------------------------------------------------------------------
(* A discount is paid with once, unless two discounted orders were open    *)
(* together or one was settled without claiming it.                        *)
OneDiscount ==
  shopHistory.overlap \/ shopHistory.unclaimed
    \/ Cardinality({o \in ShopOrders : order[o].cut /\ Paid(o)}) <= 1

(* Nobody is charged more than the page showed, but for the provider's     *)
(* minimum, unless the plan changed after the page read it.                *)
ChargedAsShown ==
  \A o \in ShopOrders :
    order[o].pc # "none" /\ order[o].since = shopHistory.changes
      => order[o].amount <= AtLeastMinimum(order[o].shown)

(* The settlements that met no other: by verification and webhook of one   *)
(* payment, or of two payments, between a look-up and its commit.          *)
SettledApart(o) == Paid(o) /\ o \notin shopHistory.met

(* A settled payment stays settled as it was: no further settlement, of it *)
(* or of another, and no edit of the price point changes the period it     *)
(* bought - unless the two settlements met.                                *)
SettledForGood ==
  [][\A o \in ShopOrders : SettledApart(o) => order'[o].granted = order[o].granted]_shopVars

(* The period is the one ordered, once, unless it was edited before it was *)
(* granted, or the settlement met another.                                 *)
GrantsWhatWasOrdered ==
  \A o \in ShopOrders :
    SettledApart(o) /\ ~order[o].edited => order[o].granted = order[o].days

(* A paid subscription never turns into a trial.                           *)
TrialsDoNotReplace == [][access.status = "active" => access'.status # "trialing"]_shopVars
=============================================================================
