---------------------------- MODULE BillingAccess ----------------------------
(***************************************************************************)
(* From a paid order to an access period.  The browser's verification and  *)
(* the payment provider's webhook both grant the period of one payment,    *)
(* each in a transaction of its own (READ COMMITTED); trials, the          *)
(* administrator, cancellation and the expiry job change the same rows.    *)
(*                                                                         *)
(* Access is counted in periods that are left.  A grant takes milliseconds *)
(* of a period's days: no period ends between its reads and its write.     *)
(***************************************************************************)
EXTENDS Naturals, Sequences, FiniteSets

CONSTANTS Users, Payments,
          SlotLimit,      \* user_limit of a campaign
          MaxRequests,    \* bound: verifications and webhooks
          MaxOthers       \* bound: trials, grants and cancellations by hand, periods passed

ASSUME BillingAssumption ==
  /\ SlotLimit \in Nat
  /\ {MaxRequests, MaxOthers} \subseteq Nat

VARIABLES payer,        \* payment_attempts: whose order a payment is for
          subs,         \* user_subscriptions, the rows of each user
          paid,         \* payments, by razorpay_payment_id
          succeeded,    \* payment_attempts with status succeeded
          event,        \* billing_events
          grant,        \* requests that grant a payment's period
          byHand,       \* an administrator's grant or a cancellation
          claimed,      \* campaigns.claimed_count
          redeemed,     \* campaign_redemptions
          requestsLeft, othersLeft

billingVars == <<payer, subs, paid, succeeded, event, grant, byHand, claimed, redeemed,
                 requestsLeft, othersLeft>>

Sources == {"verify", "webhook"}

Grants == Sources \X Payments

Campaigns == {"trial", "discount"}

Nobody == "nobody"

NoGrant == [pc |-> "idle", row |-> 0, left |-> 0]

NoHand == [what |-> "none", user |-> Nobody, row |-> 0, left |-> 0]

BillingTypeOK ==
  /\ payer \in [Payments -> Users \cup {Nobody}]
  /\ \A u \in Users : subs[u] \in Seq([live : BOOLEAN, left : Nat])
  /\ paid \cup succeeded \subseteq Payments
  /\ event \in [Payments -> {"none", "pending", "processed", "failed"}]
  /\ grant \in [Grants -> [pc : {"idle", "begin", "read", "write", "known", "settle", "claim",
                                 "redeem", "mark", "fail"}, row : Nat, left : Nat]]
  /\ byHand.what \in {"none", "grant", "cancel"}
  /\ claimed \in [Campaigns -> Nat]
  /\ redeemed \in [Campaigns -> SUBSET Users]
  /\ requestsLeft \in 0..MaxRequests /\ othersLeft \in 0..MaxOthers

BillingInit ==
  /\ payer = [p \in Payments |-> Nobody]
  /\ subs = [u \in Users |-> <<>>]
  /\ paid = {} /\ succeeded = {}
  /\ event = [p \in Payments |-> "none"]
  /\ grant = [g \in Grants |-> NoGrant]
  /\ byHand = NoHand
  /\ claimed = [c \in Campaigns |-> 0]
  /\ redeemed = [c \in Campaigns |-> {}]
  /\ requestsLeft = MaxRequests /\ othersLeft = MaxOthers

-----------------------------------------------------------------------------
(* The rows of a user *)

LiveRows(u) == {i \in DOMAIN subs[u] : subs[u][i].live}

(* getLiveSubscription: at most one row is live (uniq_user_live_subscription); *)
(* 0 when there is none.                                                       *)
LiveRow(u) == IF LiveRows(u) = {} THEN 0 ELSE CHOOSE i \in LiveRows(u) : TRUE

LeftIn(u, row) == IF row = 0 THEN 0 ELSE subs[u][row].left

Put(u, row, sub) == subs' = [subs EXCEPT ![u][row] = sub]

Live(left) == [live |-> TRUE, left |-> left]

(* The index refuses a second live row, be it new or brought back to life. *)
MayBeLive(u, row) == LiveRows(u) \subseteq {row}

Create(u, left) == subs' = [subs EXCEPT ![u] = Append(@, Live(left))]

(* A plausible bug: the end is moved, the status left as it is. *)
FaultyExtend(u, row, left) == Put(u, row, [subs[u][row] EXCEPT !.left = left + 1])

(* updateSubscription with a status, or createSubscription, on what was    *)
(* read before.                                                            *)
Extend(u, row, left) ==
  IF row = 0 THEN Create(u, left + 1) ELSE Put(u, row, Live(left + 1))

-----------------------------------------------------------------------------
(* Requests *)

Goes(g, pc) == grant' = [grant EXCEPT ![g].pc = pc]

Other == othersLeft > 0 /\ othersLeft' = othersLeft - 1

(* createCheckoutController; the campaign applies a discount. *)
CreateCheckout(p, u) ==
  /\ payer[p] = Nobody
  /\ payer' = [payer EXCEPT ![p] = u]
  /\ UNCHANGED <<subs, paid, succeeded, event, grant, byHand, claimed, redeemed, requestsLeft, othersLeft>>

(* verifyBillingPaymentController: sent again as often as the browser likes. *)
Verify(p) ==
  /\ payer[p] # Nobody
  /\ grant[<<"verify", p>>].pc = "idle"
  /\ requestsLeft > 0 /\ requestsLeft' = requestsLeft - 1
  /\ Goes(<<"verify", p>>, "begin")
  /\ UNCHANGED <<payer, subs, paid, succeeded, event, byHand, claimed, redeemed, othersLeft>>

(* razorpayWebhookController: recordBillingEvent admits the first delivery. *)
Webhook(p) ==
  /\ payer[p] # Nobody
  /\ event[p] = "none"
  /\ requestsLeft > 0 /\ requestsLeft' = requestsLeft - 1
  /\ event' = [event EXCEPT ![p] = "pending"]
  /\ Goes(<<"webhook", p>>, "begin")
  /\ UNCHANGED <<payer, subs, paid, succeeded, byHand, claimed, redeemed, othersLeft>>

(* grantAccessPeriod: has the payment been recorded? *)
LookForPayment(g) ==
  /\ grant[g].pc = "begin"
  /\ Goes(g, IF g[2] \in paid THEN "known" ELSE "read")
  /\ UNCHANGED <<payer, subs, paid, succeeded, event, byHand, claimed, redeemed, requestsLeft, othersLeft>>

ReadLive(g) ==
  /\ grant[g].pc = "read"
  /\ LET u == payer[g[2]]
     IN  grant' = [grant EXCEPT ![g] = [pc |-> "write", row |-> LiveRow(u),
                                        left |-> LeftIn(u, LiveRow(u))]]
  /\ UNCHANGED <<payer, subs, paid, succeeded, event, byHand, claimed, redeemed, requestsLeft, othersLeft>>

(* The write locks the row until the commit, and whoever waits for it      *)
(* writes what it has computed before: the rest is one step.  It fails on  *)
(* the index or for reasons of the database, and leaves nothing then.      *)
WriteGrant(g) ==
  /\ grant[g].pc = "write"
  /\ LET u == payer[g[2]]
         now == grant[g]
     IN  \/ /\ MayBeLive(u, now.row)
            /\ Extend(u, now.row, now.left)
            /\ paid' = paid \cup {g[2]}
            /\ Goes(g, "settle")
         \/ Goes(g, "fail") /\ UNCHANGED <<subs, paid>>
  /\ UNCHANGED <<payer, succeeded, event, byHand, claimed, redeemed, requestsLeft, othersLeft>>

Settles(g) == grant[g].pc \in {"known", "settle"}

(* setAttemptStatus; only verification claims the slot of the order's      *)
(* campaign, if it has one, and not for a payment that was known.          *)
SettleAttempt(g) ==
  /\ Settles(g)
  /\ succeeded' = succeeded \cup {g[2]}
  /\ \/ g[1] = "webhook" /\ Goes(g, "mark")
     \/ g[1] = "verify" /\ grant[g].pc = "settle" /\ Goes(g, "claim")
     \/ g[1] = "verify" /\ grant' = [grant EXCEPT ![g] = NoGrant]
  /\ UNCHANGED <<payer, subs, paid, event, byHand, claimed, redeemed, requestsLeft, othersLeft>>

(* The condition of claimSlot's UPDATE *)
SlotFree(c) == claimed[c] < SlotLimit

(* claimSlot outside a transaction: the count goes up ... *)
ClaimSlot(g) ==
  /\ grant[g].pc = "claim"
  /\ IF SlotFree("discount")
     THEN /\ claimed' = [claimed EXCEPT !["discount"] = @ + 1]
          /\ Goes(g, "redeem")
     ELSE grant' = [grant EXCEPT ![g] = NoGrant] /\ UNCHANGED claimed
  /\ UNCHANGED <<payer, subs, paid, succeeded, event, byHand, redeemed, requestsLeft, othersLeft>>

(* ... and stays up when the redemption is refused for its UNIQUE key. *)
Redeem(g) ==
  /\ grant[g].pc = "redeem"
  /\ redeemed' = [redeemed EXCEPT !["discount"] = @ \cup {payer[g[2]]}]
  /\ grant' = [grant EXCEPT ![g] = NoGrant]
  /\ UNCHANGED <<payer, subs, paid, succeeded, event, byHand, claimed, requestsLeft, othersLeft>>

(* markBillingEventProcessed *)
MarkEvent(g) ==
  /\ grant[g].pc = "mark"
  /\ event' = [event EXCEPT ![g[2]] = "processed"]
  /\ grant' = [grant EXCEPT ![g] = NoGrant]
  /\ UNCHANGED <<payer, subs, paid, succeeded, byHand, claimed, redeemed, requestsLeft, othersLeft>>

(* The answer is an error; a webhook that is delivered again is taken for  *)
(* a duplicate.                                                            *)
FailRequest(g) ==
  /\ grant[g].pc = "fail"
  /\ event' = [event EXCEPT ![g[2]] = IF g[1] = "webhook" THEN "failed" ELSE @]
  /\ grant' = [grant EXCEPT ![g] = NoGrant]
  /\ UNCHANGED <<payer, subs, paid, succeeded, byHand, claimed, redeemed, requestsLeft, othersLeft>>

(* The process dies: what is not committed is undone. *)
CrashRequests ==
  /\ \E g \in Grants : grant[g].pc # "idle"
  /\ grant' = [g \in Grants |-> NoGrant]
  /\ UNCHANGED <<payer, subs, paid, succeeded, event, byHand, claimed, redeemed, requestsLeft, othersLeft>>

(* claimTrial is one transaction: the live row, the slot and the           *)
(* redemption come together or not at all.                                 *)
ClaimTrial(u) ==
  /\ Other
  /\ MayBeLive(u, 0) /\ SlotFree("trial") /\ u \notin redeemed["trial"]
  /\ Create(u, 1)
  /\ claimed' = [claimed EXCEPT !["trial"] = @ + 1]
  /\ redeemed' = [redeemed EXCEPT !["trial"] = @ \cup {u}]
  /\ UNCHANGED <<payer, paid, succeeded, event, grant, byHand, requestsLeft>>

(* ensureAutoTimeTrial: for a user without any row; the second of two      *)
(* concurrent ones is refused by the index.                                *)
AutoTrial(u) ==
  /\ Other
  /\ subs[u] = <<>>
  /\ Create(u, 1)
  /\ UNCHANGED <<payer, paid, succeeded, event, grant, byHand, claimed, redeemed, requestsLeft>>

(* adminGrant and cancel(immediate) read the live row, then write to it;   *)
(* switchPlan and a cancellation at the period's end leave access alone.   *)
StartByHand(what, u) ==
  /\ byHand = NoHand
  /\ what = "cancel" => LiveRow(u) # 0
  /\ Other
  /\ byHand' = [what |-> what, user |-> u, row |-> LiveRow(u), left |-> LeftIn(u, LiveRow(u))]
  /\ UNCHANGED <<payer, subs, paid, succeeded, event, grant, claimed, redeemed, requestsLeft>>

FinishByHand ==
  /\ byHand # NoHand
  /\ LET u == byHand.user
     IN  IF byHand.what = "cancel"
         THEN Put(u, byHand.row, [live |-> FALSE, left |-> 0])
         ELSE IF MayBeLive(u, byHand.row) THEN Extend(u, byHand.row, byHand.left)
                                          ELSE UNCHANGED subs
  /\ byHand' = NoHand
  /\ UNCHANGED <<payer, paid, succeeded, event, grant, claimed, redeemed, requestsLeft, othersLeft>>

Reading == byHand # NoHand \/ \E g \in Grants : grant[g].pc = "write"

(* A period passes for everybody ... *)
Elapse ==
  /\ ~Reading
  /\ Other
  /\ subs' = [u \in Users |-> [i \in DOMAIN subs[u] |->
                [subs[u][i] EXCEPT !.left = IF @ = 0 THEN 0 ELSE @ - 1]]]
  /\ UNCHANGED <<payer, paid, succeeded, event, grant, byHand, claimed, redeemed, requestsLeft>>

(* ... and some time later expireElapsed notices, in one statement. *)
ExpireElapsed ==
  /\ \E u \in Users : \E i \in LiveRows(u) : subs[u][i].left = 0
  /\ subs' = [u \in Users |-> [i \in DOMAIN subs[u] |->
                [subs[u][i] EXCEPT !.live = @ /\ subs[u][i].left > 0]]]
  /\ UNCHANGED <<payer, paid, succeeded, event, grant, byHand, claimed, redeemed, requestsLeft, othersLeft>>

GrantStep(g) ==
  \/ LookForPayment(g) \/ ReadLive(g) \/ WriteGrant(g) \/ SettleAttempt(g)
  \/ ClaimSlot(g) \/ Redeem(g) \/ MarkEvent(g) \/ FailRequest(g)

BillingNext ==
  \/ \E p \in Payments : Verify(p) \/ Webhook(p) \/ \E u \in Users : CreateCheckout(p, u)
  \/ \E g \in Grants : GrantStep(g)
  \/ CrashRequests
  \/ \E u \in Users :
       \/ ClaimTrial(u) \/ AutoTrial(u)
       \/ \E what \in {"grant", "cancel"} : StartByHand(what, u)
  \/ FinishByHand
  \/ Elapse \/ ExpireElapsed

BillingSpec == BillingInit /\ [][BillingNext]_billingVars

-----------------------------------------------------------------------------
(* What is marked as settled has been paid for and recorded: an attempt    *)
(* that succeeded or an event that was processed has its payment's row,    *)
(* whichever of verification and webhook came first and whatever failed.   *)
SettledIsRecorded ==
  \A p \in Payments : p \in succeeded \/ event[p] = "processed" => p \in paid

(* The commit that records a payment leaves its payer with live access,    *)
(* also when the row it read has expired or was cancelled since.           *)
PaymentGivesAccess ==
  [][\A p \in paid' \ paid :
       \E i \in DOMAIN subs'[payer[p]] : subs'[payer[p]][i].live /\ subs'[payer[p]][i].left > 0]_billingVars

(* No campaign is redeemed beyond its limit, although eligibility is       *)
(* looked up long before the slot is claimed (claimSlot).                  *)
RedemptionsWithinLimit == \A c \in Campaigns : Cardinality(redeemed[c]) <= SlotLimit

(* What is settled is recorded, and no more is given away than was offered. *)
SettlementIsSound == SettledIsRecorded /\ RedemptionsWithinLimit

(* Both at once, with the access that every payment gives.                 *)
BillingIsSound == []SettlementIsSound /\ PaymentGivesAccess
=============================================================================
