--------------------------- MODULE QuotaAccounting ---------------------------
(***************************************************************************)
(* The sends a user is allowed.  The allowance is looked up when a send is *)
(* ordered and consumed after the mail has gone, in two writes (the        *)
(* counter, then the record that the application was counted) that a       *)
(* failure or a crash may separate; what failed is tried again by the      *)
(* recovery job.  Friends who send their first mails and administrators    *)
(* raise the allowance; another plan, its end, or an edit of the plan      *)
(* lowers or lifts it too, at any time.                                    *)
(***************************************************************************)
EXTENDS Naturals, FiniteSets

CONSTANTS QuotaApps,       \* the user's applications
          Friends,       \* users who signed up with the user's code
          Quotas,        \* quota_applications_sent of the plans
          Bonus,         \* referral_reward_applications
          RequiredSends, MaxRewards,
          MaxFaults,     \* bound: statements that fail, processes that die, and
                         \* what administrators add, all together
          MaxFriendSends \* bound: mails of each friend

ASSUME QuotaAssumption ==
  /\ Quotas \subseteq Nat /\ RequiredSends \in Nat \ {0}
  /\ {Bonus, MaxRewards, MaxFaults, MaxFriendSends} \subseteq Nat
  /\ IsFiniteSet(QuotaApps)

VARIABLES planQuota,   \* the quota of the user's plan, or of none
          bonusSends,  \* referral_rewards and admin_application_grants, summed up
          sendOf,      \* the application: new, ordered, mailed
          used,        \* usage_counters
          consumed,    \* quota_consumption_events
          owing,       \* quota_reconciliation_events, consume_failed
          consumer,    \* consumeApplicationQuotaAfterSend, of an application
          referral,    \* referrals
          rewarded,    \* referral_rewards
          crediting,   \* recordSuccessfulSendForReferral, of a friend's mail
          faultsLeft,
          highestQuota, \* history: the highest planQuota
          uncharged    \* history: applications that were found without a limit

limitVars == <<planQuota, bonusSends, highestQuota>>

quotaVars == <<planQuota, bonusSends, sendOf, used, consumed, owing, consumer, referral,
               rewarded, crediting, faultsLeft, highestQuota, uncharged>>

Mails == Friends \X (1..MaxFriendSends)

QuotaTypeOK ==
  /\ {planQuota, bonusSends, highestQuota} \subseteq Nat
  /\ sendOf \in [QuotaApps -> {"new", "ordered", "mailed"}]
  /\ used \in Nat
  /\ consumed \cup owing \cup uncharged \subseteq QuotaApps
  /\ consumer \in [QuotaApps -> [pc : {"idle", "plan", "bonus", "count", "record"},
                                 limit : Nat]]
  /\ referral \in [Friends -> [status : {"pending", "expired", "rejected", "completed"},
                               sends : Nat]]
  /\ rewarded \subseteq Friends
  /\ crediting \in [Mails -> {"new", "count", "weigh", "reward", "done"}]
  /\ faultsLeft \in 0..MaxFaults

NotConsuming == [pc |-> "idle", limit |-> 0]

QuotaInit ==
  /\ planQuota \in Quotas /\ highestQuota = planQuota
  /\ bonusSends = 0 /\ uncharged = {}
  /\ sendOf = [a \in QuotaApps |-> "new"]
  /\ used = 0 /\ consumed = {} /\ owing = {}
  /\ consumer = [a \in QuotaApps |-> NotConsuming]
  /\ referral = [f \in Friends |-> [status |-> "pending", sends |-> 0]]
  /\ rewarded = {}
  /\ crediting = [m \in Mails |-> "new"]
  /\ faultsLeft = MaxFaults

-----------------------------------------------------------------------------
(* What is allowed: plans are bought, run out and are edited               *)
(* (getBaseApplicationLimit) ...                                           *)

AllowanceOnly == UNCHANGED <<sendOf, used, consumed, owing, consumer, referral, rewarded, crediting,
                             uncharged>>

ChangeQuota(quota) ==
  /\ planQuota' = quota
  /\ highestQuota' = IF quota > highestQuota THEN quota ELSE highestQuota
  /\ AllowanceOnly /\ UNCHANGED <<bonusSends, faultsLeft>>

(* ... and administrators add (grantApplications). *)
AdminGrants ==
  /\ faultsLeft > 0 /\ faultsLeft' = faultsLeft - 1
  /\ bonusSends' = bonusSends + 1
  /\ AllowanceOnly /\ UNCHANGED <<planQuota, highestQuota>>

-----------------------------------------------------------------------------
ReferralsUnchanged == UNCHANGED <<referral, rewarded, crediting>> /\ UNCHANGED limitVars

(* There is no limit while the paywall is off, trials are by time, or the  *)
(* plan has no quota or a negative one (isUnlimited).  These change at any *)
(* time, so whoever looks at one of them finds it either way: limitless.   *)

(* sendController: quotaService.check, which consumes nothing. *)
OrderWithinQuota(a, limitless) ==
  /\ sendOf[a] = "new"
  /\ limitless \/ used < planQuota + bonusSends
  /\ sendOf' = [sendOf EXCEPT ![a] = "ordered"]
  /\ ReferralsUnchanged
  /\ UNCHANGED <<used, consumed, owing, consumer, faultsLeft, uncharged>>

(* consumeApplicationQuotaAfterSend: hasConsumed, then the limit as it is  *)
(* by now, one source after the other; without one the application is      *)
(* recorded and not counted.                                               *)
Look(a, row) == consumer' = [consumer EXCEPT ![a] = row] /\ UNCHANGED uncharged

Consume(a) ==
  /\ consumer[a].pc = "idle"
  /\ Look(a, IF a \in consumed THEN NotConsuming ELSE [pc |-> "plan", limit |-> 0])
  /\ ReferralsUnchanged
  /\ UNCHANGED <<used, consumed, owing, faultsLeft>>

(* The worker has sent the mail. *)
MailGoes(a) ==
  /\ sendOf[a] = "ordered"
  /\ sendOf' = [sendOf EXCEPT ![a] = "mailed"]
  /\ Consume(a)

(* retryFailedQuotaConsumptions, in the recovery job *)
RetryConsumption(a) ==
  /\ a \in owing \ consumed
  /\ Consume(a) /\ UNCHANGED sendOf

LimitRead == ReferralsUnchanged /\ UNCHANGED <<sendOf, used, consumed, owing, faultsLeft>>

ReadPlan(a, limitless) ==
  /\ consumer[a].pc = "plan"
  /\ IF limitless
     THEN /\ consumer' = [consumer EXCEPT ![a].pc = "record"]
          /\ uncharged' = uncharged \cup {a}
     ELSE Look(a, [pc |-> "bonus", limit |-> planQuota])
  /\ LimitRead

ReadBonus(a) ==
  /\ consumer[a].pc = "bonus"
  /\ Look(a, [pc |-> "count", limit |-> consumer[a].limit + bonusSends])
  /\ LimitRead

(* A plausible bug: the check at the order is trusted. *)
FaultyFits(limit) == TRUE

(* The condition of consumeIfWithinLimit; the first count inserts the row  *)
(* and is not compared with the limit.                                     *)
Fits(limit) == used = 0 \/ used + 1 <= limit

(* consume_skipped_limit: nobody tries this application again. *)
AfterRefusal == NotConsuming

Count(a) ==
  /\ consumer[a].pc = "count"
  /\ IF Fits(consumer[a].limit)
     THEN used' = used + 1 /\ consumer' = [consumer EXCEPT ![a].pc = "record"]
     ELSE consumer' = [consumer EXCEPT ![a] = AfterRefusal] /\ UNCHANGED used
  /\ ReferralsUnchanged
  /\ UNCHANGED <<sendOf, consumed, owing, faultsLeft, uncharged>>

(* recordConsumption *)
RecordConsumption(a) ==
  /\ consumer[a].pc = "record"
  /\ consumed' = consumed \cup {a}
  /\ consumer' = [consumer EXCEPT ![a] = NotConsuming]
  /\ ReferralsUnchanged
  /\ UNCHANGED <<sendOf, used, owing, faultsLeft, uncharged>>

(* A statement fails, perhaps after its effect; the failure is written     *)
(* down for the recovery job, unless that fails too or the process dies.   *)
ConsumptionFails(a, effect, noted) ==
  /\ consumer[a].pc # "idle"
  /\ faultsLeft > 0 /\ faultsLeft' = faultsLeft - 1
  /\ used' = IF effect /\ consumer[a].pc = "count" /\ Fits(consumer[a].limit)
             THEN used + 1 ELSE used
  /\ consumed' = IF effect /\ consumer[a].pc = "record" THEN consumed \cup {a} ELSE consumed
  /\ owing' = IF noted THEN owing \cup {a} ELSE owing
  /\ consumer' = [consumer EXCEPT ![a] = NotConsuming]
  /\ ReferralsUnchanged
  /\ UNCHANGED <<sendOf, uncharged>>

-----------------------------------------------------------------------------
(* Referrals: recordSuccessfulSendForReferral for the mail m of a friend *)

Credits(m, pc) == crediting' = [crediting EXCEPT ![m] = pc]

AccountUnchanged ==
  /\ UNCHANGED <<sendOf, used, consumed, owing, consumer, uncharged>>
  /\ UNCHANGED <<planQuota, highestQuota>>

NothingFails == AccountUnchanged /\ UNCHANGED faultsLeft

FriendMails(m) ==
  /\ crediting[m] = "new"
  /\ Credits(m, IF referral[m[1]].status = "pending" THEN "count" ELSE "done")
  /\ UNCHANGED <<referral, rewarded, bonusSends>> /\ NothingFails

SetReferral(f, status) == referral' = [referral EXCEPT ![f].status = status]

(* The referral that was read has run out, and is marked without a further *)
(* look at its status ...                                                  *)
MarkExpired(m) ==
  /\ crediting[m] = "count"
  /\ SetReferral(m[1], "expired")
  /\ Credits(m, "done")
  /\ UNCHANGED <<rewarded, bonusSends>> /\ NothingFails

(* ... or the mail counts. *)
CountFriendSend(m) ==
  /\ crediting[m] = "count"
  /\ referral' = [referral EXCEPT ![m[1]].sends = @ + 1]
  /\ Credits(m, IF referral'[m[1]].sends < RequiredSends THEN "done" ELSE "weigh")
  /\ UNCHANGED <<rewarded, bonusSends>> /\ NothingFails

(* countCompletedRewards; another friend's reward may come in between. *)
WeighRewards(m) ==
  /\ crediting[m] = "weigh"
  /\ IF Cardinality(rewarded) >= MaxRewards
     THEN SetReferral(m[1], "rejected") /\ Credits(m, "done")
     ELSE Credits(m, "reward") /\ UNCHANGED referral
  /\ UNCHANGED <<rewarded, bonusSends>> /\ NothingFails

(* One transaction, which may also fail: the status where it is pending,   *)
(* the reward in any case.                                                 *)
Reward(m) ==
  /\ crediting[m] = "reward"
  /\ IF referral[m[1]].status = "pending" THEN SetReferral(m[1], "completed")
     ELSE UNCHANGED referral
  /\ rewarded' = rewarded \cup {m[1]}
  /\ bonusSends' = IF m[1] \in rewarded THEN bonusSends ELSE bonusSends + Bonus
  /\ Credits(m, "done")
  /\ NothingFails

RewardFails(m) ==
  /\ crediting[m] = "reward"
  /\ faultsLeft > 0 /\ faultsLeft' = faultsLeft - 1
  /\ Credits(m, "done")
  /\ UNCHANGED <<referral, rewarded, bonusSends>> /\ AccountUnchanged

(* expireStaleReferrals *)
ExpireReferral(f) ==
  /\ referral[f].status = "pending"
  /\ SetReferral(f, "expired")
  /\ UNCHANGED <<rewarded, crediting, bonusSends>> /\ NothingFails

QuotaNext ==
  \/ (\E quota \in Quotas : ChangeQuota(quota)) \/ AdminGrants
  \/ \E a \in QuotaApps :
       \/ \E limitless \in BOOLEAN : OrderWithinQuota(a, limitless) \/ ReadPlan(a, limitless)
       \/ MailGoes(a) \/ RetryConsumption(a)
       \/ ReadBonus(a) \/ Count(a) \/ RecordConsumption(a)
       \/ \E effect, noted \in BOOLEAN : ConsumptionFails(a, effect, noted)
  \/ \E m \in Mails :
       \/ FriendMails(m) \/ MarkExpired(m) \/ CountFriendSend(m)
       \/ WeighRewards(m) \/ Reward(m) \/ RewardFails(m)
  \/ \E f \in Friends : ExpireReferral(f)

QuotaSpec == QuotaInit /\ [][QuotaNext]_quotaVars

-----------------------------------------------------------------------------
(* usageService: "concurrent callers can never overshoot the cap".  What   *)
(* is counted stays within the highest limit there has been (a quota may   *)
(* be lowered under what is used), although the limit is read before the   *)
(* counter is, sends were admitted on older counts, and some are counted   *)
(* twice.  The first is counted whatever the limit.                        *)
UsedWithinLimit == used <= 1 \/ used <= highestQuota + bonusSends

(* No application is recorded as consumed without having been counted,     *)
(* whatever fails between the two writes and however often it is retried,  *)
(* but for those found without a limit.                                    *)
ConsumedIsCounted == Cardinality(consumed \ uncharged) <= used

(* The counter lies between what was recorded and what was allowed.        *)
CountIsBounded == ConsumedIsCounted /\ UsedWithinLimit
=============================================================================
