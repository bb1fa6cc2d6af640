---- MODULE AccountProofs ----
(*****************************************************************************)
(* Proofs about the components that decide who a user is and what he may     *)
(* use, each on its own: Gmail senders, quota, billing, the settings of      *)
(* administrators, the session, the onboarding, the chain of AI keys, the    *)
(* shop and the plans on sale.                                               *)
(* They are laid out as those of PlatformProofs.                             *)
(*****************************************************************************)
EXTENDS BillingAccess, QuotaAccounting, MailAccounts, AdminSettings, UserSession,
        Onboarding, AiCredentials, PlanEditor, MCAccounts, FiniteSetTheorems, SequenceTheorems, TLAPS

-----------------------------------------------------------------------------
(*****************************************************************************)
(* The Gmail senders: processes that hold the lock of a sender agree with    *)
(* its row on who renewed it.                                                *)
(*****************************************************************************)

SenderRow == [pc : {"idle", "lock", "read", "ask", "store", "refused", "release", "unlock"},
              row : Accounts, token : 0..MaxTokens]

(* A job that asks Google, or has asked, works for the row as it was. *)
Working == {"ask", "store", "refused"}

(* Every refresh token anywhere is one that was issued. *)
TokensAreIssued ==
  /\ consent <= issued /\ account.refresh <= issued
  /\ \A s \in Senders : sender[s].row.refresh <= issued /\ sender[s].token <= issued

(* Jobs know an account that was there; one that is not fresh has not been *)
(* renewed.                                                                *)
RowsAreReal ==
  /\ \A s \in Senders : sender[s].pc # "idle" => sender[s].row.id # 0
  /\ account.id # 0 /\ ~account.fresh => renewals = 0

(* With nothing to excuse it, a job between the lock and its release holds *)
(* the lock.                                                               *)
LockIsHeld ==
  ~excused => \A s \in Senders : sender[s].pc \notin {"idle", "lock"} => accountLock = s

(* With nothing to excuse it, the account that is being refreshed is still *)
(* the one that was read, if it is there.                                  *)
RowIsCurrent ==
  ~excused =>
    \A s \in Senders :
      sender[s].row.id = account.id =>
        /\ sender[s].pc \in Working => ~account.fresh
        /\ sender[s].pc \in {"ask", "refused"} => sender[s].token = account.refresh

RefusedIsNotAccepted ==
  \A s \in Senders : sender[s].pc = "refused" => sender[s].token \notin accepted

MailInv ==
  /\ MailTypeOK
  /\ TokensAreIssued /\ RowsAreReal
  /\ LockIsHeld /\ RowIsCurrent /\ RefusedIsNotAccepted
  /\ RenewalsAgree

(*****************************************************************************)
(* No account is connected.                                                  *)
(*****************************************************************************)
LEMMA MailStart == MailInit => MailInv
<1> SUFFICES ASSUME MailInit PROVE MailInv
  OBVIOUS
<1>1. NoAccount \in Accounts /\ NoAccount.id = 0 /\ NoAccount.refresh = 0
  BY MailAssumption DEF NoAccount, Accounts
<1>2. Resting \in SenderRow /\ Resting.pc = "idle" /\ Resting.token = 0 /\ Resting.row = NoAccount
  BY <1>1, MailAssumption DEF Resting, SenderRow
<1>3. MailTypeOK
  <2>1. account \in Accounts /\ sender \in [Senders -> SenderRow]
    BY <1>1, <1>2 DEF MailInit
  <2>2. /\ issued = 0 /\ issued \in 0..MaxTokens /\ accepted \subseteq 1..issued
        /\ consent \in 0..MaxTokens /\ leaving \in 0..MaxTokens
        /\ ages \in 0..MaxAges /\ renewals \in Nat
    BY MailAssumption DEF MailInit
  <2>3. accountLock \in Senders \cup {NoSender} /\ excused \in BOOLEAN
    BY DEF MailInit
  <2> QED
    BY <2>1, <2>2, <2>3 DEF MailTypeOK, SenderRow
<1>4. TokensAreIssued /\ RowsAreReal /\ LockIsHeld /\ RowIsCurrent /\ RefusedIsNotAccepted
  BY <1>1, <1>2 DEF MailInit, TokensAreIssued, RowsAreReal, LockIsHeld, RowIsCurrent,
                    RefusedIsNotAccepted, Working
<1>5. RenewalsAgree
  BY <1>1 DEF MailInit, RenewalsAgree, OneRenewalPerExpiry, RevokedIsRefused
<1> QED
  BY <1>3, <1>4, <1>5 DEF MailInv

(***************************************************************************)
(* What the user and the clock do leaves the jobs as they are.             *)
(***************************************************************************)
LEMMA UserKeepsMail ==
  ASSUME MailInv,
         \/ Consent \/ ConnectAccount \/ Revoke \/ StartDisconnect \/ FinishDisconnect
         \/ LockRunsOut \/ AccessTokenAges
  PROVE  MailInv'
<1>0. NoAccount \in Accounts /\ NoAccount.id = 0 /\ NoAccount.refresh = 0
      /\ NoAccount.status = "connected"
  BY MailAssumption DEF NoAccount, Accounts
<1>1. /\ account \in Accounts /\ account.id \in 0..MaxTokens /\ account.refresh \in 0..MaxTokens
      /\ account.fresh \in BOOLEAN
      /\ \A s \in Senders : sender[s] \in SenderRow /\ sender[s].row \in Accounts
  BY DEF MailInv, MailTypeOK, Accounts, SenderRow
<1>2. CASE Consent
  BY <1>1, <1>2, MailAssumption
     DEF Consent, MailInv, MailTypeOK, TokensAreIssued, RowsAreReal, LockIsHeld, RowIsCurrent,
         RefusedIsNotAccepted, RenewalsAgree, OneRenewalPerExpiry, RevokedIsRefused, SenderRow, Accounts
<1>3. CASE ConnectAccount
  <2>1. /\ account' \in Accounts /\ account'.fresh /\ account'.status = "connected"
        /\ account'.refresh = consent
        /\ consent # 0 /\ consent' = 0 /\ excused' = (excused \/ Busy) /\ excused' \in BOOLEAN
        /\ UNCHANGED <<accepted, issued, accountLock, sender, leaving, ages, renewals>>
    BY <1>1, <1>3 DEF ConnectAccount, Accounts, MailInv, MailTypeOK
  <2>2. ~excused' => ~excused /\ \A s \in Senders : sender[s].pc \notin Working
    BY <2>1 DEF Busy, Working
  <2>3. MailTypeOK' /\ TokensAreIssued'
    BY <2>1, MailAssumption DEF MailInv, MailTypeOK, TokensAreIssued
  <2>4. RowsAreReal' /\ LockIsHeld' /\ RefusedIsNotAccepted'
    BY <2>1, <2>2 DEF MailInv, RowsAreReal, LockIsHeld, RefusedIsNotAccepted
  <2>5. RowIsCurrent'
    BY <2>1, <2>2 DEF RowIsCurrent, Working
  <2>6. RenewalsAgree'
    BY <2>1, <2>2 DEF MailInv, RenewalsAgree, OneRenewalPerExpiry, RevokedIsRefused
  <2> QED
    BY <2>3, <2>4, <2>5, <2>6 DEF MailInv
<1>4. CASE Revoke
  BY <1>4 DEF Revoke, MailInv, MailTypeOK, TokensAreIssued, RowsAreReal, LockIsHeld, RowIsCurrent,
              RefusedIsNotAccepted, RenewalsAgree, OneRenewalPerExpiry, RevokedIsRefused
<1>5. CASE StartDisconnect
  BY <1>1, <1>5 DEF StartDisconnect, MailInv, MailTypeOK, TokensAreIssued, RowsAreReal, LockIsHeld,
              RowIsCurrent, RefusedIsNotAccepted, RenewalsAgree, OneRenewalPerExpiry, RevokedIsRefused
<1>6. CASE FinishDisconnect
  <2>1. /\ account' = account \/ account' = NoAccount
        /\ leaving' \in 0..MaxTokens
        /\ UNCHANGED <<accepted, issued, accountLock, sender, consent, ages, renewals, excused>>
    BY <1>6, MailAssumption DEF FinishDisconnect
  <2>2. MailTypeOK' /\ TokensAreIssued'
    BY <1>0, <2>1, MailAssumption DEF MailInv, MailTypeOK, TokensAreIssued
  <2>3. RowsAreReal' /\ LockIsHeld' /\ RefusedIsNotAccepted'
    BY <1>0, <2>1 DEF MailInv, RowsAreReal, LockIsHeld, RefusedIsNotAccepted
  <2>4. RowIsCurrent'
    BY <1>0, <2>1 DEF MailInv, RowsAreReal, RowIsCurrent, Working
  <2>5. RenewalsAgree'
    BY <1>0, <2>1 DEF MailInv, RenewalsAgree, OneRenewalPerExpiry, RevokedIsRefused
  <2> QED
    BY <2>2, <2>3, <2>4, <2>5 DEF MailInv
<1>7. CASE LockRunsOut
  <2>1. /\ accountLock # NoSender /\ accountLock' = NoSender
        /\ excused' = (excused \/ sender[accountLock].pc # "idle") /\ excused' \in BOOLEAN
        /\ UNCHANGED <<account, accepted, issued, sender, consent, leaving, ages, renewals>>
    BY <1>7 DEF LockRunsOut, MailInv, MailTypeOK
  <2>2. ~excused' => ~excused /\ \A s \in Senders : sender[s].pc \in {"idle", "lock"}
    BY <2>1 DEF MailInv, LockIsHeld
  <2>3. MailTypeOK' /\ TokensAreIssued' /\ RowsAreReal' /\ RefusedIsNotAccepted'
    BY <2>1 DEF MailInv, MailTypeOK, TokensAreIssued, RowsAreReal, RefusedIsNotAccepted
  <2>4. LockIsHeld' /\ RowIsCurrent' /\ RenewalsAgree'
    BY <2>1, <2>2 DEF MailInv, LockIsHeld, RowIsCurrent, RenewalsAgree, OneRenewalPerExpiry,
                      RevokedIsRefused
  <2> QED
    BY <2>3, <2>4 DEF MailInv
<1>8. CASE AccessTokenAges
  <2>1. /\ account' \in Accounts /\ account'.id = account.id /\ account'.refresh = account.refresh
        /\ account'.status = account.status /\ ~account'.fresh
        /\ ages' \in 0..MaxAges /\ renewals' = 0
        /\ UNCHANGED <<accepted, issued, accountLock, sender, consent, leaving, excused>>
    <3>1. account' = [account EXCEPT !.fresh = FALSE]
      BY <1>8 DEF AccessTokenAges
    <3>2. /\ account' \in Accounts /\ account'.id = account.id /\ account'.refresh = account.refresh
          /\ account'.status = account.status /\ ~account'.fresh
      BY <1>1, <3>1 DEF Accounts
    <3>3. /\ ages' \in 0..MaxAges /\ renewals' = 0
          /\ UNCHANGED <<accepted, issued, accountLock, sender, consent, leaving, excused>>
      BY <1>8, MailAssumption DEF AccessTokenAges, MailInv, MailTypeOK
    <3> QED
      BY <3>2, <3>3
  <2>2. MailTypeOK' /\ TokensAreIssued' /\ RowsAreReal' /\ LockIsHeld' /\ RefusedIsNotAccepted'
    BY <2>1 DEF MailInv, MailTypeOK, TokensAreIssued, RowsAreReal, LockIsHeld, RefusedIsNotAccepted
  <2>3. RowIsCurrent' /\ RenewalsAgree'
    BY <2>1 DEF MailInv, RowIsCurrent, RenewalsAgree, OneRenewalPerExpiry, RevokedIsRefused
  <2> QED
    BY <2>2, <2>3 DEF MailInv
<1> QED
  BY <1>2, <1>3, <1>4, <1>5, <1>6, <1>7, <1>8

(***************************************************************************)
(* A job that goes on without touching the account, Google or the lock.    *)
(***************************************************************************)
LEMMA QuietJobKeepsMail ==
  ASSUME MailInv, NEW s \in Senders, NEW next \in SenderRow,
         sender' = [sender EXCEPT ![s] = next],
         UNCHANGED <<account, accepted, issued, accountLock, consent, leaving, ages, renewals, excused>>,
         next.row.refresh <= issued, next.token <= issued,
         next.pc # "idle" => next.row.id # 0,
         ~excused /\ next.pc \notin {"idle", "lock"} => accountLock = s,
         ~excused /\ next.row.id = account.id =>
           /\ next.pc \in Working => ~account.fresh
           /\ next.pc \in {"ask", "refused"} => next.token = account.refresh,
         next.pc = "refused" => next.token \notin accepted
  PROVE  MailInv'
<1>1. sender \in [Senders -> SenderRow]
  BY DEF MailInv, MailTypeOK, SenderRow
<1>2. sender'[s] = next /\ \A u \in Senders \ {s} : sender'[u] = sender[u]
  BY <1>1
<1>3. MailTypeOK'
  BY <1>1 DEF MailInv, MailTypeOK, SenderRow
<1>4. TokensAreIssued' /\ RowsAreReal' /\ RefusedIsNotAccepted'
  BY <1>2 DEF MailInv, TokensAreIssued, RowsAreReal, RefusedIsNotAccepted
<1>5. LockIsHeld'
  BY <1>2 DEF MailInv, LockIsHeld
<1>6. RowIsCurrent'
  BY <1>2 DEF MailInv, RowIsCurrent
<1>7. RenewalsAgree'
  BY DEF MailInv, RenewalsAgree, OneRenewalPerExpiry, RevokedIsRefused
<1> QED
  BY <1>3, <1>4, <1>5, <1>6, <1>7 DEF MailInv

(*****************************************************************************)
(* A step of one send: the lock, the second read, Google's answer, and what  *)
(* is stored of it.                                                          *)
(*****************************************************************************)
LEMMA JobKeepsMail ==
  ASSUME MailInv, NEW s \in Senders, SenderStep(s)
  PROVE  MailInv'
<1> DEFINE me == sender[s]
<1>1. /\ account \in Accounts /\ account.id \in 0..MaxTokens /\ account.refresh \in 0..MaxTokens
      /\ account.fresh \in BOOLEAN /\ account.refresh <= issued
  BY DEF MailInv, MailTypeOK, Accounts, TokensAreIssued
<1>2. /\ me \in SenderRow /\ me.row \in Accounts /\ me.token \in 0..MaxTokens
      /\ me.row.refresh <= issued /\ me.token <= issued /\ me.row.refresh \in 0..MaxTokens
      /\ me.pc # "idle" => me.row.id # 0
      /\ issued \in 0..MaxTokens
  BY DEF MailInv, MailTypeOK, Accounts, SenderRow, TokensAreIssued, RowsAreReal
<1>3. ~excused /\ me.pc \notin {"idle", "lock"} => accountLock = s
  BY DEF MailInv, LockIsHeld
<1>4. ~excused /\ me.row.id = account.id =>
        /\ me.pc \in Working => ~account.fresh
        /\ me.pc \in {"ask", "refused"} => me.token = account.refresh
  BY DEF MailInv, RowIsCurrent
<1>5. me.pc = "refused" => me.token \notin accepted
  BY DEF MailInv, RefusedIsNotAccepted
<1>6. Resting \in SenderRow /\ Resting.pc = "idle" /\ Resting.token = 0 /\ Resting.row.refresh = 0
  BY MailAssumption DEF Resting, SenderRow, NoAccount, Accounts
<1>7. \A pc \in {"idle", "lock", "read", "ask", "store", "refused", "release", "unlock"} :
        LET next == [me EXCEPT !.pc = pc]
        IN  /\ next \in SenderRow /\ next.pc = pc /\ next.row = me.row /\ next.token = me.token
            /\ SenderGoes(s, pc) => sender' = [sender EXCEPT ![s] = next]
  BY <1>2 DEF SenderRow, SenderGoes
<1> HIDE DEF me
<1>8. CASE sender' = [sender EXCEPT ![s] = Resting]
           /\ UNCHANGED <<account, accepted, issued, accountLock, consent, leaving, ages, renewals, excused>>
  <2>1. Resting.row.refresh <= issued /\ Resting.token <= issued
    BY <1>2, <1>6, MailAssumption
  <2>2. Resting.pc \notin Working /\ Resting.pc \notin {"ask", "refused"} /\ Resting.pc # "refused"
        /\ Resting.pc \in {"idle", "lock"}
    BY <1>6 DEF Working
  <2> QED
    BY <1>6, <1>8, <2>1, <2>2, QuietJobKeepsMail
<1>9. ASSUME NEW pc \in {"read", "refused", "release", "unlock"}, SenderGoes(s, pc),
             me.pc \notin {"idle", "lock"},
             pc = "refused" => me.pc = "ask" /\ me.token \notin accepted,
             UNCHANGED <<account, accepted, issued, accountLock, consent, leaving, ages, renewals,
                         excused>>
      PROVE  MailInv'
  <2> DEFINE next == [me EXCEPT !.pc = pc]
  <2>1. /\ next \in SenderRow /\ next.pc = pc /\ next.row = me.row /\ next.token = me.token
        /\ sender' = [sender EXCEPT ![s] = next]
    BY <1>7, <1>9
  <2> HIDE DEF next
  <2>2. ~excused /\ next.row.id = account.id =>
          /\ next.pc \in Working => ~account.fresh
          /\ next.pc \in {"ask", "refused"} => next.token = account.refresh
    BY <1>4, <1>9, <2>1 DEF Working
  <2> QED
    BY <1>2, <1>3, <1>9, <2>1, <2>2, QuietJobKeepsMail
<1>10. CASE StartSending(s)
  <2> DEFINE next == [pc |-> "lock", row |-> account, token |-> 0]
  <2>1. /\ sender' = [sender EXCEPT ![s] = next] /\ account.id # 0
        /\ UNCHANGED <<account, accepted, issued, accountLock, consent, leaving, ages, renewals,
                       excused>>
    BY <1>10 DEF StartSending
  <2>2. next \in SenderRow /\ next.row = account /\ next.pc = "lock" /\ next.token = 0
    BY <1>1, MailAssumption DEF SenderRow
  <2> HIDE DEF next
  <2> QED
    <3>1. next.row.refresh <= issued /\ next.token <= issued /\ next.row.id # 0
      BY <1>1, <1>2, <2>1, <2>2, MailAssumption
    <3>2. next.pc \notin Working /\ next.pc \notin {"ask", "refused"} /\ next.pc # "refused"
          /\ next.pc \in {"idle", "lock"}
      BY <2>2 DEF Working
    <3> QED
      BY <2>1, <2>2, <3>1, <3>2, QuietJobKeepsMail
<1>11. CASE LockAccount(s)
  <2>1. /\ me.pc = "lock" /\ SenderGoes(s, "read")
        /\ \/ accountLock = NoSender /\ accountLock' = s /\ UNCHANGED excused
           \/ accountLock # NoSender /\ excused' = TRUE /\ UNCHANGED accountLock
        /\ UNCHANGED <<account, accepted, issued, consent, leaving, ages, renewals>>
    BY <1>11 DEF LockAccount, me
  <2> DEFINE next == [me EXCEPT !.pc = "read"]
  <2>2. /\ next \in SenderRow /\ next.pc = "read" /\ next.row = me.row /\ next.token = me.token
        /\ sender' = [sender EXCEPT ![s] = next]
    BY <1>7, <2>1
  <2> HIDE DEF next
  <2>3. sender \in [Senders -> SenderRow] /\ accountLock \in Senders \cup {NoSender}
    BY DEF MailInv, MailTypeOK, SenderRow
  <2>4. sender'[s] = next /\ \A u \in Senders \ {s} : sender'[u] = sender[u]
    BY <2>2, <2>3
  <2>5. MailTypeOK'
    BY <2>1, <2>2, <2>3 DEF MailInv, MailTypeOK, SenderRow
  <2>6. TokensAreIssued' /\ RowsAreReal' /\ RefusedIsNotAccepted'
    BY <1>2, <2>1, <2>2, <2>4 DEF MailInv, TokensAreIssued, RowsAreReal, RefusedIsNotAccepted
  <2>7. LockIsHeld'
    BY <2>1, <2>2, <2>4, MailAssumption DEF MailInv, LockIsHeld
  <2>8. RowIsCurrent'
    BY <2>1, <2>2, <2>4 DEF MailInv, RowIsCurrent, Working
  <2>9. RenewalsAgree'
    BY <2>1 DEF MailInv, RenewalsAgree, OneRenewalPerExpiry, RevokedIsRefused
  <2> QED
    BY <2>5, <2>6, <2>7, <2>8, <2>9 DEF MailInv
<1>12. CASE ReadAgain(s)
  <2> DEFINE pc == IF NeedsRefresh(s) THEN "ask" ELSE "release"
  <2> DEFINE next == [pc |-> pc, row |-> Latest(s), token |-> TokenOf(s)]
  <2>1. /\ me.pc = "read" /\ sender' = [sender EXCEPT ![s] = next]
        /\ UNCHANGED <<account, accepted, issued, accountLock, consent, leaving, ages, renewals,
                       excused>>
    BY <1>12 DEF ReadAgain, me
  <2>2. Latest(s) = IF account.id = me.row.id THEN account ELSE me.row
    BY DEF Latest, me
  <2>3. TokenOf(s) = Latest(s).refresh /\ (pc = "ask" => ~Latest(s).fresh) /\ pc \in {"ask", "release"}
    BY DEF TokenOf, NeedsRefresh
  <2> HIDE DEF pc
  <2>4. /\ Latest(s) \in Accounts /\ Latest(s).id = me.row.id
        /\ Latest(s).refresh \in 0..MaxTokens /\ Latest(s).refresh <= issued
    BY <1>1, <1>2, <2>2
  <2>5. next \in SenderRow /\ next.pc = pc /\ next.row = Latest(s) /\ next.token = TokenOf(s)
    BY <2>3, <2>4 DEF SenderRow
  <2> HIDE DEF next
  <2> QED
    BY <1>2, <1>3, <2>1, <2>2, <2>3, <2>4, <2>5, QuietJobKeepsMail DEF Working
<1>13. ASSUME NEW rotates \in BOOLEAN, GoogleRenews(s, rotates) PROVE MailInv'
  <2>1. /\ me.pc = "ask" /\ me.token \in accepted
        /\ UNCHANGED <<account, accountLock, consent, leaving, ages, renewals, excused>>
    BY <1>13 DEF GoogleRenews, me
  <2>2. PICK token \in 0..MaxTokens :
          /\ sender' = [sender EXCEPT ![s].pc = "store", ![s].token = token]
          /\ issued' \in {issued, issued + 1} /\ issued' \in 0..MaxTokens /\ token <= issued'
          /\ accepted' \subseteq accepted \cup {issued + 1}
          /\ accepted' \subseteq 1..issued'
    <3>1. CASE rotates
      <4>1. /\ issued < MaxTokens /\ issued' = issued + 1
            /\ accepted' = (accepted \ {me.token}) \cup {issued'}
            /\ sender' = [sender EXCEPT ![s].pc = "store", ![s].token = issued']
        BY <1>13, <3>1 DEF GoogleRenews, me
      <4>2. accepted \subseteq 1..issued
        BY DEF MailInv, MailTypeOK
      <4>3. /\ issued' \in 0..MaxTokens /\ issued' <= issued'
            /\ accepted' \subseteq accepted \cup {issued + 1} /\ accepted' \subseteq 1..issued'
        BY <1>2, <4>1, <4>2, MailAssumption
      <4> QED
        BY <4>1, <4>3
    <3>2. CASE ~rotates
      <4>1. /\ sender' = [sender EXCEPT ![s].pc = "store", ![s].token = 0]
            /\ UNCHANGED <<issued, accepted>>
        BY <1>13, <3>2 DEF GoogleRenews
      <4>2. accepted \subseteq 1..issued
        BY DEF MailInv, MailTypeOK
      <4>3. 0 \in 0..MaxTokens /\ 0 <= issued' /\ issued' \in 0..MaxTokens
        BY <1>2, <4>1, MailAssumption
      <4> QED
        BY <4>1, <4>2, <4>3
    <3> QED
      BY <3>1, <3>2
  <2>3. sender \in [Senders -> SenderRow]
    BY DEF MailInv, MailTypeOK, SenderRow
  <2>4. /\ sender'[s] \in SenderRow /\ sender'[s].pc = "store" /\ sender'[s].row = me.row
        /\ sender'[s].token = token
    <3>1. sender'[s] = [[me EXCEPT !.pc = "store"] EXCEPT !.token = token]
      BY <2>2, <2>3 DEF me
    <3> QED
      BY <1>2, <3>1 DEF SenderRow
  <2>5. \A u \in Senders \ {s} : sender'[u] = sender[u]
    BY <2>2, <2>3
  <2>6. MailTypeOK'
    <3>1. sender' \in [Senders -> SenderRow]
      BY <2>2, <2>3, <2>4, <2>5
    <3> QED
      BY <2>1, <2>2, <3>1 DEF MailInv, MailTypeOK, SenderRow
  <2>7. TokensAreIssued'
    <3>1. \A u \in Senders : /\ sender[u].row.refresh \in 0..MaxTokens
                             /\ sender[u].token \in 0..MaxTokens
                             /\ sender[u].row.refresh <= issued /\ sender[u].token <= issued
      BY <2>3 DEF MailInv, TokensAreIssued, SenderRow, Accounts
    <3>2. consent \in 0..MaxTokens /\ consent <= issued
      BY DEF MailInv, MailTypeOK, TokensAreIssued
    <3>3. issued <= issued' /\ issued \in Nat /\ issued' \in Nat
      BY <1>2, <2>2, MailAssumption
    <3>4. ASSUME NEW u \in Senders
          PROVE  sender'[u].row.refresh <= issued' /\ sender'[u].token <= issued'
      <4>1. CASE u = s
        BY <1>2, <2>2, <2>4, <3>3, <4>1
      <4>2. CASE u # s
        BY <2>5, <3>1, <3>3, <4>2
      <4> QED
        BY <4>1, <4>2
    <3> QED
      BY <1>1, <2>1, <3>2, <3>3, <3>4 DEF TokensAreIssued
  <2>8. RowsAreReal' /\ LockIsHeld'
    BY <1>2, <1>3, <2>1, <2>4, <2>5 DEF MailInv, RowsAreReal, LockIsHeld
  <2>9. RowIsCurrent'
    BY <1>4, <2>1, <2>4, <2>5 DEF MailInv, RowIsCurrent, Working
  <2>10. RefusedIsNotAccepted'
    <3> SUFFICES ASSUME NEW u \in Senders, sender'[u].pc = "refused"
                 PROVE  sender'[u].token \notin accepted'
      BY DEF RefusedIsNotAccepted
    <3>1. u # s /\ sender'[u] = sender[u]
      BY <2>4, <2>5
    <3>2. sender[u].token \notin accepted /\ sender[u].token <= issued /\ sender[u].token \in 0..MaxTokens
      BY <2>3, <3>1 DEF MailInv, RefusedIsNotAccepted, TokensAreIssued, SenderRow
    <3> QED
      BY <1>2, <2>2, <3>1, <3>2, MailAssumption
  <2>11. RenewalsAgree'
    BY <1>1, <1>2, <2>1, <2>2, MailAssumption
       DEF MailInv, RenewalsAgree, OneRenewalPerExpiry, RevokedIsRefused
  <2> QED
    BY <2>6, <2>7, <2>8, <2>9, <2>10, <2>11 DEF MailInv
<1>14. CASE GoogleRefuses(s)
  BY <1>9, <1>14 DEF GoogleRefuses, me
<1>15. CASE GoogleFails(s)
  BY <1>9, <1>15 DEF GoogleFails, me
<1>16. CASE StoreTokens(s)
  <2>1. /\ me.pc = "store" /\ SenderGoes(s, "release")
        /\ UNCHANGED <<accepted, issued, accountLock, consent, leaving, ages, excused>>
    BY <1>16 DEF StoreTokens, me
  <2>2. CASE account.id # me.row.id
    <3>1. UNCHANGED <<account, renewals>>
      BY <1>16, <2>2 DEF StoreTokens, me
    <3> QED
      BY <1>9, <2>1, <3>1
  <2>3. CASE account.id = me.row.id
    <3> DEFINE next == [me EXCEPT !.pc = "release"]
    <3>1. /\ next \in SenderRow /\ next.pc = "release" /\ next.row = me.row
          /\ next.token = me.token /\ sender' = [sender EXCEPT ![s] = next]
      BY <1>7, <2>1
    <3> HIDE DEF next
    <3>2. /\ renewals' = renewals + 1
          /\ account' = [account EXCEPT !.status = "connected", !.fresh = TRUE,
                           !.refresh = IF me.token = 0 THEN @ ELSE me.token]
      BY <1>16, <2>3 DEF StoreTokens, me
    <3>3. /\ account' \in Accounts /\ account'.id = account.id /\ account'.fresh
          /\ account'.status = "connected" /\ account'.refresh \in {account.refresh, me.token}
      BY <1>1, <1>2, <3>2 DEF Accounts
    <3>4. sender \in [Senders -> SenderRow] /\ renewals \in Nat
      BY DEF MailInv, MailTypeOK, SenderRow
    <3>5. sender'[s] = next /\ \A u \in Senders \ {s} : sender'[u] = sender[u]
      BY <3>1, <3>4
    <3>6. ~excused => /\ renewals = 0
                      /\ \A u \in Senders \ {s} : sender[u].pc \in {"idle", "lock"}
      BY <1>2, <1>3, <1>4, <2>1, <2>3 DEF MailInv, RowsAreReal, LockIsHeld, Working
    <3>7. MailTypeOK'
      BY <2>1, <3>1, <3>2, <3>3, <3>4 DEF MailInv, MailTypeOK, SenderRow
    <3>8. TokensAreIssued' /\ RowsAreReal' /\ RefusedIsNotAccepted'
      BY <1>1, <1>2, <2>1, <3>1, <3>3, <3>5
         DEF MailInv, TokensAreIssued, RowsAreReal, RefusedIsNotAccepted
    <3>9. LockIsHeld' /\ RowIsCurrent'
      BY <1>3, <2>1, <3>1, <3>5, <3>6 DEF MailInv, LockIsHeld, RowIsCurrent, Working
    <3>10. RenewalsAgree'
      BY <2>1, <3>2, <3>3, <3>6 DEF RenewalsAgree, OneRenewalPerExpiry, RevokedIsRefused
    <3> QED
      BY <3>7, <3>8, <3>9, <3>10 DEF MailInv
  <2> QED
    BY <2>2, <2>3
<1>17. CASE MarkRevoked(s)
  <2>1. /\ me.pc = "refused" /\ SenderGoes(s, "release")
        /\ account' = IF account.id = me.row.id THEN [account EXCEPT !.status = "revoked"]
                      ELSE account
        /\ UNCHANGED <<accepted, issued, accountLock, consent, leaving, ages, renewals, excused>>
    BY <1>17 DEF MarkRevoked, me
  <2> DEFINE next == [me EXCEPT !.pc = "release"]
  <2>2. /\ next \in SenderRow /\ next.pc = "release" /\ next.row = me.row
        /\ next.token = me.token /\ sender' = [sender EXCEPT ![s] = next]
    BY <1>7, <2>1
  <2> HIDE DEF next
  <2>3. /\ account' \in Accounts /\ account'.id = account.id /\ account'.fresh = account.fresh
        /\ account'.refresh = account.refresh
        /\ account'.status = account.status \/ account.id = me.row.id
    BY <1>1, <2>1 DEF Accounts
  <2>4. sender \in [Senders -> SenderRow]
    BY DEF MailInv, MailTypeOK, SenderRow
  <2>5. sender'[s] = next /\ \A u \in Senders \ {s} : sender'[u] = sender[u]
    BY <2>2, <2>4
  <2>6. MailTypeOK'
    BY <2>1, <2>2, <2>3, <2>4 DEF MailInv, MailTypeOK, SenderRow
  <2>7. TokensAreIssued' /\ RowsAreReal' /\ RefusedIsNotAccepted'
    BY <1>2, <2>1, <2>2, <2>3, <2>5
       DEF MailInv, TokensAreIssued, RowsAreReal, RefusedIsNotAccepted
  <2>8. LockIsHeld' /\ RowIsCurrent'
    BY <1>3, <2>1, <2>2, <2>3, <2>5 DEF MailInv, LockIsHeld, RowIsCurrent, Working
  <2>9. RenewalsAgree'
    BY <1>4, <1>5, <2>1, <2>3 DEF MailInv, RenewalsAgree, OneRenewalPerExpiry, RevokedIsRefused
  <2> QED
    BY <2>6, <2>7, <2>8, <2>9 DEF MailInv
<1>18. CASE LookAtLock(s)
  BY <1>8, <1>9, <1>18 DEF LookAtLock, me
<1>19. CASE Unlock(s)
  <2>1. /\ me.pc = "unlock" /\ accountLock' = NoSender
        /\ sender' = [sender EXCEPT ![s] = Resting]
        /\ UNCHANGED <<account, accepted, issued, consent, leaving, ages, renewals, excused>>
    BY <1>19 DEF Unlock, me
  <2>2. sender \in [Senders -> SenderRow]
    BY DEF MailInv, MailTypeOK, SenderRow
  <2>3. sender'[s] = Resting /\ \A u \in Senders \ {s} : sender'[u] = sender[u]
    BY <2>1, <2>2
  <2>4. MailTypeOK'
    BY <1>6, <2>1, <2>2 DEF MailInv, MailTypeOK, SenderRow
  <2>5. TokensAreIssued' /\ RowsAreReal' /\ RefusedIsNotAccepted'
    BY <1>2, <1>6, <2>1, <2>3 DEF MailInv, TokensAreIssued, RowsAreReal, RefusedIsNotAccepted
  <2>6. LockIsHeld'
    BY <1>3, <1>6, <2>1, <2>3 DEF MailInv, LockIsHeld
  <2>7. RowIsCurrent' /\ RenewalsAgree'
    BY <1>6, <2>1, <2>3 DEF MailInv, RowIsCurrent, Working, RenewalsAgree, OneRenewalPerExpiry,
                            RevokedIsRefused
  <2> QED
    BY <2>4, <2>5, <2>6, <2>7 DEF MailInv
<1>20. CASE KillSender(s)
  BY <1>8, <1>20 DEF KillSender
<1> QED
  BY <1>10, <1>11, <1>12, <1>13, <1>14, <1>15, <1>16, <1>17, <1>18, <1>19, <1>20 DEF SenderStep

(*****************************************************************************)
(* Every step of the user, the clock and the sends.                          *)
(*****************************************************************************)
LEMMA MailStep == MailInv /\ [MailNext]_mailVars => MailInv'
<1> SUFFICES ASSUME MailInv, [MailNext]_mailVars PROVE MailInv'
  OBVIOUS
<1>1. CASE UNCHANGED mailVars
  BY <1>1 DEF mailVars, MailInv, MailTypeOK, TokensAreIssued, RowsAreReal, LockIsHeld, RowIsCurrent,
              RefusedIsNotAccepted, RenewalsAgree, OneRenewalPerExpiry, RevokedIsRefused
<1> QED
  BY <1>1, UserKeepsMail, JobKeepsMail DEF MailNext

(*****************************************************************************)
(* For any number of parallel sends, tokens and expiries, as long as no send *)
(* outlived its lock or its patience and nobody connected the account during *)
(* a refresh: an access token that ran out is renewed once, and an account   *)
(* is not marked revoked while Google accepts its refresh token              *)
(* (oauthTokenService.js withAccountLock, getFreshAccessToken,               *)
(* refreshAndPersist).                                                       *)
(*****************************************************************************)
THEOREM RenewalsStayInAgreement == MailSpec => []RenewalsAgree
<1>1. MailInv => RenewalsAgree
  BY DEF MailInv
<1> QED
  BY <1>1, MailStart, MailStep, PTL DEF MailSpec

-----------------------------------------------------------------------------
(*****************************************************************************)
(* The quota: what is counted stays within the limit and the calls under     *)
(* way.                                                                      *)
(*****************************************************************************)

(* Applications that have been counted, for all that is in the tables. *)
CountedApps ==
  (consumed \cup {a \in QuotaApps : consumer[a].pc = "record"}) \ uncharged

ConsumerRow == [pc : {"idle", "plan", "bonus", "count", "record"}, limit : Nat]

(* A limit that was read is none but there has been.                       *)
LimitsRead ==
  \A a \in QuotaApps :
     /\ consumer[a].pc = "bonus" => consumer[a].limit <= highestQuota
     /\ consumer[a].pc = "count" => consumer[a].limit <= highestQuota + bonusSends

QuotaInv ==
  /\ used \in Nat /\ consumed \subseteq QuotaApps
  /\ planQuota \in Nat /\ highestQuota \in Nat /\ bonusSends \in Nat
  /\ planQuota <= highestQuota
  /\ consumer \in [QuotaApps -> ConsumerRow]
  /\ Cardinality(CountedApps) <= used
  /\ UsedWithinLimit
  /\ LimitsRead

(*****************************************************************************)
(* The applications that were counted are finitely many.                     *)
(*****************************************************************************)
LEMMA CountedIsFinite ==
  ASSUME consumed \subseteq QuotaApps
  PROVE  IsFiniteSet(CountedApps) /\ Cardinality(CountedApps) \in Nat
<1>1. CountedApps \subseteq QuotaApps
  BY DEF CountedApps
<1>2. IsFiniteSet(CountedApps)
  BY <1>1, FS_Subset, QuotaAssumption
<1> QED
  BY <1>2, FS_CardinalityType

(*****************************************************************************)
(* Nothing has been sent.                                                    *)
(*****************************************************************************)
LEMMA QuotaStart == QuotaInit => QuotaInv
<1> SUFFICES ASSUME QuotaInit PROVE QuotaInv
  OBVIOUS
<1>1. consumer \in [QuotaApps -> ConsumerRow] /\ \A a \in QuotaApps : consumer[a].pc = "idle"
  BY DEF QuotaInit, NotConsuming, ConsumerRow
<1>2. CountedApps = {}
  BY <1>1 DEF QuotaInit, CountedApps
<1>3. Cardinality(CountedApps) = 0
  BY <1>2, FS_EmptySet
<1>4. planQuota \in Nat /\ highestQuota = planQuota /\ bonusSends = 0
  BY QuotaAssumption DEF QuotaInit
<1> QED
  BY <1>1, <1>3, <1>4 DEF QuotaInit, QuotaInv, UsedWithinLimit, LimitsRead

(***************************************************************************)
(* What is allowed may change as long as quotas there have been, and       *)
(* bonuses, are not forgotten.                                             *)
(***************************************************************************)
LEMMA AllowanceKeepsCount ==
  ASSUME QuotaInv, UNCHANGED <<used, consumed, consumer, uncharged>>,
         planQuota' \in Nat, highestQuota' \in Nat, bonusSends' \in Nat,
         planQuota' <= highestQuota', highestQuota <= highestQuota', bonusSends <= bonusSends'
  PROVE  QuotaInv'
<1>1. \A a \in QuotaApps : consumer[a].limit \in Nat
  BY DEF QuotaInv, ConsumerRow
<1>2. highestQuota \in Nat /\ bonusSends \in Nat /\ used \in Nat
  BY DEF QuotaInv
<1>3. \A n \in Nat : /\ n <= highestQuota => n <= highestQuota'
                     /\ n <= highestQuota + bonusSends => n <= highestQuota' + bonusSends'
  <2>1. PICK h \in Nat, b \in Nat, g \in Nat, c \in Nat :
          h = highestQuota /\ b = bonusSends /\ g = highestQuota' /\ c = bonusSends'
    BY <1>2
  <2>2. h <= g /\ b <= c
    BY <2>1, highestQuota <= highestQuota', bonusSends <= bonusSends'
  <2>3. h + b <= g + c
    BY <2>2
  <2>4. \A n \in Nat : (n <= h => n <= g) /\ (n <= h + b => n <= g + c)
    BY <2>2, <2>3
  <2> QED
    BY <2>1, <2>4
<1>4. LimitsRead'
  BY <1>1, <1>3 DEF QuotaInv, LimitsRead
<1>5. UsedWithinLimit'
  BY <1>2, <1>3 DEF QuotaInv, UsedWithinLimit
<1>6. CountedApps' = CountedApps
  BY DEF CountedApps
<1> QED
  BY <1>4, <1>5, <1>6 DEF QuotaInv

(***************************************************************************)
(* A step of one application's consumption: it may be counted once, and    *)
(* then the counter goes up with it.                                       *)
(***************************************************************************)
LEMMA ConsumptionKeepsCount ==
  ASSUME QuotaInv, NEW a \in QuotaApps, NEW next \in ConsumerRow,
         consumer' = [consumer EXCEPT ![a] = next],
         UNCHANGED limitVars,
         used' \in {used, used + 1}, UsedWithinLimit',
         consumed' \in {consumed, consumed \cup {a}},
         \/ CountedApps' \subseteq CountedApps
         \/ used' = used + 1 /\ CountedApps' \subseteq CountedApps \cup {a},
         next.pc = "bonus" => next.limit <= highestQuota,
         next.pc = "count" => next.limit <= highestQuota + bonusSends
  PROVE  QuotaInv'
<1>1. UNCHANGED <<planQuota, highestQuota, bonusSends>>
  BY DEF limitVars
<1>2. used' \in Nat /\ consumed' \subseteq QuotaApps
  BY DEF QuotaInv
<1>3. consumer' \in [QuotaApps -> ConsumerRow]
  BY DEF QuotaInv
<1>4. LimitsRead'
  <2> SUFFICES ASSUME NEW b \in QuotaApps
               PROVE  /\ consumer'[b].pc = "bonus" => consumer'[b].limit <= highestQuota
                      /\ consumer'[b].pc = "count" => consumer'[b].limit <= highestQuota + bonusSends
    BY <1>1 DEF LimitsRead
  <2>1. consumer'[b] = IF b = a THEN next ELSE consumer[b]
    BY DEF QuotaInv
  <2> QED
    BY <2>1 DEF QuotaInv, LimitsRead
<1>5. /\ IsFiniteSet(CountedApps) /\ Cardinality(CountedApps) \in Nat
      /\ Cardinality(CountedApps) <= used /\ used \in Nat
  BY CountedIsFinite DEF QuotaInv
<1>6. Cardinality(CountedApps') <= used'
  <2>1. CASE CountedApps' \subseteq CountedApps
    <3>1. Cardinality(CountedApps') <= Cardinality(CountedApps) /\ IsFiniteSet(CountedApps')
      BY <1>5, <2>1, FS_Subset
    <3>2. Cardinality(CountedApps') \in Nat
      BY <3>1, FS_CardinalityType
    <3> QED
      BY <1>5, <3>1, <3>2
  <2>2. CASE used' = used + 1 /\ CountedApps' \subseteq CountedApps \cup {a}
    <3>1. /\ IsFiniteSet(CountedApps \cup {a})
          /\ Cardinality(CountedApps \cup {a}) \in {Cardinality(CountedApps), Cardinality(CountedApps) + 1}
      BY <1>5, FS_AddElement
    <3>2. /\ IsFiniteSet(CountedApps')
          /\ Cardinality(CountedApps') <= Cardinality(CountedApps \cup {a})
      BY <2>2, <3>1, FS_Subset
    <3>3. Cardinality(CountedApps') \in Nat
      BY <3>2, FS_CardinalityType
    <3> QED
      BY <1>5, <2>2, <3>1, <3>2, <3>3
  <2> QED
    BY <2>1, <2>2
<1> QED
  BY <1>1, <1>2, <1>3, <1>4, <1>6 DEF QuotaInv

(***************************************************************************)
(* The condition of consumeIfWithinLimit.                                  *)
(***************************************************************************)
LEMMA FittingStaysWithinLimit ==
  ASSUME QuotaInv, NEW a \in QuotaApps, consumer[a].pc = "count", Fits(consumer[a].limit)
  PROVE  used + 1 <= 1 \/ used + 1 <= highestQuota + bonusSends
<1>1. consumer[a].limit \in Nat /\ consumer[a].limit <= highestQuota + bonusSends
  BY DEF QuotaInv, ConsumerRow, LimitsRead
<1>2. used \in Nat /\ highestQuota + bonusSends \in Nat
  BY DEF QuotaInv
<1> QED
  BY <1>1, <1>2 DEF Fits

(*****************************************************************************)
(* A step of the consumption of one application.                             *)
(*****************************************************************************)
LEMMA ConsumerStepKeepsCount ==
  ASSUME QuotaInv, NEW a \in QuotaApps,
         \/ \E limitless \in BOOLEAN : OrderWithinQuota(a, limitless) \/ ReadPlan(a, limitless)
         \/ MailGoes(a) \/ RetryConsumption(a)
         \/ ReadBonus(a) \/ Count(a) \/ RecordConsumption(a)
         \/ \E effect, noted \in BOOLEAN : ConsumptionFails(a, effect, noted)
  PROVE  QuotaInv'
<1> DEFINE me == consumer[a]
<1>1. /\ consumer \in [QuotaApps -> ConsumerRow] /\ me \in ConsumerRow
      /\ used \in Nat /\ UsedWithinLimit /\ planQuota <= highestQuota
      /\ planQuota \in Nat /\ highestQuota \in Nat /\ bonusSends \in Nat
      /\ consumed \subseteq QuotaApps
      /\ me.pc = "bonus" => me.limit <= highestQuota
  BY DEF QuotaInv, LimitsRead
<1>2. NotConsuming \in ConsumerRow /\ NotConsuming.pc = "idle"
  BY DEF NotConsuming, ConsumerRow
<1>3. \A next \in ConsumerRow :
        consumer' = [consumer EXCEPT ![a] = next]
          => {b \in QuotaApps : consumer'[b].pc = "record"}
               = ({b \in QuotaApps : consumer[b].pc = "record"} \ {a})
                   \cup (IF next.pc = "record" THEN {a} ELSE {})
  BY <1>1
<1>4. LET next == [me EXCEPT !.pc = "record"]
      IN  /\ next \in ConsumerRow /\ next.pc = "record"
          /\ [consumer EXCEPT ![a].pc = "record"] = [consumer EXCEPT ![a] = next]
  BY <1>1 DEF ConsumerRow
<1>5. ASSUME UNCHANGED used PROVE UNCHANGED limitVars => UsedWithinLimit'
  BY <1>1, <1>5 DEF UsedWithinLimit, limitVars
<1>6. ASSUME NEW limitless \in BOOLEAN, OrderWithinQuota(a, limitless) PROVE QuotaInv'
  <2>1. UNCHANGED <<used, consumed, consumer, uncharged, planQuota, highestQuota, bonusSends>>
    BY <1>6 DEF OrderWithinQuota, ReferralsUnchanged, limitVars
  <2> QED
    BY <1>1, <2>1, AllowanceKeepsCount
<1>7. CASE MailGoes(a) \/ RetryConsumption(a)
  <2> DEFINE next == IF a \in consumed THEN NotConsuming ELSE [pc |-> "plan", limit |-> 0]
  <2>1. /\ consumer' = [consumer EXCEPT ![a] = next]
        /\ next \in ConsumerRow /\ next.pc \notin {"record", "bonus", "count"}
        /\ UNCHANGED <<used, consumed, uncharged>> /\ UNCHANGED limitVars
    BY <1>2, <1>7 DEF MailGoes, RetryConsumption, Consume, Look, ReferralsUnchanged, ConsumerRow
  <2> HIDE DEF next, me
  <2>2. CountedApps' \subseteq CountedApps
    BY <1>3, <2>1 DEF CountedApps
  <2> QED
    BY <1>1, <1>5, <2>1, <2>2, ConsumptionKeepsCount
<1>8. ASSUME NEW limitless \in BOOLEAN, ReadPlan(a, limitless) PROVE QuotaInv'
  <2>1. UNCHANGED <<used, consumed>> /\ UNCHANGED limitVars
    BY <1>8 DEF ReadPlan, LimitRead, ReferralsUnchanged
  <2>2. CASE limitless
    <3> DEFINE next == [me EXCEPT !.pc = "record"]
    <3>1. /\ consumer' = [consumer EXCEPT ![a] = next] /\ uncharged' = uncharged \cup {a}
          /\ next \in ConsumerRow /\ next.pc = "record"
      BY <1>4, <1>8, <2>2 DEF ReadPlan
    <3> HIDE DEF next, me
    <3>2. CountedApps' \subseteq CountedApps
      BY <1>3, <2>1, <3>1 DEF CountedApps
    <3> QED
      BY <1>1, <1>5, <2>1, <3>1, <3>2, ConsumptionKeepsCount
  <2>3. CASE ~limitless
    <3> DEFINE next == [pc |-> "bonus", limit |-> planQuota]
    <3>1. /\ consumer' = [consumer EXCEPT ![a] = next] /\ UNCHANGED uncharged
          /\ next \in ConsumerRow /\ next.pc = "bonus" /\ next.limit <= highestQuota
      BY <1>1, <1>8, <2>3 DEF ReadPlan, Look, ConsumerRow
    <3> HIDE DEF next, me
    <3>2. CountedApps' \subseteq CountedApps
      BY <1>3, <2>1, <3>1 DEF CountedApps
    <3> QED
      BY <1>1, <1>5, <2>1, <3>1, <3>2, ConsumptionKeepsCount
  <2> QED
    BY <2>2, <2>3
<1>9. CASE ReadBonus(a)
  <2> DEFINE next == [pc |-> "count", limit |-> me.limit + bonusSends]
  <2>1. /\ consumer' = [consumer EXCEPT ![a] = next] /\ UNCHANGED <<used, consumed, uncharged>>
        /\ UNCHANGED limitVars /\ me.pc = "bonus"
    BY <1>9 DEF ReadBonus, Look, LimitRead, ReferralsUnchanged
  <2>2. me.limit \in Nat /\ me.limit <= highestQuota
    BY <1>1, <2>1 DEF ConsumerRow
  <2>3. me.limit + bonusSends \in Nat /\ me.limit + bonusSends <= highestQuota + bonusSends
    BY <1>1, <2>2
  <2>4. /\ next \in ConsumerRow /\ next.pc = "count"
        /\ next.limit <= highestQuota + bonusSends
    BY <2>3 DEF ConsumerRow
  <2> HIDE DEF next, me
  <2>5. CountedApps' \subseteq CountedApps
    BY <1>3, <2>1, <2>4 DEF CountedApps
  <2> QED
    BY <1>1, <1>5, <2>1, <2>4, <2>5, ConsumptionKeepsCount
<1>10. CASE Count(a)
  <2>1. /\ UNCHANGED <<consumed, uncharged>> /\ me.pc = "count"
        /\ UNCHANGED limitVars
    BY <1>10 DEF Count, ReferralsUnchanged
  <2>2. CASE Fits(me.limit)
    <3> DEFINE next == [me EXCEPT !.pc = "record"]
    <3>1. /\ consumer' = [consumer EXCEPT ![a] = next] /\ used' = used + 1
          /\ next \in ConsumerRow /\ next.pc = "record"
      BY <1>4, <1>10, <2>2 DEF Count
    <3>2. UsedWithinLimit'
      BY <1>1, <2>1, <2>2, <3>1, FittingStaysWithinLimit DEF UsedWithinLimit, limitVars
    <3> HIDE DEF next, me
    <3>3. CountedApps' \subseteq CountedApps \cup {a}
      BY <1>3, <2>1, <3>1 DEF CountedApps
    <3> QED
      BY <1>1, <2>1, <3>1, <3>2, <3>3, ConsumptionKeepsCount
  <2>3. CASE ~Fits(me.limit)
    <3>1. consumer' = [consumer EXCEPT ![a] = NotConsuming] /\ used' = used
      BY <1>10, <2>3 DEF Count, AfterRefusal
    <3> HIDE DEF me
    <3>2. CountedApps' \subseteq CountedApps
      BY <1>2, <1>3, <2>1, <3>1 DEF CountedApps
    <3> QED
      BY <1>1, <1>2, <1>5, <2>1, <3>1, <3>2, ConsumptionKeepsCount
  <2> QED
    BY <2>2, <2>3
<1>11. CASE RecordConsumption(a)
  <2>1. /\ me.pc = "record" /\ consumed' = consumed \cup {a}
        /\ consumer' = [consumer EXCEPT ![a] = NotConsuming]
        /\ UNCHANGED <<used, uncharged>> /\ UNCHANGED limitVars
    BY <1>11 DEF RecordConsumption, ReferralsUnchanged
  <2>2. CountedApps' \subseteq CountedApps
    BY <1>2, <1>3, <2>1 DEF CountedApps
  <2> HIDE DEF me
  <2> QED
    BY <1>1, <1>2, <1>5, <2>1, <2>2, ConsumptionKeepsCount
<1>12. ASSUME NEW effect \in BOOLEAN, NEW noted \in BOOLEAN, ConsumptionFails(a, effect, noted)
       PROVE  QuotaInv'
  <2>1. /\ consumer' = [consumer EXCEPT ![a] = NotConsuming]
        /\ used' = IF effect /\ me.pc = "count" /\ Fits(me.limit) THEN used + 1 ELSE used
        /\ consumed' = IF effect /\ me.pc = "record" THEN consumed \cup {a} ELSE consumed
        /\ UNCHANGED uncharged /\ UNCHANGED limitVars
    BY <1>12 DEF ConsumptionFails, ReferralsUnchanged
  <2>2. CountedApps' \subseteq CountedApps
    BY <1>2, <1>3, <2>1 DEF CountedApps
  <2>3. used' \in {used, used + 1}
    BY <1>1, <2>1
  <2>4. UsedWithinLimit'
    <3>1. CASE effect /\ me.pc = "count" /\ Fits(me.limit)
      BY <1>1, <2>1, <3>1, FittingStaysWithinLimit DEF UsedWithinLimit, limitVars
    <3>2. CASE ~(effect /\ me.pc = "count" /\ Fits(me.limit))
      BY <1>5, <2>1, <3>2
    <3> QED
      BY <3>1, <3>2
  <2> HIDE DEF me
  <2> QED
    BY <1>1, <1>2, <2>1, <2>2, <2>3, <2>4, ConsumptionKeepsCount
<1> QED
  BY <1>6, <1>7, <1>8, <1>9, <1>10, <1>11, <1>12

(*****************************************************************************)
(* Every step of the user, the friends and the consumptions.                 *)
(*****************************************************************************)
LEMMA QuotaStep == QuotaInv /\ [QuotaNext]_quotaVars => QuotaInv'
<1> SUFFICES ASSUME QuotaInv, [QuotaNext]_quotaVars PROVE QuotaInv'
  OBVIOUS
<1>0. /\ planQuota \in Nat /\ highestQuota \in Nat /\ bonusSends \in Nat
      /\ planQuota <= highestQuota
  BY DEF QuotaInv
<1>1. ASSUME UNCHANGED <<used, consumed, consumer, uncharged, planQuota, highestQuota>>,
             bonusSends' \in Nat, bonusSends <= bonusSends'
      PROVE  QuotaInv'
  BY <1>0, <1>1, AllowanceKeepsCount
<1>2. CASE UNCHANGED quotaVars
  BY <1>0, <1>1, <1>2 DEF quotaVars
<1>3. ASSUME NEW m \in Mails,
             \/ FriendMails(m) \/ MarkExpired(m) \/ CountFriendSend(m)
             \/ WeighRewards(m) \/ RewardFails(m) \/ Reward(m)
      PROVE  QuotaInv'
  <2>1. /\ bonusSends' \in {bonusSends, bonusSends + Bonus}
        /\ UNCHANGED <<used, consumed, consumer, uncharged, planQuota, highestQuota>>
    BY <1>3 DEF FriendMails, MarkExpired, CountFriendSend, WeighRewards,
                RewardFails, Reward, NothingFails, AccountUnchanged
  <2> QED
    BY <1>0, <1>1, <2>1, QuotaAssumption
<1>4. ASSUME NEW f \in Friends, ExpireReferral(f) PROVE QuotaInv'
  BY <1>0, <1>1, <1>4 DEF ExpireReferral, NothingFails, AccountUnchanged
<1>5. CASE AdminGrants
  <2>1. /\ bonusSends' = bonusSends + 1
        /\ UNCHANGED <<used, consumed, consumer, uncharged, planQuota, highestQuota>>
    BY <1>5 DEF AdminGrants, AllowanceOnly
  <2> QED
    BY <1>0, <1>1, <2>1
<1>6. ASSUME NEW quota \in Quotas, ChangeQuota(quota) PROVE QuotaInv'
  <2>1. /\ planQuota' = quota /\ quota \in Nat
        /\ highestQuota' = IF quota > highestQuota THEN quota ELSE highestQuota
        /\ UNCHANGED <<used, consumed, consumer, uncharged, bonusSends>>
    BY <1>6, QuotaAssumption DEF ChangeQuota, AllowanceOnly
  <2>2. planQuota' <= highestQuota' /\ highestQuota <= highestQuota' /\ highestQuota' \in Nat
    BY <1>0, <2>1
  <2> QED
    BY <1>0, <2>1, <2>2, AllowanceKeepsCount
<1> QED
  BY <1>2, <1>3, <1>4, <1>5, <1>6, ConsumerStepKeepsCount DEF QuotaNext

(*****************************************************************************)
(* For any number of applications and friends and any quotas: the counter,   *)
(* past its first count, stays within the highest limit, although that is    *)
(* read before it is applied and may be lowered or lifted in between, and no *)
(* application that was found with a limit is recorded as consumed without   *)
(* having been counted, whatever fails between the two writes                *)
(* (referralService.js consumeApplicationQuotaAfterSend,                     *)
(* usageCounterModel.js consumeIfWithinLimit).                               *)
(*****************************************************************************)
THEOREM CountStaysBounded == QuotaSpec => []CountIsBounded
<1>1. QuotaInv => CountIsBounded
  <2> SUFFICES ASSUME QuotaInv PROVE CountIsBounded
    OBVIOUS
  <2>1. /\ IsFiniteSet(CountedApps) /\ Cardinality(CountedApps) \in Nat
        /\ Cardinality(CountedApps) <= used /\ used \in Nat
    BY CountedIsFinite DEF QuotaInv
  <2>2. consumed \ uncharged \subseteq CountedApps
    BY DEF CountedApps
  <2>3. /\ IsFiniteSet(consumed \ uncharged)
        /\ Cardinality(consumed \ uncharged) <= Cardinality(CountedApps)
    BY <2>1, <2>2, FS_Subset
  <2>4. Cardinality(consumed \ uncharged) \in Nat
    BY <2>3, FS_CardinalityType
  <2> QED
    BY <2>1, <2>3, <2>4 DEF CountIsBounded, ConsumedIsCounted, QuotaInv
<1> QED
  BY <1>1, QuotaStart, QuotaStep, PTL DEF QuotaSpec

-----------------------------------------------------------------------------
(*****************************************************************************)
(* Billing: what is settled is recorded, and whoever pays has access.        *)
(*****************************************************************************)

SubRow == [live : BOOLEAN, left : Nat]

GrantRow == [pc : {"idle", "begin", "read", "write", "known", "settle", "claim", "redeem",
                   "mark", "fail"},
             row : Nat, left : Nat]

(* A row that was read is still there: rows are added, never removed.      *)
ReadRowIsThere(g) ==
  grant[g].pc = "write" => /\ payer[g[2]] \in Users
                           /\ grant[g].row \in 0..Len(subs[payer[g[2]]])

(* Who acts for a payment knows its payer.                                 *)
PayerIsKnown(g) == grant[g].pc # "idle" => payer[g[2]] # Nobody

HandIsThere ==
  byHand = NoHand
  \/ /\ byHand.user \in Users /\ byHand.left \in Nat
     /\ byHand.row \in 0..Len(subs[byHand.user])
     /\ byHand.what = "cancel" => byHand.row # 0

RowsInv ==
  /\ payer \in [Payments -> Users \cup {Nobody}]
  /\ subs \in [Users -> Seq(SubRow)]
  /\ grant \in [Grants -> GrantRow]
  /\ \A g \in Grants : ReadRowIsThere(g) /\ PayerIsKnown(g)
  /\ HandIsThere

AfterPayment == {"known", "settle", "claim", "redeem", "mark"}

SettleInv ==
  /\ event \in [Payments -> {"none", "pending", "processed", "failed"}]
  /\ \A g \in Grants : grant[g].pc \in AfterPayment => g[2] \in paid
  /\ SettledIsRecorded

(* The slots that were claimed cover those redeemed and those on the way.  *)
Redeeming == {g \in Grants : grant[g].pc = "redeem"}

SlotsInv ==
  /\ claimed \in [Campaigns -> Nat]
  /\ redeemed \in [Campaigns -> SUBSET Users]
  /\ IsFiniteSet(Redeeming) /\ \A c \in Campaigns : IsFiniteSet(redeemed[c])
  /\ \A c \in Campaigns : claimed[c] <= SlotLimit
  /\ Cardinality(redeemed["trial"]) <= claimed["trial"]
  /\ Cardinality(redeemed["discount"]) + Cardinality(Redeeming) <= claimed["discount"]

(* No payer, no row, no slot.                                              *)
LEMMA BillingStart == BillingInit => RowsInv /\ SettleInv /\ SlotsInv
<1> SUFFICES ASSUME BillingInit
             PROVE  RowsInv /\ SettleInv /\ SlotsInv
  OBVIOUS
<1>1. NoGrant \in GrantRow /\ NoGrant.pc = "idle"
  BY DEF NoGrant, GrantRow
<1>2. grant \in [Grants -> GrantRow] /\ \A g \in Grants : grant[g].pc = "idle"
  BY <1>1 DEF BillingInit
<1>3. RowsInv
  <2>1. <<>> \in Seq(SubRow)
    OBVIOUS
  <2> QED
    BY <1>2, <2>1 DEF BillingInit, RowsInv, ReadRowIsThere, PayerIsKnown, HandIsThere
<1>4. SettleInv
  BY <1>2 DEF BillingInit, SettleInv, AfterPayment, SettledIsRecorded
<1>5. SlotsInv
  <2>1. Redeeming = {}
    BY <1>2 DEF Redeeming
  <2>2. claimed \in [Campaigns -> Nat] /\ redeemed \in [Campaigns -> SUBSET Users]
        /\ \A c \in Campaigns : claimed[c] = 0 /\ redeemed[c] = {}
    BY DEF BillingInit
  <2> QED
    BY <2>1, <2>2, FS_EmptySet, BillingAssumption DEF SlotsInv, Campaigns
<1> QED
  BY <1>3, <1>4, <1>5

-----------------------------------------------------------------------------
(***************************************************************************)
(* One request goes on.                                                    *)
(***************************************************************************)
Moves(g, now) ==
  /\ grant' \in [Grants -> GrantRow] /\ grant'[g] = now
  /\ \A h \in Grants \ {g} : grant'[h] = grant[h]

(* One request goes on ...                                                 *)
LEMMA GoesMoves ==
  ASSUME grant \in [Grants -> GrantRow], NEW g \in Grants,
         NEW pc \in {"begin", "read", "write", "known", "settle", "claim", "redeem", "mark", "fail"},
         Goes(g, pc)
  PROVE  Moves(g, [grant[g] EXCEPT !.pc = pc]) /\ grant'[g].pc = pc
  BY DEF Goes, Moves, GrantRow

(* ... or ends.                                                            *)
LEMMA EndMoves ==
  ASSUME grant \in [Grants -> GrantRow], NEW g \in Grants,
         grant' = [grant EXCEPT ![g] = NoGrant]
  PROVE  Moves(g, NoGrant) /\ grant'[g].pc = "idle"
  BY DEF NoGrant, Moves, GrantRow

(***************************************************************************)
(* The rows of the users grow: what is put in the place of one is a row.   *)
(***************************************************************************)
RowsGrow ==
  /\ subs' \in [Users -> Seq(SubRow)]
  /\ \A u \in Users : Len(subs[u]) <= Len(subs'[u])

(* A new row.                                                              *)
LEMMA CreateGrows ==
  ASSUME subs \in [Users -> Seq(SubRow)], NEW u \in Users, NEW left \in Nat, Create(u, left)
  PROVE  /\ RowsGrow
         /\ \E i \in DOMAIN subs'[u] : subs'[u][i] = Live(left)
<1>1. Live(left) \in SubRow
  BY DEF Live, SubRow
<1>2. subs' = [subs EXCEPT ![u] = Append(subs[u], Live(left))]
  BY DEF Create
<1>3. subs'[u] = Append(subs[u], Live(left)) /\ \A v \in Users \ {u} : subs'[v] = subs[v]
  BY <1>2
<1>4. subs[u] \in Seq(SubRow) /\ Len(subs[u]) \in Nat
  OBVIOUS
<1>5. /\ subs'[u] \in Seq(SubRow) /\ Len(subs'[u]) = Len(subs[u]) + 1
      /\ subs'[u][Len(subs[u]) + 1] = Live(left)
      /\ DOMAIN subs'[u] = 1..Len(subs[u]) + 1
  BY <1>1, <1>3, <1>4
<1>6. subs' \in [Users -> Seq(SubRow)]
  BY <1>2, <1>3, <1>5
<1>7. ASSUME NEW v \in Users PROVE Len(subs[v]) <= Len(subs'[v])
  <2>1. Len(subs[v]) \in Nat
    OBVIOUS
  <2> QED
    BY <1>3, <1>4, <1>5, <2>1
<1>8. \E i \in DOMAIN subs'[u] : subs'[u][i] = Live(left)
  BY <1>4, <1>5
<1> QED
  BY <1>6, <1>7, <1>8 DEF RowsGrow

(* A row that is written anew.                                             *)
LEMMA PutGrows ==
  ASSUME subs \in [Users -> Seq(SubRow)], NEW u \in Users, NEW row \in 1..Len(subs[u]),
         NEW sub \in SubRow, Put(u, row, sub)
  PROVE  RowsGrow /\ row \in DOMAIN subs'[u] /\ subs'[u][row] = sub
<1>1. subs[u] \in Seq(SubRow) /\ Len(subs[u]) \in Nat
  OBVIOUS
<1>2. subs' = [subs EXCEPT ![u] = [subs[u] EXCEPT ![row] = sub]]
  BY DEF Put
<1>3. /\ subs'[u] = [subs[u] EXCEPT ![row] = sub]
      /\ \A v \in Users \ {u} : subs'[v] = subs[v]
  BY <1>2
<1>4. /\ subs'[u] \in Seq(SubRow) /\ Len(subs'[u]) = Len(subs[u])
      /\ row \in DOMAIN subs'[u] /\ subs'[u][row] = sub
  BY <1>1, <1>3
<1>5. subs' \in [Users -> Seq(SubRow)]
  BY <1>2, <1>3, <1>4
<1>6. ASSUME NEW v \in Users PROVE Len(subs[v]) <= Len(subs'[v])
  <2>1. Len(subs[v]) \in Nat
    OBVIOUS
  <2> QED
    BY <1>3, <1>4, <2>1
<1> QED
  BY <1>4, <1>5, <1>6 DEF RowsGrow

(* An extension does either.                                               *)
LEMMA ExtendGrows ==
  ASSUME subs \in [Users -> Seq(SubRow)], NEW u \in Users, NEW row \in 0..Len(subs[u]),
         NEW left \in Nat, Extend(u, row, left)
  PROVE  /\ RowsGrow
         /\ \E i \in DOMAIN subs'[u] : subs'[u][i] = Live(left + 1)
<1>1. left + 1 \in Nat /\ Live(left + 1) \in SubRow
  BY DEF Live, SubRow
<1>2. CASE row = 0
  BY <1>1, <1>2, CreateGrows DEF Extend
<1>3. CASE row # 0
  <2>1. row \in 1..Len(subs[u])
    BY <1>3
  <2> QED
    BY <1>1, <1>3, <2>1, PutGrows DEF Extend
<1> QED
  BY <1>2, <1>3

(* The days of every row pass, or those that have ended are noticed.       *)
LEMMA PassingGrows ==
  ASSUME subs \in [Users -> Seq(SubRow)], Elapse \/ ExpireElapsed
  PROVE  RowsGrow
<1>1. subs' = [u \in Users |-> subs'[u]]
  BY DEF Elapse, ExpireElapsed
<1>2. ASSUME NEW u \in Users
      PROVE  subs'[u] \in Seq(SubRow) /\ Len(subs'[u]) = Len(subs[u])
  <2>1. subs[u] \in Seq(SubRow) /\ DOMAIN subs[u] = 1..Len(subs[u]) /\ Len(subs[u]) \in Nat
    OBVIOUS
  <2>2. DOMAIN subs'[u] = 1..Len(subs[u]) /\ subs'[u] = [i \in 1..Len(subs[u]) |-> subs'[u][i]]
    BY <2>1 DEF Elapse, ExpireElapsed
  <2>3. ASSUME NEW i \in 1..Len(subs[u]) PROVE subs'[u][i] \in SubRow
    <3>1. subs[u][i] \in SubRow
      BY <2>1
    <3>2. CASE Elapse
      <4>1. subs'[u][i] = [subs[u][i] EXCEPT !.left = IF @ = 0 THEN 0 ELSE @ - 1]
        BY <2>1, <3>2 DEF Elapse
      <4> QED
        BY <3>1, <4>1 DEF SubRow
    <3>3. CASE ExpireElapsed
      <4>1. subs'[u][i] = [subs[u][i] EXCEPT !.live = @ /\ subs[u][i].left > 0]
        BY <2>1, <3>3 DEF ExpireElapsed
      <4> QED
        BY <3>1, <4>1 DEF SubRow
    <3> QED
      BY <3>2, <3>3
  <2>4. subs'[u] \in [1..Len(subs[u]) -> SubRow]
    BY <2>2, <2>3
  <2>5. subs'[u] \in Seq(SubRow)
    BY <2>1, <2>4, SeqDef
  <2> QED
    BY <2>1, <2>2, <2>5
<1>3. subs' \in [Users -> Seq(SubRow)]
  BY <1>1, <1>2
<1>4. \A u \in Users : Len(subs[u]) \in Nat
  OBVIOUS
<1> QED
  BY <1>2, <1>3, <1>4 DEF RowsGrow

(* What getLiveSubscription finds is a row of the user.                    *)
LEMMA LiveRowIsThere ==
  ASSUME subs \in [Users -> Seq(SubRow)], NEW u \in Users
  PROVE  LiveRow(u) \in 0..Len(subs[u]) /\ LeftIn(u, LiveRow(u)) \in Nat
<1>1. subs[u] \in Seq(SubRow) /\ DOMAIN subs[u] = 1..Len(subs[u]) /\ Len(subs[u]) \in Nat
  OBVIOUS
<1>2. LiveRow(u) = 0 \/ LiveRow(u) \in LiveRows(u)
  BY DEF LiveRow
<1>3. LiveRows(u) \subseteq 1..Len(subs[u])
  BY <1>1 DEF LiveRows
<1>4. LiveRow(u) \in 0..Len(subs[u])
  BY <1>1, <1>2, <1>3
<1>5. LeftIn(u, LiveRow(u)) \in Nat
  <2> DEFINE row == LiveRow(u)
  <2>1. CASE row = 0
    BY <2>1 DEF LeftIn
  <2>2. CASE row # 0
    <3>1. row \in 1..Len(subs[u])
      BY <1>1, <1>4, <2>2
    <3>2. subs[u][row] \in SubRow
      BY <1>1, <3>1
    <3> QED
      BY <2>2, <3>2 DEF LeftIn, SubRow
  <2> QED
    BY <2>1, <2>2
<1> QED
  BY <1>4, <1>5

-----------------------------------------------------------------------------
(* Rows and who they are of.                                               *)

(* While rows only grow, what requests have read stays there.              *)
LEMMA RowsStayKnown ==
  ASSUME RowsInv, RowsGrow, payer' = payer,
         byHand' = byHand \/ byHand' = NoHand,
         \/ grant' = grant
         \/ \E g \in Grants : /\ Moves(g, grant'[g])
                              /\ grant'[g].pc # "write" \/ ReadRowIsThere(g)'
                              /\ payer[g[2]] # Nobody \/ grant'[g].pc = "idle"
  PROVE  RowsInv'
<1>1. grant' \in [Grants -> GrantRow]
  BY DEF RowsInv, Moves
<1>2. ASSUME NEW h \in Grants, grant'[h] = grant[h] PROVE ReadRowIsThere(h)' /\ PayerIsKnown(h)'
  <2>1. ReadRowIsThere(h) /\ PayerIsKnown(h)
    BY DEF RowsInv
  <2>2. PayerIsKnown(h)'
    BY <1>2, <2>1 DEF PayerIsKnown
  <2>3. CASE grant[h].pc # "write"
    BY <1>2, <2>2, <2>3 DEF ReadRowIsThere
  <2>4. CASE grant[h].pc = "write"
    <3> DEFINE u == payer[h[2]]
    <3>1. u \in Users /\ grant[h].row \in 0..Len(subs[u])
      BY <2>1, <2>4 DEF ReadRowIsThere
    <3>2. Len(subs[u]) <= Len(subs'[u]) /\ subs[u] \in Seq(SubRow) /\ subs'[u] \in Seq(SubRow)
      BY <3>1 DEF RowsGrow, RowsInv
    <3>3. grant[h].row \in 0..Len(subs'[u])
      <4>1. Len(subs[u]) \in Nat /\ Len(subs'[u]) \in Nat
        BY <3>2
      <4> HIDE DEF u
      <4> QED
        BY <3>1, <3>2, <4>1
    <3> QED
      BY <1>2, <2>2, <3>1, <3>3 DEF ReadRowIsThere
  <2> QED
    BY <2>3, <2>4
<1>3. ASSUME NEW h \in Grants PROVE ReadRowIsThere(h)' /\ PayerIsKnown(h)'
  <2>1. CASE grant'[h] = grant[h]
    BY <1>2, <2>1
  <2>2. CASE grant'[h] # grant[h]
    <3>1. /\ grant'[h].pc # "write" \/ ReadRowIsThere(h)'
          /\ payer[h[2]] # Nobody \/ grant'[h].pc = "idle"
      BY <2>2 DEF Moves
    <3> QED
      BY <3>1 DEF ReadRowIsThere, PayerIsKnown
  <2> QED
    BY <2>1, <2>2
<1>4. HandIsThere'
  <2>1. CASE byHand' = NoHand
    BY <2>1 DEF HandIsThere
  <2>2. CASE byHand' = byHand /\ byHand # NoHand
    <3> DEFINE u == byHand.user
    <3>1. /\ u \in Users /\ byHand.left \in Nat /\ byHand.row \in 0..Len(subs[u])
          /\ byHand.what = "cancel" => byHand.row # 0
      BY <2>2 DEF RowsInv, HandIsThere
    <3>2. Len(subs[u]) <= Len(subs'[u]) /\ subs[u] \in Seq(SubRow) /\ subs'[u] \in Seq(SubRow)
      BY <3>1 DEF RowsGrow, RowsInv
    <3>3. byHand.row \in 0..Len(subs'[u])
      <4>1. Len(subs[u]) \in Nat /\ Len(subs'[u]) \in Nat
        BY <3>2
      <4> HIDE DEF u
      <4> QED
        BY <3>1, <3>2, <4>1
    <3> QED
      BY <2>2, <3>1, <3>3 DEF HandIsThere
  <2> QED
    BY <2>1, <2>2
<1> QED
  BY <1>1, <1>3, <1>4 DEF RowsInv, RowsGrow

(* Rows that nobody touches grow, too.                                     *)
LEMMA SameRowsGrow ==
  ASSUME RowsInv, subs' = subs
  PROVE  RowsGrow
<1>1. ASSUME NEW u \in Users PROVE Len(subs[u]) <= Len(subs'[u])
  <2>1. subs[u] \in Seq(SubRow)
    BY DEF RowsInv
  <2>2. Len(subs[u]) \in Nat
    BY <2>1
  <2> QED
    BY <2>2
<1> QED
  BY <1>1 DEF RowsInv, RowsGrow

(***************************************************************************)
(* The one write of a grant: the payer's row that was read, or a new one.  *)
(***************************************************************************)
LEMMA GrantIsWritten ==
  ASSUME RowsInv, NEW g \in Grants, grant[g].pc = "write",
         Extend(payer[g[2]], grant[g].row, grant[g].left)
  PROVE  /\ RowsGrow
         /\ \E i \in DOMAIN subs'[payer[g[2]]] : /\ subs'[payer[g[2]]][i].live
                                                 /\ subs'[payer[g[2]]][i].left > 0
<1> DEFINE u == payer[g[2]]
<1>1. /\ subs \in [Users -> Seq(SubRow)] /\ u \in Users /\ grant[g].row \in 0..Len(subs[u])
      /\ grant[g].left \in Nat
  BY DEF RowsInv, ReadRowIsThere, GrantRow
<1>2. RowsGrow /\ \E i \in DOMAIN subs'[u] : subs'[u][i] = Live(grant[g].left + 1)
  <2> HIDE DEF u
  <2>1. Extend(u, grant[g].row, grant[g].left)
    BY DEF u
  <2> QED
    BY <1>1, <2>1, ExtendGrows
<1>3. Live(grant[g].left + 1).live /\ Live(grant[g].left + 1).left > 0
  BY <1>1 DEF Live
<1> QED
  BY <1>2, <1>3

(* The steps of a request that grants.                                     *)
LEMMA RequestsKeepRows ==
  ASSUME RowsInv, NEW g \in Grants, GrantStep(g)
  PROVE  RowsInv'
<1>1. /\ grant \in [Grants -> GrantRow] /\ PayerIsKnown(g) /\ ReadRowIsThere(g)
      /\ subs \in [Users -> Seq(SubRow)] /\ payer \in [Payments -> Users \cup {Nobody}]
      /\ g[2] \in Payments
  BY DEF RowsInv, Grants
<1>2. grant[g].pc # "idle" => payer[g[2]] # Nobody
  BY <1>1 DEF PayerIsKnown
<1>3. ASSUME subs' = subs, payer' = payer, byHand' = byHand, Moves(g, grant'[g]),
             grant'[g].pc # "write", grant[g].pc # "idle"
      PROVE  RowsInv'
  BY <1>2, <1>3, SameRowsGrow, RowsStayKnown
<1>4. CASE LookForPayment(g)
  <2>1. Goes(g, "known") \/ Goes(g, "read")
    BY <1>4 DEF LookForPayment
  <2>2. Moves(g, grant'[g]) /\ grant'[g].pc # "write"
    BY <1>1, <2>1, GoesMoves DEF Moves
  <2> QED
    BY <1>3, <1>4, <2>2 DEF LookForPayment
<1>5. CASE ReadLive(g)
  <2> DEFINE u == payer[g[2]]
             now == [pc |-> "write", row |-> LiveRow(u), left |-> LeftIn(u, LiveRow(u))]
  <2>1. u \in Users
    BY <1>1, <1>2, <1>5 DEF ReadLive
  <2>2. LiveRow(u) \in 0..Len(subs[u]) /\ LeftIn(u, LiveRow(u)) \in Nat
    BY <1>1, <2>1, LiveRowIsThere
  <2>3. LiveRow(u) \in Nat /\ now \in GrantRow
    <3>1. subs[u] \in Seq(SubRow)
      BY <1>1, <2>1
    <3>2. Len(subs[u]) \in Nat
      BY <3>1
    <3> QED
      BY <2>2, <3>2 DEF GrantRow
  <2>4. grant' = [grant EXCEPT ![g] = now] /\ UNCHANGED <<subs, payer, byHand>>
    BY <1>5 DEF ReadLive
  <2>5. Moves(g, grant'[g]) /\ grant'[g] = now
    BY <1>1, <2>3, <2>4 DEF Moves
  <2>6. ReadRowIsThere(g)' /\ payer[g[2]] # Nobody
    BY <1>2, <1>5, <2>1, <2>2, <2>4, <2>5 DEF ReadRowIsThere, ReadLive
  <2> QED
    BY <2>4, <2>5, <2>6, SameRowsGrow, RowsStayKnown
<1>6. CASE WriteGrant(g)
  <2>1. CASE Goes(g, "fail") /\ subs' = subs
    <3>1. Moves(g, grant'[g]) /\ grant'[g].pc # "write"
      BY <1>1, <2>1, GoesMoves DEF Moves
    <3> QED
      BY <1>3, <1>6, <2>1, <3>1 DEF WriteGrant
  <2>2. CASE Goes(g, "settle") /\ Extend(payer[g[2]], grant[g].row, grant[g].left)
    <3>1. Moves(g, grant'[g]) /\ grant'[g].pc = "settle"
      BY <1>1, <2>2, GoesMoves DEF Moves
    <3>2. RowsGrow
      BY <1>6, <2>2, GrantIsWritten DEF WriteGrant
    <3> QED
      BY <1>2, <1>6, <3>1, <3>2, RowsStayKnown DEF WriteGrant
  <2> QED
    BY <1>6, <2>1, <2>2 DEF WriteGrant
<1>7. CASE SettleAttempt(g)
  <2>1. Goes(g, "mark") \/ Goes(g, "claim") \/ grant' = [grant EXCEPT ![g] = NoGrant]
    BY <1>7 DEF SettleAttempt
  <2>2. Moves(g, grant'[g]) /\ grant'[g].pc # "write"
    BY <1>1, <2>1, GoesMoves, EndMoves DEF Moves
  <2> QED
    BY <1>3, <1>7, <2>2 DEF SettleAttempt, Settles
<1>8. CASE ClaimSlot(g) \/ Redeem(g) \/ MarkEvent(g) \/ FailRequest(g)
  <2>1. Goes(g, "redeem") \/ grant' = [grant EXCEPT ![g] = NoGrant]
    BY <1>8 DEF ClaimSlot, Redeem, MarkEvent, FailRequest
  <2>2. Moves(g, grant'[g]) /\ grant'[g].pc # "write"
    BY <1>1, <2>1, GoesMoves, EndMoves DEF Moves
  <2> QED
    BY <1>3, <1>8, <2>2 DEF ClaimSlot, Redeem, MarkEvent, FailRequest
<1> QED
  BY <1>4, <1>5, <1>6, <1>7, <1>8 DEF GrantStep

(* Every step keeps the rows and who they are of.                          *)
LEMMA RowsStep ==
  ASSUME RowsInv, [BillingNext]_billingVars
  PROVE  RowsInv'
<1>1. /\ grant \in [Grants -> GrantRow] /\ subs \in [Users -> Seq(SubRow)]
      /\ payer \in [Payments -> Users \cup {Nobody}]
  BY DEF RowsInv
<1>2. ASSUME NEW p \in Payments, Verify(p) \/ Webhook(p) PROVE RowsInv'
  <2>1. PICK g \in Grants : Goes(g, "begin") /\ g[2] = p
    BY <1>2 DEF Verify, Webhook, Grants, Sources
  <2>2. Moves(g, grant'[g]) /\ grant'[g].pc = "begin"
    BY <1>1, <2>1, GoesMoves DEF Moves
  <2>3. payer[g[2]] # Nobody /\ UNCHANGED <<subs, payer, byHand>>
    BY <1>2, <2>1 DEF Verify, Webhook
  <2> QED
    BY <2>2, <2>3, SameRowsGrow, RowsStayKnown
<1>3. ASSUME NEW p \in Payments, NEW u \in Users, CreateCheckout(p, u) PROVE RowsInv'
  <2>1. /\ payer[p] = Nobody /\ payer' = [payer EXCEPT ![p] = u]
        /\ UNCHANGED <<subs, grant, byHand>>
    BY <1>3 DEF CreateCheckout
  <2>2. ASSUME NEW g \in Grants PROVE ReadRowIsThere(g)' /\ PayerIsKnown(g)'
    <3>1. ReadRowIsThere(g) /\ PayerIsKnown(g) /\ g[2] \in Payments
      BY DEF RowsInv, Grants
    <3>2. CASE grant[g].pc = "idle"
      BY <2>1, <3>2 DEF ReadRowIsThere, PayerIsKnown
    <3>3. CASE grant[g].pc # "idle"
      <4>1. payer'[g[2]] = payer[g[2]]
        BY <1>1, <2>1, <3>1, <3>3 DEF PayerIsKnown
      <4> QED
        BY <2>1, <3>1, <4>1 DEF ReadRowIsThere, PayerIsKnown
    <3> QED
      BY <3>2, <3>3
  <2>3. HandIsThere'
    BY <2>1 DEF RowsInv, HandIsThere
  <2> QED
    BY <1>1, <2>1, <2>2, <2>3 DEF RowsInv
<1>4. CASE CrashRequests
  <2>1. grant' = [g \in Grants |-> NoGrant] /\ UNCHANGED <<subs, payer, byHand>>
    BY <1>4 DEF CrashRequests
  <2>2. grant' \in [Grants -> GrantRow] /\ \A g \in Grants : grant'[g].pc = "idle"
    BY <2>1 DEF NoGrant, GrantRow
  <2>3. HandIsThere'
    BY <2>1 DEF RowsInv, HandIsThere
  <2> QED
    BY <1>1, <2>1, <2>2, <2>3 DEF RowsInv, ReadRowIsThere, PayerIsKnown
<1>5. ASSUME NEW u \in Users, ClaimTrial(u) \/ AutoTrial(u) PROVE RowsInv'
  <2>1. Create(u, 1) /\ UNCHANGED <<payer, grant, byHand>>
    BY <1>5 DEF ClaimTrial, AutoTrial
  <2> QED
    BY <1>1, <2>1, CreateGrows, RowsStayKnown
<1>6. ASSUME NEW u \in Users, NEW what \in {"grant", "cancel"}, StartByHand(what, u)
      PROVE  RowsInv'
  <2>1. /\ byHand' = [what |-> what, user |-> u, row |-> LiveRow(u), left |-> LeftIn(u, LiveRow(u))]
        /\ what = "cancel" => LiveRow(u) # 0
        /\ UNCHANGED <<payer, subs, grant>>
    BY <1>6 DEF StartByHand
  <2>2. HandIsThere'
    BY <1>1, <2>1, LiveRowIsThere DEF HandIsThere
  <2>3. \A g \in Grants : ReadRowIsThere(g)' /\ PayerIsKnown(g)'
    BY <2>1 DEF RowsInv, ReadRowIsThere, PayerIsKnown
  <2> QED
    BY <1>1, <2>1, <2>2, <2>3 DEF RowsInv
<1>7. CASE FinishByHand
  <2> DEFINE u == byHand.user
  <2>1. /\ u \in Users /\ byHand.left \in Nat /\ byHand.row \in 0..Len(subs[u])
        /\ byHand.what = "cancel" => byHand.row # 0
    BY <1>7 DEF RowsInv, HandIsThere, FinishByHand
  <2>2. byHand' = NoHand /\ UNCHANGED <<payer, grant>>
    BY <1>7 DEF FinishByHand
  <2>3. RowsGrow
    <3>1. CASE byHand.what = "cancel"
      <4>1. Put(u, byHand.row, [live |-> FALSE, left |-> 0])
        BY <1>7, <3>1 DEF FinishByHand, Put
      <4>2. [live |-> FALSE, left |-> 0] \in SubRow
        BY DEF SubRow
      <4>3. byHand.row \in 1..Len(subs[u])
        <5>1. subs[u] \in Seq(SubRow)
          BY <1>1, <2>1
        <5>2. Len(subs[u]) \in Nat
          BY <5>1
        <5> HIDE DEF u
        <5> QED
          BY <2>1, <3>1, <5>2
      <4> HIDE DEF u
      <4> QED
        BY <1>1, <2>1, <4>1, <4>2, <4>3, PutGrows
    <3>2. CASE byHand.what # "cancel"
      <4>1. Extend(u, byHand.row, byHand.left) \/ subs' = subs
        BY <1>7, <3>2 DEF FinishByHand
      <4> HIDE DEF u
      <4> QED
        BY <1>1, <2>1, <4>1, ExtendGrows, SameRowsGrow
    <3> QED
      BY <3>1, <3>2
  <2> QED
    BY <2>2, <2>3, RowsStayKnown
<1>8. CASE Elapse \/ ExpireElapsed
  <2>1. RowsGrow
    BY <1>1, <1>8, PassingGrows
  <2> QED
    BY <1>8, <2>1, RowsStayKnown DEF Elapse, ExpireElapsed
<1>9. CASE UNCHANGED billingVars
  BY <1>9, SameRowsGrow, RowsStayKnown DEF billingVars
<1> QED
  BY <1>2, <1>3, <1>4, <1>5, <1>6, <1>7, <1>8, <1>9, RequestsKeepRows DEF BillingNext

-----------------------------------------------------------------------------
(* What has been settled, and the slots that were claimed.                 *)

(* Nothing is settled before its payment is recorded.                      *)
LEMMA SettleStep ==
  ASSUME RowsInv, SettleInv, [BillingNext]_billingVars
  PROVE  SettleInv'
<1>1. /\ grant \in [Grants -> GrantRow] /\ \A g \in Grants : g[2] \in Payments
      /\ event \in [Payments -> {"none", "pending", "processed", "failed"}]
  BY DEF RowsInv, SettleInv, Grants
<1>2. ASSUME paid \subseteq paid', event' = event, succeeded' = succeeded,
             \A h \in Grants : \/ grant'[h].pc \notin AfterPayment
                               \/ grant'[h].pc = grant[h].pc
                               \/ h[2] \in paid'
      PROVE  SettleInv'
  BY <1>2 DEF SettleInv, SettledIsRecorded
<1>3. ASSUME NEW g \in Grants, NEW now, Moves(g, now),
             now.pc \notin AfterPayment \/ g[2] \in paid
      PROVE  \A h \in Grants : \/ grant'[h].pc \notin AfterPayment
                               \/ grant'[h].pc = grant[h].pc
                               \/ h[2] \in paid
  BY <1>3 DEF Moves
<1>4. ASSUME NEW p \in Payments, Verify(p) \/ Webhook(p) PROVE SettleInv'
  <2>1. PICK g \in Grants : Goes(g, "begin")
    BY <1>4 DEF Verify, Webhook, Grants, Sources
  <2>2. \A h \in Grants : grant'[h].pc \notin AfterPayment \/ grant'[h].pc = grant[h].pc
    BY <1>1, <2>1, GoesMoves DEF Moves, AfterPayment
  <2>3. /\ paid' = paid /\ succeeded' = succeeded
        /\ event' = event \/ event' = [event EXCEPT ![p] = "pending"]
    BY <1>4 DEF Verify, Webhook
  <2> QED
    BY <1>1, <2>2, <2>3 DEF SettleInv, SettledIsRecorded
<1>5. ASSUME NEW g \in Grants, GrantStep(g) PROVE SettleInv'
  <2>1. grant[g].pc \in AfterPayment => g[2] \in paid
    BY DEF SettleInv
  <2>2. CASE LookForPayment(g)
    <3>1. Goes(g, IF g[2] \in paid THEN "known" ELSE "read")
      BY <2>2 DEF LookForPayment
    <3>2. Moves(g, grant'[g]) /\ (grant'[g].pc \notin AfterPayment \/ g[2] \in paid)
      BY <1>1, <3>1, GoesMoves DEF Moves, AfterPayment
    <3> QED
      BY <1>2, <1>3, <2>2, <3>2 DEF LookForPayment
  <2>3. CASE ReadLive(g)
    <3>1. grant'[g].pc = "write" /\ \A h \in Grants \ {g} : grant'[h] = grant[h]
      BY <1>1, <2>3 DEF ReadLive
    <3> QED
      BY <1>2, <2>3, <3>1 DEF ReadLive, AfterPayment
  <2>4. CASE WriteGrant(g)
    <3>1. \/ Goes(g, "settle") /\ paid' = paid \cup {g[2]}
          \/ Goes(g, "fail") /\ paid' = paid
      BY <2>4 DEF WriteGrant
    <3>2. \A h \in Grants : \/ grant'[h].pc \notin AfterPayment
                            \/ grant'[h].pc = grant[h].pc
                            \/ h[2] \in paid'
      BY <1>1, <3>1, GoesMoves DEF Moves, AfterPayment
    <3> QED
      BY <1>2, <2>4, <3>1, <3>2 DEF WriteGrant
  <2>5. CASE SettleAttempt(g)
    <3>1. g[2] \in paid
      BY <2>1, <2>5 DEF SettleAttempt, Settles, AfterPayment
    <3>2. Goes(g, "mark") \/ Goes(g, "claim") \/ grant' = [grant EXCEPT ![g] = NoGrant]
      BY <2>5 DEF SettleAttempt
    <3>3. \A h \in Grants : \/ grant'[h].pc \notin AfterPayment
                            \/ grant'[h].pc = grant[h].pc
                            \/ h[2] \in paid
      BY <1>1, <3>1, <3>2, GoesMoves, EndMoves DEF Moves
    <3> QED
      BY <2>5, <3>1, <3>3 DEF SettleAttempt, SettleInv, SettledIsRecorded
  <2>6. CASE ClaimSlot(g) \/ Redeem(g)
    <3>1. g[2] \in paid
      BY <2>1, <2>6 DEF ClaimSlot, Redeem, AfterPayment
    <3>2. Goes(g, "redeem") \/ grant' = [grant EXCEPT ![g] = NoGrant]
      BY <2>6 DEF ClaimSlot, Redeem
    <3>3. \A h \in Grants : \/ grant'[h].pc \notin AfterPayment
                            \/ grant'[h].pc = grant[h].pc
                            \/ h[2] \in paid
      BY <1>1, <3>1, <3>2, GoesMoves, EndMoves DEF Moves
    <3> QED
      BY <1>2, <2>6, <3>3 DEF ClaimSlot, Redeem
  <2>7. CASE MarkEvent(g) \/ FailRequest(g)
    <3>1. /\ grant' = [grant EXCEPT ![g] = NoGrant] /\ paid' = paid /\ succeeded' = succeeded
          /\ \/ event' = [event EXCEPT ![g[2]] = "processed"] /\ g[2] \in paid
             \/ event' = [event EXCEPT ![g[2]] = IF g[1] = "webhook" THEN "failed" ELSE @]
      BY <2>1, <2>7 DEF MarkEvent, FailRequest, AfterPayment
    <3>2. \A h \in Grants : grant'[h].pc \notin AfterPayment \/ grant'[h].pc = grant[h].pc
      BY <1>1, <3>1, EndMoves DEF Moves, AfterPayment
    <3>3. /\ event' \in [Payments -> {"none", "pending", "processed", "failed"}]
          /\ \A p \in Payments : \/ event'[p] = event[p] \/ event'[p] # "processed"
                                 \/ p \in paid
      BY <1>1, <3>1
    <3> QED
      BY <3>1, <3>2, <3>3 DEF SettleInv, SettledIsRecorded
  <2> QED
    BY <1>5, <2>2, <2>3, <2>4, <2>5, <2>6, <2>7 DEF GrantStep
<1>6. CASE CrashRequests
  <2>1. \A h \in Grants : grant'[h].pc = "idle"
    BY <1>6 DEF CrashRequests, NoGrant
  <2> QED
    BY <1>2, <1>6, <2>1 DEF CrashRequests, AfterPayment
<1>7. CASE \/ \E p \in Payments, u \in Users : CreateCheckout(p, u)
           \/ \E u \in Users : \/ ClaimTrial(u) \/ AutoTrial(u)
                               \/ \E what \in {"grant", "cancel"} : StartByHand(what, u)
           \/ FinishByHand \/ Elapse \/ ExpireElapsed \/ UNCHANGED billingVars
  <2>1. UNCHANGED <<paid, succeeded, event, grant>>
    BY <1>7, Zenon DEF CreateCheckout, ClaimTrial, AutoTrial, StartByHand, FinishByHand, Elapse,
                  ExpireElapsed, billingVars
  <2> QED
    BY <1>2, <2>1
<1> QED
  BY <1>4, <1>5, <1>6, <1>7 DEF BillingNext

(* Fewer requests that redeem need no more slots.                          *)
LEMMA SameSlots ==
  ASSUME SlotsInv, claimed' = claimed, redeemed' = redeemed, Redeeming' \subseteq Redeeming
  PROVE  SlotsInv'
<1>1. IsFiniteSet(Redeeming') /\ Cardinality(Redeeming') <= Cardinality(Redeeming)
  BY FS_Subset DEF SlotsInv
<1>2. /\ Cardinality(Redeeming) \in Nat /\ Cardinality(Redeeming') \in Nat
      /\ Cardinality(redeemed["discount"]) \in Nat /\ claimed["discount"] \in Nat
  BY <1>1, FS_CardinalityType DEF SlotsInv, Campaigns
<1> QED
  BY <1>1, <1>2 DEF SlotsInv

(* Every slot that is redeemed was claimed before.                         *)
LEMMA SlotsStep ==
  ASSUME RowsInv, SlotsInv, [BillingNext]_billingVars
  PROVE  SlotsInv'
<1>1. /\ grant \in [Grants -> GrantRow] /\ claimed \in [Campaigns -> Nat]
      /\ redeemed \in [Campaigns -> SUBSET Users]
      /\ "trial" \in Campaigns /\ "discount" \in Campaigns /\ SlotLimit \in Nat
  BY BillingAssumption DEF RowsInv, SlotsInv, Campaigns
<1>2. /\ IsFiniteSet(Redeeming) /\ Cardinality(Redeeming) \in Nat
      /\ IsFiniteSet(redeemed["trial"]) /\ Cardinality(redeemed["trial"]) \in Nat
      /\ IsFiniteSet(redeemed["discount"]) /\ Cardinality(redeemed["discount"]) \in Nat
      /\ claimed["trial"] \in Nat /\ claimed["discount"] \in Nat
  BY <1>1, FS_CardinalityType DEF SlotsInv
<1>3. ASSUME NEW g \in Grants, Moves(g, grant'[g]), grant'[g].pc # "redeem"
      PROVE  Redeeming' = Redeeming \ {g}
  BY <1>3 DEF Moves, Redeeming
<1>4. ASSUME NEW p \in Payments, Verify(p) \/ Webhook(p) PROVE SlotsInv'
  <2>1. PICK g \in Grants : Goes(g, "begin")
    BY <1>4 DEF Verify, Webhook, Grants, Sources
  <2>2. Redeeming' = Redeeming \ {g}
    BY <1>1, <1>3, <2>1, GoesMoves DEF Moves
  <2>3. UNCHANGED <<claimed, redeemed>> /\ Redeeming' \subseteq Redeeming
    BY <1>4, <2>2 DEF Verify, Webhook
  <2> QED
    BY <2>3, SameSlots
<1>5. ASSUME NEW g \in Grants,
             \/ LookForPayment(g) \/ ReadLive(g) \/ WriteGrant(g) \/ SettleAttempt(g)
             \/ MarkEvent(g) \/ FailRequest(g)
      PROVE  SlotsInv'
  <2>1. \/ \E pc \in {"known", "read", "settle", "fail", "mark", "claim"} : Goes(g, pc)
        \/ grant' = [grant EXCEPT ![g] = NoGrant]
        \/ ReadLive(g)
    BY <1>5 DEF LookForPayment, WriteGrant, SettleAttempt, MarkEvent, FailRequest
  <2>2. grant'[g].pc # "redeem" /\ \A h \in Grants \ {g} : grant'[h] = grant[h]
    <3>1. CASE ReadLive(g)
      BY <1>1, <3>1 DEF ReadLive
    <3> QED
      BY <1>1, <2>1, <3>1, GoesMoves, EndMoves DEF Moves
  <2>3. UNCHANGED <<claimed, redeemed>>
    BY <1>5 DEF LookForPayment, ReadLive, WriteGrant, SettleAttempt, MarkEvent, FailRequest
  <2>4. Redeeming' \subseteq Redeeming
    BY <2>2 DEF Redeeming
  <2> QED
    BY <2>3, <2>4, SameSlots
<1>6. ASSUME NEW g \in Grants, ClaimSlot(g) PROVE SlotsInv'
  <2>1. CASE SlotFree("discount")
    <3>1. /\ claimed' = [claimed EXCEPT !["discount"] = @ + 1] /\ redeemed' = redeemed
          /\ Goes(g, "redeem") /\ grant[g].pc = "claim" /\ claimed["discount"] < SlotLimit
      BY <1>6, <2>1 DEF ClaimSlot, SlotFree
    <3>2. Redeeming' = Redeeming \cup {g} /\ g \notin Redeeming
      BY <1>1, <3>1, GoesMoves DEF Moves, Redeeming
    <3>3. IsFiniteSet(Redeeming') /\ Cardinality(Redeeming') = Cardinality(Redeeming) + 1
      BY <1>2, <3>2, FS_AddElement
    <3>4. /\ claimed' \in [Campaigns -> Nat] /\ claimed'["discount"] = claimed["discount"] + 1
          /\ claimed'["trial"] = claimed["trial"]
          /\ \A c \in Campaigns : claimed'[c] <= SlotLimit
      BY <1>1, <1>2, <3>1 DEF SlotsInv, Campaigns
    <3>5. Cardinality(redeemed["discount"]) + Cardinality(Redeeming') <= claimed'["discount"]
      BY <1>2, <3>3, <3>4 DEF SlotsInv
    <3> QED
      BY <3>1, <3>3, <3>4, <3>5 DEF SlotsInv
  <2>2. CASE ~SlotFree("discount")
    <3>1. grant' = [grant EXCEPT ![g] = NoGrant] /\ UNCHANGED <<claimed, redeemed>>
      BY <1>6, <2>2 DEF ClaimSlot
    <3>2. Redeeming' = Redeeming \ {g}
      BY <1>1, <1>3, <3>1, EndMoves DEF Moves
    <3>3. Redeeming' \subseteq Redeeming
      BY <3>2
    <3> QED
      BY <3>1, <3>3, SameSlots
  <2> QED
    BY <2>1, <2>2
<1>7. ASSUME NEW g \in Grants, Redeem(g) PROVE SlotsInv'
  <2> DEFINE u == payer[g[2]]
  <2>1. /\ grant[g].pc = "redeem" /\ grant' = [grant EXCEPT ![g] = NoGrant]
        /\ redeemed' = [redeemed EXCEPT !["discount"] = @ \cup {u}] /\ claimed' = claimed
    BY <1>7 DEF Redeem
  <2>2. u \in Users
    BY <2>1 DEF RowsInv, PayerIsKnown, Grants
  <2> HIDE DEF u
  <2>3. Redeeming' = Redeeming \ {g} /\ g \in Redeeming
    BY <1>1, <1>3, <2>1, EndMoves DEF Moves, Redeeming
  <2>4. IsFiniteSet(Redeeming') /\ Cardinality(Redeeming') = Cardinality(Redeeming) - 1
    BY <1>2, <2>3, FS_RemoveElement
  <2>5. /\ redeemed' \in [Campaigns -> SUBSET Users]
        /\ redeemed'["discount"] = redeemed["discount"] \cup {u}
        /\ redeemed'["trial"] = redeemed["trial"]
    BY <1>1, <2>1, <2>2 DEF Campaigns
  <2>6. /\ IsFiniteSet(redeemed'["discount"])
        /\ Cardinality(redeemed'["discount"]) <= Cardinality(redeemed["discount"]) + 1
        /\ Cardinality(redeemed'["discount"]) \in Nat
    <3> DEFINE before == redeemed["discount"]
               after == redeemed'["discount"]
    <3>1. IsFiniteSet(before) /\ Cardinality(before) \in Nat /\ after = before \cup {u}
      BY <1>2, <2>5
    <3> HIDE DEF before, after
    <3>2. /\ IsFiniteSet(after)
          /\ Cardinality(after) = IF u \in before THEN Cardinality(before) ELSE Cardinality(before) + 1
      BY <3>1, FS_AddElement
    <3>3. Cardinality(after) <= Cardinality(before) + 1 /\ Cardinality(after) \in Nat
      BY <3>1, <3>2
    <3> QED
      BY <3>2, <3>3 DEF before, after
  <2>7. Cardinality(Redeeming') \in Nat
    BY <2>4, FS_CardinalityType
  <2>8. Cardinality(redeemed'["discount"]) + Cardinality(Redeeming') <= claimed'["discount"]
    BY <1>2, <2>1, <2>4, <2>6, <2>7 DEF SlotsInv
  <2>9. \A c \in Campaigns : IsFiniteSet(redeemed'[c])
    BY <1>2, <2>5, <2>6 DEF Campaigns
  <2> QED
    BY <2>1, <2>4, <2>5, <2>8, <2>9 DEF SlotsInv
<1>8. ASSUME NEW u \in Users, ClaimTrial(u) PROVE SlotsInv'
  <2>1. /\ claimed["trial"] < SlotLimit /\ u \notin redeemed["trial"] /\ grant' = grant
        /\ claimed' = [claimed EXCEPT !["trial"] = @ + 1]
        /\ redeemed' = [redeemed EXCEPT !["trial"] = @ \cup {u}]
    BY <1>8 DEF ClaimTrial, SlotFree
  <2>2. /\ claimed' \in [Campaigns -> Nat] /\ claimed'["trial"] = claimed["trial"] + 1
        /\ claimed'["discount"] = claimed["discount"]
        /\ \A c \in Campaigns : claimed'[c] <= SlotLimit
    BY <1>1, <1>2, <2>1 DEF SlotsInv, Campaigns
  <2>3. /\ redeemed' \in [Campaigns -> SUBSET Users]
        /\ redeemed'["trial"] = redeemed["trial"] \cup {u}
        /\ redeemed'["discount"] = redeemed["discount"]
    BY <1>1, <2>1 DEF Campaigns
  <2>4. /\ IsFiniteSet(redeemed'["trial"])
        /\ Cardinality(redeemed'["trial"]) = Cardinality(redeemed["trial"]) + 1
    BY <1>2, <2>1, <2>3, FS_AddElement
  <2>5. Redeeming' = Redeeming
    BY <2>1 DEF Redeeming
  <2>6. \A c \in Campaigns : IsFiniteSet(redeemed'[c])
    BY <1>2, <2>3, <2>4 DEF Campaigns
  <2>7. Cardinality(redeemed'["trial"]) <= claimed'["trial"]
    BY <1>2, <2>2, <2>4 DEF SlotsInv
  <2>8. Cardinality(redeemed'["discount"]) + Cardinality(Redeeming') <= claimed'["discount"]
    BY <2>2, <2>3, <2>5 DEF SlotsInv
  <2> QED
    BY <1>2, <2>2, <2>3, <2>5, <2>6, <2>7, <2>8 DEF SlotsInv
<1>9. CASE \/ \E p \in Payments, u \in Users : CreateCheckout(p, u)
           \/ \E u \in Users : \/ AutoTrial(u)
                               \/ \E what \in {"grant", "cancel"} : StartByHand(what, u)
           \/ FinishByHand \/ Elapse \/ ExpireElapsed \/ UNCHANGED billingVars
  <2>1. UNCHANGED <<claimed, redeemed, grant>>
    BY <1>9, Zenon DEF CreateCheckout, AutoTrial, StartByHand, FinishByHand, Elapse,
                  ExpireElapsed, billingVars
  <2> QED
    BY <2>1, SameSlots DEF Redeeming
<1>10. CASE CrashRequests
  <2>1. UNCHANGED <<claimed, redeemed>> /\ \A h \in Grants : grant'[h].pc = "idle"
    BY <1>10 DEF CrashRequests, NoGrant
  <2>2. Redeeming' \subseteq Redeeming
    BY <2>1 DEF Redeeming
  <2> QED
    BY <2>1, <2>2, SameSlots
<1> QED
  BY <1>4, <1>5, <1>6, <1>7, <1>8, <1>9, <1>10 DEF BillingNext, GrantStep

(* Whatever is recorded as paid is recorded by the write of a grant.       *)
LEMMA RecordingGivesAccess ==
  ASSUME RowsInv, [BillingNext]_billingVars, NEW p \in paid' \ paid
  PROVE  \E i \in DOMAIN subs'[payer[p]] :
            subs'[payer[p]][i].live /\ subs'[payer[p]][i].left > 0
<1>1. PICK g \in Grants : WriteGrant(g)
  BY DEF BillingNext, GrantStep, billingVars, Verify, Webhook, CreateCheckout, LookForPayment,
         ReadLive, SettleAttempt, ClaimSlot, Redeem, MarkEvent, FailRequest, CrashRequests,
         ClaimTrial, AutoTrial, StartByHand, FinishByHand, Elapse, ExpireElapsed
<1>2. /\ grant[g].pc = "write" /\ Extend(payer[g[2]], grant[g].row, grant[g].left)
      /\ paid' = paid \cup {g[2]}
  BY <1>1 DEF WriteGrant
<1>3. p = g[2]
  BY <1>2
<1> QED
  BY <1>2, <1>3, GrantIsWritten

(* What is settled is recorded and no campaign is redeemed beyond its      *)
(* limit, and the commit that records a payment leaves its payer with live *)
(* access (grantAccessPeriod, setAttemptStatus, claimSlot), whoever the    *)
(* users are, in whatever order verification, webhook and administrator    *)
(* come.                                                                   *)
THEOREM BillingStaysSound == BillingSpec => BillingIsSound
<1> DEFINE Inv == RowsInv /\ SettleInv /\ SlotsInv
<1>1. BillingInit => Inv
  BY BillingStart
<1>2. Inv /\ [BillingNext]_billingVars => Inv'
  BY RowsStep, SettleStep, SlotsStep
<1>3. Inv => SettlementIsSound
  <2> SUFFICES ASSUME Inv, NEW c \in Campaigns
               PROVE  Cardinality(redeemed[c]) <= SlotLimit
    BY DEF SettlementIsSound, RedemptionsWithinLimit, SettleInv
  <2>1. /\ claimed[c] \in Nat /\ Cardinality(redeemed[c]) \in Nat /\ claimed[c] <= SlotLimit
        /\ Cardinality(Redeeming) \in Nat /\ SlotLimit \in Nat
    BY FS_CardinalityType, BillingAssumption DEF SlotsInv
  <2>2. Cardinality(redeemed[c]) <= claimed[c]
    BY <2>1 DEF SlotsInv, Campaigns
  <2> QED
    BY <2>1, <2>2
<1>4. Inv /\ [BillingNext]_billingVars
      => [\A p \in paid' \ paid :
            \E i \in DOMAIN subs'[payer[p]] :
               subs'[payer[p]][i].live /\ subs'[payer[p]][i].left > 0]_billingVars
  BY RecordingGivesAccess
<1> QED
  BY <1>1, <1>2, <1>3, <1>4, PTL DEF BillingSpec, BillingIsSound, PaymentGivesAccess

-----------------------------------------------------------------------------
(*****************************************************************************)
(* The settings of administrators: copies, pages and saves.                  *)
(*****************************************************************************)

SettingForms ==
  [pc : {"blank", "open", "saving", "limits"}, shown : [SettingKeys -> Values],
   draft : [SettingKeys -> Values], ask : [SettingKeys -> Values], left : SUBSET SettingKeys]

SettingsShape ==
  /\ setting \in [SettingKeys -> Values]
  /\ settingCopy \in [AppServers -> Copy]
  /\ lookup \in [Lookups -> [pc : {"idle", "asked", "answered"}, got : Copy]]
  /\ form \in [SettingPages -> SettingForms]
  /\ straggling \in [SettingPages -> SUBSET (QuotaKeys \X Values)]
  /\ overtaken \in [SettingPages -> SUBSET SettingKeys]

IsCurrent(copy) == copy.held => \A k \in AppKeys \ copy.missed : copy.view[k] = setting[k]

(* A copy is current where it is kept, and where it waits to be kept.      *)
AnswersAreCurrent ==
  /\ \A s \in AppServers : IsCurrent(settingCopy[s])
  /\ \A l \in Lookups : IsCurrent(lookup[l].got)

(* What the billing page's save sends of other pages' settings is what it  *)
(* loaded, in a page's state f.                                            *)
PassesOn(f) ==
  \A k \in AppKeys \ SwitchKeys : /\ f.draft[k] = f.shown[k]
                                  /\ f.pc = "saving" => f.ask[k] = f.shown[k]

(* A save writes fields of its page, and limits only from the trial page.  *)
SavesAreOwn ==
  \A p \in SettingPages : /\ form[p].left \subseteq Fields(p)
                          /\ straggling[p] # {} => IsFor(p, "trial")
                          /\ IsFor(p, "billing") => PassesOn(form[p])

SettingsInv == SettingsShape /\ AnswersAreCurrent /\ ShownIsStored /\ SavesAreOwn

(* Fields are keys; the kinds of keys do not overlap.                      *)
LEMMA FieldsAreKeys ==
  ASSUME NEW p \in SettingPages
  PROVE  /\ ReadFields(p) \subseteq Fields(p) /\ OwnFields(p) \subseteq Fields(p)
         /\ Fields(p) \subseteq SettingKeys
         /\ ~IsFor(p, "referral") => ReadFields(p) = Fields(p)
         /\ ~IsFor(p, "billing") => OwnFields(p) = Fields(p)
         /\ IsFor(p, "detection") => Fields(p) = DetectionKeys
         /\ IsFor(p, "trial") => Fields(p) = TrialFields
         /\ IsFor(p, "billing") => Fields(p) = AppKeys /\ OwnFields(p) = SwitchKeys
         /\ IsFor(p, "referral") => Fields(p) = ReferralKeys
BY SettingsAssumption DEF Fields, OwnFields, ReadFields, IsFor, TrialFields, SettingKeys, AppKeys

LEMMA SettingsStart == SettingsInit => SettingsInv
<1> SUFFICES ASSUME SettingsInit
             PROVE  SettingsInv
  OBVIOUS
<1>1. AllDefault \in [SettingKeys -> Values] /\ DefaultCopy \in [AppKeys -> Values]
  BY SettingsAssumption DEF AllDefault, DefaultCopy, Values
<1>2. NoSettings \in Copy /\ ~NoSettings.held
  BY <1>1 DEF NoSettings, Copy
<1>3. Blank \in SettingForms /\ Blank.left = {} /\ PassesOn(Blank)
  BY <1>1 DEF Blank, SettingForms, PassesOn
<1>4. setting \in [SettingKeys -> Values]
  <2>1. PICK v \in SettingValues : setting = [AllDefault EXCEPT ![TrialMode] = v]
    BY DEF SettingsInit
  <2> QED
    BY <1>1, <2>1 DEF Values
<1>5. SettingsShape
  BY <1>2, <1>3, <1>4 DEF SettingsInit, SettingsShape
<1>6. AnswersAreCurrent
  BY <1>2 DEF SettingsInit, AnswersAreCurrent, IsCurrent
<1>7. ShownIsStored
  BY FieldsAreKeys DEF SettingsInit, ShownIsStored
<1>8. SavesAreOwn
  BY <1>3 DEF SettingsInit, SavesAreOwn
<1> QED
  BY <1>5, <1>6, <1>7, <1>8 DEF SettingsInv

(***************************************************************************)
(* A page shows, types, saves or gives up: only its own state changes.     *)
(***************************************************************************)
LEMMA FormIsTurned ==
  ASSUME SettingsInv, NEW p \in SettingPages, NEW f \in SettingForms,
         UNCHANGED <<setting, settingCopy, lookup>>,
         form' = [form EXCEPT ![p] = f],
         NEW late \in SUBSET (QuotaKeys \X Values), straggling' = [straggling EXCEPT ![p] = late],
         NEW old \in SUBSET SettingKeys, overtaken' = [overtaken EXCEPT ![p] = old],
         f.left \subseteq Fields(p), late # {} => IsFor(p, "trial"),
         IsFor(p, "billing") => PassesOn(f),
         \A k \in ReadFields(p) \ old : f.shown[k] = setting[k]
  PROVE  SettingsInv'
<1>1. SettingsShape'
  BY DEF SettingsInv, SettingsShape
<1>2. AnswersAreCurrent'
  BY DEF SettingsInv, AnswersAreCurrent, IsCurrent
<1>3. \A q \in SettingPages : /\ form'[q] = IF q = p THEN f ELSE form[q]
                              /\ straggling'[q] = IF q = p THEN late ELSE straggling[q]
                              /\ overtaken'[q] = IF q = p THEN old ELSE overtaken[q]
  BY DEF SettingsInv, SettingsShape
<1>4. ShownIsStored'
  BY <1>3 DEF SettingsInv, ShownIsStored, ReadFields
<1>5. SavesAreOwn'
  BY <1>3 DEF SettingsInv, SavesAreOwn
<1> QED
  BY <1>1, <1>2, <1>4, <1>5 DEF SettingsInv

(* What the page shows stays, and what it has missed.                      *)
LEMMA FormTurns ==
  ASSUME SettingsInv, NEW p \in SettingPages, NEW f \in SettingForms,
         UNCHANGED <<setting, settingCopy, lookup, overtaken>>,
         form' = [form EXCEPT ![p] = f],
         straggling' = straggling \/
           \E late \in SUBSET (QuotaKeys \X Values) :
             (late # {} => IsFor(p, "trial")) /\ straggling' = [straggling EXCEPT ![p] = late],
         f.left \subseteq Fields(p), IsFor(p, "billing") => PassesOn(f),
         f.shown = form[p].shown
  PROVE  SettingsInv'
<1>1. PICK late \in SUBSET (QuotaKeys \X Values) :
        (late # {} => IsFor(p, "trial")) /\ straggling' = [straggling EXCEPT ![p] = late]
  <2>1. /\ straggling[p] \in SUBSET (QuotaKeys \X Values) /\ (straggling[p] # {} => IsFor(p, "trial"))
        /\ straggling = [straggling EXCEPT ![p] = straggling[p]]
    BY DEF SettingsInv, SettingsShape, SavesAreOwn
  <2> QED
    BY <2>1
<1>2. overtaken[p] \in SUBSET SettingKeys /\ overtaken' = [overtaken EXCEPT ![p] = overtaken[p]]
  BY DEF SettingsInv, SettingsShape
<1>3. \A k \in ReadFields(p) \ overtaken[p] : f.shown[k] = setting[k]
  BY DEF SettingsInv, ShownIsStored
<1>4. UNCHANGED <<setting, settingCopy, lookup>>
  OBVIOUS
<1> QED
  BY <1>1, <1>2, <1>3, <1>4, FormIsTurned

(* What a page shows after loading is what is stored.                      *)
LEMMA LoadedIsStored ==
  ASSUME SettingsInv, NEW p \in SettingPages
  PROVE  /\ Loaded(p) \in [SettingKeys -> Values]
         /\ \A k \in ReadFields(p) : Loaded(p)[k] = setting[k]
BY FieldsAreKeys, SettingsAssumption DEF SettingsInv, SettingsShape, Loaded, Values

(* A page that loads shows what is stored, and its draft is that.          *)
LEMMA ShowsLoadedKeeps ==
  ASSUME SettingsInv, NEW p \in SettingPages, ShowsLoaded(p),
         UNCHANGED <<setting, settingCopy, lookup, straggling>>
  PROVE  SettingsInv'
<1> DEFINE f == [Blank EXCEPT !.pc = "open", !.shown = Loaded(p), !.draft = Loaded(p)]
<1>1. /\ f \in SettingForms /\ f.left = {} /\ f.shown = Loaded(p) /\ f.draft = Loaded(p)
      /\ f.pc = "open"
  BY LoadedIsStored, SettingsAssumption DEF Blank, SettingForms, AllDefault, Values
<1>2. form' = [form EXCEPT ![p] = f] /\ overtaken' = [overtaken EXCEPT ![p] = {}]
  BY DEF ShowsLoaded, Shows
<1> HIDE DEF f
<1>3. /\ straggling[p] \in SUBSET (QuotaKeys \X Values)
      /\ straggling' = [straggling EXCEPT ![p] = straggling[p]]
      /\ straggling[p] # {} => IsFor(p, "trial")
  BY DEF SettingsInv, SettingsShape, SavesAreOwn
<1>4. PassesOn(f)
  BY <1>1 DEF PassesOn
<1>5. \A k \in ReadFields(p) \ {} : f.shown[k] = setting[k]
  BY <1>1, LoadedIsStored
<1> QED
  BY <1>1, <1>2, <1>3, <1>4, <1>5, FormIsTurned

(***************************************************************************)
(* The steps of a page that leave the tables alone.                        *)
(***************************************************************************)
LEMMA PageKeeps ==
  ASSUME SettingsInv, NEW p \in SettingPages,
         \/ OpenForm(p) \/ LeaveForm(p) \/ ResetDetection(p) \/ SaveSettings(p) \/ RefuseSave(p)
         \/ \E k \in SettingKeys : \E v \in Typed(k) : Type(p, k, v)
         \/ SendLimits(p) \/ ShowStored(p) \/ ReloadFails(p)
         \/ \E limit \in straggling[p] : LimitFails(p, limit)
  PROVE  SettingsInv'
<1>1. /\ form[p] \in SettingForms /\ form[p].left \subseteq Fields(p)
      /\ IsFor(p, "billing") => PassesOn(form[p])
      /\ \A k \in ReadFields(p) \ overtaken[p] : form[p].shown[k] = setting[k]
  BY DEF SettingsInv, SettingsShape, SavesAreOwn, ShownIsStored
<1>2. /\ straggling[p] \in SUBSET (QuotaKeys \X Values)
      /\ straggling = [straggling EXCEPT ![p] = straggling[p]]
      /\ straggling[p] # {} => IsFor(p, "trial")
      /\ overtaken[p] \in SUBSET SettingKeys
      /\ overtaken = [overtaken EXCEPT ![p] = overtaken[p]]
      /\ form = [form EXCEPT ![p] = form[p]]
  BY DEF SettingsInv, SettingsShape, SavesAreOwn
<1>3. CASE OpenForm(p) \/ ShowStored(p)
  BY <1>3, ShowsLoadedKeeps DEF OpenForm, ShowStored
<1>4. CASE LeaveForm(p)
  <2>1. Blank \in SettingForms /\ Blank.left = {} /\ PassesOn(Blank)
    BY SettingsAssumption DEF Blank, SettingForms, PassesOn, AllDefault, Values
  <2>2. ReadFields(p) \ SettingKeys = {}
    BY FieldsAreKeys
  <2> QED
    BY <1>2, <1>4, <2>1, <2>2, FormIsTurned DEF LeaveForm
<1>5. CASE ResetDetection(p)
  <2> DEFINE f == [form[p] EXCEPT !.draft = form[p].shown]
  <2>1. f \in SettingForms /\ f.left = form[p].left /\ f.shown = form[p].shown
    BY <1>1 DEF SettingForms
  <2>2. form' = [form EXCEPT ![p] = f] /\ ~IsFor(p, "billing")
    BY <1>5 DEF ResetDetection, IsFor
  <2>3. UNCHANGED <<setting, settingCopy, lookup, overtaken>> /\ straggling' = straggling
    BY <1>5 DEF ResetDetection
  <2> HIDE DEF f
  <2> QED
    BY <1>1, <2>1, <2>2, <2>3, FormTurns
<1>6. CASE SaveSettings(p)
  <2> DEFINE f == [form[p] EXCEPT !.pc = "saving", !.ask = form[p].draft, !.left = Sent(p)]
  <2>1. Sent(p) \subseteq Fields(p)
    BY DEF Sent
  <2>2. /\ f \in SettingForms /\ f.left = Sent(p) /\ f.shown = form[p].shown
        /\ f.draft = form[p].draft /\ f.ask = form[p].draft
    BY <1>1, <2>1, FieldsAreKeys DEF SettingForms
  <2>3. form' = [form EXCEPT ![p] = f]
    BY <1>6 DEF SaveSettings
  <2> HIDE DEF f
  <2>4. IsFor(p, "billing") => PassesOn(f)
    BY <1>1, <2>2 DEF PassesOn
  <2>5. UNCHANGED <<setting, settingCopy, lookup, overtaken>> /\ straggling' = straggling
    BY <1>6 DEF SaveSettings
  <2> QED
    BY <2>1, <2>2, <2>3, <2>4, <2>5, FormTurns
<1>7. CASE RefuseSave(p)
  <2> DEFINE f == [form[p] EXCEPT !.pc = "open", !.left = {}]
  <2>1. /\ f \in SettingForms /\ f.left = {} /\ f.shown = form[p].shown
        /\ f.draft = form[p].draft /\ f.pc = "open"
    BY <1>1 DEF SettingForms
  <2>2. form' = [form EXCEPT ![p] = f]
    BY <1>7 DEF RefuseSave
  <2> HIDE DEF f
  <2>3. IsFor(p, "billing") => PassesOn(f)
    BY <1>1, <2>1 DEF PassesOn
  <2>4. UNCHANGED <<setting, settingCopy, lookup, overtaken>> /\ straggling' = straggling
    BY <1>7 DEF RefuseSave
  <2> QED
    BY <2>1, <2>2, <2>3, <2>4, FormTurns
<1>8. CASE \E k \in SettingKeys : \E v \in Typed(k) : Type(p, k, v)
  <2>1. PICK k \in SettingKeys, v \in Values : Type(p, k, v)
    BY <1>8 DEF Typed, Values
  <2> DEFINE f == [form[p] EXCEPT !.draft[k] = v]
  <2>2. /\ f \in SettingForms /\ f.left = form[p].left /\ f.shown = form[p].shown
        /\ f.ask = form[p].ask /\ f.pc = form[p].pc
        /\ \A i \in SettingKeys : f.draft[i] = IF i = k THEN v ELSE form[p].draft[i]
    BY <1>1 DEF SettingForms
  <2>3. form' = [form EXCEPT ![p] = f]
    BY <2>1 DEF Type
  <2> HIDE DEF f
  <2>4. IsFor(p, "billing") => k \in SwitchKeys
    BY <2>1 DEF Type, Inputs, BillingInputs
  <2>5. IsFor(p, "billing") => PassesOn(f)
    BY <1>1, <2>2, <2>4 DEF PassesOn, SettingKeys
  <2>6. UNCHANGED <<setting, settingCopy, lookup, overtaken>> /\ straggling' = straggling
    BY <2>1 DEF Type
  <2> QED
    BY <1>1, <2>2, <2>3, <2>5, <2>6, FormTurns
<1>9. CASE SendLimits(p)
  <2> DEFINE f == [form[p] EXCEPT !.pc = "limits", !.left = {}]
  <2>1. f \in SettingForms /\ f.left = {} /\ f.shown = form[p].shown
    BY <1>1 DEF SettingForms
  <2>2. form' = [form EXCEPT ![p] = f] /\ IsFor(p, "trial") /\ ~IsFor(p, "billing")
    BY <1>9 DEF SendLimits, IsFor
  <2> HIDE DEF f
  <2>3. straggling[p] \cup Limits(p) \in SUBSET (QuotaKeys \X Values)
    BY <1>1, <1>2 DEF Limits, SettingForms, SettingKeys
  <2>4. straggling' = [straggling EXCEPT ![p] = straggling[p] \cup Limits(p)]
    BY <1>9 DEF SendLimits
  <2>5. UNCHANGED <<setting, settingCopy, lookup, overtaken>>
    BY <1>9 DEF SendLimits
  <2> QED
    BY <2>1, <2>2, <2>3, <2>4, <2>5, FormTurns
<1>10. CASE ReloadFails(p) \/ \E limit \in straggling[p] : LimitFails(p, limit)
  <2> DEFINE f == [form[p] EXCEPT !.pc = "open"]
  <2>1. /\ f \in SettingForms /\ f.left = form[p].left /\ f.shown = form[p].shown
        /\ f.draft = form[p].draft /\ f.pc = "open"
    BY <1>1 DEF SettingForms
  <2>2. form' = [form EXCEPT ![p] = f] \/ form' = [form EXCEPT ![p] = form[p]]
    BY <1>2, <1>10 DEF ReloadFails, LimitFails
  <2> HIDE DEF f
  <2>3. IsFor(p, "billing") => PassesOn(f)
    BY <1>1, <2>1 DEF PassesOn
  <2>4. PICK late \in SUBSET straggling[p] : straggling' = [straggling EXCEPT ![p] = late]
    BY <1>2, <1>10 DEF ReloadFails, LimitFails
  <2>5. UNCHANGED <<setting, settingCopy, lookup, overtaken>>
    BY <1>10 DEF ReloadFails, LimitFails
  <2>6. late \in SUBSET (QuotaKeys \X Values) /\ (late # {} => IsFor(p, "trial"))
    BY <1>2, <2>4
  <2>7. CASE form' = [form EXCEPT ![p] = f]
    BY <1>1, <2>1, <2>3, <2>4, <2>5, <2>6, <2>7, FormTurns
  <2>8. CASE form' = [form EXCEPT ![p] = form[p]]
    BY <1>1, <2>4, <2>5, <2>6, <2>8, FormTurns
  <2> QED
    BY <2>2, <2>7, <2>8
<1> QED
  BY <1>3, <1>4, <1>5, <1>6, <1>7, <1>8, <1>9, <1>10

(***************************************************************************)
(* The table changes at some keys: pages that show them, and copies, know. *)
(***************************************************************************)
LEMMA TablesChange ==
  ASSUME SettingsInv, SettingsShape', NEW keys \in SUBSET SettingKeys,
         \A k \in SettingKeys \ keys : setting'[k] = setting[k],
         \A p \in SettingPages :
           \/ /\ form'[p].shown = form[p].shown
              /\ overtaken[p] \cup keys \subseteq overtaken'[p]
           \/ \A k \in ReadFields(p) : form'[p].shown[k] = setting'[k]
  PROVE  ShownIsStored'
<1> SUFFICES ASSUME NEW p \in SettingPages, NEW k \in ReadFields(p) \ overtaken'[p]
             PROVE  form'[p].shown[k] = setting'[k]
  BY DEF ShownIsStored, ReadFields, Fields, TrialFields
<1>1. k \in SettingKeys
  BY FieldsAreKeys
<1> QED
  BY <1>1 DEF SettingsInv, ShownIsStored

(* A row of app_settings: the writer drops its copy, others miss the key.  *)
LEMMA StoreSettingKeeps ==
  ASSUME SettingsInv, NEW p \in SettingPages, NEW k \in AppKeys, StoreSetting(p, k)
  PROVE  SettingsInv'
<1>1. form[p] \in SettingForms /\ k \in SettingKeys
  BY DEF SettingsInv, SettingsShape, SettingKeys
<1>2. setting' = [i \in SettingKeys |-> IF i = k THEN form[p].ask[k] ELSE setting[i]]
  BY DEF StoreSetting, Written
<1>3. setting' \in [SettingKeys -> Values]
  BY <1>1, <1>2 DEF SettingForms, SettingsInv, SettingsShape
<1>4. NoSettings \in Copy /\ ~NoSettings.held
  BY SettingsAssumption DEF NoSettings, Copy, DefaultCopy, Values
<1>5. \A copy \in Copy : /\ MissedBy(copy, k) \in Copy
                         /\ MissedBy(copy, k).held = copy.held
                         /\ MissedBy(copy, k).view = copy.view
                         /\ copy.held => MissedBy(copy, k).missed = copy.missed \cup {k}
  BY DEF MissedBy, Copy
<1>6. \A s \in AppServers : /\ settingCopy[s] \in Copy
                            /\ settingCopy'[s] \in {NoSettings, MissedBy(settingCopy[s], k)}
  BY DEF StoreSetting, Invalidate, SettingsInv, SettingsShape
<1>7. \A l \in Lookups : /\ lookup[l] \in [pc : {"idle", "asked", "answered"}, got : Copy]
                         /\ lookup'[l] = [lookup[l] EXCEPT !.got = MissedBy(lookup[l].got, k)]
  BY DEF StoreSetting, Invalidate, SettingsInv, SettingsShape
<1>8. \A l \in Lookups : /\ lookup'[l] \in [pc : {"idle", "asked", "answered"}, got : Copy]
                         /\ lookup'[l].got = MissedBy(lookup[l].got, k) /\ lookup[l].got \in Copy
  <2> SUFFICES ASSUME NEW l \in Lookups
               PROVE  /\ lookup'[l] \in [pc : {"idle", "asked", "answered"}, got : Copy]
                      /\ lookup'[l].got = MissedBy(lookup[l].got, k) /\ lookup[l].got \in Copy
    OBVIOUS
  <2>1. lookup[l].got \in Copy /\ MissedBy(lookup[l].got, k) \in Copy
    BY <1>5, <1>7
  <2> HIDE DEF Copy, MissedBy
  <2> QED
    BY <1>7, <2>1
<1>9. settingCopy' \in [AppServers -> Copy]
  BY <1>4, <1>5, <1>6 DEF StoreSetting, Invalidate
<1>10. lookup' \in [Lookups -> [pc : {"idle", "asked", "answered"}, got : Copy]]
  BY <1>8 DEF StoreSetting, Invalidate
<1> DEFINE f == [form[p] EXCEPT !.left = form[p].left \ {k}]
<1>11. /\ f \in SettingForms /\ f.left \subseteq form[p].left /\ f.shown = form[p].shown
       /\ f.draft = form[p].draft /\ f.ask = form[p].ask /\ f.pc = form[p].pc
  BY <1>1 DEF SettingForms
<1>12. form' = [form EXCEPT ![p] = f]
  BY DEF StoreSetting
<1> HIDE DEF f
<1>13. overtaken' = [q \in SettingPages |-> overtaken[q] \cup {k}]
  BY DEF StoreSetting, Overtaken
<1>14. SettingsShape'
  BY <1>1, <1>3, <1>9, <1>10, <1>11, <1>12, <1>13 DEF SettingsInv, SettingsShape, StoreSetting
<1>15. \A copy \in Copy : IsCurrent(copy) =>
         (MissedBy(copy, k).held => \A i \in AppKeys \ MissedBy(copy, k).missed :
                                      MissedBy(copy, k).view[i] = setting'[i])
  BY <1>2, <1>5 DEF IsCurrent, SettingKeys
<1>16. AnswersAreCurrent'
  <2>1. \A s \in AppServers : settingCopy'[s].held =>
          \A i \in AppKeys \ settingCopy'[s].missed : settingCopy'[s].view[i] = setting'[i]
    BY <1>4, <1>6, <1>15 DEF SettingsInv, AnswersAreCurrent
  <2>2. \A l \in Lookups : lookup'[l].got.held =>
          \A i \in AppKeys \ lookup'[l].got.missed : lookup'[l].got.view[i] = setting'[i]
    BY <1>8, <1>15 DEF SettingsInv, AnswersAreCurrent
  <2> QED
    BY <2>1, <2>2 DEF AnswersAreCurrent, IsCurrent
<1>17. \A q \in SettingPages : /\ form'[q] = IF q = p THEN f ELSE form[q]
                               /\ overtaken'[q] = overtaken[q] \cup {k}
  BY <1>12, <1>13 DEF SettingsInv, SettingsShape
<1>18. ShownIsStored'
  <2>1. \A q \in SettingPages : form'[q].shown = form[q].shown
                                /\ overtaken[q] \cup {k} \subseteq overtaken'[q]
    BY <1>11, <1>17
  <2>2. \A i \in SettingKeys \ {k} : setting'[i] = setting[i]
    BY <1>2
  <2> QED
    BY <1>1, <1>14, <2>1, <2>2, TablesChange
<1>19. SavesAreOwn'
  BY <1>11, <1>17 DEF SettingsInv, SavesAreOwn, StoreSetting, PassesOn
<1> QED
  BY <1>14, <1>16, <1>18, <1>19 DEF SettingsInv

(* The row of the detection settings: nobody keeps a copy of it.           *)
LEMMA StoreDetectionKeeps ==
  ASSUME SettingsInv, NEW p \in SettingPages, StoreDetection(p)
  PROVE  SettingsInv'
<1>1. /\ form[p] \in SettingForms /\ DetectionKeys \subseteq SettingKeys
      /\ DetectionKeys \cap AppKeys = {} /\ ReadFields(p) = DetectionKeys
  BY FieldsAreKeys, SettingsAssumption DEF SettingsInv, SettingsShape, SettingKeys, StoreDetection, IsFor
<1>2. setting' = [i \in SettingKeys |-> IF i \in DetectionKeys THEN form[p].ask[i] ELSE setting[i]]
  BY DEF StoreDetection, Written
<1>3. setting' \in [SettingKeys -> Values]
  BY <1>1, <1>2 DEF SettingForms, SettingsInv, SettingsShape
<1>4. AnswersAreCurrent'
  <2>1. \A i \in AppKeys : setting'[i] = setting[i]
    BY <1>1, <1>2 DEF SettingKeys
  <2> QED
    BY <2>1 DEF SettingsInv, AnswersAreCurrent, IsCurrent, StoreDetection
<1>5. PICK f \in SettingForms, old \in SUBSET SettingKeys :
        /\ form' = [form EXCEPT ![p] = f] /\ f.left = {}
        /\ overtaken' = [q \in SettingPages |-> IF q = p THEN old ELSE overtaken[q] \cup DetectionKeys]
        /\ \/ f.shown = form[p].ask
           \/ f.shown = form[p].shown /\ old = overtaken[p] \cup DetectionKeys
  <2>1. CASE Shows(p, form[p].ask) /\
             overtaken' = [q \in SettingPages |-> IF q = p THEN {} ELSE overtaken[q] \cup DetectionKeys]
    <3> DEFINE f == [Blank EXCEPT !.pc = "open", !.shown = form[p].ask, !.draft = form[p].ask]
    <3>1. f \in SettingForms /\ f.left = {} /\ f.shown = form[p].ask
      BY <1>1, SettingsAssumption DEF Blank, SettingForms, AllDefault, Values
    <3>2. form' = [form EXCEPT ![p] = f]
      BY <2>1 DEF Shows
    <3> HIDE DEF f
    <3> QED
      BY <2>1, <3>1, <3>2
  <2>2. CASE form' = [form EXCEPT ![p].pc = "open", ![p].left = {}] /\ Overtaken(DetectionKeys)
    <3> DEFINE f == [form[p] EXCEPT !.pc = "open", !.left = {}]
    <3>1. f \in SettingForms /\ f.left = {} /\ f.shown = form[p].shown
      BY <1>1 DEF SettingForms
    <3>2. form' = [form EXCEPT ![p] = f]
      BY <2>2
    <3>3. overtaken' = [q \in SettingPages |-> IF q = p THEN overtaken[p] \cup DetectionKeys
                                                       ELSE overtaken[q] \cup DetectionKeys]
      BY <2>2 DEF Overtaken
    <3>4. overtaken[p] \cup DetectionKeys \in SUBSET SettingKeys
      BY <1>1 DEF SettingsInv, SettingsShape
    <3> HIDE DEF f
    <3> QED
      BY <3>1, <3>2, <3>3, <3>4
  <2> QED
    BY <2>1, <2>2 DEF StoreDetection
<1>6. SettingsShape'
  BY <1>1, <1>3, <1>5 DEF SettingsInv, SettingsShape, StoreDetection
<1>7. \A q \in SettingPages : form'[q] = IF q = p THEN f ELSE form[q]
  BY <1>5 DEF SettingsInv, SettingsShape
<1>8. ShownIsStored'
  <2>1. \A q \in SettingPages :
           \/ form'[q].shown = form[q].shown /\ overtaken[q] \cup DetectionKeys \subseteq overtaken'[q]
           \/ \A k \in ReadFields(q) : form'[q].shown[k] = setting'[k]
    BY <1>1, <1>2, <1>5, <1>7
  <2>2. \A i \in SettingKeys \ DetectionKeys : setting'[i] = setting[i]
    BY <1>2
  <2>3. DetectionKeys \in SUBSET SettingKeys
    BY <1>1
  <2> QED
    BY <1>6, <2>1, <2>2, <2>3, TablesChange
<1>9. SavesAreOwn'
  <2>1. ~IsFor(p, "billing")
    BY DEF StoreDetection, IsFor
  <2> QED
    BY <1>5, <1>7, <2>1 DEF SettingsInv, SavesAreOwn, StoreDetection
<1> QED
  BY <1>4, <1>6, <1>8, <1>9 DEF SettingsInv

(* A limit: nobody keeps a copy of it.                                     *)
LEMMA StoreLimitKeeps ==
  ASSUME SettingsInv, NEW p \in SettingPages, NEW limit \in straggling[p], StoreLimit(p, limit)
  PROVE  SettingsInv'
<1>1. limit \in QuotaKeys \X Values /\ QuotaKeys \subseteq SettingKeys /\ QuotaKeys \cap AppKeys = {}
  BY SettingsAssumption DEF SettingsInv, SettingsShape, SettingKeys
<1>2. setting' = [i \in SettingKeys |-> IF i = limit[1] THEN limit[2] ELSE setting[i]]
  BY DEF StoreLimit, Written
<1>3. setting' \in [SettingKeys -> Values]
  BY <1>1, <1>2 DEF SettingsInv, SettingsShape
<1>4. overtaken' = [q \in SettingPages |-> overtaken[q] \cup {limit[1]}]
  BY DEF StoreLimit, Overtaken
<1>5. straggling' = [straggling EXCEPT ![p] = straggling[p] \ {limit}]
  BY DEF StoreLimit
<1>6. SettingsShape'
  BY <1>1, <1>3, <1>4, <1>5 DEF SettingsInv, SettingsShape, StoreLimit
<1>7. AnswersAreCurrent'
  <2>1. \A i \in AppKeys : setting'[i] = setting[i]
    BY <1>1, <1>2 DEF SettingKeys
  <2> QED
    BY <2>1 DEF SettingsInv, AnswersAreCurrent, IsCurrent, StoreLimit
<1>8. ShownIsStored'
  <2>1. \A q \in SettingPages : form'[q].shown = form[q].shown
                                /\ overtaken[q] \cup {limit[1]} \subseteq overtaken'[q]
    BY <1>4 DEF StoreLimit
  <2>2. \A i \in SettingKeys \ {limit[1]} : setting'[i] = setting[i]
    BY <1>2
  <2>3. {limit[1]} \in SUBSET SettingKeys
    BY <1>1
  <2> QED
    BY <1>6, <2>1, <2>2, <2>3, TablesChange
<1>9. SavesAreOwn'
  <2>1. \A q \in SettingPages : straggling'[q] \subseteq straggling[q]
    BY <1>5 DEF SettingsInv, SettingsShape
  <2> QED
    BY <2>1 DEF SettingsInv, SavesAreOwn, StoreLimit
<1> QED
  BY <1>6, <1>7, <1>8, <1>9 DEF SettingsInv

(* Lookups read what is stored, or nothing of it, and keep what they read. *)
LEMMA LookupKeeps ==
  ASSUME SettingsInv,
         \/ \E l \in Lookups : LookUp(l) \/ ReadSettings(l) \/ ReadFails(l) \/ KeepSettings(l)
         \/ \E s \in AppServers : CopyEnds(s)
  PROVE  SettingsInv'
<1> DEFINE Fetched == [held |-> TRUE, view |-> [k \in AppKeys |-> setting[k]], missed |-> {}]
           Fails == [held |-> TRUE, view |-> DefaultCopy, missed |-> AppKeys]
<1>1. /\ NoSettings \in Copy /\ IsCurrent(NoSettings)
      /\ Fails \in Copy /\ IsCurrent(Fails)
  BY SettingsAssumption DEF NoSettings, Copy, DefaultCopy, Values, IsCurrent
<1>2. Fetched \in Copy /\ IsCurrent(Fetched)
  BY DEF SettingsInv, SettingsShape, Copy, IsCurrent, SettingKeys
<1> HIDE DEF Fetched, Fails
<1>3. UNCHANGED <<setting, form, straggling, overtaken>>
  BY DEF LookUp, ReadSettings, ReadFails, Answered, KeepSettings, CopyEnds
<1>4. \A s \in AppServers : settingCopy[s] \in Copy /\ IsCurrent(settingCopy[s])
  BY DEF SettingsInv, SettingsShape, AnswersAreCurrent
<1>5. \A l \in Lookups : lookup[l].got \in Copy /\ IsCurrent(lookup[l].got)
  BY DEF SettingsInv, SettingsShape, AnswersAreCurrent
<1>6. \/ UNCHANGED settingCopy
      \/ \E s \in AppServers, copy \in Copy : IsCurrent(copy) /\ settingCopy' = [settingCopy EXCEPT ![s] = copy]
  <2>1. \A l \in Lookups : KeepSettings(l) => settingCopy' = [settingCopy EXCEPT ![l[2]] = lookup[l].got]
                                              /\ l[2] \in AppServers
    BY DEF KeepSettings, AppServers
  <2> QED
    BY <1>1, <1>5, <2>1 DEF LookUp, ReadSettings, ReadFails, Answered, CopyEnds
<1>7. \/ UNCHANGED lookup
      \/ \E l \in Lookups, pc \in {"idle", "asked", "answered"}, copy \in Copy :
           IsCurrent(copy) /\ lookup' = [lookup EXCEPT ![l] = [pc |-> pc, got |-> copy]]
  <2>1. CASE \E l \in Lookups : LookUp(l) \/ KeepSettings(l)
    BY <1>1, <2>1 DEF LookUp, KeepSettings
  <2>2. CASE \E l \in Lookups : ReadSettings(l) \/ ReadFails(l)
    BY <1>1, <1>2, <2>2 DEF ReadSettings, ReadFails, Answered, Fetched, Fails
  <2>3. CASE \E s \in AppServers : CopyEnds(s)
    BY <2>3 DEF CopyEnds
  <2> QED
    BY <2>1, <2>2, <2>3
<1>8. \A s \in AppServers : settingCopy'[s] \in Copy /\ IsCurrent(settingCopy'[s])
  BY <1>4, <1>6 DEF SettingsInv, SettingsShape
<1>9. \A l \in Lookups : lookup'[l].got \in Copy /\ IsCurrent(lookup'[l].got)
  <2>1. CASE UNCHANGED lookup
    BY <1>5, <2>1
  <2>2. CASE \E i \in Lookups, pc \in {"idle", "asked", "answered"}, copy \in Copy :
               IsCurrent(copy) /\ lookup' = [lookup EXCEPT ![i] = [pc |-> pc, got |-> copy]]
    <3>1. PICK i \in Lookups, pc \in {"idle", "asked", "answered"}, copy \in Copy :
            IsCurrent(copy) /\ lookup' = [lookup EXCEPT ![i] = [pc |-> pc, got |-> copy]]
      BY <2>2
    <3>2. \A l \in Lookups : lookup'[l].got = IF l = i THEN copy ELSE lookup[l].got
      BY <3>1 DEF SettingsInv, SettingsShape
    <3> QED
      BY <1>5, <3>1, <3>2
  <2> QED
    BY <1>7, <2>1, <2>2
<1>10. SettingsShape'
  BY <1>3, <1>6, <1>7 DEF SettingsInv, SettingsShape
<1>11. AnswersAreCurrent'
  BY <1>3, <1>8, <1>9 DEF AnswersAreCurrent, IsCurrent
<1>12. ShownIsStored' /\ SavesAreOwn'
  BY <1>3 DEF SettingsInv, ShownIsStored, SavesAreOwn
<1> QED
  BY <1>10, <1>11, <1>12 DEF SettingsInv

LEMMA SettingsStep == SettingsInv /\ [SettingsNext]_settingVars => SettingsInv'
<1> SUFFICES ASSUME SettingsInv, [SettingsNext]_settingVars
             PROVE  SettingsInv'
  OBVIOUS
<1>1. CASE \E p \in SettingPages : PageStep(p)
  <2>1. PICK p \in SettingPages : PageStep(p)
    BY <1>1
  <2>2. CASE \E k \in AppKeys : StoreSetting(p, k)
    BY <2>2, StoreSettingKeeps
  <2>3. CASE StoreDetection(p)
    BY <2>3, StoreDetectionKeeps
  <2>4. CASE \E limit \in straggling[p] : StoreLimit(p, limit)
    BY <2>4, StoreLimitKeeps
  <2> QED
    BY <2>1, <2>2, <2>3, <2>4, PageKeeps DEF PageStep
<1>2. CASE \/ \E l \in Lookups : LookUp(l) \/ ReadSettings(l) \/ ReadFails(l) \/ KeepSettings(l)
           \/ \E s \in AppServers : CopyEnds(s)
  BY <1>2, LookupKeeps
<1>3. CASE UNCHANGED settingVars
  <2>1. \A p \in SettingPages : Fields(p)' = Fields(p) /\ ReadFields(p)' = ReadFields(p)
    BY DEF Fields, ReadFields, TrialFields, IsFor
  <2> QED
    BY <1>3 DEF settingVars, SettingsInv, SettingsShape, AnswersAreCurrent, IsCurrent, ShownIsStored,
               SavesAreOwn, PassesOn
<1> QED
  BY <1>1, <1>2, <1>3 DEF SettingsNext

(***************************************************************************)
(* What a save writes differs from what is stored: then it also differs    *)
(* from what its page shows, or the page has not seen what is stored.      *)
(***************************************************************************)
LEMMA WritesAreMeant ==
  ASSUME SettingsInv, NEW p \in SettingPages, NEW k \in Fields(p),
         setting'[k] # setting[k],
         k \in OwnFields(p) \/ setting'[k] = form[p].shown[k]
  PROVE  Meant(p, k)
<1>1. k \in ReadFields(p) \ overtaken[p] => form[p].shown[k] = setting[k]
  BY DEF SettingsInv, ShownIsStored
<1>2. k \notin ReadFields(p) => IsFor(p, "referral") /\ k \in OwnFields(p)
  BY FieldsAreKeys DEF IsFor
<1> QED
  BY <1>1, <1>2 DEF Meant

LEMMA NothingIsUndoneStep ==
  ASSUME SettingsInv, [SettingsNext]_settingVars, NEW k \in SettingKeys, setting'[k] # setting[k]
  PROVE  \E p \in SettingPages : (form[p].pc = "saving" \/ straggling[p] # {}) /\ Meant(p, k)
<1>1. CASE \E p \in SettingPages, i \in AppKeys : StoreSetting(p, i)
  <2>1. PICK p \in SettingPages, i \in AppKeys : StoreSetting(p, i)
    BY <1>1
  <2>2. setting' = [j \in SettingKeys |-> IF j = i THEN form[p].ask[i] ELSE setting[j]]
    BY <2>1 DEF StoreSetting, Written
  <2>3. i = k /\ setting'[k] = form[p].ask[k] /\ form[p].pc = "saving" /\ k \in Fields(p)
    BY <2>1, <2>2 DEF StoreSetting, SettingsInv, SavesAreOwn
  <2>4. k \notin OwnFields(p) => setting'[k] = form[p].shown[k]
    BY <2>1, <2>3, FieldsAreKeys DEF SettingsInv, SavesAreOwn, PassesOn
  <2> QED
    BY <2>3, <2>4, WritesAreMeant
<1>2. CASE \E p \in SettingPages : StoreDetection(p)
  <2>1. PICK p \in SettingPages : StoreDetection(p)
    BY <1>2
  <2>2. k \in DetectionKeys /\ form[p].pc = "saving" /\ IsFor(p, "detection")
    BY <2>1 DEF StoreDetection, Written
  <2>3. k \in Fields(p) /\ k \in OwnFields(p)
    BY <2>2, FieldsAreKeys DEF IsFor
  <2> QED
    BY <2>2, <2>3, WritesAreMeant
<1>3. CASE \E p \in SettingPages : \E limit \in straggling[p] : StoreLimit(p, limit)
  <2>1. PICK p \in SettingPages : \E limit \in straggling[p] : StoreLimit(p, limit)
    BY <1>3
  <2>2. PICK limit \in straggling[p] : StoreLimit(p, limit)
    BY <2>1
  <2>3. limit \in QuotaKeys \X Values /\ IsFor(p, "trial") /\ straggling[p] # {}
    BY <2>2 DEF SettingsInv, SettingsShape, SavesAreOwn
  <2>4. k = limit[1]
    BY <2>2 DEF StoreLimit, Written
  <2>5. k \in Fields(p) /\ k \in OwnFields(p)
    BY <2>3, <2>4, FieldsAreKeys DEF IsFor, TrialFields
  <2> QED
    BY <2>3, <2>5, WritesAreMeant
<1> QED
  <2>1. CASE \E p \in SettingPages : PageStep(p)
    BY <1>1, <1>2, <1>3, <2>1 DEF PageStep, OpenForm, LeaveForm, ResetDetection, Type, SaveSettings, RefuseSave,
       SendLimits, LimitFails, ShowStored, ReloadFails
  <2>2. CASE \/ \E l \in Lookups : LookUp(l) \/ ReadSettings(l) \/ ReadFails(l) \/ KeepSettings(l)
             \/ \E s \in AppServers : CopyEnds(s)
    BY <2>2 DEF LookUp, ReadSettings, ReadFails, Answered, KeepSettings, CopyEnds
  <2> QED
    BY <2>1, <2>2 DEF SettingsNext, settingVars

(***************************************************************************)
(* THE SETTINGS OF ADMINISTRATORS.  The copy a process keeps differs from  *)
(* the table only where others have written since, a page shows what is    *)
(* stored until somebody writes it, and a save changes only what its       *)
(* administrator typed or had not seen: for any pages, processes, keys and *)
(* values (settingsService, BillingSettingsPanel, TrialConfigPanel,        *)
(* ReferralsPanel, DetectionConfigPanel).                                  *)
(***************************************************************************)
THEOREM SettingsStaySound == SettingsSpec => SettingsAreSound
<1>1. SettingsInv => CopiesAreCurrent /\ ShownIsStored
  BY DEF SettingsInv, AnswersAreCurrent, IsCurrent, CopiesAreCurrent
<1>2. SettingsInv /\ [SettingsNext]_settingVars =>
        [\A k \in SettingKeys : setting'[k] # setting[k] =>
           \E p \in SettingPages : (form[p].pc = "saving" \/ straggling[p] # {}) /\ Meant(p, k)]_settingVars
  BY NothingIsUndoneStep
<1> QED
  BY <1>1, <1>2, SettingsStart, SettingsStep, PTL DEF SettingsSpec, SettingsAreSound, NothingIsUndone

-----------------------------------------------------------------------------
(*****************************************************************************)
(* The session: who is signed in, and who is signed out.                     *)
(*****************************************************************************)

PageRequestRow ==
  [pc : {"none", "headers", "sent", "insert", "refresh"}, me : BOOLEAN, as : People, fresh : BOOLEAN,
   retried : BOOLEAN]

(* Nothing but a refused token or a missing one is renewed for a request.  *)
RetriesAreDue ==
  \A r \in PageRequests : request[r].pc = "refresh" => request[r].as = NoIdentity \/ ~request[r].fresh

PageMirrors ==
  page.booted /\ logout.pc = "no" =>
    turns.survived \/ (page.session = login.who /\ page.token \in {login.who, "unread"})

UserIsKnownOrAsked == AsksMe \/ turns.stale \/ page.user \in {page.session, NoIdentity}

SessionInv == SessionTypeOK /\ RetriesAreDue /\ PageMirrors /\ UserIsKnownOrAsked

(* A request that is begun, goes on or ends.                               *)
LEMMA RequestTurns ==
  ASSUME NEW reqs \in [PageRequests -> PageRequestRow], NEW r \in PageRequests, NEW new \in PageRequestRow,
         \A s \in PageRequests : reqs[s].pc = "refresh" => reqs[s].as = NoIdentity \/ ~reqs[s].fresh,
         new.pc = "refresh" => new.as = NoIdentity \/ ~new.fresh,
         request' = [reqs EXCEPT ![r] = new]
  PROVE  /\ request' \in [PageRequests -> PageRequestRow] /\ RetriesAreDue'
         /\ new.pc # "none" /\ new.me => AsksMe'
         /\ \A s \in PageRequests \ {r} : reqs[s].pc # "none" /\ reqs[s].me => AsksMe'
         /\ request'[r] = new
<1>1. \A s \in PageRequests : request'[s] = IF s = r THEN new ELSE reqs[s]
  OBVIOUS
<1> QED
  BY <1>1 DEF RetriesAreDue, AsksMe

LEMMA IdleRows ==
  /\ Idle \in PageRequestRow /\ Idle.pc = "none"
  /\ \A me \in BOOLEAN : /\ NewRequest(me) \in PageRequestRow
                         /\ NewRequest(me).pc = "headers" /\ NewRequest(me).me = me
BY DEF Idle, NewRequest, PageRequestRow, People

(* refreshUser: somebody asks.                                             *)
LEMMA SomebodyAsks ==
  ASSUME NEW reqs \in [PageRequests -> PageRequestRow], RefreshUser(reqs),
         \A s \in PageRequests : reqs[s].pc = "refresh" => reqs[s].as = NoIdentity \/ ~reqs[s].fresh
  PROVE  request' \in [PageRequests -> PageRequestRow] /\ RetriesAreDue' /\ AsksMe'
<1>1. PICK r \in PageRequests : request' = [reqs EXCEPT ![r] = NewRequest(TRUE)]
  BY DEF RefreshUser
<1>2. NewRequest(TRUE) \in PageRequestRow /\ NewRequest(TRUE).pc = "headers" /\ NewRequest(TRUE).me
  BY IdleRows
<1> QED
  BY <1>1, <1>2, RequestTurns

(* An auth event, with the session that Supabase keeps by then.            *)
LEMMA EventKeeps ==
  ASSUME SessionInv, NEW who \in People, Event(who), login' \in [who : People, fresh : BOOLEAN],
         login'.who = who,
         logout' \in [pc : {"no", "signOut", "late"}, cause : {"none", "asked", "refused"}],
         UNCHANGED server,
         turns' \in [n : 0..MaxTurns, stale : BOOLEAN, survived : BOOLEAN]
  PROVE  SessionInv'
<1>1. /\ page' = SessionApplied(who)
      /\ page \in [session : People, user : People, token : Mirrored, resolved : BOOLEAN, booted : BOOLEAN]
  BY DEF Event, SessionInv, SessionTypeOK
<1>2. /\ page' \in [session : People, user : People, token : Mirrored, resolved : BOOLEAN, booted : BOOLEAN]
      /\ page'.session = who /\ page'.token = who /\ (who = NoIdentity => page'.user = NoIdentity)
  BY <1>1 DEF SessionApplied, People, Mirrored
<1>3. request \in [PageRequests -> PageRequestRow] /\ RetriesAreDue
  BY DEF SessionInv, SessionTypeOK, PageRequestRow
<1>4. /\ request' \in [PageRequests -> PageRequestRow] /\ RetriesAreDue'
      /\ who # NoIdentity => AsksMe'
  <2>1. CASE who = NoIdentity
    BY <1>3, <2>1 DEF Event, RetriesAreDue
  <2>2. CASE who # NoIdentity
    BY <1>3, <2>2, SomebodyAsks DEF Event, RetriesAreDue
  <2> QED
    BY <2>1, <2>2
<1>5. SessionTypeOK'
  BY <1>2, <1>4 DEF SessionInv, SessionTypeOK, PageRequestRow
<1> QED
  BY <1>2, <1>4, <1>5 DEF SessionInv, PageMirrors, UserIsKnownOrAsked

(* The answer to a request: what the page makes of it.                     *)
LEMMA AnswerKeeps ==
  ASSUME SessionInv, NEW r \in PageRequests, request[r].pc # "none", Ended(r),
         UNCHANGED login, server' \in [keys : BOOLEAN, of : [Identities -> Kinds]],
         NEW user \in People, NEW stale \in BOOLEAN, stale \/ user \in {page.session, NoIdentity},
         \/ /\ page' = [page EXCEPT !.user = user] /\ UNCHANGED logout
            /\ turns' = [turns EXCEPT !.stale = stale]
         \/ /\ ~request[r].me /\ UNCHANGED <<page, logout, turns>>
         \/ /\ page' = [SessionApplied(NoIdentity) EXCEPT !.user = NoIdentity]
            /\ logout' = [pc |-> "signOut", cause |-> "refused"]
            /\ turns' \in {turns, [turns EXCEPT !.stale = FALSE]}
  PROVE  SessionInv'
<1>1. /\ page \in [session : People, user : People, token : Mirrored, resolved : BOOLEAN, booted : BOOLEAN]
      /\ turns \in [n : 0..MaxTurns, stale : BOOLEAN, survived : BOOLEAN]
      /\ request \in [PageRequests -> PageRequestRow] /\ RetriesAreDue
  BY DEF SessionInv, SessionTypeOK, PageRequestRow
<1>2. request' = [request EXCEPT ![r] = Idle] /\ Idle \in PageRequestRow /\ Idle.pc = "none"
  BY IdleRows DEF Ended
<1>3. /\ request' \in [PageRequests -> PageRequestRow] /\ RetriesAreDue'
      /\ AsksMe /\ ~request[r].me => AsksMe'
  <2>1. \A s \in PageRequests : request[s].pc = "refresh" => request[s].as = NoIdentity \/ ~request[s].fresh
    BY <1>1 DEF RetriesAreDue
  <2>2. /\ request' \in [PageRequests -> PageRequestRow] /\ RetriesAreDue'
        /\ \A s \in PageRequests \ {r} : request[s].pc # "none" /\ request[s].me => AsksMe'
    BY <1>1, <1>2, <2>1, RequestTurns
  <2> QED
    BY <2>2 DEF AsksMe
<1>4. CASE /\ page' = [page EXCEPT !.user = user] /\ UNCHANGED logout
           /\ turns' = [turns EXCEPT !.stale = stale]
  <2>1. /\ page' \in [session : People, user : People, token : Mirrored, resolved : BOOLEAN, booted : BOOLEAN]
        /\ page'.user = user /\ page'.session = page.session /\ page'.token = page.token
        /\ page'.booted = page.booted
    BY <1>1, <1>4
  <2>2. /\ turns' \in [n : 0..MaxTurns, stale : BOOLEAN, survived : BOOLEAN]
        /\ turns'.survived = turns.survived /\ turns'.stale = stale
    BY <1>1, <1>4
  <2>3. SessionTypeOK'
    BY <1>3, <1>4, <2>1, <2>2 DEF SessionInv, SessionTypeOK, PageRequestRow
  <2> QED
    BY <1>3, <1>4, <2>1, <2>2, <2>3 DEF SessionInv, PageMirrors, UserIsKnownOrAsked
<1>5. CASE ~request[r].me /\ UNCHANGED <<page, logout, turns>>
  <2>1. SessionTypeOK'
    BY <1>3, <1>5 DEF SessionInv, SessionTypeOK, PageRequestRow
  <2> QED
    BY <1>3, <1>5, <2>1 DEF SessionInv, PageMirrors, UserIsKnownOrAsked
<1>6. CASE /\ page' = [SessionApplied(NoIdentity) EXCEPT !.user = NoIdentity]
           /\ logout' = [pc |-> "signOut", cause |-> "refused"]
           /\ turns' \in {turns, [turns EXCEPT !.stale = FALSE]}
  <2>1. /\ page' \in [session : People, user : People, token : Mirrored, resolved : BOOLEAN, booted : BOOLEAN]
        /\ page'.user = NoIdentity
    BY <1>1, <1>6 DEF SessionApplied, People, Mirrored
  <2>2. turns' \in [n : 0..MaxTurns, stale : BOOLEAN, survived : BOOLEAN]
    BY <1>1, <1>6
  <2>3. SessionTypeOK'
    BY <1>3, <1>6, <2>1, <2>2 DEF SessionInv, SessionTypeOK, PageRequestRow
  <2> QED
    BY <1>3, <1>6, <2>1, <2>3 DEF SessionInv, PageMirrors, UserIsKnownOrAsked
<1> QED
  BY <1>4, <1>5, <1>6

(* Whatever refuses a request, it is an answer.                            *)
LEMMA RefuseKeeps ==
  ASSUME SessionInv, NEW r \in PageRequests, request[r].pc # "none", NEW code, Refuse(r, code),
         UNCHANGED server
  PROVE  SessionInv'
<1>1. /\ UNCHANGED login /\ Ended(r) /\ server' \in [keys : BOOLEAN, of : [Identities -> Kinds]]
      /\ turns' = [turns EXCEPT !.stale = turns.stale /\ ~request[r].me]
      /\ turns \in [n : 0..MaxTurns, stale : BOOLEAN, survived : BOOLEAN]
      /\ request[r].me \in BOOLEAN /\ NoIdentity \in People
  BY DEF Refuse, SessionInv, SessionTypeOK, People
<1>2. turns' = IF request[r].me THEN [turns EXCEPT !.stale = FALSE] ELSE turns
  BY <1>1
<1>3. CASE LogoutBegins("refused")
  <2>1. /\ page' = [SessionApplied(NoIdentity) EXCEPT !.user = NoIdentity]
        /\ logout' = [pc |-> "signOut", cause |-> "refused"]
        /\ turns' \in {turns, [turns EXCEPT !.stale = FALSE]}
    BY <1>2, <1>3 DEF LogoutBegins
  <2> QED
    BY <1>1, <2>1, AnswerKeeps
<1>4. CASE request[r].me /\ UNCHANGED logout /\ page' = [page EXCEPT !.user = NoIdentity]
  <2>1. turns' = [turns EXCEPT !.stale = FALSE] /\ FALSE \in BOOLEAN
    BY <1>2, <1>4
  <2> QED
    BY <1>1, <1>4, <2>1, AnswerKeeps
<1>5. CASE ~request[r].me /\ UNCHANGED logout /\ page' = page
  <2>1. ~request[r].me /\ UNCHANGED <<page, logout, turns>>
    BY <1>2, <1>5
  <2> QED
    BY <1>1, <2>1, AnswerKeeps
<1> QED
  BY <1>3, <1>4, <1>5 DEF Refuse

LEMMA WelcomeKeeps ==
  ASSUME SessionInv, NEW r \in PageRequests, request[r].pc # "none", Welcome(r),
         server' \in [keys : BOOLEAN, of : [Identities -> Kinds]]
  PROVE  SessionInv'
<1>1. /\ UNCHANGED <<login, logout>> /\ Ended(r)
      /\ turns \in [n : 0..MaxTurns, stale : BOOLEAN, survived : BOOLEAN]
      /\ request[r].me \in BOOLEAN /\ request[r].as \in People
  BY DEF Welcome, SessionInv, SessionTypeOK
<1>2. CASE request[r].me
  <2>1. page' = [page EXCEPT !.user = request[r].as]
    BY <1>2 DEF Welcome
  <2>2. /\ turns' = [turns EXCEPT !.stale = request[r].as # page.session]
        /\ (request[r].as # page.session) \in BOOLEAN
    BY <1>2 DEF Welcome
  <2> QED
    BY <1>1, <2>1, <2>2, AnswerKeeps
<1>3. CASE ~request[r].me
  <2>1. UNCHANGED <<page, logout, turns>>
    BY <1>3 DEF Welcome
  <2>2. TRUE \in BOOLEAN
    OBVIOUS
  <2> QED
    BY <1>1, <1>3, <2>1, <2>2, AnswerKeeps
<1> QED
  BY <1>1, <1>2, <1>3

(* Steps that move neither session nor requests.                           *)
LEMMA QuietSessionKeeps ==
  ASSUME SessionInv, SessionTypeOK', RetriesAreDue', AsksMe => AsksMe',
         login'.who = login.who, page'.session = page.session, page'.user = page.user,
         page'.token \in {page.token, login.who, "unread"}, page'.booted = page.booted,
         turns'.stale = turns.stale, turns.survived => turns'.survived,
         logout'.pc = "no" => logout.pc = "no" \/ turns'.survived
  PROVE  SessionInv'
BY DEF SessionInv, PageMirrors, UserIsKnownOrAsked

LEMMA SessionStart == SessionInit => SessionInv
<1> SUFFICES ASSUME SessionInit
             PROVE  SessionInv
  OBVIOUS
<1>1. request \in [PageRequests -> PageRequestRow] /\ RetriesAreDue
  BY IdleRows DEF SessionInit, RetriesAreDue
<1>2. SessionTypeOK
  <2>1. login \in [who : People, fresh : BOOLEAN]
    BY SessionAssumption DEF SessionInit, People
  <2>2. page \in [session : People, user : People, token : Mirrored, resolved : BOOLEAN, booted : BOOLEAN]
    BY DEF SessionInit, FreshPage, People, Mirrored
  <2>3. server \in [keys : BOOLEAN, of : [Identities -> Kinds]]
    <3>1. PICK kind \in Kinds \ {"linked"} : server = [keys |-> TRUE, of |-> [a \in Identities |-> kind]]
      BY DEF SessionInit
    <3> HIDE DEF Kinds
    <3> QED
      BY <3>1
  <2>4. turns \in [n : 0..MaxTurns, stale : BOOLEAN, survived : BOOLEAN]
    BY SessionAssumption DEF SessionInit
  <2> QED
    BY <1>1, <2>1, <2>2, <2>3, <2>4 DEF SessionInit, SessionTypeOK, PageRequestRow
<1> QED
  BY <1>1, <1>2 DEF SessionInit, SessionInv, PageMirrors, UserIsKnownOrAsked, FreshPage

(* The answers of the server.                                              *)
LEMMA RequestStep ==
  ASSUME SessionInv, NEW r \in PageRequests,
         \/ BeginRequest(r) \/ Send(r) \/ SendWithoutToken(r) \/ MiddlewareAnswer(r) \/ InsertUser(r) \/ RequestFails(r)
         \/ \E renewed \in BOOLEAN : RenewForRetry(r, renewed)
  PROVE  SessionInv'
<1>1. /\ request \in [PageRequests -> PageRequestRow] /\ request[r] \in PageRequestRow
      /\ \A s \in PageRequests : request[s].pc = "refresh" => request[s].as = NoIdentity \/ ~request[s].fresh
      /\ login \in [who : People, fresh : BOOLEAN]
      /\ page \in [session : People, user : People, token : Mirrored, resolved : BOOLEAN, booted : BOOLEAN]
      /\ server \in [keys : BOOLEAN, of : [Identities -> Kinds]]
      /\ turns \in [n : 0..MaxTurns, stale : BOOLEAN, survived : BOOLEAN]
  BY DEF SessionInv, SessionTypeOK, PageRequestRow, RetriesAreDue
<1>2. ASSUME NEW new \in PageRequestRow, request' = [request EXCEPT ![r] = new],
             new.pc = "refresh" => new.as = NoIdentity \/ ~new.fresh,
             new.pc # "none" /\ (request[r].pc # "none" => new.me = request[r].me)
      PROVE  request' \in [PageRequests -> PageRequestRow] /\ RetriesAreDue' /\ (AsksMe => AsksMe')
  <2>1. /\ request' \in [PageRequests -> PageRequestRow] /\ RetriesAreDue'
        /\ new.pc # "none" /\ new.me => AsksMe'
        /\ \A s \in PageRequests \ {r} : request[s].pc # "none" /\ request[s].me => AsksMe'
    BY <1>1, <1>2, RequestTurns
  <2> QED
    BY <1>2, <2>1 DEF AsksMe
<1>3. CASE BeginRequest(r)
  <2>1. /\ NewRequest(FALSE) \in PageRequestRow /\ NewRequest(FALSE).pc = "headers"
        /\ request' = [request EXCEPT ![r] = NewRequest(FALSE)] /\ request[r].pc = "none"
    BY <1>3, IdleRows DEF BeginRequest
  <2>2. request' \in [PageRequests -> PageRequestRow] /\ RetriesAreDue' /\ (AsksMe => AsksMe')
    BY <1>2, <2>1
  <2> QED
    BY <1>3, <2>2, QuietSessionKeeps DEF BeginRequest, SessionInv, SessionTypeOK, PageRequestRow
<1>4. CASE Send(r) \/ SendWithoutToken(r)
  <2>0. PICK who \in {login.who, NoIdentity} :
          request' = [request EXCEPT ![r].pc = "sent", ![r].as = who, ![r].fresh = login.fresh]
    BY <1>4 DEF Send, SendWithoutToken
  <2> DEFINE new == [request[r] EXCEPT !.pc = "sent", !.as = who, !.fresh = login.fresh]
  <2>1. new \in PageRequestRow /\ new.pc = "sent" /\ new.me = request[r].me
    BY <1>1 DEF PageRequestRow, People
  <2>2. request' = [request EXCEPT ![r] = new]
    BY <2>0
  <2> HIDE DEF new
  <2>3. request' \in [PageRequests -> PageRequestRow] /\ RetriesAreDue' /\ (AsksMe => AsksMe')
    BY <1>2, <2>1, <2>2
  <2>4. /\ page' \in [session : People, user : People, token : Mirrored, resolved : BOOLEAN, booted : BOOLEAN]
        /\ page'.session = page.session /\ page'.user = page.user
        /\ page'.token \in {login.who, "unread"} /\ page'.booted = page.booted
    <3>1. PICK token \in {login.who, "unread"} : page' = [page EXCEPT !.token = token]
      BY <1>4 DEF Send, SendWithoutToken
    <3>2. token \in Mirrored
      BY <1>1 DEF Mirrored
    <3> QED
      BY <1>1, <3>1, <3>2
  <2>5. /\ UNCHANGED <<login, logout, server>>
        /\ turns' \in [n : 0..MaxTurns, stale : BOOLEAN, survived : BOOLEAN]
        /\ turns'.stale = turns.stale /\ turns'.survived = turns.survived
    <3>1. CASE UNCHANGED turns
      BY <1>1, <1>4, <3>1 DEF Send, SendWithoutToken
    <3>2. CASE turns' # turns
      <4>1. /\ turns' = [turns EXCEPT !.n = turns.n + 1] /\ turns.n < MaxTurns
            /\ UNCHANGED <<login, logout, server>>
        BY <1>4, <3>2 DEF Send, SendWithoutToken
      <4>2. turns.n + 1 \in 0..MaxTurns
        BY <1>1, <4>1, SessionAssumption
      <4> QED
        BY <1>1, <4>1, <4>2
    <3> QED
      BY <3>1, <3>2
  <2>6. SessionTypeOK'
    BY <2>3, <2>4, <2>5 DEF SessionInv, SessionTypeOK, PageRequestRow
  <2> QED
    BY <2>3, <2>4, <2>5, <2>6, QuietSessionKeeps
<1>5. ASSUME NEW pc \in {"insert", "refresh"}, request' = [request EXCEPT ![r].pc = pc],
             request[r].pc # "none", UNCHANGED <<login, page, logout, turns, server>>,
             pc = "refresh" => request[r].as = NoIdentity \/ ~request[r].fresh
      PROVE  SessionInv'
  <2> DEFINE new == [request[r] EXCEPT !.pc = pc]
  <2>1. /\ new \in PageRequestRow /\ new.pc = pc /\ new.me = request[r].me
        /\ new.as = request[r].as /\ new.fresh = request[r].fresh
    BY <1>1 DEF PageRequestRow
  <2>2. request' = [request EXCEPT ![r] = new]
    BY <1>5
  <2> HIDE DEF new
  <2>3. request' \in [PageRequests -> PageRequestRow] /\ RetriesAreDue' /\ (AsksMe => AsksMe')
    BY <1>2, <1>5, <2>1, <2>2
  <2>4. SessionTypeOK'
    BY <1>5, <2>3 DEF SessionInv, SessionTypeOK, PageRequestRow
  <2> QED
    BY <1>5, <2>3, <2>4, QuietSessionKeeps
<1>6. CASE MiddlewareAnswer(r)
  <2>1. request[r].pc # "none" /\ UNCHANGED server
    BY <1>6 DEF MiddlewareAnswer
  <2>2. \/ /\ request' = [request EXCEPT ![r].pc = "refresh"]
           /\ Refusal(r) \in {"TOKEN_EXPIRED", "MISSING_AUTH_HEADER"} /\ UNCHANGED <<login, page, logout, turns>>
        \/ Refuse(r, Refusal(r)) \/ Refuse(r, "LEGACY_USER_PENDING_MANUAL_LINK")
        \/ Welcome(r)
        \/ request' = [request EXCEPT ![r].pc = "insert"] /\ UNCHANGED <<login, page, logout, turns>>
    BY <1>6 DEF MiddlewareAnswer, RetriesAfterRenewal
  <2>3. Refusal(r) \in {"TOKEN_EXPIRED", "MISSING_AUTH_HEADER"} =>
          request[r].as = NoIdentity \/ ~request[r].fresh
    BY DEF Refusal
  <2>4. CASE /\ request' = [request EXCEPT ![r].pc = "refresh"]
             /\ Refusal(r) \in {"TOKEN_EXPIRED", "MISSING_AUTH_HEADER"} /\ UNCHANGED <<login, page, logout, turns>>
    BY <1>5, <2>1, <2>3, <2>4
  <2>5. CASE request' = [request EXCEPT ![r].pc = "insert"] /\ UNCHANGED <<login, page, logout, turns>>
    BY <1>5, <2>1, <2>5
  <2>6. CASE Refuse(r, Refusal(r)) \/ Refuse(r, "LEGACY_USER_PENDING_MANUAL_LINK")
    BY <2>1, <2>6, RefuseKeeps
  <2>7. CASE Welcome(r)
    BY <1>1, <2>1, <2>7, WelcomeKeeps
  <2> QED
    BY <2>2, <2>4, <2>5, <2>6, <2>7
<1>7. CASE InsertUser(r)
  <2>1. request[r].pc # "none"
    BY <1>7 DEF InsertUser
  <2>2. CASE Welcome(r) /\ server' = [server EXCEPT !.of[request[r].as] = "linked"]
    <3>1. server' \in [keys : BOOLEAN, of : [Identities -> Kinds]]
      BY <1>1, <2>2 DEF Kinds
    <3> QED
      BY <2>1, <2>2, <3>1, WelcomeKeeps
  <2>3. CASE Refuse(r, "AUTH_USER_SYNC_FAILED") /\ UNCHANGED server
    BY <2>1, <2>3, RefuseKeeps
  <2> QED
    BY <1>7, <2>2, <2>3 DEF InsertUser
<1>8. CASE RequestFails(r)
  BY <1>8, RefuseKeeps DEF RequestFails
<1>9. CASE \E renewed \in BOOLEAN : RenewForRetry(r, renewed)
  <2>1. PICK renewed \in BOOLEAN : RenewForRetry(r, renewed)
    BY <1>9
  <2>2. request[r].pc = "refresh" /\ UNCHANGED server
    BY <2>1 DEF RenewForRetry
  <2>3. CASE ~renewed
    <3>1. PICK code \in {"MISSING_AUTH_HEADER", "TOKEN_EXPIRED"} : Refuse(r, code)
      BY <2>1, <2>3 DEF RenewForRetry
    <3> QED
      BY <2>2, <3>1, RefuseKeeps
  <2>4. CASE renewed
    <3> DEFINE new == [request[r] EXCEPT !.pc = "headers", !.retried = TRUE]
               reqs == [request EXCEPT ![r] = new]
    <3>1. RefreshUser(reqs) /\ login' = [who |-> login.who, fresh |-> TRUE]
          /\ page' = SessionApplied(login.who) /\ UNCHANGED logout
          /\ turns' = [turns EXCEPT !.survived = FALSE]
      BY <2>1, <2>4 DEF RenewForRetry, SignedInAs
    <3>2. new \in PageRequestRow /\ new.pc = "headers"
      BY <1>1 DEF PageRequestRow
    <3>3. /\ reqs \in [PageRequests -> PageRequestRow]
          /\ \A s \in PageRequests : reqs[s].pc = "refresh" => reqs[s].as = NoIdentity \/ ~reqs[s].fresh
      <4> HIDE DEF new
      <4> QED
        BY <1>1, <3>2
    <3> HIDE DEF reqs
    <3>4. request' \in [PageRequests -> PageRequestRow] /\ RetriesAreDue' /\ AsksMe'
      BY <3>1, <3>3, SomebodyAsks
    <3>5. /\ page' \in [session : People, user : People, token : Mirrored, resolved : BOOLEAN, booted : BOOLEAN]
          /\ page'.session = login'.who /\ page'.token = login'.who
      BY <1>1, <3>1 DEF SessionApplied, People, Mirrored
    <3>6. SessionTypeOK'
      BY <1>1, <2>2, <3>1, <3>4, <3>5 DEF SessionInv, SessionTypeOK, PageRequestRow
    <3> QED
      BY <3>4, <3>5, <3>6 DEF SessionInv, PageMirrors, UserIsKnownOrAsked
  <2> QED
    BY <2>3, <2>4
<1> QED
  BY <1>3, <1>4, <1>6, <1>7, <1>8, <1>9

LEMMA SessionStep == SessionInv /\ [SessionNext]_sessionVars => SessionInv'
<1> SUFFICES ASSUME SessionInv, [SessionNext]_sessionVars
             PROVE  SessionInv'
  OBVIOUS
<1>1. /\ request \in [PageRequests -> PageRequestRow]
      /\ login \in [who : People, fresh : BOOLEAN]
      /\ page \in [session : People, user : People, token : Mirrored, resolved : BOOLEAN, booted : BOOLEAN]
      /\ server \in [keys : BOOLEAN, of : [Identities -> Kinds]]
      /\ turns \in [n : 0..MaxTurns, stale : BOOLEAN, survived : BOOLEAN]
      /\ logout \in [pc : {"no", "signOut", "late"}, cause : {"none", "asked", "refused"}]
      /\ NoIdentity \in People /\ \A a \in Identities : a \in People
  BY DEF SessionInv, SessionTypeOK, PageRequestRow, People
<1>2. OneTurn => turns' \in [n : 0..MaxTurns, stale : BOOLEAN, survived : BOOLEAN]
  <2> SUFFICES ASSUME OneTurn
               PROVE  turns' \in [n : 0..MaxTurns, stale : BOOLEAN, survived : BOOLEAN]
    OBVIOUS
  <2>1. turns.n + 1 \in 0..MaxTurns
    BY <1>1, SessionAssumption DEF OneTurn
  <2>2. turns' = [turns EXCEPT !.n = turns.n + 1, !.survived = FALSE]
    BY DEF OneTurn
  <2> QED
    BY <1>1, <2>1, <2>2
<1>3. \A who \in People : SignedInAs(who) => login' \in [who : People, fresh : BOOLEAN] /\ login'.who = who
  BY DEF SignedInAs
<1>4. ASSUME NEW a \in Identities, SignInHere(a) PROVE SessionInv'
  <2>1. /\ page' = FreshPage /\ login' \in [who : People, fresh : BOOLEAN]
        /\ turns' = [n |-> turns.n + 1, stale |-> FALSE, survived |-> FALSE] /\ turns.n < MaxTurns
        /\ logout' = [pc |-> "no", cause |-> "none"] /\ UNCHANGED server
        /\ request' = [r \in PageRequests |-> Idle]
    BY <1>1, <1>3, <1>4 DEF SignInHere
  <2>2. request' \in [PageRequests -> PageRequestRow] /\ RetriesAreDue'
    BY <2>1, IdleRows DEF RetriesAreDue
  <2>3. SessionTypeOK'
    BY <1>1, <2>1, <2>2, SessionAssumption DEF SessionTypeOK, PageRequestRow, FreshPage, People, Mirrored
  <2> QED
    BY <2>1, <2>2, <2>3 DEF SessionInv, PageMirrors, UserIsKnownOrAsked, FreshPage
<1>5. ASSUME NEW a \in Identities, SignInElsewhere(a) PROVE SessionInv'
  BY <1>1, <1>2, <1>3, <1>5, EventKeeps DEF SignInElsewhere
<1>6. CASE SignOutElsewhere
  BY <1>1, <1>2, <1>3, <1>6, EventKeeps DEF SignOutElsewhere
<1>7. CASE Renew
  <2>1. turns' \in [n : 0..MaxTurns, stale : BOOLEAN, survived : BOOLEAN]
    BY <1>1, <1>7 DEF Renew
  <2> QED
    BY <1>1, <1>3, <1>7, <2>1, EventKeeps DEF Renew
<1>8. CASE SignedOut
  <2>1. logout' \in [pc : {"no", "signOut", "late"}, cause : {"none", "asked", "refused"}]
    BY <1>8 DEF SignedOut
  <2> QED
    BY <1>1, <1>3, <1>8, <2>1, EventKeeps DEF SignedOut
<1>9. CASE \E found \in BOOLEAN : Bootstrap(found)
  <2>1. PICK found \in BOOLEAN : Bootstrap(found)
    BY <1>9
  <2> DEFINE who == IF found THEN login.who ELSE NoIdentity
  <2>2. /\ page' = [SessionApplied(who) EXCEPT !.resolved = TRUE, !.booted = TRUE]
        /\ who # NoIdentity => RefreshUser(request)
        /\ who = NoIdentity => UNCHANGED request
        /\ turns' = [turns EXCEPT !.survived = turns.survived \/ ~found]
        /\ UNCHANGED <<login, logout, server>>
    BY <2>1 DEF Bootstrap
  <2>3. who \in People /\ (found => who = login.who)
    BY <1>1
  <2> HIDE DEF who
  <2>4. /\ page' \in [session : People, user : People, token : Mirrored, resolved : BOOLEAN, booted : BOOLEAN]
        /\ page'.session = who /\ page'.token = who /\ (who = NoIdentity => page'.user = NoIdentity)
    BY <1>1, <2>2, <2>3 DEF SessionApplied, Mirrored
  <2>5. /\ turns' \in [n : 0..MaxTurns, stale : BOOLEAN, survived : BOOLEAN]
        /\ ~found => turns'.survived
    BY <1>1, <2>2
  <2>6. /\ request' \in [PageRequests -> PageRequestRow] /\ RetriesAreDue'
        /\ who # NoIdentity => AsksMe'
    <3>1. CASE who = NoIdentity
      BY <1>1, <2>2, <3>1 DEF SessionInv, RetriesAreDue
    <3>2. CASE who # NoIdentity
      BY <1>1, <2>2, <3>2, SomebodyAsks DEF SessionInv, RetriesAreDue
    <3> QED
      BY <3>1, <3>2
  <2>7. SessionTypeOK'
    BY <2>2, <2>4, <2>5, <2>6 DEF SessionInv, SessionTypeOK, PageRequestRow
  <2> QED
    BY <2>2, <2>3, <2>4, <2>5, <2>6, <2>7 DEF SessionInv, PageMirrors, UserIsKnownOrAsked
<1>10. CASE Age
  <2> DEFINE aged(r) == [request[r] EXCEPT !.fresh = request[r].fresh /\ request[r].as # login.who]
  <2>1. \A r \in PageRequests : /\ aged(r) \in PageRequestRow /\ aged(r).pc = request[r].pc
                                /\ aged(r).me = request[r].me /\ aged(r).as = request[r].as
                                /\ aged(r).fresh => request[r].fresh
    <3> TAKE r \in PageRequests
    <3>1. request[r] \in PageRequestRow
      BY <1>1
    <3> QED
      BY <3>1 DEF PageRequestRow
  <2>2. request' = [r \in PageRequests |-> aged(r)]
    BY <1>10 DEF Age
  <2> HIDE DEF aged
  <2>3. request' \in [PageRequests -> PageRequestRow] /\ RetriesAreDue' /\ (AsksMe => AsksMe')
    BY <2>1, <2>2 DEF SessionInv, RetriesAreDue, AsksMe
  <2>4. /\ login' \in [who : People, fresh : BOOLEAN] /\ login'.who = login.who
        /\ turns' \in [n : 0..MaxTurns, stale : BOOLEAN, survived : BOOLEAN]
        /\ turns'.stale = turns.stale /\ turns'.survived = turns.survived
        /\ UNCHANGED <<page, logout, server>>
    <3>1. login' = [login EXCEPT !.fresh = FALSE] /\ UNCHANGED <<page, logout, server>>
      BY <1>10 DEF Age
    <3>2. turns.n + 1 \in 0..MaxTurns
      BY <1>1, <1>10, SessionAssumption DEF Age
    <3>3. turns' = [turns EXCEPT !.n = turns.n + 1]
      BY <1>10 DEF Age
    <3> QED
      BY <1>1, <3>1, <3>2, <3>3
  <2>5. SessionTypeOK'
    BY <2>3, <2>4 DEF SessionInv, SessionTypeOK, PageRequestRow
  <2> QED
    BY <2>3, <2>4, <2>5, QuietSessionKeeps
<1>11. CASE AskLogout
  <2>1. /\ page' \in [session : People, user : People, token : Mirrored, resolved : BOOLEAN, booted : BOOLEAN]
        /\ page'.user = NoIdentity
    BY <1>1, <1>11 DEF AskLogout, LogoutBegins, SessionApplied, Mirrored
  <2>2. logout' = [pc |-> "signOut", cause |-> "asked"] /\ UNCHANGED <<login, request, server, turns>>
    BY <1>11 DEF AskLogout, LogoutBegins
  <2>3. SessionTypeOK'
    BY <2>1, <2>2 DEF SessionInv, SessionTypeOK
  <2> QED
    BY <2>1, <2>2, <2>3 DEF SessionInv, PageMirrors, UserIsKnownOrAsked, RetriesAreDue
<1>12. CASE HydrationTimeout
  <2>1. /\ page' \in [session : People, user : People, token : Mirrored, resolved : BOOLEAN, booted : BOOLEAN]
        /\ page'.session = page.session /\ page'.user = page.user /\ page'.token = page.token
        /\ page'.booted = page.booted
    BY <1>1, <1>12 DEF HydrationTimeout
  <2>2. UNCHANGED <<login, request, logout, server, turns>>
    BY <1>12 DEF HydrationTimeout
  <2>3. SessionTypeOK' /\ RetriesAreDue' /\ (AsksMe => AsksMe')
    BY <2>1, <2>2 DEF SessionInv, SessionTypeOK, RetriesAreDue, AsksMe
  <2> QED
    BY <2>1, <2>2, <2>3, QuietSessionKeeps
<1>13. CASE SignOutFails \/ SignOutTakesLong
  <2>1. /\ logout' \in [pc : {"no", "signOut", "late"}, cause : {"none", "asked", "refused"}]
        /\ logout'.pc = "no" => turns'.survived
        /\ turns' \in [n : 0..MaxTurns, stale : BOOLEAN, survived : BOOLEAN]
        /\ turns'.stale = turns.stale /\ (turns.survived => turns'.survived)
    <3>1. CASE SignOutFails
      <4>1. turns' = [turns EXCEPT !.survived = TRUE] /\ logout' = [pc |-> "no", cause |-> "none"]
        BY <3>1 DEF SignOutFails
      <4> QED
        BY <1>1, <4>1
    <3>2. CASE SignOutTakesLong
      <4>1. logout' = [logout EXCEPT !.pc = "late"] /\ UNCHANGED turns
        BY <3>2 DEF SignOutTakesLong
      <4> QED
        BY <1>1, <4>1
    <3> QED
      BY <1>13, <3>1, <3>2
  <2>2. UNCHANGED <<login, page, request, server>>
    BY <1>13 DEF SignOutFails, SignOutTakesLong
  <2>3. SessionTypeOK' /\ RetriesAreDue' /\ (AsksMe => AsksMe')
    BY <2>1, <2>2 DEF SessionInv, SessionTypeOK, RetriesAreDue, AsksMe
  <2> QED
    BY <2>1, <2>2, <2>3, QuietSessionKeeps
<1>14. CASE KeysChange \/ \E a \in Identities : RowChanges(a, "legacy", "linked") \/ RowChanges(a, "new", "legacy")
  <2>1. server' \in [keys : BOOLEAN, of : [Identities -> Kinds]]
    <3>1. CASE KeysChange
      <4>1. server' = [server EXCEPT !.keys = ~server.keys] /\ (~server.keys) \in BOOLEAN
        BY <3>1 DEF KeysChange
      <4> HIDE <1>14
      <4> QED
        BY <1>1, <4>1, Zenon
    <3>2. ASSUME NEW a \in Identities, NEW to \in {"linked", "legacy"}, server' = [server EXCEPT !.of[a] = to]
          PROVE  server' \in [keys : BOOLEAN, of : [Identities -> Kinds]]
      BY <1>1, <3>2 DEF Kinds
    <3> QED
      BY <1>14, <3>1, <3>2 DEF RowChanges
  <2>2. UNCHANGED <<login, page, request, logout, turns>>
    BY <1>14 DEF KeysChange, RowChanges
  <2>3. SessionTypeOK' /\ RetriesAreDue' /\ (AsksMe => AsksMe')
    BY <2>1, <2>2 DEF SessionInv, SessionTypeOK, RetriesAreDue, AsksMe
  <2> QED
    BY <2>2, <2>3, QuietSessionKeeps
<1>15. CASE UNCHANGED sessionVars
  BY <1>15 DEF sessionVars, SessionInv, SessionTypeOK, RetriesAreDue, PageMirrors, UserIsKnownOrAsked, AsksMe
<1> QED
  BY <1>4, <1>5, <1>6, <1>7, <1>8, <1>9, <1>10, <1>11, <1>12, <1>13, <1>14, <1>15, RequestStep DEF SessionNext

(***************************************************************************)
(* A refusal signs the page out only if it forces to: the codes that do    *)
(* speak of the keys, the address or the token of this request.            *)
(***************************************************************************)
LEMMA RefusedForAReason ==
  ASSUME SessionInv, SessionNext, NEW a \in Identities,
         logout.cause = "none", logout'.cause = "refused", page.session = a
  PROVE  \/ server.of[a] = "noEmail" \/ ~server.keys
         \/ \E r \in PageRequests : request[r].pc # "none" /\ request'[r].pc = "none"
              /\ (request[r].as # a \/ ~request[r].fresh)
<1>1. PICK r \in PageRequests : MiddlewareAnswer(r) \/ InsertUser(r) \/ RequestFails(r)
                                \/ \E renewed \in BOOLEAN : RenewForRetry(r, renewed)
  <2>1. /\ ~(UNCHANGED logout) /\ logout' # [pc |-> "no", cause |-> "none"]
        /\ logout' # [pc |-> "signOut", cause |-> "asked"]
    OBVIOUS
  <2>2. ~SignOutTakesLong
    BY DEF SignOutTakesLong, SessionInv, SessionTypeOK
  <2>3. ~AskLogout /\ ~SignedOut /\ ~SignOutFails /\ ~KeysChange /\ ~Age /\ ~Renew /\ ~HydrationTimeout
        /\ ~SignOutElsewhere
    BY <2>1 DEF AskLogout, LogoutBegins, SignedOut, SignOutFails, KeysChange, Age, Renew, HydrationTimeout,
                SignOutElsewhere
  <2>4. \A i \in Identities : /\ ~SignInHere(i) /\ ~SignInElsewhere(i) /\ ~RowChanges(i, "legacy", "linked")
                             /\ ~RowChanges(i, "new", "legacy")
    BY <2>1 DEF SignInHere, SignInElsewhere, RowChanges
  <2>5. \A found \in BOOLEAN : ~Bootstrap(found)
    BY <2>1 DEF Bootstrap
  <2>6. \A r \in PageRequests : ~BeginRequest(r) /\ ~Send(r) /\ ~SendWithoutToken(r)
    BY <2>1 DEF BeginRequest, Send, SendWithoutToken
  <2> QED
    BY <2>2, <2>3, <2>4, <2>5, <2>6 DEF SessionNext
<1>2. request[r].pc # "none" /\ request \in [PageRequests -> PageRequestRow] /\ Idle.pc = "none"
  BY <1>1 DEF MiddlewareAnswer, InsertUser, RequestFails, RenewForRetry, SessionInv, SessionTypeOK,
              PageRequestRow, Idle
<1>3. \A code : Refuse(r, code) => ForcesLogout(code) /\ request'[r] = Idle
  BY <1>2 DEF Refuse, Ended
<1>4. /\ ~ForcesLogout("LEGACY_USER_PENDING_MANUAL_LINK") /\ ~ForcesLogout("AUTH_USER_SYNC_FAILED")
      /\ ~ForcesLogout("EMAIL_NOT_VERIFIED") /\ ~ForcesLogout("MISSING_AUTH_HEADER")
  BY DEF ForcesLogout, HttpStatus, NonLogoutCodes, SoftCodes
<1>5. CASE MiddlewareAnswer(r)
  <2>1. Refuse(r, Refusal(r))
    BY <1>3, <1>4, <1>5 DEF MiddlewareAnswer, Welcome
  <2>2. Refusal(r) \notin {"MISSING_AUTH_HEADER", "EMAIL_NOT_VERIFIED"} /\ request'[r] = Idle
    BY <1>3, <1>4, <2>1
  <2>3. Refusal(r) # "none"
    BY <1>3, <1>4, <1>5, <2>2 DEF MiddlewareAnswer, Welcome
  <2> QED
    BY <1>2, <2>2, <2>3 DEF Refusal
<1>6. CASE InsertUser(r)
  BY <1>3, <1>4, <1>6 DEF InsertUser, Welcome
<1>7. CASE RequestFails(r)
  BY <1>3, <1>4, <1>7 DEF RequestFails
<1>8. CASE \E renewed \in BOOLEAN : RenewForRetry(r, renewed)
  <2>1. request[r].pc = "refresh" /\ request[r].as # NoIdentity /\ Refuse(r, "TOKEN_EXPIRED")
    BY <1>3, <1>4, <1>8 DEF RenewForRetry
  <2> QED
    BY <1>2, <1>3, <2>1 DEF SessionInv, RetriesAreDue
<1> QED
  BY <1>1, <1>5, <1>6, <1>7, <1>8

(***************************************************************************)
(* THE SESSION.  Once nothing is under way the page agrees with Supabase   *)
(* on the account, and no answer signs an account out that is in order, for*)
(* any accounts, requests and turns (AuthContext, authApi, the middleware).*)
(***************************************************************************)
THEOREM SessionStaysSound == SessionSpec => SessionIsSound
<1>1. SessionInv => SessionsAgree
  BY DEF SessionInv, PageMirrors, UserIsKnownOrAsked, SessionsAgree
<1>2. SessionInv /\ [SessionNext]_sessionVars =>
        [\A a \in Identities :
           logout.cause = "none" /\ logout'.cause = "refused" /\ page.session = a =>
             \/ server.of[a] = "noEmail" \/ ~server.keys
             \/ \E r \in PageRequests : request[r].pc # "none" /\ request'[r].pc = "none"
                  /\ (request[r].as # a \/ ~request[r].fresh)]_sessionVars
  BY RefusedForAReason
<1> QED
  BY <1>1, <1>2, SessionStart, SessionStep, PTL DEF SessionSpec, SessionIsSound, NobodyIsThrownOut

-----------------------------------------------------------------------------
(*****************************************************************************)
(* The onboarding: the step that is owed is shown, and nobody is sent back.  *)
(*****************************************************************************)

SetupRow ==
  [known : BOOLEAN, facts : SUBSET SetupFacts, parse : ParseStatuses,
   fetch : [pc : {"none", "asked", "read"}, facts : SUBSET SetupFacts]]

PlaceRow == [at : Routes, celebrating : BOOLEAN]

MemberRow ==
  [newest : {"none", "parsing", "late", "failed", "parsed"}, older : BOOLEAN,
   mail : SUBSET {"gmail", "password"}, ai : BOOLEAN, subscribed : BOOLEAN]

ActionRow == [do : {"none", "upload", "uploaded", "saved"}, at : Routes]

(* What a page believes of the account; that it has subscribed may escape  *)
(* a page that subscribes during its first fetch.                          *)
FactsAgree(facts) == facts \subseteq AccountFacts /\ AccountFacts \subseteq facts \cup {"subscribed"}

CopyAgrees ==
  ~unseen /\ action.do \in {"none", "upload"} =>
    /\ setup.fetch.pc = "none" => setup.known /\ FactsAgree(setup.facts)
    /\ setup.fetch.pc = "read" => FactsAgree(setup.fetch.facts)

(* A request is made only by a page that has its status, or none to come:  *)
(* the status is then asked for again after it.                            *)
ActionsAskAgain ==
  /\ action.do = "none" => action = NoAction
  /\ action.do # "none" => ~Loading(setup)
  /\ action.do = "uploaded" => Resumes # {}
  /\ action.do = "saved" /\ action.at = "onboarding" => "emailSkipped" \notin choices

PlaceFits ==
  /\ place.at = Guarded(setup, choices, place.at)
  /\ place.celebrating => place.at = "onboarding"

(* Who has a resume keeps one, and no fetch that is to come says less.     *)
ResumesStay ==
  /\ "resume" \in setup.facts => Resumes # {} /\ (setup.fetch.pc = "read" => "resume" \in setup.fetch.facts)
  /\ setup.fetch.pc = "read" /\ "resume" \in setup.fetch.facts => Resumes # {}

(* A fetch that has found no mail is right, or its page is elsewhere.      *)
MailIsSeen ==
  setup.fetch.pc = "read" /\ "mail" \notin setup.fetch.facts =>
    \/ member.mail = {} \/ unseen
    \/ action.do = "saved" /\ place.at # "dashboard" /\ ~place.celebrating

OnboardInv ==
  /\ OnboardTypeOK /\ CopyAgrees /\ ActionsAskAgain /\ PlaceFits /\ ResumesStay /\ MailIsSeen

(* What the server says of an account.                                     *)
LEMMA FactsAreSo ==
  /\ AccountFacts \subseteq SetupFacts
  /\ "resume" \in AccountFacts <=> Resumes # {}
  /\ "mail" \in AccountFacts <=> member.mail # {}
  /\ "subscribed" \in AccountFacts <=> member.subscribed
BY DEF AccountFacts, SetupFacts

LEMMA ResumesAreSo == Resumes # {} <=> member.newest # "none" \/ member.older
<1>1. "newest" \in Resumes <=> member.newest # "none"
  BY DEF Resumes
<1>2. "older" \in Resumes <=> member.older
  BY DEF Resumes
<1>3. Resumes \subseteq {"newest", "older"}
  BY DEF Resumes
<1> QED
  BY <1>1, <1>2, <1>3

(* Redirects end after two.                                                *)
LEMMA RedirectsEnd ==
  ASSUME NEW s, NEW kept, NEW at \in Routes
  PROVE  /\ Guarded(s, kept, at) \in Routes
         /\ Guarded(s, kept, Guarded(s, kept, Guarded(s, kept, at))) = Guarded(s, kept, Guarded(s, kept, at))
<1> DEFINE complete == FlowStep(s, kept) = "complete"
           loading == Loading(s)
           unpaid == s.known /\ "subscribed" \notin s.facts
<1>1. \A r \in Routes :
        Guarded(s, kept, r) =
          IF r = "home"
          THEN IF loading THEN "home"
               ELSE IF unpaid /\ trigger = "after_plan_selection" THEN "subscriptions"
               ELSE IF s.known /\ complete THEN "dashboard" ELSE "onboarding"
          ELSE IF r \in {"dashboard", "setup"} /\ trigger # "off" /\ loading THEN r
          ELSE IF /\ unpaid /\ trigger \in {"after_plan_selection", "after_onboarding"}
                  /\ r # "subscriptions" /\ (trigger = "after_onboarding" => r # "onboarding")
               THEN "subscriptions"
          ELSE IF r = "dashboard" /\ ~complete THEN "onboarding" ELSE r
  BY DEF Guarded, FromHome, MustSubscribe
<1> HIDE DEF complete, loading, unpaid
<1>2. \A r \in Routes : Guarded(s, kept, r) \in Routes
  BY <1>1 DEF Routes
<1>3. CASE at = "home"
  BY <1>1, <1>2, <1>3 DEF Routes
<1>4. CASE at # "home"
  BY <1>1, <1>2, <1>4 DEF Routes
<1> QED
  BY <1>2, <1>3, <1>4

LEMMA ShownFits ==
  ASSUME NEW s, NEW kept, NEW at \in Routes
  PROVE  /\ ShownAt(s, kept, at) \in PlaceRow
         /\ ShownAt(s, kept, at).at = Guarded(s, kept, Guarded(s, kept, at))
         /\ ShownAt(s, kept, at).at = Guarded(s, kept, ShownAt(s, kept, at).at)
         /\ ShownAt(s, kept, at).celebrating => ShownAt(s, kept, at).at = "onboarding"
<1> DEFINE there == Guarded(s, kept, Guarded(s, kept, at))
           joy == there = "onboarding" /\ s.known /\ FlowStep(s, kept) = "complete"
<1>1. ShownAt(s, kept, at) = [at |-> there, celebrating |-> joy]
  BY DEF ShownAt
<1>2. there \in Routes /\ there = Guarded(s, kept, there)
  BY RedirectsEnd
<1>3. joy \in BOOLEAN /\ (joy => there = "onboarding")
  OBVIOUS
<1> HIDE DEF there, joy
<1>4. ShownAt(s, kept, at).at = there /\ ShownAt(s, kept, at).celebrating = joy
  BY <1>1
<1>5. ShownAt(s, kept, at) \in PlaceRow
  BY <1>1, <1>2, <1>3 DEF PlaceRow
<1> QED
  BY <1>2, <1>3, <1>4, <1>5 DEF there

LEMMA RefreshedFits ==
  ASSUME place \in PlaceRow, NEW s, NEW kept
  PROVE  /\ Refreshed(s, kept) \in PlaceRow
         /\ Refreshed(s, kept).at = Guarded(s, kept, Guarded(s, kept, place.at))
         /\ Refreshed(s, kept).at = Guarded(s, kept, Refreshed(s, kept).at)
         /\ Refreshed(s, kept).celebrating => Refreshed(s, kept).at = "onboarding"
<1> DEFINE now == ShownAt(s, kept, place.at)
           joy == now.celebrating \/ (place.celebrating /\ now.at = "onboarding")
<1>1. Refreshed(s, kept) = [now EXCEPT !.celebrating = joy]
  BY DEF Refreshed
<1>2. /\ now \in PlaceRow /\ now.at = Guarded(s, kept, Guarded(s, kept, place.at))
      /\ now.at = Guarded(s, kept, now.at)
      /\ now.celebrating => now.at = "onboarding"
  BY ShownFits DEF PlaceRow
<1>3. joy \in BOOLEAN /\ (joy => now.at = "onboarding")
  BY <1>2
<1> HIDE DEF now, joy
<1>4. Refreshed(s, kept).at = now.at /\ Refreshed(s, kept).celebrating = joy
      /\ Refreshed(s, kept) \in PlaceRow
  BY <1>1, <1>2, <1>3 DEF PlaceRow
<1> QED
  BY <1>2, <1>3, <1>4

LEMMA AsksAgain ==
  ASSUME NEW s \in SetupRow
  PROVE  /\ AskAgain(s) \in SetupRow /\ AskAgain(s).known = s.known /\ AskAgain(s).facts = s.facts
         /\ AskAgain(s).parse = s.parse
         /\ ~Loading(s) => AskAgain(s).fetch.pc = "asked"
         /\ Loading(s) => AskAgain(s) = s
BY DEF AskAgain, SetupRow, NewFetch, NoSetupFetch

(* What a page may show depends on the trigger, which does not change.     *)
LEMMA PlaceGoesOn ==
  ASSUME trigger' = trigger, place'.at = Guarded(setup', choices', place'.at),
         place'.celebrating => place'.at = "onboarding"
  PROVE  PlaceFits'
<1>1. Guarded(setup, choices, place.at)' = Guarded(setup', choices', place'.at)
  BY DEF Guarded, FromHome, MustSubscribe, FlowStep, Loading
<1> QED
  BY <1>1 DEF PlaceFits

LEMMA GuardedAlike ==
  ASSUME NEW s, NEW t, NEW kept, NEW at, s.known = t.known, s.facts = t.facts, Loading(s) = Loading(t)
  PROVE  Guarded(s, kept, at) = Guarded(t, kept, at)
BY DEF Guarded, FromHome, MustSubscribe, FlowStep

LEMMA TypesOfOnboarding ==
  OnboardTypeOK <=>
    /\ member \in MemberRow /\ trigger \in Triggers /\ choices \subseteq {"emailSkipped", "extensionDone"}
    /\ setup \in SetupRow /\ place \in PlaceRow /\ action \in ActionRow /\ unseen \in BOOLEAN
BY DEF OnboardTypeOK, MemberRow, SetupRow, PlaceRow, ActionRow

LEMMA FreshRows ==
  /\ NothingKnown \in SetupRow /\ ~NothingKnown.known /\ NothingKnown.facts = {}
  /\ NothingKnown.fetch.pc = "asked" /\ Loading(NothingKnown)
  /\ NoAction \in ActionRow /\ NoAction.do = "none" /\ NoAction.at = "home"
BY DEF NothingKnown, NewFetch, NoSetupFetch, SetupRow, NoAction, ActionRow, Routes, ParseStatuses, Loading

LEMMA OnboardStart == OnboardInit => OnboardInv
<1> SUFFICES ASSUME OnboardInit PROVE OnboardInv
  OBVIOUS
<1>1. /\ setup = NothingKnown /\ choices = {} /\ action = NoAction /\ unseen = FALSE
      /\ place = ShownAt(NothingKnown, {}, "home") /\ trigger \in Triggers /\ member \in MemberRow
  BY DEF OnboardInit, MemberRow
<1>2. /\ place \in PlaceRow /\ place.at = Guarded(setup, choices, place.at)
      /\ place.celebrating => place.at = "onboarding"
  BY <1>1, ShownFits DEF Routes
<1>3. OnboardTypeOK
  BY <1>1, <1>2, FreshRows, TypesOfOnboarding
<1> QED
  BY <1>1, <1>2, <1>3, FreshRows DEF OnboardInv, CopyAgrees, ActionsAskAgain, PlaceFits, ResumesStay, MailIsSeen

(* A new page is asking, and shows what its route allows.                  *)
LEMMA NewPagesFit ==
  ASSUME OnboardInv, NEW at \in Routes, NewPage(at), action = NoAction, UNCHANGED <<trigger, choices, action>>,
         member' \in MemberRow
  PROVE  OnboardInv'
<1>1. setup' = NothingKnown /\ place' = ShownAt(NothingKnown, choices, at) /\ unseen' = FALSE
  BY DEF NewPage
<1>2. /\ place' \in PlaceRow /\ place'.at = Guarded(setup', choices', place'.at)
      /\ place'.celebrating => place'.at = "onboarding"
  BY <1>1, ShownFits
<1>3. PlaceFits'
  BY <1>2, PlaceGoesOn
<1>4. /\ setup' \in SetupRow /\ setup'.fetch.pc = "asked" /\ "resume" \notin setup'.facts
      /\ action' = NoAction /\ action'.do = "none" /\ action' \in ActionRow
  BY <1>1, FreshRows
<1>5. OnboardTypeOK'
  BY <1>1, <1>2, <1>4, TypesOfOnboarding DEF OnboardInv, OnboardTypeOK, MemberRow, SetupRow, PlaceRow, ActionRow
<1> QED
  BY <1>3, <1>4, <1>5 DEF OnboardInv, CopyAgrees, ActionsAskAgain, ResumesStay, MailIsSeen

LEMMA StatusReadKeeps == OnboardInv /\ StatusRead => OnboardInv'
<1> SUFFICES ASSUME OnboardInv, StatusRead PROVE OnboardInv'
  OBVIOUS
<1>1. /\ setup \in SetupRow /\ setup.fetch.pc = "asked" /\ unseen' = FALSE
      /\ setup' = [setup EXCEPT !.fetch = [pc |-> "read", facts |-> AccountFacts]]
      /\ UNCHANGED <<member, trigger, choices, place, action>>
  BY TypesOfOnboarding DEF OnboardInv, StatusRead
<1>2. /\ setup' \in SetupRow /\ setup'.fetch.pc = "read" /\ setup'.fetch.facts = AccountFacts
      /\ setup'.known = setup.known /\ setup'.facts = setup.facts
  BY <1>1, FactsAreSo DEF SetupRow
<1>3. AccountFacts' = AccountFacts /\ Resumes' = Resumes
  BY <1>1 DEF AccountFacts, Resumes
<1>4. Loading(setup') = Loading(setup)
  BY <1>1, <1>2 DEF Loading
<1>5. PlaceFits'
  <2>1. Guarded(setup', choices, place.at) = Guarded(setup, choices, place.at)
    BY <1>2, <1>4, GuardedAlike
  <2> QED
    BY <1>1, <2>1, PlaceGoesOn DEF OnboardInv, PlaceFits
<1>6. CopyAgrees' /\ ResumesStay' /\ MailIsSeen'
  BY <1>1, <1>2, <1>3, FactsAreSo DEF OnboardInv, CopyAgrees, ResumesStay, MailIsSeen, FactsAgree
<1>7. ActionsAskAgain'
  BY <1>1, <1>3, <1>4 DEF OnboardInv, ActionsAskAgain, Loading
<1>8. OnboardTypeOK'
  BY <1>1, <1>2 DEF OnboardInv, OnboardTypeOK, SetupRow
<1> QED
  BY <1>5, <1>6, <1>7, <1>8 DEF OnboardInv

(* A page whose query ends.                                                *)
LEMMA QueryEnds ==
  ASSUME OnboardInv, setup' \in SetupRow, setup'.fetch.pc = "none", place' = Refreshed(setup', choices),
         UNCHANGED <<member, trigger, choices, action>>, unseen' \in BOOLEAN,
         unseen' \/ unseen' = unseen,
         "resume" \in setup'.facts => Resumes # {},
         ~unseen' /\ action.do \in {"none", "upload"} => setup'.known /\ FactsAgree(setup'.facts)
  PROVE  OnboardInv'
<1>1. place \in PlaceRow
  BY TypesOfOnboarding DEF OnboardInv
<1>2. /\ place' \in PlaceRow /\ place'.at = Guarded(setup', choices', place'.at)
      /\ place'.celebrating => place'.at = "onboarding"
  BY <1>1, RefreshedFits
<1>3. PlaceFits'
  BY <1>2, PlaceGoesOn
<1>4. AccountFacts' = AccountFacts /\ Resumes' = Resumes
  BY DEF AccountFacts, Resumes
<1>5. CopyAgrees' /\ ResumesStay' /\ MailIsSeen'
  BY <1>4 DEF CopyAgrees, ResumesStay, MailIsSeen, FactsAgree
<1>6. ~Loading(setup')
  BY DEF Loading
<1>7. ActionsAskAgain'
  BY <1>4, <1>6 DEF OnboardInv, ActionsAskAgain, Loading
<1>8. OnboardTypeOK'
  BY <1>2 DEF OnboardInv, OnboardTypeOK, SetupRow, PlaceRow
<1> QED
  BY <1>3, <1>5, <1>7, <1>8 DEF OnboardInv

LEMMA AnswersKeep == OnboardInv /\ (StatusAnswered \/ SetupFails) => OnboardInv'
<1> SUFFICES ASSUME OnboardInv, StatusAnswered \/ SetupFails PROVE OnboardInv'
  OBVIOUS
<1> USE DEF OnboardInv
<1>0. setup \in SetupRow /\ unseen \in BOOLEAN
  BY TypesOfOnboarding
<1>1. CASE StatusAnswered
  <2>1. ResumeParseStatus \in ParseStatuses
    BY DEF ResumeParseStatus, ParseStatuses
  <2>2. /\ setup' \in SetupRow /\ setup'.fetch.pc = "none" /\ setup'.known
        /\ setup'.facts = setup.fetch.facts
    BY <1>0, <1>1, <2>1 DEF StatusAnswered, SetupRow, NoSetupFetch, ParseStatuses
  <2>3. "resume" \in setup'.facts => Resumes # {}
    BY <1>1, <2>2 DEF StatusAnswered, ResumesStay
  <2>4. ~unseen /\ action.do \in {"none", "upload"} => FactsAgree(setup'.facts)
    BY <1>1, <2>2 DEF StatusAnswered, CopyAgrees, FactsAgree
  <2> QED
    BY <1>0, <1>1, <2>2, <2>3, <2>4, QueryEnds DEF StatusAnswered
<1>2. CASE SetupFails
  <2>1. setup' \in SetupRow /\ setup'.fetch.pc = "none" /\ setup'.facts = setup.facts
    BY <1>0, <1>2 DEF SetupFails, SetupRow, NoSetupFetch
  <2> QED
    BY <1>0, <1>2, <2>1, QueryEnds DEF SetupFails, ResumesStay
<1> QED
  BY <1>1, <1>2

(* What a request or a parser changes on the server, where the page shows  *)
(* what it has shown and has asked for what it had asked for.              *)
LEMMA PageWaits ==
  ASSUME OnboardInv, UNCHANGED <<trigger, choices, setup, place>>, member' \in MemberRow,
         action' \in ActionRow, unseen' \in BOOLEAN, unseen => unseen',
         Resumes # {} => Resumes' # {},
         ~unseen' /\ action'.do \in {"none", "upload"} =>
           action.do \in {"none", "upload"} /\ AccountFacts' = AccountFacts,
         \/ member'.mail = member.mail \/ unseen'
         \/ action'.do = "saved" /\ place.at # "dashboard" /\ ~place.celebrating,
         action.do = "saved" => action'.do = "saved",
         action'.do = "none" => action' = NoAction,
         action'.do # "none" => ~Loading(setup),
         action'.do = "uploaded" => Resumes' # {},
         action'.do = "saved" /\ action'.at = "onboarding" => "emailSkipped" \notin choices
  PROVE  OnboardInv'
<1> USE DEF OnboardInv
<1>1. PlaceFits'
  BY PlaceGoesOn DEF PlaceFits
<1>2. CopyAgrees'
  BY DEF CopyAgrees, FactsAgree
<1>3. ActionsAskAgain'
  BY DEF ActionsAskAgain, Loading
<1>4. ResumesStay'
  BY DEF ResumesStay
<1>5. MailIsSeen'
  BY DEF MailIsSeen
<1>6. OnboardTypeOK'
  BY DEF OnboardTypeOK, MemberRow, ActionRow
<1> QED
  BY <1>1, <1>2, <1>3, <1>4, <1>5, <1>6

LEMMA MemberTypes ==
  ASSUME member \in MemberRow
  PROVE  /\ \A state \in {"parsing", "late", "failed", "parsed"} :
              [member EXCEPT !.newest = state] \in MemberRow
         /\ \A state \in {"parsing", "parsed"} :
              /\ WithNewest(state) \in MemberRow /\ WithNewest(state).newest = state
              /\ WithNewest(state).mail = member.mail
         /\ \A mail \in SUBSET {"gmail", "password"} :
              /\ [member EXCEPT !.mail = mail] \in MemberRow
              /\ [member EXCEPT !.mail = mail].newest = member.newest
              /\ [member EXCEPT !.mail = mail].older = member.older
<1>1. (member.older \/ member.newest = "parsed") \in BOOLEAN
  OBVIOUS
<1> QED
  BY <1>1 DEF MemberRow, WithNewest

(* An upload: it is begun, stored or refused.                              *)
LEMMA UploadsKeep == OnboardInv /\ (ChooseFile \/ UploadStored \/ UploadRefused) => OnboardInv'
<1> SUFFICES ASSUME OnboardInv, ChooseFile \/ UploadStored \/ UploadRefused PROVE OnboardInv'
  OBVIOUS
<1>0. /\ member \in MemberRow /\ action \in ActionRow /\ place \in PlaceRow /\ unseen \in BOOLEAN
      /\ ActionsAskAgain
  BY TypesOfOnboarding DEF OnboardInv
<1>1. CASE ChooseFile
  <2>1. /\ action' = [do |-> "upload", at |-> place.at] /\ action = NoAction /\ ~Loading(setup)
        /\ UNCHANGED <<member, trigger, choices, setup, place, unseen>>
    BY <1>1 DEF ChooseFile, OnStep, OnSetup
  <2>2. action' \in ActionRow /\ action'.do = "upload"
    BY <1>0, <2>1 DEF ActionRow, PlaceRow
  <2>3. AccountFacts' = AccountFacts /\ Resumes' = Resumes
    BY <2>1 DEF AccountFacts, Resumes
  <2>4. /\ member' \in MemberRow /\ unseen' \in BOOLEAN /\ unseen' = unseen /\ action.do = "none"
        /\ Resumes # {} => Resumes' # {}
    BY <1>0, <2>1, <2>3, FreshRows
  <2> QED
    BY <2>1, <2>2, <2>3, <2>4, PageWaits
<1>2. CASE UploadStored
  <2>1. /\ action.do = "upload" /\ action' = [action EXCEPT !.do = "uploaded"]
        /\ UNCHANGED <<trigger, choices, setup, place, unseen>>
        /\ member' = WithNewest("parsing") \/ member' = WithNewest("parsed")
    BY <1>2 DEF UploadStored
  <2>2. action' \in ActionRow /\ action'.do = "uploaded"
    BY <1>0, <2>1 DEF ActionRow
  <2>3. member' \in MemberRow /\ member'.newest # "none" /\ member'.mail = member.mail
    BY <1>0, <2>1, MemberTypes
  <2>4. "newest" \in Resumes'
    BY <2>3 DEF Resumes
  <2>5. ~Loading(setup)
    BY <1>0, <2>1 DEF ActionsAskAgain
  <2>6. unseen' \in BOOLEAN /\ unseen' = unseen /\ Resumes' # {}
    BY <1>0, <2>1, <2>4
  <2> QED
    BY <2>1, <2>2, <2>3, <2>5, <2>6, PageWaits
<1>3. CASE UploadRefused
  <2>1. /\ action.do = "upload" /\ action' = NoAction
        /\ UNCHANGED <<member, trigger, choices, setup, place, unseen>>
    BY <1>3 DEF UploadRefused
  <2>2. AccountFacts' = AccountFacts /\ Resumes' = Resumes
    BY <2>1 DEF AccountFacts, Resumes
  <2>3. /\ member' \in MemberRow /\ unseen' \in BOOLEAN /\ unseen' = unseen /\ action'.do = "none"
        /\ action' \in ActionRow
        /\ Resumes # {} => Resumes' # {}
    BY <1>0, <2>1, <2>2, FreshRows
  <2> QED
    BY <2>1, <2>2, <2>3, PageWaits
<1> QED
  BY <1>1, <1>2, <1>3

(* The parser, a token that is revoked, and mail that is saved.            *)
LEMMA MemberChanges ==
  ASSUME OnboardInv, NEW state \in {"parsed", "failed", "late"}, NEW mail \in SUBSET {"gmail", "password"},
         ParseEnds(state) \/ GmailRevoked \/ SaveMail(mail)
  PROVE  OnboardInv'
<1>0. /\ member \in MemberRow /\ action \in ActionRow /\ place \in PlaceRow /\ unseen \in BOOLEAN
      /\ ActionsAskAgain /\ PlaceFits
  BY TypesOfOnboarding DEF OnboardInv
<1>1. CASE ParseEnds(state)
  <2>1. /\ member.newest # "none" /\ member' = [member EXCEPT !.newest = state]
        /\ UNCHANGED <<trigger, choices, setup, place, action, unseen>>
    BY <1>1 DEF ParseEnds
  <2>2. /\ member' \in MemberRow /\ member'.newest # "none" /\ member'.mail = member.mail
        /\ member'.older = member.older /\ member'.subscribed = member.subscribed
    BY <1>0, <2>1, MemberTypes DEF MemberRow
  <2>3. Resumes' = Resumes
    BY <2>1, <2>2 DEF Resumes
  <2>4. AccountFacts' = AccountFacts
    BY <2>2, <2>3 DEF AccountFacts
  <2>5. /\ unseen' \in BOOLEAN /\ unseen' = unseen /\ action' = action /\ action' \in ActionRow
        /\ Resumes # {} => Resumes' # {}
    BY <1>0, <2>1, <2>3
  <2>6. /\ action'.do = "none" => action' = NoAction
        /\ action'.do # "none" => ~Loading(setup)
        /\ action'.do = "uploaded" => Resumes' # {}
        /\ action'.do = "saved" /\ action'.at = "onboarding" => "emailSkipped" \notin choices
    BY <1>0, <2>3, <2>5 DEF ActionsAskAgain
  <2> QED
    BY <2>1, <2>2, <2>4, <2>5, <2>6, PageWaits
<1>2. CASE GmailRevoked
  <2>1. /\ member' = [member EXCEPT !.mail = member.mail \ {"gmail"}] /\ unseen' = TRUE
        /\ UNCHANGED <<trigger, choices, setup, place, action>>
    BY <1>2 DEF GmailRevoked
  <2>2. member.mail \ {"gmail"} \in SUBSET {"gmail", "password"}
    BY <1>0 DEF MemberRow
  <2>3. member' \in MemberRow /\ member'.newest = member.newest /\ member'.older = member.older
    BY <1>0, <2>1, <2>2, MemberTypes
  <2>4. Resumes' = Resumes
    BY <2>3 DEF Resumes
  <2>5. /\ unseen' \in BOOLEAN /\ unseen' /\ action' = action /\ action' \in ActionRow
        /\ Resumes # {} => Resumes' # {}
    BY <1>0, <2>1, <2>4
  <2>6. /\ action'.do = "none" => action' = NoAction
        /\ action'.do # "none" => ~Loading(setup)
        /\ action'.do = "uploaded" => Resumes' # {}
        /\ action'.do = "saved" /\ action'.at = "onboarding" => "emailSkipped" \notin choices
    BY <1>0, <2>4, <2>5 DEF ActionsAskAgain
  <2> QED
    BY <2>1, <2>3, <2>5, <2>6, PageWaits
<1>3. CASE SaveMail(mail)
  <2>1. /\ action = NoAction
        /\ OnStep("email") \/ OnSetup
        /\ member' = [member EXCEPT !.mail = mail] /\ action' = [do |-> "saved", at |-> place.at]
        /\ UNCHANGED <<trigger, choices, setup, place, unseen>>
    BY <1>3 DEF SaveMail
  <2>2. member' \in MemberRow /\ member'.newest = member.newest /\ member'.older = member.older
    BY <1>0, <2>1, MemberTypes
  <2>3. Resumes' = Resumes
    BY <2>2 DEF Resumes
  <2>4. action' \in ActionRow /\ action'.do = "saved" /\ action'.at = place.at
    BY <1>0, <2>1 DEF ActionRow, PlaceRow
  <2>5. /\ ~Loading(setup) /\ place.at # "dashboard" /\ ~place.celebrating
        /\ place.at = "onboarding" => "emailSkipped" \notin choices
    <3>1. CASE OnStep("email")
      BY <3>1 DEF OnStep, CurrentStep, FlowStep
    <3>2. CASE OnSetup
      BY <1>0, <3>2 DEF OnSetup, PlaceFits
    <3> QED
      BY <2>1, <3>1, <3>2
  <2> QED
    BY <1>0, <2>1, <2>2, <2>3, <2>4, <2>5, FreshRows, PageWaits
<1> QED
  BY <1>1, <1>2, <1>3

(* A page that asks again shows what it knows by then.                     *)
LEMMA AskingPages ==
  ASSUME OnboardInv, NEW s \in SetupRow, setup' = AskAgain(s), ~Loading(s),
         \/ place' = place /\ choices' = choices /\ s = setup /\ s.known /\ action' = action
         \/ place' = Refreshed(setup', choices') /\ action' = NoAction,
         UNCHANGED <<trigger, unseen>>, member' = member,
         choices' \subseteq choices,
         "resume" \in s.facts => Resumes # {}
  PROVE  OnboardInv'
<1> USE DEF OnboardInv
<1>0. /\ place \in PlaceRow /\ action \in ActionRow
      /\ choices \subseteq {"emailSkipped", "extensionDone"} /\ unseen \in BOOLEAN
  BY TypesOfOnboarding
<1>1. /\ setup' \in SetupRow /\ setup'.known = s.known /\ setup'.facts = s.facts
      /\ setup'.fetch.pc = "asked"
  BY AsksAgain
<1>2. s.known => ~Loading(setup')
  BY <1>1 DEF Loading
<1>3. /\ place' \in PlaceRow /\ place'.at = Guarded(setup', choices', place'.at)
      /\ place'.celebrating => place'.at = "onboarding"
  <2>1. CASE place' = place /\ choices' = choices /\ s = setup /\ s.known
    <3>1. Loading(setup') = Loading(s)
      BY <1>2, <2>1 DEF Loading
    <3>2. Guarded(setup', choices, place.at) = Guarded(s, choices, place.at)
      BY <1>1, <3>1, GuardedAlike
    <3> QED
      BY <1>0, <2>1, <3>2 DEF PlaceFits
  <2>2. CASE place' = Refreshed(setup', choices')
    BY <1>0, <2>2, RefreshedFits
  <2> QED
    BY <2>1, <2>2
<1>4. PlaceFits'
  BY <1>3, PlaceGoesOn
<1>5. Resumes' = Resumes
  BY DEF Resumes
<1>6. CopyAgrees' /\ ResumesStay' /\ MailIsSeen'
  BY <1>1, <1>5 DEF CopyAgrees, ResumesStay, MailIsSeen
<1>7. action' \in ActionRow
  BY <1>0, FreshRows
<1>8. ActionsAskAgain'
  BY <1>2, <1>5, FreshRows DEF ActionsAskAgain, Loading
<1>9. OnboardTypeOK'
  BY <1>0, <1>1, <1>3, <1>7 DEF OnboardTypeOK, SetupRow, PlaceRow, ActionRow
<1> QED
  BY <1>4, <1>6, <1>8, <1>9

LEMMA AskingKeeps == OnboardInv /\ (PollParsing \/ UploadAnswered \/ MailSaved) => OnboardInv'
<1> SUFFICES ASSUME OnboardInv, PollParsing \/ UploadAnswered \/ MailSaved PROVE OnboardInv'
  OBVIOUS
<1>0. setup \in SetupRow /\ ActionsAskAgain /\ ResumesStay
  BY TypesOfOnboarding DEF OnboardInv
<1>1. CASE PollParsing
  <2>1. /\ setup' = AskAgain(setup) /\ ~Loading(setup) /\ setup.known
        /\ UNCHANGED <<member, trigger, choices, place, action, unseen>>
    BY <1>1 DEF PollParsing, Loading
  <2> QED
    BY <1>0, <2>1, AskingPages DEF ResumesStay
<1>2. CASE UploadAnswered
  <2> DEFINE facts == IF action.at = "onboarding" /\ setup.known THEN setup.facts \cup {"resume"} ELSE setup.facts
             s == [setup EXCEPT !.facts = facts]
  <2>1. /\ action.do = "uploaded" /\ action' = NoAction /\ setup' = AskAgain(s)
        /\ place' = Refreshed(setup', choices) /\ UNCHANGED <<member, trigger, choices, unseen>>
    BY <1>2 DEF UploadAnswered
  <2>2. facts \subseteq SetupFacts
    BY <1>0 DEF SetupRow, SetupFacts
  <2> HIDE DEF facts
  <2>3. s \in SetupRow /\ s.known = setup.known /\ s.fetch = setup.fetch
    BY <1>0, <2>2 DEF SetupRow
  <2>4. ~Loading(s) /\ Resumes # {}
    BY <1>0, <2>1, <2>3 DEF ActionsAskAgain, Loading
  <2> HIDE DEF s
  <2> QED
    BY <2>1, <2>3, <2>4, AskingPages
<1>3. CASE MailSaved
  <2>1. /\ setup' = AskAgain(setup) /\ ~Loading(setup) /\ action' = NoAction /\ choices' \subseteq choices
        /\ place' = Refreshed(setup', choices') /\ UNCHANGED <<member, trigger, unseen>>
    BY <1>0, <1>3 DEF MailSaved, ActionsAskAgain
  <2> QED
    BY <1>0, <2>1, AskingPages DEF ResumesStay
<1> QED
  BY <1>1, <1>2, <1>3

(* A way to another place, or to the end of the steps.                     *)
LEMMA WaysFit ==
  ASSUME OnboardInv, UNCHANGED <<member, trigger, setup, action, unseen>>,
         choices' \subseteq {"emailSkipped", "extensionDone"},
         action = NoAction \/ (choices' = choices /\ place.celebrating),
         place' \in PlaceRow, place'.at = Guarded(setup, choices', place'.at),
         place'.celebrating => place'.at = "onboarding"
  PROVE  OnboardInv'
<1> USE DEF OnboardInv
<1>1. PlaceFits'
  BY PlaceGoesOn
<1>2. Resumes' = Resumes /\ AccountFacts' = AccountFacts
  BY DEF Resumes, AccountFacts
<1>3. CopyAgrees' /\ ResumesStay' /\ MailIsSeen'
  BY <1>2, FreshRows DEF CopyAgrees, FactsAgree, ResumesStay, MailIsSeen
<1>4. ActionsAskAgain'
  BY <1>2, FreshRows DEF ActionsAskAgain, Loading
<1>5. OnboardTypeOK'
  BY DEF OnboardTypeOK, PlaceRow
<1> QED
  BY <1>1, <1>3, <1>4, <1>5

LEMMA WaysKeep ==
  ASSUME OnboardInv, NEW at \in Routes, SkipForNow \/ ExtensionSettled \/ CelebrationEnds \/ Visit(at)
  PROVE  OnboardInv'
<1>0. /\ place \in PlaceRow /\ choices \subseteq {"emailSkipped", "extensionDone"} /\ "dashboard" \in Routes
      /\ PlaceFits
  BY TypesOfOnboarding DEF OnboardInv, Routes
<1>1. CASE SkipForNow
  <2>1. /\ choices' \subseteq {"emailSkipped", "extensionDone"} /\ action = NoAction
        /\ UNCHANGED <<member, trigger, setup, action, unseen>>
        /\ place' = ShownAt(setup, choices', "dashboard")
    BY <1>0, <1>1 DEF SkipForNow
  <2> QED
    BY <1>0, <2>1, ShownFits, WaysFit
<1>2. CASE ExtensionSettled
  <2>1. /\ choices' = choices \cup {"extensionDone"} /\ action = NoAction /\ place.at = "onboarding"
        /\ UNCHANGED <<member, trigger, setup, action, unseen>>
        /\ place' = [place EXCEPT !.celebrating = TRUE]
    BY <1>2 DEF ExtensionSettled, OnStep
  <2>2. place' \in PlaceRow /\ place'.at = "onboarding"
    BY <1>0, <2>1 DEF PlaceRow
  <2>3. Guarded(setup, choices', "onboarding") = Guarded(setup, choices, "onboarding")
    BY DEF Guarded
  <2>4. choices' \subseteq {"emailSkipped", "extensionDone"}
    BY <1>0, <2>1
  <2> QED
    BY <1>0, <2>1, <2>2, <2>3, <2>4, WaysFit DEF PlaceFits
<1>3. CASE CelebrationEnds
  <2>1. /\ place.celebrating /\ UNCHANGED <<member, trigger, choices, setup, action, unseen>>
        /\ place' = ShownAt(setup, choices', "dashboard")
    BY <1>3 DEF CelebrationEnds
  <2> QED
    BY <1>0, <2>1, ShownFits, WaysFit
<1>4. CASE Visit(at)
  <2>1. /\ action = NoAction /\ UNCHANGED <<member, trigger, choices, setup, action, unseen>>
        /\ place' = ShownAt(setup, choices', at)
    BY <1>4 DEF Visit
  <2> QED
    BY <1>0, <2>1, ShownFits, WaysFit
<1> QED
  BY <1>1, <1>2, <1>3, <1>4

(* The entitlement that is merged: a fetch under way does not know of it.  *)
LEMMA SubscribeKeeps == OnboardInv /\ Subscribe => OnboardInv'
<1> SUFFICES ASSUME OnboardInv, Subscribe PROVE OnboardInv'
  OBVIOUS
<1>0. /\ setup \in SetupRow /\ place \in PlaceRow /\ member \in MemberRow
      /\ CopyAgrees /\ ActionsAskAgain /\ ResumesStay /\ MailIsSeen
  BY TypesOfOnboarding DEF OnboardInv
<1>1. /\ action = NoAction /\ member' = [member EXCEPT !.subscribed = TRUE]
      /\ place' = Refreshed(setup', choices) /\ UNCHANGED <<trigger, choices, action, unseen>>
      /\ setup' = [AskAgain(setup) EXCEPT !.known = TRUE, !.facts = AskAgain(setup).facts \cup {"subscribed"}]
  BY DEF Subscribe
<1>2. /\ member' \in MemberRow /\ member'.newest = member.newest /\ member'.older = member.older
      /\ member'.mail = member.mail /\ member'.subscribed
  BY <1>0, <1>1 DEF MemberRow
<1>3. Resumes' = Resumes
  BY <1>2 DEF Resumes
<1>4. AccountFacts' = AccountFacts \cup {"subscribed"}
  BY <1>2, <1>3 DEF AccountFacts, SetupFacts
<1>5. /\ AskAgain(setup) \in SetupRow /\ AskAgain(setup).facts = setup.facts
      /\ AskAgain(setup).fetch.pc = "asked" \/ (Loading(setup) /\ AskAgain(setup) = setup)
  BY <1>0, AsksAgain
<1>6. AskAgain(setup).facts \cup {"subscribed"} \subseteq SetupFacts
  BY <1>5 DEF SetupRow, SetupFacts
<1>7. /\ setup' \in SetupRow /\ setup'.known /\ setup'.facts = setup.facts \cup {"subscribed"}
      /\ setup'.fetch = AskAgain(setup).fetch
  BY <1>1, <1>5, <1>6 DEF SetupRow
<1>8. setup'.fetch.pc = "asked" \/ (setup'.fetch = setup.fetch /\ setup'.fetch.pc # "none")
  BY <1>5, <1>7 DEF Loading
<1>9. PlaceFits' /\ place' \in PlaceRow
  BY <1>0, <1>1, RefreshedFits, PlaceGoesOn
<1>10. CopyAgrees'
  BY <1>0, <1>1, <1>4, <1>8, FreshRows DEF CopyAgrees, FactsAgree
<1>11. ResumesStay' /\ MailIsSeen'
  BY <1>0, <1>1, <1>2, <1>3, <1>7, <1>8, FreshRows DEF ResumesStay, MailIsSeen
<1>12. ActionsAskAgain'
  BY <1>1, FreshRows DEF ActionsAskAgain
<1>13. OnboardTypeOK'
  BY <1>1, <1>2, <1>7, <1>9 DEF OnboardInv, OnboardTypeOK, MemberRow, SetupRow, PlaceRow
<1> QED
  BY <1>9, <1>10, <1>11, <1>12, <1>13 DEF OnboardInv

LEMMA NewPagesKeep ==
  ASSUME OnboardInv, NEW at \in Routes, NEW allowed \in BOOLEAN, Reload(at) \/ ConnectGmail(allowed)
  PROVE  OnboardInv'
<1>0. place \in PlaceRow /\ member \in MemberRow
  BY TypesOfOnboarding DEF OnboardInv
<1>1. CASE Reload(at)
  BY <1>0, <1>1, NewPagesFit DEF Reload
<1>2. CASE ConnectGmail(allowed)
  <2>1. /\ action = NoAction /\ NewPage(place.at) /\ UNCHANGED <<trigger, choices, action>>
        /\ member' = [member EXCEPT !.mail = IF allowed THEN member.mail \cup {"gmail"} ELSE member.mail]
    BY <1>2 DEF ConnectGmail
  <2>2. (IF allowed THEN member.mail \cup {"gmail"} ELSE member.mail) \in SUBSET {"gmail", "password"}
    BY <1>0 DEF MemberRow
  <2>3. member' \in MemberRow /\ place.at \in Routes
    BY <1>0, <2>1, <2>2 DEF MemberRow, PlaceRow
  <2> QED
    BY <2>1, <2>3, NewPagesFit
<1> QED
  BY <1>1, <1>2

LEMMA OnboardStep == OnboardInv /\ [OnboardNext]_onboardVars => OnboardInv'
<1> SUFFICES ASSUME OnboardInv, [OnboardNext]_onboardVars PROVE OnboardInv'
  OBVIOUS
<1>1. CASE StatusRead \/ StatusAnswered \/ SetupFails
  BY <1>1, StatusReadKeeps, AnswersKeep
<1>2. CASE PollParsing \/ UploadAnswered \/ MailSaved
  BY <1>2, AskingKeeps
<1>3. CASE ChooseFile \/ UploadStored \/ UploadRefused
  BY <1>3, UploadsKeep
<1>4. ASSUME NEW state \in {"parsed", "failed", "late"}, ParseEnds(state) PROVE OnboardInv'
  <2>1. {} \in SUBSET {"gmail", "password"}
    OBVIOUS
  <2> QED
    BY <1>4, <2>1, MemberChanges
<1>5. CASE GmailRevoked
  <2>1. {} \in SUBSET {"gmail", "password"}
    OBVIOUS
  <2> QED
    BY <1>5, <2>1, MemberChanges
<1>6. ASSUME NEW mail \in SUBSET {"gmail", "password"}, SaveMail(mail) PROVE OnboardInv'
  BY <1>6, MemberChanges
<1>7. CASE SkipForNow \/ ExtensionSettled \/ CelebrationEnds
  BY <1>7, WaysKeep DEF Routes
<1>8. CASE Subscribe
  BY <1>8, SubscribeKeeps
<1>9. ASSUME NEW allowed \in BOOLEAN, ConnectGmail(allowed) PROVE OnboardInv'
  BY <1>9, NewPagesKeep DEF Routes
<1>10. ASSUME NEW at \in Routes, Visit(at) \/ Reload(at) PROVE OnboardInv'
  BY <1>10, WaysKeep, NewPagesKeep
<1>11. CASE UNCHANGED onboardVars
  <2>1. UNCHANGED <<member, trigger, choices, setup, place, action, unseen>>
    BY <1>11 DEF onboardVars
  <2>2. Resumes' = Resumes /\ AccountFacts' = AccountFacts
    BY <2>1 DEF Resumes, AccountFacts
  <2>3. PlaceFits'
    BY <2>1, PlaceGoesOn DEF OnboardInv, PlaceFits
  <2>4. CopyAgrees' /\ ActionsAskAgain' /\ ResumesStay' /\ MailIsSeen'
    BY <2>1, <2>2 DEF OnboardInv, CopyAgrees, FactsAgree, ActionsAskAgain, ResumesStay, MailIsSeen, Loading
  <2>5. OnboardTypeOK'
    BY <2>1 DEF OnboardInv, OnboardTypeOK
  <2> QED
    BY <2>3, <2>4, <2>5 DEF OnboardInv
<1> QED
  BY <1>1, <1>2, <1>3, <1>4, <1>5, <1>6, <1>7, <1>8, <1>9, <1>10, <1>11 DEF OnboardNext

(* A page whose copy agrees is where the account calls for.                *)
LEMMA OwedStepIsShown == OnboardInv => StepIsOwed
<1> SUFFICES ASSUME OnboardInv, setup.fetch.pc = "none", action = NoAction, ~unseen, ~place.celebrating,
                    NEW truth, truth = [setup EXCEPT !.known = TRUE, !.facts = AccountFacts]
             PROVE  /\ setup.known /\ FlowStep(setup, choices) = FlowStep(truth, choices)
                    /\ Guarded(truth, choices, place.at) = place.at
  BY DEF StepIsOwed
<1>1. /\ setup \in SetupRow /\ place \in PlaceRow /\ CopyAgrees /\ PlaceFits
  BY TypesOfOnboarding DEF OnboardInv
<1>2. setup.known /\ FactsAgree(setup.facts)
  BY <1>1, FreshRows DEF CopyAgrees
<1>3. truth.known /\ truth.facts = AccountFacts /\ ~Loading(truth) /\ ~Loading(setup)
  BY <1>1, <1>2 DEF SetupRow, Loading
<1>4. FlowStep(setup, choices) = FlowStep(truth, choices)
  BY <1>2, <1>3 DEF FlowStep, FactsAgree
<1>5. "subscribed" \notin truth.facts => "subscribed" \notin setup.facts
  BY <1>2, <1>3 DEF FactsAgree
<1>6. place.at # "home"
  BY <1>1, <1>3 DEF PlaceFits, Guarded, FromHome
<1>7. MustSubscribe(truth, place.at) => MustSubscribe(setup, place.at)
  BY <1>2, <1>5 DEF MustSubscribe
<1>8. place.at = "dashboard" => FlowStep(setup, choices) = "complete"
  BY <1>1, <1>3 DEF PlaceFits, Guarded, MustSubscribe
<1>9. MustSubscribe(setup, place.at) => place.at = "subscriptions"
  BY <1>1, <1>3, <1>6 DEF PlaceFits, Guarded
<1>10. ~MustSubscribe(truth, place.at)
  BY <1>7, <1>9 DEF MustSubscribe
<1>11. Guarded(truth, choices, place.at) = place.at
  BY <1>3, <1>4, <1>6, <1>8, <1>10 DEF Guarded
<1> QED
  BY <1>2, <1>4, <1>11

(* A resume the setup calls ready is one an application finds.             *)
LEMMA ReadyResumesAreFound == ReadyIsUsable
<1>1. Parsed \subseteq Resumes /\ Resumes \subseteq {"newest", "older"}
  BY DEF Parsed, Resumes
<1> QED
  BY <1>1 DEF ReadyIsUsable, ResumeParseStatus, HasValidResume, ResolvedResume

LEMMA NobodyGoesBack ==
  ASSUME OnboardInv, [OnboardNext]_onboardVars, setup.known, place.at = "dashboard", place'.at = "onboarding"
  PROVE  \/ setup' = NothingKnown \/ unseen'
         \/ member'.mail = {} /\ "emailSkipped" \notin choices'
<1>1. /\ setup \in SetupRow /\ place \in PlaceRow /\ ActionsAskAgain /\ PlaceFits /\ ResumesStay /\ MailIsSeen
  BY TypesOfOnboarding DEF OnboardInv
<1>2. FlowStep(setup, choices) = "complete" /\ ~MustSubscribe(setup, "dashboard")
  BY <1>1 DEF PlaceFits, Guarded, Loading
<1>3. /\ "resume" \in setup.facts /\ "extensionDone" \in choices
      /\ "mail" \in setup.facts \/ "emailSkipped" \in choices
  BY <1>2 DEF FlowStep
<1>4. ~place.celebrating
  BY <1>1 DEF PlaceFits
<1>5. ASSUME NEW s \in SetupRow, NEW kept, FlowStep(s, kept) = "complete", s.known
      PROVE  Refreshed(s, kept).at # "onboarding"
  <2>1. Guarded(s, kept, "dashboard") \in {"dashboard", "subscriptions"}
    BY <1>5 DEF Guarded, Loading
  <2>2. Guarded(s, kept, "subscriptions") = "subscriptions"
    BY DEF Guarded, MustSubscribe
  <2> QED
    BY <1>1, <2>1, <2>2, RefreshedFits
<1>6. CASE StatusAnswered
  <2>1. /\ setup.fetch.pc = "read" /\ place' = Refreshed(setup', choices)
        /\ UNCHANGED <<member, trigger, choices, action, unseen>>
        /\ setup'.facts = setup.fetch.facts /\ setup'.known
    BY <1>6 DEF StatusAnswered
  <2>2. setup' \in SetupRow
    BY OnboardStep, TypesOfOnboarding, <1>6 DEF OnboardInv, OnboardTypeOK, SetupRow
  <2>3. "resume" \in setup'.facts
    BY <1>1, <1>3, <2>1 DEF ResumesStay
  <2>4. FlowStep(setup', choices) # "complete"
    BY <1>5, <2>1, <2>2
  <2>5. "mail" \notin setup'.facts /\ "emailSkipped" \notin choices
    BY <1>3, <2>3, <2>4 DEF FlowStep
  <2> QED
    BY <1>1, <2>1, <2>5 DEF MailIsSeen
<1>7. CASE SetupFails
  BY <1>7 DEF SetupFails
<1>8. CASE UploadAnswered \/ MailSaved
  <2>1. /\ choices' = choices /\ place' = Refreshed(setup', choices')
    BY <1>1, <1>8 DEF UploadAnswered, MailSaved, ActionsAskAgain
  <2>2. setup' \in SetupRow
    BY OnboardStep, TypesOfOnboarding, <1>8 DEF OnboardInv, OnboardTypeOK, SetupRow
  <2>3. setup'.known /\ setup.facts \subseteq setup'.facts
    <3>1. CASE MailSaved
      BY <1>1, <3>1, AsksAgain DEF MailSaved
    <3>2. CASE UploadAnswered
      <4> DEFINE facts == IF action.at = "onboarding" /\ setup.known THEN setup.facts \cup {"resume"}
                          ELSE setup.facts
                 s == [setup EXCEPT !.facts = facts]
      <4>1. facts \subseteq SetupFacts /\ setup.facts \subseteq facts
        BY <1>1 DEF SetupRow, SetupFacts
      <4> HIDE DEF facts
      <4>2. s \in SetupRow /\ s.known = setup.known /\ s.facts = facts
        BY <1>1, <4>1 DEF SetupRow
      <4>3. setup' = AskAgain(s)
        BY <3>2 DEF UploadAnswered, facts
      <4> HIDE DEF s
      <4> QED
        BY <4>1, <4>2, <4>3, AsksAgain
    <3> QED
      BY <1>8, <3>1, <3>2
  <2>4. FlowStep(setup', choices') = "complete"
    BY <1>3, <2>1, <2>3 DEF FlowStep
  <2> QED
    BY <1>5, <2>1, <2>2, <2>3, <2>4
<1>9. ASSUME NEW at \in Routes, Visit(at) PROVE FALSE
  <2>1. at \in {"setup", "subscriptions"} /\ place' = ShownAt(setup, choices, at)
    BY <1>9 DEF Visit, Routes
  <2>2. /\ Guarded(setup, choices, "setup") \in {"setup", "subscriptions"}
        /\ Guarded(setup, choices, "subscriptions") = "subscriptions"
    BY DEF Guarded, MustSubscribe
  <2> QED
    BY <2>1, <2>2, ShownFits
<1>10. ASSUME NEW at \in Routes, Reload(at) PROVE setup' = NothingKnown
  BY <1>10 DEF Reload, NewPage
<1>11. ASSUME NEW allowed \in BOOLEAN, ConnectGmail(allowed) PROVE setup' = NothingKnown
  BY <1>11 DEF ConnectGmail, NewPage
<1>12. CASE UNCHANGED place
  BY <1>12
<1> QED
  BY <1>4, <1>6, <1>7, <1>8, <1>9, <1>10, <1>11, <1>12
     DEF OnboardNext, onboardVars, StatusRead, PollParsing, ChooseFile, UploadStored, UploadRefused, ParseEnds,
         SaveMail, GmailRevoked, SkipForNow, ExtensionSettled, CelebrationEnds, Subscribe, OnStep

(* Whatever a user does and other pages change, the onboarding shows the   *)
(* step that is owed, what it calls ready can be used, and nobody who has  *)
(* reached the dashboard is sent back but for a reason.                    *)
THEOREM OnboardingStaysSound == OnboardSpec => OnboardingIsSound
<1>1. OnboardInv /\ [OnboardNext]_onboardVars =>
        (setup.known /\ place.at = "dashboard" /\ place'.at = "onboarding" =>
           \/ setup' = NothingKnown \/ unseen'
           \/ member'.mail = {} /\ "emailSkipped" \notin choices')
  BY NobodyGoesBack
<1> QED
  BY <1>1, OnboardStart, OnboardStep, OwedStepIsShown, ReadyResumesAreFound, PTL
     DEF OnboardSpec, OnboardingIsSound, NobodyIsSentBack

-----------------------------------------------------------------------------
(*****************************************************************************)
(* The AI keys of a user: the chain is in order, and what counts as verified *)
(* is.                                                                       *)
(*****************************************************************************)

KeyRow ==
  [there : BOOLEAN, prio : Nat, secret : Secrets, status : {"pending", "valid", "invalid"}]

ChainOpRow ==
  [pc : {"none", "write", "check", "verify", "promote"}, key : UserKeys \cup {NoUserKey}, secret : Secrets,
   first : BOOLEAN, seenKeys : SUBSET UserKeys, ok : BOOLEAN, kept : BOOLEAN]

(* A request has its key, puts one first that it has listed, and takes for *)
(* accepted what the provider accepts or what was kept.                    *)
OpsFit ==
  \A r \in ChainRequests :
    /\ chainOp[r].pc # "none" => chainOp[r].key \in UserKeys
    /\ chainOp[r].pc = "promote" => chainOp[r].key \in chainOp[r].seenKeys
    /\ chainOp[r].pc = "verify" /\ chainOp[r].ok /\ ~chainOp[r].kept => chainOp[r].secret \in GoodSecrets

ChainRows ==
  /\ chain \in [UserKeys -> KeyRow] /\ chainOp \in [ChainRequests -> ChainOpRow]
  /\ chainHistory \in [writes : Nat, overtaken : BOOLEAN, doubted : SUBSET UserKeys]

ChainInv == ChainRows /\ OpsFit /\ CredentialsAreSound

(* n keys that are put in order have the places from 0 to n - 1.           *)
LEMMA PlacesAreFilled ==
  ASSUME NEW S, IsFiniteSet(S), NEW rank \in Orders(S)
  PROVE  {rank[c] : c \in S} = 0 .. (Cardinality(S) - 1)
<1>1. Cardinality(S) \in Nat
  BY FS_CardinalityType
<1> DEFINE places == 0 .. (Cardinality(S) - 1)
<1>2. IsFiniteSet(places) /\ Cardinality(places) = Cardinality(S)
  BY <1>1, FS_Interval
<1>3. rank \in Injection(S, places)
  BY DEF Orders, Injection
<1>4. rank \in Surjection(S, places)
  BY <1>2, <1>3, FS_Injection
<1>5. rank \in [S -> places] /\ \A p \in places : \E c \in S : rank[c] = p
  BY <1>4 DEF Surjection
<1> QED
  BY <1>5

(* Rows have an order by priority, whatever their priorities are.          *)
LEMMA RowsHaveAnOrder ==
  ASSUME NEW S, IsFiniteSet(S), NEW prio \in [S -> Nat]
  PROVE  \E rank \in Orders(S) : \A c, d \in S : prio[c] < prio[d] => rank[c] < rank[d]
<1>1. Cardinality(S) \in Nat /\ ExistsBijection(1..Cardinality(S), S)
  BY FS_CardinalityType
<1>2. PICK name \in Bijection(1..Cardinality(S), S) : TRUE
  BY <1>1 DEF ExistsBijection
<1>3. name \in [1..Cardinality(S) -> S] /\ \A c \in S : \E i \in 1..Cardinality(S) : name[i] = c
  BY <1>2 DEF Bijection, Surjection, Injection
<1> DEFINE number == [c \in S |-> CHOOSE i \in 1..Cardinality(S) : name[i] = c]
<1>4. \A c \in S : number[c] \in Nat /\ name[number[c]] = c
  BY <1>1, <1>3
<1>5. \A c, d \in S : number[c] = number[d] => c = d
  BY <1>4
<1> HIDE DEF number
<1> DEFINE Before(d) == {c \in S : prio[c] < prio[d] \/ (prio[c] = prio[d] /\ number[c] < number[d])}
           rank == [d \in S |-> Cardinality(Before(d))]
<1>6. \A c \in S : /\ IsFiniteSet(Before(c)) /\ Cardinality(Before(c)) \in Nat
                   /\ Cardinality(Before(c)) <= Cardinality(S) - 1
  <2> TAKE c \in S
  <2>1. Before(c) \subseteq S \ {c} /\ S \ {c} \in SUBSET S
    BY <1>4
  <2>2. IsFiniteSet(S \ {c}) /\ Cardinality(S \ {c}) = Cardinality(S) - 1
    BY FS_RemoveElement
  <2> HIDE DEF Before
  <2>3. Before(c) \in SUBSET (S \ {c})
    BY <2>1
  <2>4. IsFiniteSet(Before(c)) /\ Cardinality(Before(c)) <= Cardinality(S \ {c})
    BY <2>2, <2>3, FS_Subset
  <2> QED
    BY <1>1, <2>2, <2>4, FS_CardinalityType
<1>7. ASSUME NEW c \in S, NEW d \in S,
             prio[c] < prio[d] \/ (prio[c] = prio[d] /\ number[c] < number[d])
      PROVE  Cardinality(Before(c)) < Cardinality(Before(d))
  <2>1. Before(c) \subseteq Before(d) /\ c \in Before(d) /\ c \notin Before(c)
    <3>1. prio[c] \in Nat /\ prio[d] \in Nat /\ number[c] \in Nat /\ number[d] \in Nat
      BY <1>4
    <3>2. \A e \in S : prio[e] \in Nat /\ number[e] \in Nat
      BY <1>4
    <3> QED
      BY <1>7, <3>1, <3>2
  <2> HIDE DEF Before
  <2>2. Before(c) \in SUBSET Before(d) /\ Before(c) # Before(d)
    BY <2>1
  <2>3. /\ Cardinality(Before(c)) <= Cardinality(Before(d))
        /\ Cardinality(Before(c)) # Cardinality(Before(d))
    BY <1>6, <2>2, FS_Subset
  <2> QED
    BY <1>6, <2>3
<1>8. rank \in [S -> 0 .. (Cardinality(S) - 1)]
  <2> HIDE DEF Before
  <2>1. \A c \in S : Cardinality(Before(c)) \in 0 .. (Cardinality(S) - 1)
    BY <1>1, <1>6
  <2> QED
    BY <2>1
<1>9. \A c, d \in S : c # d => rank[c] # rank[d]
  <2> TAKE c \in S, d \in S
  <2> HAVE c # d
  <2>1. prio[c] \in Nat /\ prio[d] \in Nat /\ number[c] \in Nat /\ number[d] \in Nat /\ number[c] # number[d]
    BY <1>4, <1>5
  <2>2. \/ prio[c] < prio[d] \/ (prio[c] = prio[d] /\ number[c] < number[d])
        \/ prio[d] < prio[c] \/ (prio[d] = prio[c] /\ number[d] < number[c])
    BY <2>1
  <2> HIDE DEF Before
  <2>3. rank[c] < rank[d] \/ rank[d] < rank[c]
    BY <1>7, <2>2
  <2> QED
    BY <1>8, <2>3
<1>10. \A c, d \in S : prio[c] < prio[d] => rank[c] < rank[d]
  <2> HIDE DEF Before
  <2> QED
    BY <1>7
<1> HIDE DEF rank
<1>11. rank \in Orders(S)
  BY <1>8, <1>9 DEF Orders, IsInjective
<1> QED
  BY <1>10, <1>11

(* The first of an order that another is put before.                       *)
LEMMA FirstIsAnOrder ==
  ASSUME NEW S, IsFiniteSet(S), NEW rank \in Orders(S), NEW c \in S
  PROVE  WithFirst(c, rank) \in Orders(S)
<1>1. Cardinality(S) \in Nat
  BY FS_CardinalityType
<1>2. /\ rank \in [S -> 0 .. (Cardinality(S) - 1)] /\ DOMAIN rank = S
      /\ \A d, e \in S : rank[d] = rank[e] => d = e
  BY DEF Orders, IsInjective
<1> DEFINE new == WithFirst(c, rank)
<1>3. /\ DOMAIN new = S /\ new = [d \in S |-> new[d]]
      /\ \A d \in S : new[d] = IF d = c THEN 0 ELSE rank[d] + (IF rank[d] < rank[c] THEN 1 ELSE 0)
  BY <1>2 DEF WithFirst
<1> HIDE DEF new
<1>4. \A d \in S : new[d] \in 0 .. (Cardinality(S) - 1)
  BY <1>1, <1>2, <1>3
<1>5. \A d, e \in S : new[d] = new[e] => d = e
  BY <1>1, <1>2, <1>3
<1> QED
  BY <1>3, <1>4, <1>5 DEF Orders, IsInjective, new

LEMMA KeysAreFinite ==
  ASSUME NEW S, S \subseteq UserKeys
  PROVE  IsFiniteSet(S) /\ Cardinality(S) \in Nat
<1>1. S \in SUBSET UserKeys
  OBVIOUS
<1> QED
  BY <1>1, ChainAssumption, FS_Subset, FS_CardinalityType

LEMMA EmptyRows == NoRow \in KeyRow /\ ~NoRow.there /\ NoOp \in ChainOpRow /\ NoOp.pc = "none"
<1>1. (CHOOSE s \in Secrets : TRUE) \in Secrets
  BY ChainAssumption
<1>2. NoRow \in KeyRow /\ ~NoRow.there
  BY <1>1 DEF NoRow, KeyRow
<1>3. NoOp \in ChainOpRow /\ NoOp.pc = "none"
  BY <1>1 DEF NoOp, ChainOpRow
<1> QED
  BY <1>2, <1>3

(* applyPriorities over all the keys that are there fills the places.      *)
LEMMA ListedKeysAreDense ==
  ASSUME NEW rows \in [UserKeys -> KeyRow], NEW S, S = {c \in UserKeys : rows[c].there},
         NEW rank \in Orders(S), chain' = WithPriorities(rows, rank)
  PROVE  /\ chain' \in [UserKeys -> KeyRow] /\ ChainIsDense' /\ HeldKeys' = S
         /\ \A c \in UserKeys : /\ chain'[c].there = rows[c].there /\ chain'[c].status = rows[c].status
                                /\ chain'[c].secret = rows[c].secret
<1>1. IsFiniteSet(S) /\ Cardinality(S) \in Nat
  BY KeysAreFinite
<1>2. DOMAIN rank = S /\ \A c \in S : rank[c] \in Nat
  BY <1>1 DEF Orders
<1>3. chain' = [c \in UserKeys |-> IF ~rows[c].there THEN rows[c] ELSE [rows[c] EXCEPT !.prio = rank[c]]]
  BY <1>2 DEF WithPriorities
<1>4. \A c \in UserKeys :
        /\ chain'[c] \in KeyRow /\ chain'[c].there = rows[c].there /\ chain'[c].status = rows[c].status
        /\ chain'[c].secret = rows[c].secret /\ (c \in S => chain'[c].prio = rank[c])
  <2> TAKE c \in UserKeys
  <2>1. rows[c] \in KeyRow
    OBVIOUS
  <2>2. CASE ~rows[c].there
    BY <1>3, <2>1, <2>2
  <2>3. CASE rows[c].there
    <3>1. c \in S /\ rank[c] \in Nat /\ chain'[c] = [rows[c] EXCEPT !.prio = rank[c]]
      BY <1>2, <1>3, <2>3
    <3> QED
      BY <2>1, <3>1 DEF KeyRow
  <2> QED
    BY <2>2, <2>3
<1>5. HeldKeys' = S
  BY <1>4 DEF HeldKeys
<1>6. {chain'[c].prio : c \in S} = {rank[c] : c \in S}
  BY <1>4
<1>7. ChainIsDense'
  BY <1>1, <1>5, <1>6, PlacesAreFilled DEF ChainIsDense
<1>8. chain' \in [UserKeys -> KeyRow]
  BY <1>3, <1>4
<1> QED
  BY <1>4, <1>5, <1>7, <1>8

(* A request that goes on to a state that fits.                            *)
LEMMA OpsGoOn ==
  ASSUME chainOp \in [ChainRequests -> ChainOpRow], OpsFit, NEW r \in ChainRequests, NEW op \in ChainOpRow,
         chainOp' = [chainOp EXCEPT ![r] = op],
         op.pc # "none" => op.key \in UserKeys,
         op.pc = "promote" => op.key \in op.seenKeys,
         op.pc = "verify" /\ op.ok /\ ~op.kept => op.secret \in GoodSecrets
  PROVE  chainOp' \in [ChainRequests -> ChainOpRow] /\ OpsFit'
BY DEF OpsFit

LEMMA OpsEnd ==
  ASSUME chainOp \in [ChainRequests -> ChainOpRow], OpsFit, NEW r \in ChainRequests,
         Ends(r) \/ (ChainGoes(r, "check") /\ chainOp[r].pc = "write")
  PROVE  chainOp' \in [ChainRequests -> ChainOpRow] /\ OpsFit'
<1>1. CASE Ends(r)
  BY <1>1, EmptyRows, OpsGoOn DEF Ends
<1>2. CASE ChainGoes(r, "check") /\ chainOp[r].pc = "write"
  <2> DEFINE op == [chainOp[r] EXCEPT !.pc = "check"]
  <2>1. chainOp[r] \in ChainOpRow /\ chainOp[r].key \in UserKeys
    BY <1>2 DEF OpsFit
  <2>2. op \in ChainOpRow /\ op.pc = "check" /\ op.key = chainOp[r].key
    BY <2>1 DEF ChainOpRow
  <2>3. chainOp' = [chainOp EXCEPT ![r] = op]
    BY <1>2 DEF ChainGoes
  <2> QED
    BY <2>1, <2>2, <2>3, OpsGoOn
<1> QED
  BY <1>1, <1>2

(* What a write leaves in the history.                                     *)
LEMMA WritesAreCounted ==
  ASSUME chainHistory \in [writes : Nat, overtaken : BOOLEAN, doubted : SUBSET UserKeys],
         NEW seen, NEW ordered \in BOOLEAN
  PROVE  LET new == Counted(seen, ordered) IN
           /\ new \in [writes : Nat, overtaken : BOOLEAN, doubted : SUBSET UserKeys]
           /\ new.doubted = chainHistory.doubted /\ new.writes = chainHistory.writes
           /\ ~new.overtaken => seen = HeldKeys /\ (chainHistory.overtaken => ordered)
<1>1. (seen # HeldKeys \/ (chainHistory.overtaken /\ ~ordered)) \in BOOLEAN
  OBVIOUS
<1> QED
  BY <1>1 DEF Counted

LEMMA ChainStart == ChainInit => ChainInv
<1> SUFFICES ASSUME ChainInit PROVE ChainInv
  OBVIOUS
<1>1. PICK S \in SUBSET UserKeys, rank \in Orders(UserKeys) : chain = GoodChain(S, rank)
  BY DEF ChainInit
<1>2. (CHOOSE s \in GoodSecrets : TRUE) \in GoodSecrets /\ GoodSecrets \subseteq Secrets
  BY ChainAssumption
<1>3. \A c \in UserKeys : rank[c] \in Nat
  BY KeysAreFinite DEF Orders
<1>4. \A c \in UserKeys : /\ chain[c] \in KeyRow
                          /\ chain[c].there => chain[c].secret \in GoodSecrets
  <2> TAKE c \in UserKeys
  <2>1. CASE c \in S
    <3>1. chain[c] = [there |-> TRUE, prio |-> rank[c], status |-> "valid",
                      secret |-> CHOOSE s \in GoodSecrets : TRUE]
      BY <1>1, <2>1 DEF GoodChain
    <3> QED
      BY <1>2, <1>3, <3>1 DEF KeyRow
  <2>2. CASE c \notin S
    <3>1. chain[c] = NoRow
      BY <1>1, <2>2 DEF GoodChain
    <3> QED
      BY <3>1, EmptyRows
  <2> QED
    BY <2>1, <2>2
<1>5. chain \in [UserKeys -> KeyRow]
  BY <1>1, <1>4 DEF GoodChain
<1>6. ChainIsDense
  <2>1. CASE HeldKeys = {}
    <3>1. {chain[c].prio : c \in HeldKeys} = {} /\ Cardinality(HeldKeys) = 0
      BY <2>1, FS_EmptySet
    <3> QED
      BY <3>1 DEF ChainIsDense
  <2>2. CASE HeldKeys # {}
    BY <2>2 DEF ChainInit, ChainIsDense
  <2> QED
    BY <2>1, <2>2
<1>7. ValidMeansTested
  BY <1>4 DEF ValidMeansTested, HeldKeys
<1>8. /\ chainOp = [r \in ChainRequests |-> NoOp]
      /\ chainHistory = [writes |-> 0, overtaken |-> FALSE, doubted |-> {}]
  BY DEF ChainInit
<1> QED
  BY <1>5, <1>6, <1>7, <1>8, EmptyRows DEF ChainInv, ChainRows, OpsFit, CredentialsAreSound

(* A chain that stays as it is stays sound.                                *)
LEMMA ChainStays ==
  ASSUME CredentialsAreSound, chain' = chain, chainHistory'.overtaken = chainHistory.overtaken,
         chainHistory'.doubted = chainHistory.doubted
  PROVE  CredentialsAreSound'
BY DEF CredentialsAreSound, ChainIsDense, ValidMeansTested, HeldKeys

(* Rows that lose or gain no verified key but a tested one.                *)
LEMMA RowsStayTested ==
  ASSUME ValidMeansTested, chainHistory'.doubted = chainHistory.doubted,
         \A c \in UserKeys : \/ ~chain'[c].there \/ chain'[c].status # "valid"
                             \/ /\ chain[c].there /\ chain'[c].status = chain[c].status
                                /\ chain'[c].secret = chain[c].secret
  PROVE  ValidMeansTested'
BY DEF ValidMeansTested, HeldKeys

LEMMA AsksKeep ==
  ASSUME ChainInv, NEW r \in ChainRequests, NEW c \in UserKeys, NEW s \in Secrets, NEW first \in BOOLEAN,
         AskSave(r, c, s, first) \/ AskPromote(r, c)
  PROVE  ChainInv'
<1>0. ChainRows /\ OpsFit /\ CredentialsAreSound /\ HeldKeys \in SUBSET UserKeys
  BY DEF ChainInv, HeldKeys
<1>1. chain' = chain /\ chainHistory' = [chainHistory EXCEPT !.writes = @ + 1]
  BY DEF AskSave, AskPromote
<1>2. /\ chainHistory' \in [writes : Nat, overtaken : BOOLEAN, doubted : SUBSET UserKeys]
      /\ chainHistory'.overtaken = chainHistory.overtaken /\ chainHistory'.doubted = chainHistory.doubted
  BY <1>0, <1>1 DEF ChainRows
<1>3. CredentialsAreSound'
  BY <1>0, <1>1, <1>2, ChainStays
<1>4. chainOp' \in [ChainRequests -> ChainOpRow] /\ OpsFit'
  <2>1. CASE AskSave(r, c, s, first)
    <3> DEFINE op == [NoOp EXCEPT !.pc = "write", !.key = c, !.secret = s, !.first = first, !.seenKeys = HeldKeys]
    <3>1. chainOp' = [chainOp EXCEPT ![r] = op]
      BY <2>1 DEF AskSave
    <3>2. op \in ChainOpRow /\ op.pc = "write" /\ op.key = c
      BY <1>0, EmptyRows DEF ChainOpRow
    <3> HIDE DEF op
    <3> QED
      BY <1>0, <3>1, <3>2, OpsGoOn DEF ChainRows
  <2>2. CASE AskPromote(r, c)
    <3> DEFINE op == [NoOp EXCEPT !.pc = "promote", !.key = c, !.seenKeys = HeldKeys]
    <3>1. chainOp' = [chainOp EXCEPT ![r] = op] /\ c \in HeldKeys
      BY <2>2 DEF AskPromote
    <3>2. op \in ChainOpRow /\ op.pc = "promote" /\ op.key = c /\ op.seenKeys = HeldKeys
      BY <1>0, EmptyRows DEF ChainOpRow
    <3> HIDE DEF op
    <3> QED
      BY <1>0, <3>1, <3>2, OpsGoOn DEF ChainRows
  <2> QED
    BY <2>1, <2>2
<1> QED
  BY <1>0, <1>1, <1>2, <1>3, <1>4 DEF ChainInv, ChainRows

LEMMA SavedRowsArePending ==
  ASSUME chain \in [UserKeys -> KeyRow], NEW c \in UserKeys, NEW s \in Secrets, NEW prio \in Nat
  PROVE  /\ SavedRow(c, s, prio) \in KeyRow /\ SavedRow(c, s, prio).there
         /\ SavedRow(c, s, prio).prio = prio /\ SavedRow(c, s, prio).status = "pending"
<1>1. chain[c] \in KeyRow
  OBVIOUS
<1>2. Unverified(chain[c]) \in KeyRow /\ Unverified(chain[c]).status = "pending"
  BY <1>1 DEF Unverified, KeyRow
<1> QED
  BY <1>2 DEF SavedRow, KeyRow

(* A key that is replaced has its place, or the first one.                 *)
LEMMA ReplaceKeeps == ASSUME ChainInv, NEW r \in ChainRequests, ReplaceKey(r) PROVE ChainInv'
<1> DEFINE op == chainOp[r]
<1>0. /\ chain \in [UserKeys -> KeyRow] /\ chainOp \in [ChainRequests -> ChainOpRow] /\ OpsFit
      /\ chainHistory \in [writes : Nat, overtaken : BOOLEAN, doubted : SUBSET UserKeys]
      /\ CredentialsAreSound /\ ChainIsDense /\ ValidMeansTested
  BY DEF ChainInv, ChainRows, CredentialsAreSound
<1>1. op \in ChainOpRow /\ op.pc = "write" /\ op.key \in op.seenKeys /\ op.key \in UserKeys
  BY <1>0 DEF ReplaceKey, OpsFit
<1>2. CASE op.key \notin HeldKeys
  <2>1. Ends(r) /\ UNCHANGED <<chain, chainHistory>>
    BY <1>2 DEF ReplaceKey
  <2> QED
    BY <1>0, <2>1, OpsEnd, ChainStays DEF ChainInv, ChainRows
<1>3. CASE op.key \in HeldKeys
  <2> DEFINE saved == SavedRow(op.key, op.secret, chain[op.key].prio)
             row == [chain EXCEPT ![op.key] = saved]
  <2>1. /\ IF op.first THEN \E rank \in Orders(HeldKeys) : rank[op.key] = 0 /\ chain' = WithPriorities(row, rank)
           ELSE chain' = row
        /\ chainHistory' = Counted(IF op.first THEN HeldKeys ELSE op.seenKeys, op.first)
        /\ ChainGoes(r, "check")
    BY <1>3 DEF ReplaceKey
  <2>2. chain[op.key] \in KeyRow /\ op.secret \in Secrets /\ op.first \in BOOLEAN
    BY <1>0, <1>1 DEF ChainOpRow
  <2>3. saved \in KeyRow /\ saved.there /\ saved.prio = chain[op.key].prio /\ saved.status = "pending"
    <3>1. chain[op.key].prio \in Nat
      BY <2>2 DEF KeyRow
    <3> HIDE DEF op
    <3> QED
      BY <1>0, <1>1, <2>2, <3>1, SavedRowsArePending
  <2> HIDE DEF saved
  <2>4. /\ row \in [UserKeys -> KeyRow] /\ row[op.key] = saved
        /\ \A c \in UserKeys \ {op.key} : row[c] = chain[c]
    BY <1>0, <1>1, <2>3
  <2>5. {c \in UserKeys : row[c].there} = HeldKeys
    BY <1>3, <2>3, <2>4 DEF HeldKeys
  <2>6. /\ chainHistory' \in [writes : Nat, overtaken : BOOLEAN, doubted : SUBSET UserKeys]
        /\ chainHistory'.doubted = chainHistory.doubted
        /\ ~chainHistory'.overtaken => (chainHistory.overtaken => op.first)
    BY <1>0, <2>1, <2>2, WritesAreCounted
  <2>7. chainOp' \in [ChainRequests -> ChainOpRow] /\ OpsFit'
    BY <1>0, <1>1, <2>1, OpsEnd
  <2> HIDE DEF op, row
  <2>8. /\ chain' \in [UserKeys -> KeyRow] /\ ChainIsDense'
        /\ \A c \in UserKeys : /\ chain'[c].there = row[c].there /\ chain'[c].status = row[c].status
                               /\ chain'[c].secret = row[c].secret
    <3>1. CASE op.first
      <4>1. PICK rank \in Orders(HeldKeys) : chain' = WithPriorities(row, rank)
        BY <2>1, <3>1
      <4> QED
        BY <2>4, <2>5, <4>1, ListedKeysAreDense
    <3>2. CASE ~op.first
      <4>1. chain' = row
        BY <2>1, <3>2
      <4>2. HeldKeys' = HeldKeys
        BY <2>5, <4>1 DEF HeldKeys
      <4>3. \A c \in UserKeys : chain'[c].prio = chain[c].prio
        BY <2>3, <2>4, <4>1
      <4>4. {chain'[c].prio : c \in HeldKeys} = {chain[c].prio : c \in HeldKeys}
        BY <4>3 DEF HeldKeys
      <4>5. ChainIsDense'
        BY <1>0, <2>6, <3>2, <4>2, <4>4 DEF ChainIsDense
      <4> QED
        BY <2>4, <4>1, <4>5
    <3> QED
      BY <2>2, <3>1, <3>2
  <2>9. ValidMeansTested'
    <3>1. \A c \in UserKeys : \/ chain'[c].status # "valid"
                              \/ /\ chain[c].there = chain'[c].there /\ chain'[c].status = chain[c].status
                                 /\ chain'[c].secret = chain[c].secret
      BY <2>3, <2>4, <2>8
    <3> QED
      BY <1>0, <2>6, <3>1, RowsStayTested
  <2> QED
    BY <2>6, <2>7, <2>8, <2>9 DEF ChainInv, ChainRows, CredentialsAreSound
<1> QED
  BY <1>2, <1>3

(* A key that is added comes last, or first with the others behind it.     *)
LEMMA AddKeeps == ASSUME ChainInv, NEW r \in ChainRequests, AddKey(r) PROVE ChainInv'
<1> DEFINE op == chainOp[r]
<1>0. /\ chain \in [UserKeys -> KeyRow] /\ chainOp \in [ChainRequests -> ChainOpRow] /\ OpsFit
      /\ chainHistory \in [writes : Nat, overtaken : BOOLEAN, doubted : SUBSET UserKeys]
      /\ CredentialsAreSound /\ ChainIsDense /\ ValidMeansTested
  BY DEF ChainInv, ChainRows, CredentialsAreSound
<1>1. /\ op \in ChainOpRow /\ op.pc = "write" /\ op.key \notin op.seenKeys /\ op.key \in UserKeys
      /\ op.secret \in Secrets /\ op.first \in BOOLEAN /\ op.seenKeys \in SUBSET UserKeys
  BY <1>0 DEF AddKey, OpsFit, ChainOpRow
<1> DEFINE saved == SavedRow(op.key, op.secret, IF op.first THEN 0 ELSE Cardinality(op.seenKeys))
           added == [chain EXCEPT ![op.key] = saved]
           Places(rank) == [c \in op.seenKeys \cup {op.key} |-> IF c = op.key THEN 0 ELSE rank[c] + 1]
           Rows(rank) == IF op.first /\ op.seenKeys # {} THEN WithPriorities(added, Places(rank)) ELSE added
<1>2. PICK rank \in Orders(op.seenKeys) :
        IF op.key \in HeldKeys \/ ~OnePrimary(Rows(rank))
        THEN Ends(r) /\ UNCHANGED <<chain, chainHistory>>
        ELSE /\ chain' = Rows(rank) /\ ChainGoes(r, "check")
             /\ chainHistory' = Counted(op.seenKeys, op.first)
  BY DEF AddKey
<1>3. CASE Ends(r) /\ UNCHANGED <<chain, chainHistory>>
  BY <1>0, <1>3, OpsEnd, ChainStays DEF ChainInv, ChainRows
<1>4. CASE op.key \notin HeldKeys /\ OnePrimary(Rows(rank))
  <2>1. /\ chain' = Rows(rank) /\ ChainGoes(r, "check") /\ chainHistory' = Counted(op.seenKeys, op.first)
    BY <1>2, <1>4
  <2>2. chainOp' \in [ChainRequests -> ChainOpRow] /\ OpsFit'
    BY <1>0, <1>1, <2>1, OpsEnd
  <2>3. /\ chainHistory' \in [writes : Nat, overtaken : BOOLEAN, doubted : SUBSET UserKeys]
        /\ chainHistory'.doubted = chainHistory.doubted
        /\ ~chainHistory'.overtaken => op.seenKeys = HeldKeys /\ (chainHistory.overtaken => op.first)
    BY <1>0, <1>1, <2>1, WritesAreCounted
  <2>4. IsFiniteSet(op.seenKeys) /\ Cardinality(op.seenKeys) \in Nat
    BY <1>1, KeysAreFinite
  <2>5. /\ saved \in KeyRow /\ saved.there /\ saved.status = "pending"
        /\ saved.prio = (IF op.first THEN 0 ELSE Cardinality(op.seenKeys))
    <3>1. (IF op.first THEN 0 ELSE Cardinality(op.seenKeys)) \in Nat
      BY <2>4
    <3> HIDE DEF op
    <3> QED
      BY <1>0, <1>1, <3>1, SavedRowsArePending
  <2> HIDE DEF saved
  <2>6. /\ added \in [UserKeys -> KeyRow] /\ added[op.key] = saved
        /\ \A c \in UserKeys \ {op.key} : added[c] = chain[c]
    BY <1>0, <1>1, <2>5
  <2>7. {c \in UserKeys : added[c].there} = HeldKeys \cup {op.key}
    BY <1>1, <2>5, <2>6 DEF HeldKeys
  <2> HIDE DEF op, added
  <2>8. /\ chain' \in [UserKeys -> KeyRow]
        /\ ~chainHistory'.overtaken => ChainIsDense'
        /\ \A c \in UserKeys : /\ chain'[c].there = added[c].there /\ chain'[c].status = added[c].status
                               /\ chain'[c].secret = added[c].secret
    <3>1. CASE op.first /\ op.seenKeys # {}
      <4> DEFINE places == Places(rank)
      <4>1. chain' = WithPriorities(added, places)
        BY <2>1, <3>1
      <4>2. op.seenKeys = HeldKeys => places \in Orders(HeldKeys \cup {op.key})
        <5> SUFFICES ASSUME op.seenKeys = HeldKeys PROVE places \in Orders(HeldKeys \cup {op.key})
          OBVIOUS
        <5>1. Cardinality(HeldKeys \cup {op.key}) = Cardinality(op.seenKeys) + 1
          BY <1>1, <2>4, FS_AddElement
        <5>2. /\ rank \in [op.seenKeys -> 0 .. (Cardinality(op.seenKeys) - 1)]
              /\ \A c, d \in op.seenKeys : rank[c] = rank[d] => c = d
          BY DEF Orders, IsInjective
        <5>3. \A c \in op.seenKeys : rank[c] \in Nat /\ rank[c] + 1 \in 1 .. Cardinality(op.seenKeys)
          BY <2>4, <5>2
        <5>4. /\ DOMAIN places = HeldKeys \cup {op.key} /\ places[op.key] = 0
              /\ \A c \in op.seenKeys : places[c] = rank[c] + 1
          BY <1>1
        <5>5. places = [c \in HeldKeys \cup {op.key} |-> places[c]]
          OBVIOUS
        <5> HIDE DEF places
        <5>6. \A c \in HeldKeys \cup {op.key} :
                places[c] \in 0 .. (Cardinality(HeldKeys \cup {op.key}) - 1)
          BY <2>4, <5>1, <5>3, <5>4
        <5>7. \A c, d \in HeldKeys \cup {op.key} : places[c] = places[d] => c = d
          BY <5>2, <5>3, <5>4
        <5> QED
          BY <5>4, <5>5, <5>6, <5>7 DEF Orders, IsInjective
      <4>3. \A c \in op.seenKeys : rank[c] \in Nat
        BY <2>4 DEF Orders
      <4>4. \A c \in DOMAIN places : places[c] \in Nat
        BY <4>3
      <4> HIDE DEF places
      <4>5. \A c \in UserKeys :
              /\ chain'[c] \in KeyRow /\ chain'[c].there = added[c].there /\ chain'[c].status = added[c].status
              /\ chain'[c].secret = added[c].secret
        <5> TAKE c \in UserKeys
        <5>1. added[c] \in KeyRow /\ added[c].prio + ChainOffset \in Nat
          BY <2>6, ChainAssumption DEF KeyRow
        <5>2. (IF c \in DOMAIN places THEN places[c] ELSE added[c].prio + ChainOffset) \in Nat
          BY <4>4, <5>1
        <5>3. chain'[c] = IF ~added[c].there THEN added[c]
                          ELSE [added[c] EXCEPT !.prio = IF c \in DOMAIN places THEN places[c]
                                                         ELSE added[c].prio + ChainOffset]
          BY <4>1 DEF WithPriorities
        <5> QED
          BY <5>1, <5>2, <5>3 DEF KeyRow
      <4>6. chain' \in [UserKeys -> KeyRow]
        BY <4>1, <4>5 DEF WithPriorities
      <4>7. ~chainHistory'.overtaken => ChainIsDense'
        BY <2>3, <2>6, <2>7, <4>1, <4>2, ListedKeysAreDense
      <4> QED
        BY <4>5, <4>6, <4>7
    <3>2. CASE ~(op.first /\ op.seenKeys # {})
      <4>1. chain' = added
        BY <2>1, <3>2
      <4>2. ASSUME ~chainHistory'.overtaken PROVE ChainIsDense'
        <5>1. HeldKeys' = op.seenKeys \cup {op.key} /\ op.seenKeys = HeldKeys
          BY <2>3, <2>7, <4>1, <4>2 DEF HeldKeys
        <5>2. Cardinality(HeldKeys') = Cardinality(op.seenKeys) + 1
          BY <1>1, <2>4, <5>1, FS_AddElement
        <5>3. chain'[op.key].prio = Cardinality(op.seenKeys)
          BY <2>4, <2>5, <2>6, <3>2, <4>1, FS_EmptySet
        <5>4. {chain'[c].prio : c \in HeldKeys'} = {chain[c].prio : c \in HeldKeys} \cup {Cardinality(op.seenKeys)}
          <6>1. \A c \in op.seenKeys : chain'[c] = chain[c]
            BY <1>1, <2>6, <4>1
          <6> QED
            BY <5>1, <5>3, <6>1
        <5>5. {chain[c].prio : c \in HeldKeys} = 0 .. (Cardinality(op.seenKeys) - 1)
          <6>1. CASE op.first
            <7>1. op.seenKeys = {} /\ Cardinality(op.seenKeys) = 0
              BY <3>2, <6>1, FS_EmptySet
            <7> QED
              BY <5>1, <7>1
          <6>2. CASE ~op.first
            BY <1>0, <2>3, <4>2, <5>1, <6>2 DEF ChainIsDense
          <6> QED
            BY <6>1, <6>2
        <5> QED
          BY <2>4, <5>2, <5>4, <5>5 DEF ChainIsDense
      <4> QED
        BY <2>6, <4>1, <4>2
    <3> QED
      BY <3>1, <3>2
  <2>9. ValidMeansTested'
    <3>1. \A c \in UserKeys : \/ chain'[c].status # "valid"
                              \/ /\ chain[c].there = chain'[c].there /\ chain'[c].status = chain[c].status
                                 /\ chain'[c].secret = chain[c].secret
      BY <2>5, <2>6, <2>8
    <3>2. \A c \in UserKeys : \/ ~chain'[c].there \/ chain'[c].status # "valid"
                              \/ /\ chain[c].there /\ chain'[c].status = chain[c].status
                                 /\ chain'[c].secret = chain[c].secret
      BY <3>1
    <3> QED
      BY <1>0, <2>3, <3>2, RowsStayTested
  <2>10. ChainIsDense'
    BY <2>8 DEF ChainIsDense
  <2> QED
    BY <2>2, <2>3, <2>8, <2>9, <2>10 DEF ChainInv, ChainRows, CredentialsAreSound
<1> QED
  BY <1>2, <1>3, <1>4

(* The answer of a check, and a row that is marked with it.                *)
LEMMA ChecksKeep ==
  ASSUME ChainInv, NEW r \in ChainRequests, CheckKey(r) \/ CheckFails(r)
  PROVE  ChainInv'
<1>0. /\ ChainRows /\ OpsFit /\ CredentialsAreSound /\ chainOp \in [ChainRequests -> ChainOpRow]
  BY DEF ChainInv, ChainRows
<1>1. /\ chain' = chain /\ chainHistory' = chainHistory /\ chainOp[r] \in ChainOpRow
      /\ chainOp[r].key \in UserKeys
  BY <1>0 DEF CheckKey, CheckFails, OpsFit
<1>2. chainOp' \in [ChainRequests -> ChainOpRow] /\ OpsFit'
  <2>1. CASE CheckKey(r)
    <3> DEFINE kept == healthCache[chainOp[r].key] # "none"
               ok == IF kept THEN healthCache[chainOp[r].key] = "ok" ELSE chainOp[r].secret \in GoodSecrets
               op == [chainOp[r] EXCEPT !.pc = "verify", !.ok = ok, !.kept = kept]
    <3>1. chainOp' = [chainOp EXCEPT ![r] = op]
      BY <1>0, <2>1 DEF CheckKey
    <3>2. kept \in BOOLEAN /\ ok \in BOOLEAN /\ (ok /\ ~kept => chainOp[r].secret \in GoodSecrets)
      <4>1. CASE kept
        BY <4>1
      <4>2. CASE ~kept
        BY <4>2
      <4> QED
        BY <4>1, <4>2
    <3> HIDE DEF kept, ok
    <3>3. /\ op \in ChainOpRow /\ op.pc = "verify" /\ op.key = chainOp[r].key /\ op.ok = ok /\ op.kept = kept
          /\ op.secret = chainOp[r].secret
      BY <1>1, <3>2 DEF ChainOpRow
    <3> HIDE DEF op
    <3> QED
      BY <1>0, <1>1, <3>1, <3>2, <3>3, OpsGoOn
  <2>2. CASE Ends(r)
    BY <1>0, <2>2, OpsEnd
  <2>3. CASE CheckFails(r) /\ ~Ends(r)
    <3> DEFINE op == [chainOp[r] EXCEPT !.pc = "verify", !.ok = FALSE]
    <3>1. chainOp' = [chainOp EXCEPT ![r] = op]
      BY <1>0, <2>3 DEF CheckFails
    <3>2. op \in ChainOpRow /\ op.pc = "verify" /\ op.key = chainOp[r].key /\ ~op.ok
      BY <1>1 DEF ChainOpRow
    <3> HIDE DEF op
    <3> QED
      BY <1>0, <1>1, <3>1, <3>2, OpsGoOn
  <2> QED
    BY <2>1, <2>2, <2>3
<1>3. CredentialsAreSound'
  BY <1>0, <1>1, ChainStays
<1> QED
  BY <1>0, <1>1, <1>2, <1>3 DEF ChainInv, ChainRows

LEMMA VerifyKeeps == ASSUME ChainInv, NEW r \in ChainRequests, VerifyKey(r) PROVE ChainInv'
<1> DEFINE op == chainOp[r]
           marked == [chain[op.key] EXCEPT !.status = IF op.ok THEN "valid" ELSE "invalid"]
           doubted == IF op.kept \/ chain[op.key].secret # op.secret THEN chainHistory.doubted \cup {op.key}
                      ELSE chainHistory.doubted \ {op.key}
<1>0. /\ chain \in [UserKeys -> KeyRow] /\ chainOp \in [ChainRequests -> ChainOpRow] /\ OpsFit
      /\ chainHistory \in [writes : Nat, overtaken : BOOLEAN, doubted : SUBSET UserKeys]
      /\ ChainIsDense /\ ValidMeansTested
  BY DEF ChainInv, ChainRows, CredentialsAreSound
<1>1. /\ op \in ChainOpRow /\ op.pc = "verify" /\ op.key \in UserKeys
      /\ op.ok /\ ~op.kept => op.secret \in GoodSecrets
  BY <1>0 DEF VerifyKey, OpsFit
<1>2. /\ chain' = IF op.key \in HeldKeys THEN [chain EXCEPT ![op.key] = marked] ELSE chain
      /\ chainHistory' = [chainHistory EXCEPT !.doubted = doubted] /\ Ends(r)
  BY <1>0, <1>1 DEF VerifyKey
<1>3. chain[op.key] \in KeyRow
  BY <1>0, <1>1
<1>4. /\ marked \in KeyRow /\ marked.there = chain[op.key].there /\ marked.prio = chain[op.key].prio
      /\ marked.secret = chain[op.key].secret /\ (marked.status = "valid" => op.ok)
  BY <1>1, <1>3 DEF KeyRow, ChainOpRow
<1>5. doubted \in SUBSET UserKeys
  BY <1>0, <1>1
<1>6. op.key \in doubted \/ (~op.kept /\ chain[op.key].secret = op.secret)
  OBVIOUS
<1>7. \A c \in UserKeys \ {op.key} : c \in doubted <=> c \in chainHistory.doubted
  OBVIOUS
<1>8. chainOp' \in [ChainRequests -> ChainOpRow] /\ OpsFit'
  BY <1>0, <1>2, OpsEnd
<1> HIDE DEF op, marked, doubted
<1>9. /\ chainHistory' \in [writes : Nat, overtaken : BOOLEAN, doubted : SUBSET UserKeys]
      /\ chainHistory'.doubted = doubted /\ chainHistory'.overtaken = chainHistory.overtaken
  BY <1>0, <1>2, <1>5
<1>10. /\ chain' \in [UserKeys -> KeyRow]
       /\ \A c \in UserKeys : /\ chain'[c].there = chain[c].there /\ chain'[c].prio = chain[c].prio
                              /\ chain'[c].secret = chain[c].secret
       /\ \A c \in UserKeys \ {op.key} : chain'[c] = chain[c]
       /\ op.key \in HeldKeys => chain'[op.key].status = marked.status
  <2>1. CASE op.key \in HeldKeys
    BY <1>0, <1>1, <1>2, <1>4, <2>1
  <2>2. CASE op.key \notin HeldKeys
    BY <1>0, <1>2, <2>2
  <2> QED
    BY <2>1, <2>2
<1>11. HeldKeys' = HeldKeys
  BY <1>10 DEF HeldKeys
<1>12. {chain'[c].prio : c \in HeldKeys} = {chain[c].prio : c \in HeldKeys}
  BY <1>10 DEF HeldKeys
<1>13. ChainIsDense'
  BY <1>0, <1>9, <1>11, <1>12 DEF ChainIsDense
<1>14. ValidMeansTested'
  <2> SUFFICES ASSUME NEW c \in HeldKeys, c \notin doubted, chain'[c].status = "valid"
               PROVE  chain'[c].secret \in GoodSecrets
    BY <1>9, <1>11 DEF ValidMeansTested
  <2>1. c \in UserKeys
    BY DEF HeldKeys
  <2>2. CASE c = op.key
    BY <1>1, <1>4, <1>6, <1>10, <2>2
  <2>3. CASE c # op.key
    BY <1>0, <1>7, <1>10, <2>1, <2>3 DEF ValidMeansTested
  <2> QED
    BY <2>2, <2>3
<1> QED
  BY <1>8, <1>9, <1>10, <1>13, <1>14 DEF ChainInv, ChainRows, CredentialsAreSound

(* A chain that is ordered again: by its user, by a key that is put first, *)
(* or when one is deleted.                                                 *)
LEMMA ChainIsOrdered ==
  ASSUME ChainInv, NEW rank \in Orders(HeldKeys), chain' = WithPriorities(chain, rank)
  PROVE  /\ chain' \in [UserKeys -> KeyRow] /\ ChainIsDense'
         /\ chainHistory'.doubted = chainHistory.doubted => ValidMeansTested'
<1>1. chain \in [UserKeys -> KeyRow] /\ ValidMeansTested
  BY DEF ChainInv, ChainRows, CredentialsAreSound
<1>2. HeldKeys = {c \in UserKeys : chain[c].there}
  BY DEF HeldKeys
<1>3. /\ chain' \in [UserKeys -> KeyRow] /\ ChainIsDense' /\ HeldKeys' = HeldKeys
      /\ \A c \in UserKeys : chain'[c].status = chain[c].status /\ chain'[c].secret = chain[c].secret
  BY <1>1, <1>2, ListedKeysAreDense
<1>4. chainHistory'.doubted = chainHistory.doubted => ValidMeansTested'
  BY <1>1, <1>3 DEF ValidMeansTested, HeldKeys
<1> QED
  BY <1>3, <1>4

LEMMA OrdersKeep ==
  ASSUME ChainInv, NEW rank \in Orders(HeldKeys), ReorderChain(rank)
  PROVE  ChainInv'
<1>0. /\ chainHistory \in [writes : Nat, overtaken : BOOLEAN, doubted : SUBSET UserKeys]
      /\ ChainRows /\ OpsFit
  BY DEF ChainInv, ChainRows
<1>1. /\ chain' = WithPriorities(chain, rank) /\ chainOp' = chainOp
      /\ chainHistory' = [Counted(HeldKeys, TRUE) EXCEPT !.writes = @ + 1]
  BY DEF ReorderChain
<1>2. /\ Counted(HeldKeys, TRUE) \in [writes : Nat, overtaken : BOOLEAN, doubted : SUBSET UserKeys]
      /\ Counted(HeldKeys, TRUE).doubted = chainHistory.doubted
  BY <1>0, WritesAreCounted
<1>3. /\ chainHistory' \in [writes : Nat, overtaken : BOOLEAN, doubted : SUBSET UserKeys]
      /\ chainHistory'.doubted = chainHistory.doubted
  <2> DEFINE new == Counted(HeldKeys, TRUE)
  <2>1. /\ chainHistory' = [new EXCEPT !.writes = new.writes + 1]
        /\ new \in [writes : Nat, overtaken : BOOLEAN, doubted : SUBSET UserKeys]
        /\ new.doubted = chainHistory.doubted
    BY <1>1, <1>2
  <2> HIDE DEF new
  <2> QED
    BY <2>1
<1>4. chain' \in [UserKeys -> KeyRow] /\ ChainIsDense' /\ ValidMeansTested'
  BY <1>1, <1>3, ChainIsOrdered
<1> QED
  BY <1>0, <1>1, <1>3, <1>4 DEF ChainInv, ChainRows, OpsFit, CredentialsAreSound

LEMMA PromoteKeeps == ASSUME ChainInv, NEW r \in ChainRequests, Promote(r) PROVE ChainInv'
<1> DEFINE op == chainOp[r]
<1>0. /\ chainHistory \in [writes : Nat, overtaken : BOOLEAN, doubted : SUBSET UserKeys]
      /\ ChainRows /\ OpsFit /\ CredentialsAreSound /\ chainOp \in [ChainRequests -> ChainOpRow]
  BY DEF ChainInv, ChainRows
<1>1. op.pc = "promote" /\ op.key \in op.seenKeys /\ Ends(r)
  BY <1>0 DEF Promote, OpsFit
<1>2. chainOp' \in [ChainRequests -> ChainOpRow] /\ OpsFit'
  BY <1>0, <1>1, OpsEnd
<1>3. CASE op.seenKeys # HeldKeys
  <2>1. UNCHANGED <<chain, chainHistory>>
    BY <1>3 DEF Promote
  <2> QED
    BY <1>0, <1>2, <2>1, ChainStays DEF ChainInv, ChainRows
<1>4. CASE op.seenKeys = HeldKeys
  <2>1. PICK rank \in Listed(HeldKeys) : chain' = WithPriorities(chain, WithFirst(op.key, rank))
    BY <1>4 DEF Promote
  <2>2. rank \in Orders(HeldKeys) /\ op.key \in HeldKeys /\ IsFiniteSet(HeldKeys)
    BY <1>1, <1>4, <2>1, KeysAreFinite DEF Listed, HeldKeys
  <2> HIDE DEF op
  <2>3. WithFirst(op.key, rank) \in Orders(HeldKeys)
    BY <2>2, FirstIsAnOrder
  <2>4. chainHistory' = Counted(HeldKeys, TRUE)
    BY <1>4 DEF Promote, op
  <2>5. /\ chainHistory' \in [writes : Nat, overtaken : BOOLEAN, doubted : SUBSET UserKeys]
        /\ chainHistory'.doubted = chainHistory.doubted
    BY <1>0, <2>4, WritesAreCounted
  <2>6. chain' \in [UserKeys -> KeyRow] /\ ChainIsDense' /\ ValidMeansTested'
    BY <2>1, <2>3, <2>5, ChainIsOrdered
  <2> QED
    BY <1>2, <2>5, <2>6 DEF ChainInv, ChainRows, CredentialsAreSound
<1> QED
  BY <1>3, <1>4

LEMMA DeleteKeeps == ASSUME ChainInv, NEW c \in UserKeys, DeleteKey(c) PROVE ChainInv'
<1> DEFINE rest == HeldKeys \ {c}
           rows == [chain EXCEPT ![c] = NoRow]
<1>0. /\ chainHistory \in [writes : Nat, overtaken : BOOLEAN, doubted : SUBSET UserKeys]
      /\ ChainRows /\ OpsFit /\ ValidMeansTested /\ chain \in [UserKeys -> KeyRow]
  BY DEF ChainInv, ChainRows, CredentialsAreSound
<1>1. /\ chain' = WithoutKey(c) /\ chainOp' = chainOp /\ c \in HeldKeys
      /\ chainHistory' = [Counted(HeldKeys, TRUE) EXCEPT !.writes = @ + 1, !.doubted = @ \ {c}]
  BY DEF DeleteKey
<1>2. IsFiniteSet(rest) /\ rest \subseteq UserKeys
  BY KeysAreFinite DEF HeldKeys
<1>3. PICK rank \in Orders(rest) : chain' = WithPriorities(rows, rank)
  <2> DEFINE Sorted(rank) == \A d, e \in rest : chain[d].prio < chain[e].prio => rank[d] < rank[e]
             prio == [d \in rest |-> chain[d].prio]
  <2>1. prio \in [rest -> Nat]
    BY <1>0, <1>2 DEF KeyRow
  <2>2. \E rank \in Orders(rest) : \A d, e \in rest : prio[d] < prio[e] => rank[d] < rank[e]
    <3> HIDE DEF prio
    <3> QED
      BY <1>2, <2>1, RowsHaveAnOrder
  <2>3. \E rank \in Orders(rest) : Sorted(rank)
    BY <2>2
  <2>4. (CHOOSE rank \in Orders(rest) : Sorted(rank)) \in Orders(rest)
    BY <2>3
  <2>5. chain' = WithPriorities(rows, CHOOSE rank \in Orders(rest) : Sorted(rank))
    BY <1>1 DEF WithoutKey
  <2> QED
    BY <2>4, <2>5
<1>4. rows \in [UserKeys -> KeyRow] /\ ~rows[c].there /\ \A d \in UserKeys \ {c} : rows[d] = chain[d]
  BY <1>0, EmptyRows
<1>5. {d \in UserKeys : rows[d].there} = rest
  BY <1>4 DEF HeldKeys
<1> HIDE DEF rows, rest
<1>6. /\ chain' \in [UserKeys -> KeyRow] /\ ChainIsDense' /\ HeldKeys' = rest
      /\ \A d \in UserKeys : chain'[d].status = rows[d].status /\ chain'[d].secret = rows[d].secret
  BY <1>3, <1>4, <1>5, ListedKeysAreDense
<1>7. /\ Counted(HeldKeys, TRUE) \in [writes : Nat, overtaken : BOOLEAN, doubted : SUBSET UserKeys]
      /\ Counted(HeldKeys, TRUE).doubted = chainHistory.doubted
  BY <1>0, WritesAreCounted
<1>8. /\ chainHistory' \in [writes : Nat, overtaken : BOOLEAN, doubted : SUBSET UserKeys]
      /\ chainHistory'.doubted = chainHistory.doubted \ {c}
  <2> DEFINE new == Counted(HeldKeys, TRUE)
  <2>1. /\ chainHistory' = [new EXCEPT !.writes = new.writes + 1, !.doubted = new.doubted \ {c}]
        /\ new \in [writes : Nat, overtaken : BOOLEAN, doubted : SUBSET UserKeys]
        /\ new.doubted = chainHistory.doubted
    BY <1>1, <1>7
  <2> HIDE DEF new
  <2>2. new.writes + 1 \in Nat /\ new.doubted \ {c} \in SUBSET UserKeys
    BY <2>1
  <2> QED
    BY <2>1, <2>2
<1>9. ValidMeansTested'
  <2> SUFFICES ASSUME NEW d \in rest, d \notin chainHistory.doubted, chain'[d].status = "valid"
               PROVE  chain'[d].secret \in GoodSecrets
    BY <1>6, <1>8 DEF ValidMeansTested, rest
  <2>1. d \in UserKeys \ {c} /\ d \in HeldKeys
    BY DEF rest, HeldKeys
  <2> QED
    BY <1>0, <1>4, <1>6, <2>1 DEF ValidMeansTested
<1> QED
  BY <1>0, <1>1, <1>6, <1>8, <1>9 DEF ChainInv, ChainRows, OpsFit, CredentialsAreSound

LEMMA ChainStep == ChainInv /\ [ChainNext]_chainVars => ChainInv'
<1> SUFFICES ASSUME ChainInv, [ChainNext]_chainVars PROVE ChainInv'
  OBVIOUS
<1>1. ASSUME NEW r \in ChainRequests,
             \/ ReplaceKey(r) \/ AddKey(r) \/ CheckKey(r) \/ CheckFails(r) \/ VerifyKey(r) \/ Promote(r)
      PROVE  ChainInv'
  BY <1>1, ReplaceKeeps, AddKeeps, ChecksKeep, VerifyKeeps, PromoteKeeps
<1>2. ASSUME NEW r \in ChainRequests, NEW c \in UserKeys, NEW s \in Secrets, NEW first \in BOOLEAN,
             AskSave(r, c, s, first)
      PROVE  ChainInv'
  BY <1>2, AsksKeep
<1>3. ASSUME NEW r \in ChainRequests, NEW c \in UserKeys, AskPromote(r, c) PROVE ChainInv'
  <2>1. PICK s \in Secrets : TRUE
    BY ChainAssumption
  <2>2. TRUE \in BOOLEAN
    OBVIOUS
  <2> QED
    BY <1>3, <2>1, <2>2, AsksKeep
<1>4. ASSUME NEW rank \in Orders(HeldKeys), ReorderChain(rank) PROVE ChainInv'
  BY <1>4, OrdersKeep
<1>5. ASSUME NEW c \in UserKeys, DeleteKey(c) PROVE ChainInv'
  BY <1>5, DeleteKeeps
<1>6. ASSUME UNCHANGED <<chain, chainOp, chainHistory>> PROVE ChainInv'
  BY <1>6, ChainStays DEF ChainInv, ChainRows, OpsFit
<1>7. ASSUME NEW c \in UserKeys, Retest(c) \/ CacheEnds(c) PROVE ChainInv'
  BY <1>6, <1>7 DEF Retest, CacheEnds
<1>8. CASE UNCHANGED chainVars
  BY <1>6, <1>8 DEF chainVars
<1> QED
  BY <1>1, <1>2, <1>3, <1>4, <1>5, <1>7, <1>8 DEF ChainNext

(* However requests on a chain of keys overtake each other and whatever    *)
(* the checks answer, the chain is in order and what counts as verified is *)
(* - up to the writes and the checks that the history counts.              *)
THEOREM CredentialsStaySound == ChainSpec => []CredentialsAreSound
<1>1. ChainInv => CredentialsAreSound
  BY DEF ChainInv
<1> QED
  BY <1>1, ChainStart, ChainStep, PTL DEF ChainSpec

-----------------------------------------------------------------------------
(***************************************************************************)
(* The shop: orders are charged as shown, settled once, and the discount   *)
(* is given once unless pages or administrators cross.                     *)
(***************************************************************************)

(* What an order is made of.                                               *)
OrderType == [pc : {"none", "open", "captured", "paid"}, amount : Nat \ 1..99, shown : Nat,
              cut : BOOLEAN, days : ShopPeriods \cup {0}, granted : Nat,
              edited : BOOLEAN, since : 0..MaxShopTurns]

(* What a page of the shop is made of.                                     *)
ShopPageType == [busy : {"away", "rest", "order", "modal", "verify", "claim", "cancel", "refresh", "stuck"},
                 card : PlanCard, canPay : BOOLEAN, status : {"none", "trialing", "active"},
                 ending : BOOLEAN, order : ShopOrders \cup {NoOrder}]

(* What a settlement and the history of a shop are made of.                *)
SettlementType == [pc : {"idle", "asked", "read", "write", "done"}, days : ShopPeriods \cup {0},
                   live : BOOLEAN, base : [ShopOrders -> Nat]]

ShopHistoryType == [changes : 0..MaxShopTurns, overlap : BOOLEAN, unclaimed : BOOLEAN,
                    met : SUBSET ShopOrders]

(* What a user's access is made of.                                        *)
AccessType == [status : {"none", "trialing", "active"}, ending : BOOLEAN,
               redeemed : SUBSET {"trial", "discount"}]

(* The types of orders, access, settlements and pages.                     *)
ShopShapes ==
  /\ shop \in [deal : Deals, cut : Cuts, open : {"open", "checkoutOff", "paywallOff"}]
  /\ order \in [ShopOrders -> OrderType]
  /\ access \in AccessType
  /\ settling \in [ShopOrders -> [Settlers -> SettlementType]]
  /\ shopPage \in [ShopPages -> ShopPageType]
  /\ shopHistory \in ShopHistoryType

(* A page's card is the plan's as long as nothing has changed since it was *)
(* read.                                                                   *)
CardIsRead(p) ==
  /\ p.card.changes <= shopHistory.changes
  /\ p.busy # "away" /\ p.card.changes = shopHistory.changes => p.card.amount = shop.deal.amount

(* A page that pays or verifies has an order.                              *)
HasOrder(p) == p.busy \in {"modal", "verify"} => p.order \in ShopOrders /\ order[p.order].pc # "none"

(* What an order says: nothing before it is made, an amount no higher than *)
(* shown, the period of the price point that was not edited since, and     *)
(* what was granted for it, if its settlement met no other.                *)
OrderIsAsMade(o) ==
  /\ order[o].pc = "none" => ~order[o].cut
  /\ ~Paid(o) => order[o].granted = 0
  /\ order[o].since <= shopHistory.changes
  /\ order[o].pc # "none" /\ order[o].since = shopHistory.changes
       => order[o].amount <= AtLeastMinimum(order[o].shown)
  /\ Unpaid(o) /\ ~order[o].edited => order[o].days = shop.deal.days
  /\ SettledApart(o) /\ ~order[o].edited => order[o].granted = order[o].days

(* A settlement under way is of an order that was made; it is alone, for a *)
(* payment that is not known, unless it has met another; it brings the     *)
(* period ordered; and what it read of the row is still so for the orders  *)
(* that have met no other settlement.                                      *)
SettlementIsAlone(o, s) ==
  /\ settling[o][s].pc \in {"asked", "read", "write"} => order[o].pc # "none"
  /\ UnderWay(o, s) /\ o \notin shopHistory.met => MetBy(o, s) = {} /\ ~Paid(o)
  /\ UnderWay(o, s) /\ ~Paid(o) /\ ~order[o].edited => settling[o][s].days = order[o].days
  /\ settling[o][s].pc = "write" =>
       \A p \in ShopOrders :
         /\ p \notin shopHistory.met => settling[o][s].base[p] = order[p].granted
         /\ ~Paid(p) => settling[o][s].base[p] = 0

(* Unless something excuses it, one order has the discount, and it has     *)
(* redeemed it once it is settled.                                         *)
DiscountIsOnce ==
  ~shopHistory.overlap /\ ~shopHistory.unclaimed =>
    /\ \A o, p \in ShopOrders : order[o].cut /\ order[p].cut => o = p
    /\ \A o \in ShopOrders : order[o].cut /\ Paid(o) => "discount" \in access.redeemed

(* What the proofs about the shop rest on.                                 *)
ShopInv ==
  /\ ShopShapes
  /\ \A t \in ShopPages : CardIsRead(shopPage[t]) /\ HasOrder(shopPage[t])
  /\ \A o \in ShopOrders : OrderIsAsMade(o)
  /\ \A o \in ShopOrders, s \in Settlers : SettlementIsAlone(o, s)
  /\ DiscountIsOnce

(* An idle settlement.                                                     *)
LEMMA IdleSettlement ==
  \A pc \in {"idle", "asked", "done"} :
    LET x == [NoSettlement EXCEPT !.pc = pc] IN x \in SettlementType /\ x.pc = pc
<1>1. NothingGranted \in [ShopOrders -> Nat]
  BY DEF NothingGranted
<1> QED
  BY <1>1 DEF NoSettlement, SettlementType

(* The shop opens with no order.                                           *)
LEMMA ShopStart == ShopInit => ShopInv
<1> SUFFICES ASSUME ShopInit PROVE ShopInv
  OBVIOUS
<1>1. 0 \in Nat \ 1..99 /\ 0 \in 0..MaxShopTurns /\ NoOrder \in ShopOrders \cup {NoOrder}
  BY ShopAssumption
<1>2. NoCard \in PlanCard /\ NoCard.changes = 0
  BY <1>1 DEF NoCard, PlanCard
<1>3. NoPage \in ShopPageType /\ NoPage.busy = "away" /\ NoPage.card = NoCard
  BY <1>1, <1>2 DEF NoPage, ShopPageType
<1>4. shopHistory \in ShopHistoryType /\ shopHistory.changes = 0
  BY <1>1 DEF ShopInit, ShopHistoryType
<1>5. order \in [ShopOrders -> OrderType]
  BY <1>1 DEF ShopInit, OrderType
<1>6. \A o \in ShopOrders : /\ order[o].pc = "none" /\ ~order[o].cut /\ order[o].granted = 0
                            /\ order[o].since = 0
  BY DEF ShopInit
<1>7. /\ settling \in [ShopOrders -> [Settlers -> SettlementType]]
      /\ \A o \in ShopOrders, s \in Settlers : settling[o][s].pc = "idle"
  <2>1. NoSettlement \in SettlementType /\ NoSettlement.pc = "idle"
    BY DEF NoSettlement, SettlementType, NothingGranted
  <2> QED
    BY <2>1 DEF ShopInit
<1>8. ShopShapes
  BY <1>3, <1>4, <1>5, <1>7 DEF ShopInit, ShopShapes, AccessType
<1>9. \A t \in ShopPages : CardIsRead(shopPage[t]) /\ HasOrder(shopPage[t])
  BY <1>2, <1>3, <1>4 DEF ShopInit, CardIsRead, HasOrder
<1>10. \A o \in ShopOrders : OrderIsAsMade(o)
  BY <1>4, <1>6 DEF OrderIsAsMade, Paid, Unpaid, SettledApart
<1>11. \A o \in ShopOrders, s \in Settlers : SettlementIsAlone(o, s)
  BY <1>7 DEF SettlementIsAlone, UnderWay
<1> QED
  BY <1>6, <1>8, <1>9, <1>10, <1>11 DEF ShopInv, DiscountIsOnce, Paid

(* A discount leaves an amount, and the minimum keeps the order of two     *)
(* amounts.                                                                *)
LEMMA CutsLower ==
  ASSUME ShopShapes, NEW amount \in Nat
  PROVE  /\ Discount(amount) \in 0..amount
         /\ AtLeastMinimum(amount) \in Nat \ 1..99
         /\ \A less \in 0..amount : /\ AtLeastMinimum(less) <= AtLeastMinimum(amount)
                                    /\ AtLeastMinimum(less) \in Nat \ 1..99
<1>1. (amount * CutPercent + 50) \div 100 \in Nat
  <2>1. amount * CutPercent \in Nat
    BY ShopAssumption
  <2> DEFINE product == amount * CutPercent
  <2> HIDE DEF product
  <2>2. product \in Nat => (product + 50) \div 100 \in Nat
    BY SMT
  <2> QED
    BY <2>1, <2>2 DEF product
<1>2. Discount(amount) \in 0..amount
  <2> DEFINE half == (amount * CutPercent + 50) \div 100
  <2>1. half \in Nat /\ CutPaise \in Nat
    BY <1>1, ShopAssumption
  <2>2. Discount(amount) = LET off == IF shop.cut = "percent" THEN half
                                      ELSE IF shop.cut = "fixed" THEN CutPaise ELSE 0
                           IN  IF off < amount THEN off ELSE amount
    BY DEF Discount
  <2> HIDE DEF half
  <2> QED
    BY <2>1, <2>2
<1> QED
  BY <1>2 DEF AtLeastMinimum

(* Settlements that end, are asked for or stay as they are, while no       *)
(* payment is settled.                                                     *)
LEMMA SettlementsStayAlone ==
  ASSUME ShopInv, shopHistory'.met = shopHistory.met,
         \A o \in ShopOrders, s \in Settlers :
           \/ settling'[o][s].pc \in {"idle", "done"}
           \/ settling'[o][s].pc = "asked" /\ order'[o].pc # "none"
           \/ settling'[o][s] = settling[o][s],
         \A o \in ShopOrders :
           /\ order[o].pc # "none" => /\ order'[o].pc # "none" /\ order'[o].days = order[o].days
                                      /\ ~order'[o].edited => ~order[o].edited
           /\ order'[o].granted = order[o].granted
           /\ order'[o].pc = "paid" <=> order[o].pc = "paid"
  PROVE  (\A o \in ShopOrders, s \in Settlers : SettlementIsAlone(o, s))'
<1>1. ASSUME NEW o \in ShopOrders, NEW s \in Settlers,
             settling'[o][s].pc \in {"read", "write"}
      PROVE  settling'[o][s] = settling[o][s]
  BY <1>1
<1>2. \A o \in ShopOrders, s \in Settlers : UnderWay(o, s)' => UnderWay(o, s)
  BY <1>1 DEF UnderWay
<1>3. \A o \in ShopOrders, s \in Settlers : MetBy(o, s)' \subseteq MetBy(o, s)
  BY <1>2 DEF MetBy
<1>4. ASSUME NEW o \in ShopOrders, NEW s \in Settlers
      PROVE  SettlementIsAlone(o, s)'
  <2>1. SettlementIsAlone(o, s)
    BY DEF ShopInv
  <2>2. CASE settling'[o][s] = settling[o][s]
    BY <1>2, <1>3, <2>1, <2>2 DEF SettlementIsAlone, Paid, UnderWay
  <2>3. CASE settling'[o][s].pc \notin {"read", "write"}
    BY <2>1, <2>3 DEF SettlementIsAlone, UnderWay
  <2> QED
    BY <1>1, <2>2, <2>3
<1> QED
  BY <1>4

(* A page that turns: its own state only.                                  *)
LEMMA PagesKeepShop ==
  ASSUME ShopInv, NEW t \in ShopPages, NEW next \in ShopPageType,
         shopPage' = [shopPage EXCEPT ![t] = next], CardIsRead(next), HasOrder(next),
         UNCHANGED <<shop, order, settling, shopHistory>>,
         access' \in AccessType,
         access.redeemed \subseteq access'.redeemed
  PROVE  ShopInv'
<1>1. shopPage \in [ShopPages -> ShopPageType] /\ shopPage' \in [ShopPages -> ShopPageType]
      /\ \A u \in ShopPages : shopPage'[u] = IF u = t THEN next ELSE shopPage[u]
  BY DEF ShopInv, ShopShapes
<1>2. ShopShapes'
  BY <1>1 DEF ShopInv, ShopShapes
<1>3. \A u \in ShopPages : CardIsRead(shopPage'[u]) /\ HasOrder(shopPage'[u])
  BY <1>1 DEF ShopInv
<1>4. (\A u \in ShopPages : CardIsRead(shopPage[u]) /\ HasOrder(shopPage[u]))'
  BY <1>3 DEF CardIsRead, HasOrder
<1>5. (\A o \in ShopOrders : OrderIsAsMade(o))'
  BY DEF ShopInv, OrderIsAsMade, Paid, Unpaid, SettledApart
<1>6. DiscountIsOnce'
  BY DEF ShopInv, DiscountIsOnce, Paid
<1>7. (\A o \in ShopOrders, s \in Settlers : SettlementIsAlone(o, s))'
  BY SettlementsStayAlone
<1> QED
  BY <1>2, <1>4, <1>5, <1>6, <1>7 DEF ShopInv

(* A page that only goes on or comes to rest.                              *)
LEMMA TurningKeepsShop ==
  ASSUME ShopInv, NEW t \in ShopPages, shopPage[t].busy # "away",
         NEW to \in {"rest", "order", "claim", "cancel", "refresh", "stuck"}, PageTurns(t, to),
         UNCHANGED <<shop, order, settling, shopHistory>>,
         access' \in AccessType,
         access.redeemed \subseteq access'.redeemed
  PROVE  ShopInv'
<1> DEFINE p == shopPage[t]
           next == [p EXCEPT !.busy = to, !.order = NoOrder]
<1>1. p \in ShopPageType /\ CardIsRead(p)
  BY DEF ShopInv, ShopShapes
<1>2. shopPage' = [shopPage EXCEPT ![t] = next]
  BY DEF PageTurns
<1>3. p.busy # "away"
  OBVIOUS
<1> HIDE DEF p
<1>4. next \in ShopPageType /\ next.busy = to /\ next.card = p.card
  BY <1>1 DEF ShopPageType
<1>5. CardIsRead(next) /\ HasOrder(next)
  BY <1>1, <1>3, <1>4 DEF CardIsRead, HasOrder
<1> HIDE DEF next
<1> QED
  BY <1>2, <1>4, <1>5, PagesKeepShop

(* A page that reads.                                                      *)
LEMMA ReadingKeepsShop ==
  ASSUME ShopInv, NEW t \in ShopPages, Reads(t),
         UNCHANGED <<shop, order, access, settling, shopHistory>>
  PROVE  ShopInv'
<1>1. CardNow \in PlanCard /\ CardNow.changes = shopHistory.changes
      /\ CardNow.amount = shop.deal.amount
  BY DEF ShopInv, ShopShapes, CardNow, PlanCard, ShopAmounts, Eligible, ShopHistoryType
<1> DEFINE next == IF t \in PricingPages THEN [NoPage EXCEPT !.busy = "rest", !.card = CardNow]
                   ELSE [busy |-> "rest", card |-> CardNow, canPay |-> shop.open # "checkoutOff",
                         status |-> access.status,
                         ending |-> access.status # "none" /\ access.ending, order |-> NoOrder]
<1>2. next = [busy |-> "rest", card |-> CardNow,
              canPay |-> (t \in PricingPages \/ shop.open # "checkoutOff"),
              status |-> IF t \in PricingPages THEN "none" ELSE access.status,
              ending |-> (t \notin PricingPages /\ access.status # "none" /\ access.ending),
              order |-> NoOrder]
  BY DEF NoPage, ShopInv, ShopShapes, AccessType
<1>3. shopPage' = [shopPage EXCEPT ![t] = next]
  BY DEF Reads
<1> HIDE DEF next
<1>4. next \in ShopPageType /\ next.busy = "rest" /\ next.card = CardNow
  BY <1>1, <1>2 DEF ShopPageType, ShopInv, ShopShapes, AccessType
<1>5. CardIsRead(next) /\ HasOrder(next)
  BY <1>1, <1>4 DEF CardIsRead, HasOrder, ShopInv, ShopShapes, ShopHistoryType
<1> QED
  BY <1>3, <1>4, <1>5, PagesKeepShop DEF ShopInv, ShopShapes

(* What a page does without an order being made or settled.                *)
LEMMA VisitsKeepShop ==
  ASSUME ShopInv, NEW t \in ShopPages,
         \/ OpenPage(t) \/ AskOrder(t) \/ OrderRefused(t) \/ DismissModal(t) \/ AnswerLost(t)
         \/ AskTrial(t) \/ TrialClaimed(t) \/ TrialRefused(t) \/ AskCancel(t)
         \/ CancelAtPeriodEnd(t) \/ RefreshPage(t)
  PROVE  ShopInv'
<1>1. access \in AccessType
  BY DEF ShopInv, ShopShapes
<1>2. CASE AskOrder(t) \/ OrderRefused(t) \/ DismissModal(t) \/ AnswerLost(t) \/ AskTrial(t)
           \/ TrialRefused(t) \/ AskCancel(t)
  BY <1>1, <1>2, TurningKeepsShop
     DEF AskOrder, OrderRefused, DismissModal, AnswerLost, AskTrial, TrialRefused, AskCancel
<1>3. CASE TrialClaimed(t)
  <2>1. access' \in AccessType /\ access.redeemed \subseteq access'.redeemed
    BY <1>1, <1>3 DEF TrialClaimed, AccessType
  <2> QED
    BY <1>3, <2>1, TurningKeepsShop DEF TrialClaimed
<1>4. CASE CancelAtPeriodEnd(t)
  <2>1. access' \in AccessType /\ access'.redeemed = access.redeemed
    BY <1>1, <1>4 DEF CancelAtPeriodEnd, AccessType
  <2> QED
    BY <1>4, <2>1, TurningKeepsShop DEF CancelAtPeriodEnd
<1>5. CASE OpenPage(t)
  BY <1>5, ReadingKeepsShop DEF OpenPage
<1>6. CASE RefreshPage(t)
  <2>1. CASE Reads(t)
    BY <1>6, <2>1, ReadingKeepsShop DEF RefreshPage
  <2>2. CASE PageTurns(t, "rest")
    BY <1>1, <1>6, <2>2, TurningKeepsShop DEF RefreshPage
  <2>3. CASE shopPage' = [shopPage EXCEPT ![t] = NoPage]
    <3>1. NoCard \in PlanCard /\ NoCard.changes = 0
      BY ShopAssumption DEF NoCard, PlanCard
    <3>2. NoPage \in ShopPageType /\ NoPage.busy = "away" /\ NoPage.card = NoCard
      BY <3>1 DEF NoPage, ShopPageType
    <3>3. shopHistory.changes \in Nat
      BY DEF ShopInv, ShopShapes, ShopHistoryType
    <3>4. CardIsRead(NoPage) /\ HasOrder(NoPage)
      BY <3>1, <3>2, <3>3 DEF CardIsRead, HasOrder
    <3> QED
      BY <1>1, <1>6, <2>3, <3>2, <3>4, PagesKeepShop DEF RefreshPage
  <2> QED
    BY <1>6, <2>1, <2>2, <2>3 DEF RefreshPage
<1> QED
  BY <1>2, <1>3, <1>4, <1>5, <1>6

(* What changes outside of the pages: the cards that were read are old, an *)
(* edited price is noted on the orders that are not paid yet.              *)
LEMMA ChangesKeepShop ==
  ASSUME ShopInv, EditPricePoint \/ SwitchSetting \/ PeriodEnds
  PROVE  ShopInv'
<1>0. shopHistory.changes \in 0..MaxShopTurns /\ shopHistory \in ShopHistoryType
  BY DEF ShopInv, ShopShapes, ShopHistoryType
<1>1. /\ shopHistory.changes \in 0..MaxShopTurns /\ shopHistory.changes < MaxShopTurns
      /\ shopHistory' = [shopHistory EXCEPT !.changes = @ + 1]
      /\ shopHistory \in ShopHistoryType
      /\ shopPage' = shopPage /\ settling' = settling
  <2> DEFINE made == {o \in ShopOrders : order[o].pc # "none"}
  <2>1. Cardinality(made) \in Nat
    <3>1. IsFiniteSet(ShopOrders)
      BY FS_Interval, ShopAssumption DEF ShopOrders
    <3> QED
      BY <3>1, FS_Subset, FS_CardinalityType
  <2>2. MayTakeTurn /\ shopHistory' = [shopHistory EXCEPT !.changes = @ + 1]
        /\ shopPage' = shopPage /\ settling' = settling
    BY DEF EditPricePoint, SwitchSetting, PeriodEnds, OneMoreChange
  <2>3. shopHistory.changes + Cardinality(made) < MaxShopTurns
    BY <2>2 DEF MayTakeTurn
  <2> HIDE DEF made
  <2> QED
    BY <1>0, <2>1, <2>2, <2>3, ShopAssumption
<1>2. /\ shopHistory'.changes = shopHistory.changes + 1
      /\ shopHistory'.overlap = shopHistory.overlap
      /\ shopHistory'.unclaimed = shopHistory.unclaimed
      /\ shopHistory'.met = shopHistory.met
      /\ shopHistory' \in ShopHistoryType
  BY <1>1, ShopAssumption DEF ShopHistoryType
<1>3. /\ shop' \in [deal : Deals, cut : Cuts, open : {"open", "checkoutOff", "paywallOff"}]
      /\ access' \in AccessType
      /\ access'.redeemed = access.redeemed
  BY DEF EditPricePoint, SwitchSetting, PeriodEnds, ShopInv, ShopShapes, AccessType
<1>4. /\ order' \in [ShopOrders -> OrderType]
      /\ \A o \in ShopOrders :
           /\ order'[o].pc = order[o].pc /\ order'[o].cut = order[o].cut
           /\ order'[o].granted = order[o].granted /\ order'[o].days = order[o].days
           /\ order'[o].since = order[o].since /\ order'[o].amount = order[o].amount
           /\ order'[o].edited \/ ~Unpaid(o) \/ shop'.deal = shop.deal
           /\ ~order'[o].edited => ~order[o].edited
  <2>1. order \in [ShopOrders -> OrderType]
    BY DEF ShopInv, ShopShapes
  <2>2. CASE EditPricePoint
    <3> DEFINE edited == [o \in ShopOrders |-> [order[o] EXCEPT !.edited = @ \/ Unpaid(o)]]
    <3>1. ASSUME NEW o \in ShopOrders
          PROVE  /\ edited[o] \in OrderType
                 /\ edited[o] = [order[o] EXCEPT !.edited = (order[o].edited \/ Unpaid(o))]
                 /\ edited[o].edited = (order[o].edited \/ Unpaid(o))
                 /\ edited[o].pc = order[o].pc /\ edited[o].cut = order[o].cut
                 /\ edited[o].granted = order[o].granted /\ edited[o].days = order[o].days
                 /\ edited[o].since = order[o].since /\ edited[o].amount = order[o].amount
      <4> DEFINE r == order[o]
                 note == order[o].edited \/ Unpaid(o)
      <4>1. r \in OrderType /\ note \in BOOLEAN
        BY <2>1 DEF OrderType, Unpaid
      <4>2. edited[o] = [r EXCEPT !.edited = note]
        OBVIOUS
      <4> HIDE DEF r, note, edited
      <4>3. /\ edited[o] \in OrderType /\ edited[o].edited = note
            /\ edited[o].pc = r.pc /\ edited[o].cut = r.cut
            /\ edited[o].granted = r.granted /\ edited[o].days = r.days
            /\ edited[o].since = r.since /\ edited[o].amount = r.amount
        BY <4>1, <4>2 DEF OrderType
      <4> QED
        BY <4>2, <4>3 DEF r, note
    <3>2. order' = edited
      BY <2>2 DEF EditPricePoint
    <3>3. edited \in [ShopOrders -> OrderType]
      BY <3>1
    <3> HIDE DEF edited
    <3> QED
      BY <3>1, <3>2, <3>3
  <2>3. CASE SwitchSetting \/ PeriodEnds
    <3>1. order' = order /\ shop'.deal = shop.deal
      BY <2>3 DEF SwitchSetting, PeriodEnds, ShopInv, ShopShapes
    <3> QED
      BY <2>1, <3>1
  <2> QED
    BY <2>2, <2>3
<1>5. ShopShapes'
  BY <1>1, <1>2, <1>3, <1>4 DEF ShopInv, ShopShapes
<1>6. ASSUME NEW t \in ShopPages
      PROVE  CardIsRead(shopPage[t])' /\ HasOrder(shopPage[t])'
  <2>1. shopPage[t].card.changes \in Nat /\ shopPage[t].card.changes <= shopHistory.changes
    BY DEF ShopInv, ShopShapes, ShopPageType, PlanCard, CardIsRead
  <2>2. CardIsRead(shopPage[t])'
    BY <1>1, <1>2, <2>1 DEF CardIsRead
  <2>3. HasOrder(shopPage[t])'
    BY <1>1, <1>4 DEF ShopInv, HasOrder
  <2> QED
    BY <2>2, <2>3
<1>7. ASSUME NEW o \in ShopOrders
      PROVE  OrderIsAsMade(o)'
  <2>1. order[o].since \in Nat /\ order[o].since <= shopHistory.changes
    BY DEF ShopInv, ShopShapes, OrderType, OrderIsAsMade
  <2>2. order'[o].since # shopHistory'.changes /\ order'[o].since <= shopHistory'.changes
    BY <1>1, <1>2, <1>4, <2>1
  <2> QED
    BY <1>2, <1>4, <2>2 DEF ShopInv, OrderIsAsMade, Paid, Unpaid, SettledApart
<1>8. DiscountIsOnce'
  BY <1>2, <1>3, <1>4 DEF ShopInv, DiscountIsOnce, Paid
<1>9. (\A o \in ShopOrders, s \in Settlers : SettlementIsAlone(o, s))'
  BY <1>1, <1>2, <1>4, SettlementsStayAlone
<1> QED
  BY <1>5, <1>6, <1>7, <1>8, <1>9 DEF ShopInv

(* The numbers of a card.                                                  *)
LEMMA CardsAreNumbers ==
  ASSUME NEW card \in PlanCard
  PROVE  card.amount \in Nat /\ card.changes \in 0..MaxShopTurns
<1> DEFINE amounts == ShopAmounts \cup {0}
<1>1. amounts \subseteq Nat
  BY ShopAssumption DEF ShopAmounts
<1>2. PlanCard = [amount : amounts, trial : BOOLEAN, cut : BOOLEAN, changes : 0..MaxShopTurns]
  BY DEF PlanCard
<1> HIDE DEF amounts
<1> QED
  BY <1>1, <1>2

(* An order is made with the card that was read, at the price of now.      *)
LEMMA CreationKeepsShop ==
  ASSUME ShopInv, NEW t \in ShopPages, NEW o \in ShopOrders, CreateOrder(t, o)
  PROVE  ShopInv'
<1> DEFINE p == shopPage[t]
           cut == p.card.cut /\ Eligible("discount")
           price == shop.deal.amount
           amount == AtLeastMinimum(price - (IF cut THEN Discount(price) ELSE 0))
           made == [pc |-> "open", cut |-> cut, days |-> shop.deal.days, granted |-> 0,
                    amount |-> amount, shown |-> p.card.amount, edited |-> FALSE,
                    since |-> p.card.changes]
           next == [p EXCEPT !.busy = "modal", !.order = o]
           crossed == shopHistory.overlap
                        \/ (cut /\ \E q \in ShopOrders : Unpaid(q) /\ order[q].cut)
<1>1. /\ p \in ShopPageType /\ CardIsRead(p) /\ p.busy = "order"
      /\ shop.deal \in Deals /\ shopHistory.changes \in 0..MaxShopTurns
  BY DEF ShopInv, ShopShapes, CreateOrder, ShopHistoryType
<1>2. price \in Nat \ {0} /\ price \in ShopAmounts /\ shop.deal.days \in ShopPeriods /\ cut \in BOOLEAN
      /\ shop.deal.days \in Nat \ {0}
  BY <1>1, ShopAssumption DEF ShopAmounts, ShopPeriods, ShopPageType, PlanCard, Eligible
<1>3. p.card.amount \in Nat /\ p.card.changes \in 0..MaxShopTurns
  <2> HIDE DEF p
  <2> QED
    BY <1>1, CardsAreNumbers DEF ShopPageType
<1>4. amount \in Nat \ 1..99 /\ amount <= AtLeastMinimum(price)
  <2> DEFINE off == IF cut THEN Discount(price) ELSE 0
  <2>1. off \in 0..price
    <3> HIDE DEF price, cut
    <3>1. Discount(price) \in 0..price /\ 0 \in 0..price
      BY <1>2, CutsLower DEF ShopInv
    <3> QED
      BY <3>1
  <2>2. amount = AtLeastMinimum(price - off)
    OBVIOUS
  <2> HIDE DEF off, amount
  <2>3. price - off \in 0..price
    BY <1>2, <2>1
  <2>4. \A less \in 0..price : /\ AtLeastMinimum(less) <= AtLeastMinimum(price)
                               /\ AtLeastMinimum(less) \in Nat \ 1..99
    BY <1>2, CutsLower DEF ShopInv
  <2> QED
    BY <2>2, <2>3, <2>4
<1>5. /\ order' = [order EXCEPT ![o] = made]
      /\ shopPage' = [shopPage EXCEPT ![t] = next]
      /\ shopHistory' = [shopHistory EXCEPT !.overlap = crossed]
      /\ UNCHANGED <<shop, access, settling>> /\ order[o].pc = "none"
  BY DEF CreateOrder
<1> HIDE DEF amount, cut, price
<1>6. /\ made \in OrderType /\ made.pc = "open" /\ made.cut = cut /\ made.days = shop.deal.days
      /\ made.granted = 0 /\ made.amount = amount /\ made.shown = p.card.amount /\ ~made.edited
      /\ made.since = p.card.changes
  <2> HIDE DEF p
  <2> QED
    BY <1>2, <1>3, <1>4 DEF OrderType
<1>7. crossed \in BOOLEAN
  BY <1>2 DEF ShopInv, ShopShapes, ShopHistoryType
<1>8. next \in ShopPageType /\ next.busy = "modal" /\ next.order = o /\ next.card = p.card
  <2> HIDE DEF p
  <2> QED
    BY <1>1 DEF ShopPageType
<1> HIDE DEF made, next
<1>9. /\ order' \in [ShopOrders -> OrderType]
      /\ \A q \in ShopOrders : order'[q] = IF q = o THEN made ELSE order[q]
      /\ shopPage' \in [ShopPages -> ShopPageType]
      /\ \A u \in ShopPages : shopPage'[u] = IF u = t THEN next ELSE shopPage[u]
  BY <1>5, <1>6, <1>8 DEF ShopInv, ShopShapes
<1> HIDE DEF crossed
<1>10. /\ shopHistory' \in ShopHistoryType
       /\ shopHistory'.changes = shopHistory.changes /\ shopHistory'.overlap = crossed
       /\ shopHistory'.unclaimed = shopHistory.unclaimed /\ shopHistory'.met = shopHistory.met
  BY <1>5, <1>7 DEF ShopInv, ShopShapes, ShopHistoryType
<1>11. ShopShapes'
  BY <1>5, <1>9, <1>10 DEF ShopInv, ShopShapes
<1>12. ASSUME NEW u \in ShopPages
       PROVE  CardIsRead(shopPage[u])' /\ HasOrder(shopPage[u])'
  <2>1. CardIsRead(shopPage'[u])
    BY <1>1, <1>8, <1>9 DEF ShopInv, CardIsRead
  <2>2. CardIsRead(shopPage[u])'
    BY <1>5, <1>10, <2>1 DEF CardIsRead
  <2>3. HasOrder(shopPage[u])'
    BY <1>6, <1>8, <1>9 DEF ShopInv, HasOrder
  <2> QED
    BY <2>2, <2>3
<1>13. ASSUME NEW q \in ShopOrders
       PROVE  OrderIsAsMade(q)'
  <2>1. CASE q # o
    BY <1>5, <1>9, <1>10, <2>1 DEF ShopInv, OrderIsAsMade, Paid, Unpaid, SettledApart
  <2>2. CASE q = o
    <3>1. p.card.changes <= shopHistory.changes
      BY <1>1 DEF CardIsRead
    <3>2. p.card.changes = shopHistory.changes => amount <= AtLeastMinimum(p.card.amount)
      BY <1>1, <1>4 DEF CardIsRead, price
    <3>3. order'[o] = made
      BY <1>9
    <3> QED
      BY <1>5, <1>6, <1>10, <2>2, <3>1, <3>2, <3>3 DEF OrderIsAsMade, Paid, Unpaid, SettledApart
  <2> QED
    BY <2>1, <2>2
<1>14. DiscountIsOnce'
  <2> SUFFICES ASSUME ~crossed, ~shopHistory.unclaimed
               PROVE  /\ \A q, r \in ShopOrders : order'[q].cut /\ order'[r].cut => q = r
                      /\ \A q \in ShopOrders : order'[q].cut /\ order'[q].pc = "paid"
                                                 => "discount" \in access'.redeemed
    BY <1>10 DEF DiscountIsOnce, Paid
  <2>1. ~shopHistory.overlap /\ (cut => \A q \in ShopOrders : ~(Unpaid(q) /\ order[q].cut))
    BY DEF crossed
  <2>2. /\ \A q, r \in ShopOrders : order[q].cut /\ order[r].cut => q = r
        /\ \A q \in ShopOrders : order[q].cut /\ order[q].pc = "paid" => "discount" \in access.redeemed
    BY <2>1 DEF ShopInv, DiscountIsOnce, Paid
  <2>3. cut => \A q \in ShopOrders : ~order[q].cut
    <3>1. cut => "discount" \notin access.redeemed
      BY DEF cut, Eligible
    <3>2. \A q \in ShopOrders : order[q].cut => order[q].pc # "none"
      BY DEF ShopInv, OrderIsAsMade
    <3>3. \A q \in ShopOrders : order[q].pc \in {"none", "open", "captured", "paid"}
      BY DEF ShopInv, ShopShapes, OrderType
    <3> QED
      BY <2>1, <2>2, <3>1, <3>2, <3>3 DEF Unpaid
  <2> QED
    BY <1>5, <1>6, <1>9, <2>2, <2>3
<1>15. (\A q \in ShopOrders, s \in Settlers : SettlementIsAlone(q, s))'
  <2>1. order[o].granted = 0 /\ \A q \in ShopOrders : q # o => order'[q] = order[q]
    BY <1>5, <1>9 DEF ShopInv, OrderIsAsMade, Paid
  <2> QED
    BY <1>5, <1>6, <1>9, <1>10, <2>1, SettlementsStayAlone
<1> QED
  BY <1>11, <1>12, <1>13, <1>14, <1>15 DEF ShopInv

(* One settlement of one order is changed.                                 *)
LEMMA SettlementIsPut ==
  ASSUME settling \in [ShopOrders -> [Settlers -> SettlementType]],
         NEW o \in ShopOrders, NEW s \in Settlers, NEW x \in SettlementType,
         settling' = [settling EXCEPT ![o][s] = x]
  PROVE  /\ settling' \in [ShopOrders -> [Settlers -> SettlementType]]
         /\ \A p \in ShopOrders, r \in Settlers :
              settling'[p][r] = IF p = o /\ r = s THEN x ELSE settling[p][r]
<1> DEFINE two == [settling[o] EXCEPT ![s] = x]
<1>1. settling' = [settling EXCEPT ![o] = two]
  OBVIOUS
<1>2. two \in [Settlers -> SettlementType]
      /\ \A r \in Settlers : two[r] = IF r = s THEN x ELSE settling[o][r]
  OBVIOUS
<1> HIDE DEF two
<1> QED
  BY <1>1, <1>2

(* The provider captures a payment.                                        *)
LEMMA CaptureKeepsShop ==
  ASSUME ShopInv, (\E t \in ShopPages : PayInModal(t)) \/ (\E o \in ShopOrders : CapturedLate(o))
  PROVE  ShopInv'
<1>1. PICK o \in ShopOrders : order[o].pc = "open" /\ order' = [order EXCEPT ![o].pc = "captured"]
  BY DEF ShopInv, HasOrder, PayInModal, CapturedLate
<1>2. /\ order' \in [ShopOrders -> OrderType]
      /\ order'[o].pc = "captured"
      /\ \A q \in ShopOrders :
           /\ order'[q].pc = "none" <=> order[q].pc = "none"
           /\ order'[q].pc = "paid" <=> order[q].pc = "paid"
           /\ order'[q].cut = order[q].cut /\ order'[q].granted = order[q].granted
           /\ order'[q].days = order[q].days /\ order'[q].since = order[q].since
           /\ order'[q].edited = order[q].edited /\ order'[q].amount = order[q].amount
           /\ order'[q].shown = order[q].shown
  BY <1>1 DEF ShopInv, ShopShapes, OrderType
<1>3. UNCHANGED <<shop, access, shopHistory>>
  BY DEF PayInModal, CapturedLate
<1>9. /\ settling' \in [ShopOrders -> [Settlers -> SettlementType]]
      /\ \A q \in ShopOrders, s \in Settlers :
           \/ settling'[q][s].pc = "asked" /\ order[q].pc # "none"
           \/ settling'[q][s] = settling[q][s]
  <2>1. settling \in [ShopOrders -> [Settlers -> SettlementType]] /\ "verify" \in Settlers
    BY DEF ShopInv, ShopShapes, Settlers
  <2>2. ASSUME NEW t \in ShopPages, PayInModal(t)
        PROVE  /\ settling' \in [ShopOrders -> [Settlers -> SettlementType]]
               /\ \A q \in ShopOrders, s \in Settlers :
                    \/ settling'[q][s].pc = "asked" /\ order[q].pc # "none"
                    \/ settling'[q][s] = settling[q][s]
    <3> DEFINE q == shopPage[t].order
               x == [NoSettlement EXCEPT !.pc = "asked"]
    <3>1. q \in ShopOrders /\ order[q].pc # "none"
          /\ settling' = [settling EXCEPT ![q]["verify"] = x]
      BY <2>2 DEF PayInModal, ShopInv, HasOrder
    <3>2. x \in SettlementType /\ x.pc = "asked"
      BY IdleSettlement
    <3> HIDE DEF q, x
    <3> QED
      BY <2>1, <3>1, <3>2, SettlementIsPut
  <2> QED
    BY <2>1, <2>2 DEF CapturedLate
<1>4. /\ shopPage' \in [ShopPages -> ShopPageType]
      /\ \A t \in ShopPages : CardIsRead(shopPage'[t]) /\ HasOrder(shopPage'[t])
  <2>1. CASE \E u \in ShopOrders : CapturedLate(u)
    BY <2>1 DEF CapturedLate, ShopInv, ShopShapes
  <2>2. ASSUME NEW t \in ShopPages, PayInModal(t)
        PROVE  /\ shopPage' \in [ShopPages -> ShopPageType]
               /\ \A u \in ShopPages : CardIsRead(shopPage'[u]) /\ HasOrder(shopPage'[u])
    <3> DEFINE p == shopPage[t]
               next == [p EXCEPT !.busy = "verify"]
    <3>1. p \in ShopPageType /\ p.busy = "modal" /\ CardIsRead(p) /\ HasOrder(p)
      BY <2>2 DEF PayInModal, ShopInv, ShopShapes
    <3>2. shopPage' = [shopPage EXCEPT ![t] = next]
      BY <2>2 DEF PayInModal
    <3> HIDE DEF p
    <3>3. next \in ShopPageType /\ next.busy = "verify" /\ next.order = p.order /\ next.card = p.card
      BY <3>1 DEF ShopPageType
    <3>4. CardIsRead(next) /\ HasOrder(next)
      BY <3>1, <3>3 DEF CardIsRead, HasOrder
    <3> HIDE DEF next
    <3> QED
      BY <3>2, <3>3, <3>4 DEF ShopInv, ShopShapes
  <2> QED
    BY <2>1, <2>2
<1>5. (\A t \in ShopPages : CardIsRead(shopPage[t]) /\ HasOrder(shopPage[t]))'
  BY <1>2, <1>3, <1>4 DEF CardIsRead, HasOrder
<1>6. ASSUME NEW q \in ShopOrders PROVE OrderIsAsMade(q)'
  <2>1. Unpaid(q)' => Unpaid(q)
    BY <1>1, <1>2 DEF Unpaid, ShopInv, ShopShapes
  <2> QED
    BY <1>2, <1>3, <2>1 DEF ShopInv, OrderIsAsMade, Paid, SettledApart
<1>7. DiscountIsOnce'
  BY <1>2, <1>3 DEF ShopInv, DiscountIsOnce, Paid
<1>8. ShopShapes'
  BY <1>2, <1>3, <1>4, <1>9 DEF ShopInv, ShopShapes
<1>10. (\A q \in ShopOrders, s \in Settlers : SettlementIsAlone(q, s))'
  BY <1>2, <1>3, <1>9, SettlementsStayAlone
<1> QED
  BY <1>5, <1>6, <1>7, <1>8, <1>10 DEF ShopInv

(* A page that hears of a settlement turns, no other does.                 *)
LEMMA AnswersKeepPages ==
  ASSUME ShopInv, NEW o \in ShopOrders, NEW s \in Settlers, NEW to \in {"refresh", "rest"},
         Answers(o, s, to)
  PROVE  /\ shopPage' \in [ShopPages -> ShopPageType]
         /\ \A t \in ShopPages :
              /\ shopPage'[t].card = shopPage[t].card
              /\ \/ shopPage'[t] = shopPage[t]
                 \/ shopPage[t].busy = "verify" /\ shopPage'[t].busy = to
<1> DEFINE turned(t) == [shopPage[t] EXCEPT !.busy = to, !.order = NoOrder]
           next(t) == IF s = "verify" /\ shopPage[t].busy = "verify" /\ shopPage[t].order = o
                      THEN turned(t) ELSE shopPage[t]
<1>1. shopPage' = [t \in ShopPages |-> next(t)]
  BY DEF Answers
<1>2. ASSUME NEW t \in ShopPages
      PROVE  /\ next(t) \in ShopPageType /\ next(t).card = shopPage[t].card
             /\ next(t) = shopPage[t] \/ (shopPage[t].busy = "verify" /\ next(t).busy = to)
  <2> DEFINE p == shopPage[t]
             q == [p EXCEPT !.busy = to, !.order = NoOrder]
  <2>1. p \in ShopPageType
    BY DEF ShopInv, ShopShapes
  <2> HIDE DEF p
  <2>2. q \in ShopPageType /\ q.card = p.card /\ q.busy = to
    BY <2>1 DEF ShopPageType
  <2> QED
    BY <2>1, <2>2 DEF p
<1> HIDE DEF next
<1> QED
  BY <1>1, <1>2

(* Settlements that only begin, read, or end without anything granted.     *)
LEMMA LooksKeepShop ==
  ASSUME ShopInv, NEW o \in ShopOrders, NEW s \in Settlers,
         FindsNoPayment(o, s) \/ FindsPayment(o, s) \/ ReadsLiveRow(o, s) \/ SettlementFails(o, s)
  PROVE  ShopInv'
<1>1. UNCHANGED <<shop, order, access>>
  BY DEF FindsNoPayment, FindsPayment, ReadsLiveRow, SettlementFails
<1>2. /\ settling \in [ShopOrders -> [Settlers -> SettlementType]]
      /\ settling[o][s] \in SettlementType /\ shop.deal.days \in ShopPeriods
      /\ order \in [ShopOrders -> OrderType] /\ shopHistory \in ShopHistoryType
  BY DEF ShopInv, ShopShapes, ShopPeriods
<1>3. /\ shopPage' \in [ShopPages -> ShopPageType]
      /\ \A t \in ShopPages :
           /\ shopPage'[t].card = shopPage[t].card
           /\ \/ shopPage'[t] = shopPage[t]
              \/ shopPage[t].busy = "verify" /\ shopPage'[t].busy \in {"refresh", "rest"}
  <2>1. CASE shopPage' = shopPage
    BY <2>1 DEF ShopInv, ShopShapes
  <2>2. ASSUME NEW to \in {"refresh", "rest"}, Answers(o, s, to)
        PROVE  /\ shopPage' \in [ShopPages -> ShopPageType]
               /\ \A t \in ShopPages :
                    /\ shopPage'[t].card = shopPage[t].card
                    /\ \/ shopPage'[t] = shopPage[t]
                       \/ shopPage[t].busy = "verify" /\ shopPage'[t].busy \in {"refresh", "rest"}
    BY <2>2, AnswersKeepPages
  <2> QED
    BY <2>1, <2>2 DEF FindsNoPayment, FindsPayment, ReadsLiveRow, SettlementFails
<1>4. /\ shopHistory' \in ShopHistoryType /\ shopHistory'.changes = shopHistory.changes
      /\ shopHistory'.overlap = shopHistory.overlap
      /\ shopHistory'.unclaimed = shopHistory.unclaimed
      /\ shopHistory.met \subseteq shopHistory'.met
  <2>1. MetBy(o, s) \subseteq ShopOrders
    BY DEF MetBy
  <2> QED
    BY <1>2, <2>1 DEF FindsNoPayment, FindsPayment, ReadsLiveRow, SettlementFails, ShopHistoryType
<1>5. (\A t \in ShopPages : CardIsRead(shopPage[t]) /\ HasOrder(shopPage[t]))'
  BY <1>1, <1>3, <1>4 DEF ShopInv, CardIsRead, HasOrder
<1>6. (\A q \in ShopOrders : OrderIsAsMade(q))'
  BY <1>1, <1>4 DEF ShopInv, OrderIsAsMade, Paid, Unpaid, SettledApart
<1>7. DiscountIsOnce'
  BY <1>1, <1>4 DEF ShopInv, DiscountIsOnce, Paid
<1>8. CASE FindsPayment(o, s) \/ SettlementFails(o, s)
  <2> DEFINE x == [NoSettlement EXCEPT !.pc = "done"]
  <2>1. settling' = [settling EXCEPT ![o][s] = x] /\ shopHistory' = shopHistory
    BY <1>8 DEF FindsPayment, SettlementFails, SettlementEnds
  <2>2. x \in SettlementType /\ x.pc = "done"
    BY IdleSettlement
  <2> HIDE DEF x
  <2>3. /\ settling' \in [ShopOrders -> [Settlers -> SettlementType]]
        /\ \A p \in ShopOrders, r \in Settlers :
             settling'[p][r] = IF p = o /\ r = s THEN x ELSE settling[p][r]
    BY <1>2, <2>1, <2>2, SettlementIsPut
  <2>4. (\A p \in ShopOrders, r \in Settlers : SettlementIsAlone(p, r))'
    BY <1>1, <2>1, <2>2, <2>3, SettlementsStayAlone
  <2> QED
    BY <1>1, <1>3, <1>4, <1>5, <1>6, <1>7, <2>3, <2>4 DEF ShopInv, ShopShapes
<1>9. CASE ReadsLiveRow(o, s)
  <2> DEFINE w == settling[o][s]
             base == [p \in ShopOrders |-> order[p].granted]
             live == access.status # "none"
             x == [w EXCEPT !.pc = "write", !.live = live, !.base = base]
  <2>1. settling' = [settling EXCEPT ![o][s] = x] /\ shopHistory' = shopHistory
        /\ w.pc = "read"
    BY <1>9 DEF ReadsLiveRow
  <2>2. base \in [ShopOrders -> Nat] /\ \A p \in ShopOrders : base[p] = order[p].granted
    BY <1>2 DEF OrderType
  <2>3. w \in SettlementType /\ live \in BOOLEAN
    BY <1>2
  <2> HIDE DEF w, base, live
  <2>4. x \in SettlementType /\ x.pc = "write" /\ x.days = w.days /\ x.base = base
    BY <2>2, <2>3 DEF SettlementType
  <2> HIDE DEF x
  <2>5. /\ settling' \in [ShopOrders -> [Settlers -> SettlementType]]
        /\ \A p \in ShopOrders, r \in Settlers :
             settling'[p][r] = IF p = o /\ r = s THEN x ELSE settling[p][r]
    BY <1>2, <2>1, <2>4, SettlementIsPut
  <2>6. /\ \A p \in ShopOrders, r \in Settlers : UnderWay(p, r)' <=> UnderWay(p, r)
        /\ \A p \in ShopOrders, r \in Settlers : MetBy(p, r)' = MetBy(p, r)
    <3>1. \A p \in ShopOrders, r \in Settlers : UnderWay(p, r)' <=> UnderWay(p, r)
      BY <2>1, <2>4, <2>5 DEF UnderWay, w
    <3> QED
      BY <3>1 DEF MetBy
  <2>7. ASSUME NEW p \in ShopOrders, NEW r \in Settlers
        PROVE  SettlementIsAlone(p, r)'
    <3>1. SettlementIsAlone(p, r) /\ \A q \in ShopOrders : OrderIsAsMade(q)
      BY DEF ShopInv
    <3>2. CASE p = o /\ r = s
      BY <1>1, <2>1, <2>2, <2>4, <2>5, <2>6, <3>1, <3>2 DEF SettlementIsAlone, Paid, OrderIsAsMade, w, UnderWay
    <3>3. CASE ~(p = o /\ r = s)
      BY <1>1, <2>1, <2>5, <2>6, <3>1, <3>3 DEF SettlementIsAlone, Paid
    <3> QED
      BY <3>2, <3>3
  <2> QED
    BY <1>1, <1>3, <1>4, <1>5, <1>6, <1>7, <2>5, <2>7 DEF ShopInv, ShopShapes
<1>10. CASE FindsNoPayment(o, s)
  <2> DEFINE x == [NoSettlement EXCEPT !.pc = "read", !.days = shop.deal.days]
  <2>1. /\ settling' = [settling EXCEPT ![o][s] = x] /\ Called(o, s) /\ ~Paid(o)
        /\ shopHistory'.met = shopHistory.met \cup
             (IF MetBy(o, s) = {} THEN {} ELSE MetBy(o, s) \cup {o})
    BY <1>2, <1>10 DEF FindsNoPayment, ShopHistoryType
  <2>2. x \in SettlementType /\ x.pc = "read" /\ x.days = shop.deal.days
    BY <1>2 DEF NoSettlement, NothingGranted, SettlementType
  <2> HIDE DEF x
  <2>3. /\ settling' \in [ShopOrders -> [Settlers -> SettlementType]]
        /\ \A p \in ShopOrders, r \in Settlers :
             settling'[p][r] = IF p = o /\ r = s THEN x ELSE settling[p][r]
    BY <1>2, <2>1, <2>2, SettlementIsPut
  <2>4. Unpaid(o) /\ ~UnderWay(o, s) /\ order[o].pc # "none"
    BY <1>2, <2>1 DEF Called, Paid, Unpaid, UnderWay, ShopInv, SettlementIsAlone, OrderType
  <2>5. ASSUME NEW p \in ShopOrders, NEW r \in Settlers, <<p, r>> # <<o, s>>
        PROVE  SettlementIsAlone(p, r)'
    <3>1. SettlementIsAlone(p, r) /\ settling'[p][r] = settling[p][r]
      BY <2>3, <2>5 DEF ShopInv
    <3>2. UnderWay(p, r) => p \in shopHistory'.met
      BY <2>1, <2>5 DEF MetBy
    <3> QED
      BY <1>1, <1>4, <3>1, <3>2 DEF SettlementIsAlone, Paid, UnderWay
  <2>6. SettlementIsAlone(o, s)'
    <3>1. o \notin shopHistory'.met => MetBy(o, s) = {}
      BY <2>1
    <3>2. \A p \in ShopOrders, r \in Settlers :
            <<p, r>> # <<o, s>> => (UnderWay(p, r)' <=> UnderWay(p, r))
      BY <2>3 DEF UnderWay
    <3>3. MetBy(o, s)' = MetBy(o, s)
      BY <3>2 DEF MetBy
    <3>4. ~order[o].edited => order[o].days = shop.deal.days
      BY <2>4 DEF ShopInv, OrderIsAsMade
    <3> QED
      BY <1>1, <2>1, <2>2, <2>3, <2>4, <3>1, <3>3, <3>4 DEF SettlementIsAlone, Paid, UnderWay
  <2> QED
    BY <1>1, <1>3, <1>4, <1>5, <1>6, <1>7, <2>3, <2>5, <2>6 DEF ShopInv, ShopShapes
<1> QED
  BY <1>8, <1>9, <1>10

(* What a grant leaves of the orders: those that met no other settlement   *)
(* keep what they have, and the one that is settled gets its period.       *)
LEMMA GrantKeepsOrders ==
  ASSUME ShopInv, NEW o \in ShopOrders, NEW s \in Settlers, WritesPeriod(o, s)
  PROVE  /\ order' \in [ShopOrders -> OrderType]
         /\ UnderWay(o, s) /\ (o \notin shopHistory.met => ~Paid(o) /\ MetBy(o, s) = {})
         /\ \A p \in ShopOrders :
              /\ order'[p].pc = IF p = o THEN "paid" ELSE order[p].pc
              /\ order'[p].cut = order[p].cut /\ order'[p].days = order[p].days
              /\ order'[p].since = order[p].since /\ order'[p].edited = order[p].edited
              /\ order'[p].amount = order[p].amount /\ order'[p].shown = order[p].shown
              /\ p # o /\ p \notin shopHistory.met => order'[p].granted = order[p].granted
              /\ p # o /\ ~Paid(p) => order'[p].granted = 0
              /\ p = o /\ o \notin shopHistory.met => order'[p].granted = settling[o][s].days
<1>1. /\ settling[o][s] \in SettlementType /\ settling[o][s].pc = "write"
      /\ order \in [ShopOrders -> OrderType]
      /\ SettlementIsAlone(o, s) /\ \A p \in ShopOrders : OrderIsAsMade(p)
  <2>1. /\ settling \in [ShopOrders -> [Settlers -> SettlementType]]
        /\ order \in [ShopOrders -> OrderType]
        /\ SettlementIsAlone(o, s) /\ \A p \in ShopOrders : OrderIsAsMade(p)
    BY DEF ShopInv, ShopShapes
  <2>2. settling[o][s].pc = "write"
    BY DEF WritesPeriod
  <2> QED
    BY <2>1, <2>2
<1>2. /\ settling[o][s].days \in Nat /\ settling[o][s].base \in [ShopOrders -> Nat]
      /\ settling[o][s].live \in BOOLEAN
  <2>1. ShopPeriods \cup {0} \subseteq Nat
    BY ShopAssumption DEF ShopPeriods
  <2> QED
    BY <1>1, <2>1 DEF SettlementType
<1>3. ASSUME NEW p \in ShopOrders
      PROVE  /\ WithPeriod(o, s)[p] \in Nat
             /\ p # o /\ p \notin shopHistory.met => WithPeriod(o, s)[p] = order[p].granted
             /\ p # o /\ ~Paid(p) => WithPeriod(o, s)[p] = 0
             /\ p = o /\ o \notin shopHistory.met => WithPeriod(o, s)[p] = settling[o][s].days
  <2> DEFINE had == IF settling[o][s].live THEN settling[o][s].base[p] ELSE order[p].granted
             more == IF p = o THEN settling[o][s].days ELSE 0
  <2>1. WithPeriod(o, s)[p] = had + more
    BY DEF WithPeriod
  <2>2. order[p].granted \in Nat
    BY <1>1 DEF OrderType
  <2>3. had \in Nat
    BY <1>2, <2>2
  <2>4. /\ p \notin shopHistory.met => had = order[p].granted
        /\ ~Paid(p) => had = 0
    BY <1>1 DEF SettlementIsAlone, OrderIsAsMade
  <2>5. o \notin shopHistory.met => ~Paid(o)
    BY <1>1 DEF SettlementIsAlone, UnderWay
  <2>6. more \in Nat /\ (p # o => more = 0) /\ (p = o => more = settling[o][s].days)
    BY <1>2
  <2> HIDE DEF had, more
  <2> QED
    BY <2>1, <2>2, <2>3, <2>4, <2>5, <2>6
<1>4. ASSUME NEW p \in ShopOrders
      PROVE  /\ order'[p] \in OrderType
             /\ order'[p].granted = WithPeriod(o, s)[p]
             /\ order'[p].pc = IF p = o THEN "paid" ELSE order[p].pc
             /\ order'[p].cut = order[p].cut /\ order'[p].days = order[p].days
             /\ order'[p].since = order[p].since /\ order'[p].edited = order[p].edited
             /\ order'[p].amount = order[p].amount /\ order'[p].shown = order[p].shown
  <2> DEFINE r == order[p]
             days == WithPeriod(o, s)[p]
             pc == IF p = o THEN "paid" ELSE r.pc
             x == [r EXCEPT !.granted = days, !.pc = pc]
  <2>1. order'[p] = x
    BY DEF WritesPeriod
  <2>2. r \in OrderType /\ days \in Nat
    BY <1>1, <1>3
  <2>3. pc \in {"none", "open", "captured", "paid"}
    BY <2>2 DEF OrderType
  <2> HIDE DEF r, days, pc
  <2>4. /\ x \in OrderType /\ x.granted = days /\ x.pc = pc
        /\ x.cut = r.cut /\ x.days = r.days /\ x.since = r.since /\ x.edited = r.edited
        /\ x.amount = r.amount /\ x.shown = r.shown
    BY <2>2, <2>3 DEF OrderType
  <2> HIDE DEF x
  <2> QED
    BY <2>1, <2>4 DEF r, days, pc
<1>5. order' \in [ShopOrders -> OrderType]
  <2> DEFINE row(p) == [order[p] EXCEPT !.granted = WithPeriod(o, s)[p],
                                       !.pc = IF p = o THEN "paid" ELSE @]
  <2>1. order' = [p \in ShopOrders |-> row(p)]
    BY DEF WritesPeriod
  <2> HIDE DEF row
  <2> QED
    BY <1>4, <2>1
<1>6. UnderWay(o, s) /\ (o \notin shopHistory.met => ~Paid(o) /\ MetBy(o, s) = {})
  BY <1>1 DEF SettlementIsAlone, UnderWay
<1> QED
  BY <1>3, <1>4, <1>5, <1>6

(* A period is granted, with its discount claimed, or noted as unclaimed.  *)
LEMMA GrantKeepsShop ==
  ASSUME ShopInv, NEW o \in ShopOrders, NEW s \in Settlers, WritesPeriod(o, s)
  PROVE  ShopInv'
<1> DEFINE x == [NoSettlement EXCEPT !.pc = "done"]
<1>1. PICK claims \in BOOLEAN, to \in {"refresh", "rest"} :
        /\ access' = [status |-> "active", ending |-> settling[o][s].live /\ access.ending,
                      redeemed |-> access.redeemed \cup
                        (IF claims /\ order[o].cut THEN {"discount"} ELSE {})]
        /\ shopHistory' = [shopHistory EXCEPT !.unclaimed = @ \/ (order[o].cut /\ ~claims)]
        /\ Answers(o, s, to)
  BY DEF WritesPeriod
<1>2. /\ settling \in [ShopOrders -> [Settlers -> SettlementType]]
      /\ settling[o][s] \in SettlementType /\ order \in [ShopOrders -> OrderType]
      /\ shopHistory \in ShopHistoryType /\ access \in AccessType
      /\ \A t \in ShopPages : CardIsRead(shopPage[t]) /\ HasOrder(shopPage[t])
  BY DEF ShopInv, ShopShapes
<1>3. /\ shopHistory' \in ShopHistoryType /\ shopHistory'.changes = shopHistory.changes
      /\ shopHistory'.overlap = shopHistory.overlap /\ shopHistory'.met = shopHistory.met
      /\ shopHistory'.unclaimed = (shopHistory.unclaimed \/ (order[o].cut /\ ~claims))
  <2>1. order[o].cut \in BOOLEAN
    BY <1>2 DEF OrderType
  <2> QED
    BY <1>1, <1>2, <2>1 DEF ShopHistoryType
<1>4. /\ access' \in AccessType /\ access.redeemed \subseteq access'.redeemed
      /\ claims /\ order[o].cut => "discount" \in access'.redeemed
  <2>1. settling[o][s].live \in BOOLEAN
    BY <1>2 DEF SettlementType
  <2> QED
    BY <1>1, <1>2, <2>1 DEF AccessType
<1>5. /\ shopPage' \in [ShopPages -> ShopPageType]
      /\ \A t \in ShopPages :
           /\ shopPage'[t].card = shopPage[t].card
           /\ \/ shopPage'[t] = shopPage[t]
              \/ shopPage[t].busy = "verify" /\ shopPage'[t].busy = to
  BY <1>1, AnswersKeepPages
<1>6. shop' = shop /\ settling' = [settling EXCEPT ![o][s] = x]
  BY DEF WritesPeriod, SettlementEnds
<1>7. x \in SettlementType /\ x.pc = "done"
  BY IdleSettlement
<1> HIDE DEF x
<1>8. /\ settling' \in [ShopOrders -> [Settlers -> SettlementType]]
      /\ \A p \in ShopOrders, r \in Settlers :
           settling'[p][r] = IF p = o /\ r = s THEN x ELSE settling[p][r]
  BY <1>2, <1>6, <1>7, SettlementIsPut
<1>9. /\ order' \in [ShopOrders -> OrderType]
      /\ UnderWay(o, s) /\ (o \notin shopHistory.met => ~Paid(o) /\ MetBy(o, s) = {})
      /\ \A p \in ShopOrders :
           /\ order'[p].pc = IF p = o THEN "paid" ELSE order[p].pc
           /\ order'[p].cut = order[p].cut /\ order'[p].days = order[p].days
           /\ order'[p].since = order[p].since /\ order'[p].edited = order[p].edited
           /\ order'[p].amount = order[p].amount /\ order'[p].shown = order[p].shown
           /\ p # o /\ p \notin shopHistory.met => order'[p].granted = order[p].granted
           /\ p # o /\ ~Paid(p) => order'[p].granted = 0
           /\ p = o /\ o \notin shopHistory.met => order'[p].granted = settling[o][s].days
  BY GrantKeepsOrders
<1>10. ShopShapes'
  BY <1>3, <1>4, <1>5, <1>6, <1>8, <1>9 DEF ShopInv, ShopShapes
<1>11. (\A t \in ShopPages : CardIsRead(shopPage[t]) /\ HasOrder(shopPage[t]))'
  <2> SUFFICES ASSUME NEW t \in ShopPages PROVE CardIsRead(shopPage[t])' /\ HasOrder(shopPage[t])'
    OBVIOUS
  <2>1. CardIsRead(shopPage[t])'
    <3>1. CardIsRead(shopPage[t])
      BY <1>2
    <3>2. shopPage'[t].busy # "away" => shopPage[t].busy # "away"
      BY <1>5
    <3> QED
      BY <1>3, <1>5, <1>6, <3>1, <3>2 DEF CardIsRead
  <2>2. HasOrder(shopPage[t])'
    <3>1. \A p \in ShopOrders : order[p].pc # "none" => order'[p].pc # "none"
      BY <1>9
    <3>2. CASE shopPage'[t] = shopPage[t]
      BY <1>2, <3>1, <3>2 DEF HasOrder
    <3>3. CASE shopPage'[t].busy = to
      BY <3>3 DEF HasOrder
    <3> QED
      BY <1>5, <3>2, <3>3
  <2> QED
    BY <2>1, <2>2
<1>12. ASSUME NEW p \in ShopOrders PROVE OrderIsAsMade(p)'
  <2>1. OrderIsAsMade(p) /\ SettlementIsAlone(o, s)
    BY DEF ShopInv
  <2>2. CASE p = o
    <3>1. order[o].pc # "none"
      BY <1>9, <2>1 DEF SettlementIsAlone, UnderWay
    <3>2. o \notin shopHistory.met /\ ~order[o].edited => settling[o][s].days = order[o].days
      BY <1>9, <2>1 DEF SettlementIsAlone
    <3> QED
      BY <1>3, <1>6, <1>9, <2>1, <2>2, <3>1, <3>2
         DEF OrderIsAsMade, Paid, Unpaid, SettledApart
  <2>3. CASE p # o
    BY <1>3, <1>6, <1>9, <2>1, <2>3 DEF OrderIsAsMade, Paid, Unpaid, SettledApart
  <2> QED
    BY <2>2, <2>3
<1>13. ASSUME NEW p \in ShopOrders, NEW r \in Settlers PROVE SettlementIsAlone(p, r)'
  <2>1. SettlementIsAlone(p, r)
    BY DEF ShopInv
  <2>2. CASE p = o /\ r = s
    BY <1>7, <1>8, <2>2 DEF SettlementIsAlone, UnderWay
  <2>3. CASE ~(p = o /\ r = s)
    <3>1. settling'[p][r] = settling[p][r]
      BY <1>8, <2>3
    <3>2. UnderWay(p, r) => p \in shopHistory.met /\ o \in shopHistory.met
      <4>1. UnderWay(p, r) => o \in MetBy(p, r) /\ p \in MetBy(o, s)
        BY <1>9, <2>3 DEF MetBy
      <4> QED
        BY <1>9, <2>1, <4>1 DEF SettlementIsAlone
    <3>3. \A q \in ShopOrders :
            settling[p][r].pc = "write" /\ q \notin shopHistory.met
              => order'[q].granted = order[q].granted
      BY <1>9, <3>2 DEF UnderWay
    <3> QED
      BY <1>3, <1>9, <2>1, <3>1, <3>2, <3>3 DEF SettlementIsAlone, Paid, UnderWay
  <2> QED
    BY <2>2, <2>3
<1>14. DiscountIsOnce'
  BY <1>3, <1>4, <1>9 DEF ShopInv, DiscountIsOnce, Paid
<1> QED
  BY <1>10, <1>11, <1>12, <1>13, <1>14 DEF ShopInv

(* Every step keeps the invariant.                                         *)
LEMMA ShopStep ==
  ASSUME ShopInv, [ShopNext]_shopVars
  PROVE  ShopInv'
<1>1. CASE UNCHANGED shopVars
  BY <1>1 DEF shopVars, ShopInv, ShopShapes, CardIsRead, HasOrder, OrderIsAsMade, DiscountIsOnce,
              SettlementIsAlone, UnderWay, MetBy, Paid, Unpaid, SettledApart
<1> QED
  BY <1>1, VisitsKeepShop, ChangesKeepShop, CreationKeepsShop, CaptureKeepsShop, LooksKeepShop,
     GrantKeepsShop
     DEF ShopNext

(* No more than one order has the discount, so no more than one was paid   *)
(* with it.                                                                *)
LEMMA DiscountIsPaidOnce == ShopInv => OneDiscount
<1> SUFFICES ASSUME ShopInv, ~shopHistory.overlap, ~shopHistory.unclaimed
             PROVE  Cardinality({o \in ShopOrders : order[o].cut /\ Paid(o)}) <= 1
  BY DEF OneDiscount
<1> DEFINE cutPaid == {o \in ShopOrders : order[o].cut /\ Paid(o)}
<1>1. \A o, p \in cutPaid : o = p
  BY DEF ShopInv, DiscountIsOnce
<1> HIDE DEF cutPaid
<1>2. CASE cutPaid = {}
  BY <1>2, FS_EmptySet DEF cutPaid
<1>3. ASSUME NEW o \in cutPaid PROVE Cardinality(cutPaid) <= 1
  <2>1. cutPaid = {o}
    BY <1>1, <1>3
  <2>2. Cardinality({o}) = 1
    BY FS_Singleton
  <2> QED
    BY <2>1, <2>2
<1> QED
  BY <1>2, <1>3 DEF cutPaid

(* What was settled stays, and a trial is for who has nothing.             *)
LEMMA SettledStays ==
  ASSUME ShopInv, ShopNext, NEW o \in ShopOrders, SettledApart(o)
  PROVE  order'[o].granted = order[o].granted
<1>1. order \in [ShopOrders -> OrderType] /\ OrderIsAsMade(o) /\ Paid(o) /\ o \notin shopHistory.met
      /\ \A t \in ShopPages : HasOrder(shopPage[t])
  BY DEF ShopInv, ShopShapes, SettledApart
<1>2. CASE UNCHANGED order
  BY <1>2
<1>3. CASE EditPricePoint
  <2> DEFINE r == order[o]
             note == order[o].edited \/ Unpaid(o)
  <2>1. order'[o] = [r EXCEPT !.edited = note] /\ r \in OrderType
    BY <1>1, <1>3 DEF EditPricePoint
  <2> HIDE DEF r, note
  <2>2. order'[o].granted = r.granted
    BY <2>1 DEF OrderType
  <2> QED
    BY <2>2 DEF r
<1>4. ASSUME NEW q \in ShopOrders, NEW s \in Settlers, WritesPeriod(q, s)
      PROVE  order'[o].granted = order[o].granted
  <2>1. q # o
    BY <1>1, <1>4, GrantKeepsOrders
  <2> QED
    BY <1>1, <1>4, <2>1, GrantKeepsOrders
<1>7. ASSUME NEW q \in ShopOrders, order[q].pc = "open", order' = [order EXCEPT ![q].pc = "captured"]
      PROVE  order'[o].granted = order[o].granted
  BY <1>1, <1>7 DEF OrderType
<1>8. CASE (\E t \in ShopPages : PayInModal(t)) \/ (\E q \in ShopOrders : CapturedLate(q))
  BY <1>1, <1>7, <1>8 DEF PayInModal, CapturedLate, HasOrder
<1>9. ASSUME NEW t \in ShopPages, NEW q \in ShopOrders, CreateOrder(t, q)
      PROVE  order'[o].granted = order[o].granted
  <2>1. q # o
    BY <1>1, <1>9 DEF CreateOrder, Paid
  <2>2. \E made : order' = [order EXCEPT ![q] = made]
    BY <1>9 DEF CreateOrder
  <2> QED
    BY <1>1, <2>1, <2>2
<1> QED
  BY <1>2, <1>3, <1>4, <1>8, <1>9
     DEF ShopNext, SwitchSetting, PeriodEnds, OpenPage, AskOrder, OrderRefused, DismissModal,
         AnswerLost, AskTrial, TrialClaimed, TrialRefused, AskCancel, CancelAtPeriodEnd,
         RefreshPage, FindsNoPayment, FindsPayment, ReadsLiveRow, SettlementFails

(* A trial is started for who has no subscription.                         *)
LEMMA TrialsAreForNobody ==
  ASSUME ShopInv, ShopNext, access.status = "active"
  PROVE  access'.status # "trialing"
<1>1. access \in AccessType
  BY DEF ShopInv, ShopShapes
<1>2. CASE UNCHANGED access
  BY <1>2
<1>3. CASE PeriodEnds \/ \E t \in ShopPages : TrialClaimed(t) \/ CancelAtPeriodEnd(t)
  BY <1>1, <1>3 DEF PeriodEnds, TrialClaimed, CancelAtPeriodEnd, AccessType
<1>4. ASSUME NEW o \in ShopOrders, NEW s \in Settlers, WritesPeriod(o, s)
      PROVE  access'.status = "active"
  <2>1. PICK claims \in BOOLEAN :
          access' = [status |-> "active", ending |-> settling[o][s].live /\ access.ending,
                     redeemed |-> access.redeemed \cup
                       (IF claims /\ order[o].cut THEN {"discount"} ELSE {})]
    BY <1>4 DEF WritesPeriod
  <2> QED
    BY <2>1
<1> QED
  BY <1>2, <1>3, <1>4
     DEF ShopNext, EditPricePoint, SwitchSetting, OpenPage, AskOrder, OrderRefused, DismissModal,
         AnswerLost, AskTrial, TrialRefused, AskCancel, RefreshPage, CreateOrder, PayInModal,
         CapturedLate, FindsNoPayment, FindsPayment, ReadsLiveRow, SettlementFails

(* The shop's part of it, for any pages, deals and campaigns.              *)
LEMMA ShopStaysFair ==
  ShopSpec => /\ [](OneDiscount /\ ChargedAsShown /\ GrantsWhatWasOrdered)
              /\ SettledForGood /\ TrialsDoNotReplace
<1>1. ShopInv => ChargedAsShown /\ GrantsWhatWasOrdered
  BY DEF ShopInv, OrderIsAsMade, ChargedAsShown, GrantsWhatWasOrdered
<1>2. ShopInv /\ [ShopNext]_shopVars
      => /\ [\A o \in ShopOrders : SettledApart(o) => order'[o].granted = order[o].granted]_shopVars
         /\ [access.status = "active" => access'.status # "trialing"]_shopVars
  BY SettledStays, TrialsAreForNobody
<1> QED
  BY <1>1, <1>2, ShopStart, ShopStep, DiscountIsPaidOnce, PTL
     DEF ShopSpec, SettledForGood, TrialsDoNotReplace

-----------------------------------------------------------------------------
(***************************************************************************)
(* The plans on sale: what is shown is granted, the badge is settled by    *)
(* the save that met no other, and a price is its plan's.                  *)
(***************************************************************************)

(* What plans, prices and saves are made of.                               *)
PlanType == [there : BOOLEAN, popular : BOOLEAN, granted : SUBSET PlanFeatures,
             shown : SUBSET PlanFeatures]

(* What a price point is made of.                                          *)
PriceType == [there : BOOLEAN, plan : PlanIds, offer : Offers]

(* What an editor's save is made of.                                       *)
SaveType == [pc : {"closed", "open", "create", "clear", "update", "price", "grant", "list", "show", "commit"},
             form : PlanForm, cleared : SUBSET PlanIds, old : SUBSET PlanFeatures, alone : BOOLEAN]

(* The types of plans, prices and saves.                                   *)
PlanShapes ==
  /\ plans \in [PlanIds -> PlanType] /\ prices \in [PriceIds -> PriceType]
  /\ planOp \in [PlanEditors -> SaveType]
  /\ planHistory \in [saves : 0..MaxPlanSaves, crossed : BOOLEAN]

(* A save of a popular plan that is past its first statement.              *)
Badges(op) == op.pc \in SaveUnderWay /\ op.form.popular

(* What will be shown has been granted.                                    *)
GrantsCome ==
  \A e \in PlanEditors : planOp[e].pc \in {"list", "show"} =>
    planOp[e].form.features \subseteq plans[planOp[e].form.plan].granted

(* A save that is alone with the badge takes it from whoever else has it;  *)
(* where nothing has crossed every such save is alone, and without one the *)
(* badge is one.                                                           *)
BadgeIsSettled ==
  /\ \A e \in PlanEditors : Badging(e) /\ planOp[e].alone =>
       /\ \A d \in PlanEditors \ {e} : ~Badging(d)
       /\ \A p \in PlanIds : plans[p].popular => p \in planOp[e].cleared \cup {planOp[e].form.plan}
  /\ ~planHistory.crossed => \A e \in PlanEditors : Badging(e) => planOp[e].alone
  /\ ~planHistory.crossed /\ (\A e \in PlanEditors : ~Badging(e)) =>
       \A p, q \in PlanIds : plans[p].popular /\ plans[q].popular => p = q

(* What the proofs about the plans rest on.                                *)
PlanInv == PlanShapes /\ ShownIsGranted /\ GrantsCome /\ BadgeIsSettled

(* The constants of the editor have their types.                           *)
LEMMA PlanConstants ==
  /\ AnyPlan \in PlanIds /\ GoodOffer \in Offers /\ GoodOffer \notin BadOffers
  /\ NoDraft \in PlanForm /\ NoSave \in SaveType /\ NoSave.pc = "closed" /\ NoSave.form = NoDraft
<1>1. AnyPlan \in PlanIds /\ GoodOffer \in Offers /\ GoodOffer \notin BadOffers
  BY PlanAssumption DEF AnyPlan, GoodOffer
<1>2. NoDraft \in PlanForm
  <2> DEFINE priced == [i \in PriceIds |-> NoOffer]
  <2>1. priced \in [PriceIds -> Offers \cup {NoOffer}]
    OBVIOUS
  <2>2. NoDraft = [plan |-> AnyPlan, create |-> FALSE, popular |-> FALSE, features |-> {},
                   priced |-> priced, fresh |-> FALSE, limits |-> TRUE]
    BY DEF NoDraft
  <2> HIDE DEF priced
  <2> QED
    BY <1>1, <2>1, <2>2 DEF PlanForm
<1>3. NoSave \in SaveType /\ NoSave.pc = "closed" /\ NoSave.form = NoDraft
  BY <1>2 DEF NoSave, SaveType
<1> QED
  BY <1>1, <1>2, <1>3

(* A set with one element at most.                                         *)
LEMMA AtMostOne ==
  ASSUME NEW S, IsFiniteSet(S)
  PROVE  Cardinality(S) <= 1 <=> \A x, y \in S : x = y
<1>1. ASSUME \A x, y \in S : x = y PROVE Cardinality(S) <= 1
  <2>1. CASE S = {}
    <3>1. Cardinality({}) = 0
      BY FS_EmptySet
    <3> QED
      BY <2>1, <3>1
  <2>2. ASSUME NEW x \in S PROVE Cardinality(S) <= 1
    <3>1. S = {x}
      BY <1>1, <2>2
    <3>2. Cardinality({x}) = 1
      BY FS_Singleton
    <3> QED
      BY <3>1, <3>2
  <2> QED
    BY <2>1, <2>2
<1>2. ASSUME Cardinality(S) <= 1, NEW x \in S, NEW y \in S, x # y PROVE FALSE
  <2>1. {x, y} \subseteq S
    OBVIOUS
  <2>2. Cardinality({x}) = 1 /\ IsFiniteSet({x})
    BY FS_Singleton
  <2>3. Cardinality({x} \cup {y}) = Cardinality({x}) + 1 /\ IsFiniteSet({x} \cup {y})
    BY <1>2, <2>2, FS_AddElement
  <2>4. {x} \cup {y} = {x, y}
    OBVIOUS
  <2>5. Cardinality({x, y}) <= Cardinality(S) /\ Cardinality(S) \in Nat
    BY <2>1, FS_Subset, FS_CardinalityType
  <2>6. Cardinality({x, y}) = 2
    BY <2>2, <2>3, <2>4
  <2> QED
    BY <1>2, <2>5, <2>6
<1> QED
  BY <1>1, <1>2

(* The plans that are there from the beginning have one badge at most.     *)
LEMMA PlanStart == PlanInit => PlanInv
<1> SUFFICES ASSUME PlanInit PROVE PlanInv
  OBVIOUS
<1>1. PICK badge \in SUBSET FirstPlans :
        /\ Cardinality(badge) <= 1
        /\ plans = [p \in PlanIds |->
                     IF p \in FirstPlans THEN [there |-> TRUE, popular |-> p \in badge,
                                              granted |-> PlanFeatures, shown |-> PlanFeatures]
                     ELSE NoPlan]
  BY DEF PlanInit
<1>2. \A p, q \in badge : p = q
  <2>1. IsFiniteSet(badge)
    BY PlanAssumption, FS_Subset
  <2> QED
    BY <1>1, <2>1, AtMostOne
<1>3. \A p \in PlanIds : /\ plans[p] \in PlanType /\ plans[p].popular = (p \in badge)
                         /\ plans[p].shown = plans[p].granted
  <2> SUFFICES ASSUME NEW p \in PlanIds
               PROVE  /\ plans[p] \in PlanType /\ plans[p].popular = (p \in badge)
                      /\ plans[p].shown = plans[p].granted
    OBVIOUS
  <2>1. CASE p \in FirstPlans
    <3> DEFINE own == (p \in badge)
    <3>1. plans[p] = [there |-> TRUE, popular |-> own, granted |-> PlanFeatures, shown |-> PlanFeatures]
      BY <1>1, <2>1
    <3>2. own \in BOOLEAN
      OBVIOUS
    <3> HIDE DEF own
    <3>3. plans[p] \in PlanType /\ plans[p].popular = own /\ plans[p].shown = plans[p].granted
      BY <3>1, <3>2 DEF PlanType
    <3> QED
      BY <3>3 DEF own
  <2>2. CASE p \notin FirstPlans
    <3>1. plans[p] = NoPlan /\ p \notin badge
      BY <1>1, <2>2
    <3>2. NoPlan \in PlanType /\ NoPlan.popular = FALSE /\ NoPlan.shown = NoPlan.granted
      BY DEF NoPlan, PlanType
    <3>3. (p \in badge) = FALSE
      BY <3>1
    <3> QED
      BY <3>1, <3>2, <3>3
  <2> QED
    BY <2>1, <2>2
<1>4. plans \in [PlanIds -> PlanType]
  BY <1>1, <1>3
<1>5. prices \in [PriceIds -> PriceType]
  <2> DEFINE own == CHOOSE f \in [FirstPlans -> PriceIds] : IsInjective(f)
  <2>1. own \in [FirstPlans -> PriceIds] /\ IsInjective(own)
    BY PlanAssumption DEF ExistsInjection, Injection
  <2>2. prices = [i \in PriceIds |->
                     [there |-> i \in Range(own), offer |-> GoodOffer,
                      plan |-> IF i \in Range(own) THEN AntiFunction(own)[i] ELSE AnyPlan]]
    BY DEF PlanInit
  <2> HIDE DEF own
  <2>3. \A i \in Range(own) : AntiFunction(own)[i] \in FirstPlans
    <3> SUFFICES ASSUME NEW i \in Range(own) PROVE AntiFunction(own)[i] \in FirstPlans
      OBVIOUS
    <3>1. \E p \in FirstPlans : own[p] = i
      BY <2>1 DEF Range
    <3>2. AntiFunction(own)[i] = CHOOSE p \in FirstPlans : i \in Range(own) => own[p] = i
      BY <2>1 DEF AntiFunction, Inverse
    <3> QED
      BY <3>1, <3>2
  <2> SUFFICES ASSUME NEW i \in PriceIds PROVE prices[i] \in PriceType
    BY <2>2
  <2> DEFINE there == (i \in Range(own))
             plan == IF i \in Range(own) THEN AntiFunction(own)[i] ELSE AnyPlan
  <2>4. there \in BOOLEAN /\ plan \in PlanIds
    BY <2>3, PlanConstants, PlanAssumption
  <2>5. prices[i] = [there |-> there, offer |-> GoodOffer, plan |-> plan]
    BY <2>2
  <2> HIDE DEF there, plan
  <2> QED
    BY <2>4, <2>5, PlanConstants DEF PriceType
<1>6. PlanShapes
  BY <1>4, <1>5, PlanConstants, PlanAssumption DEF PlanInit, PlanShapes
<1>7. \A e \in PlanEditors : planOp[e].pc = "closed"
  BY PlanConstants DEF PlanInit
<1>8. ShownIsGranted /\ GrantsCome
  BY <1>3, <1>7 DEF ShownIsGranted, GrantsCome
<1>9. BadgeIsSettled
  BY <1>2, <1>3, <1>7 DEF BadgeIsSettled, Badging, SaveUnderWay
<1> QED
  BY <1>6, <1>8, <1>9 DEF PlanInv

(* What a step of one editor may do about the badge: nothing, if it does   *)
(* not order one; give it to its own plan; or note that it has broken off. *)
BadgesBy(e, next) ==
  \/ /\ planHistory'.crossed = planHistory.crossed /\ ~Badging(e) /\ ~Badges(next)
     /\ \A p \in PlanIds : plans'[p].popular => plans[p].popular
  \/ /\ planHistory'.crossed = planHistory.crossed /\ Badging(e) /\ Badges(next)
     /\ next.form = planOp[e].form /\ next.cleared = planOp[e].cleared /\ next.alone = planOp[e].alone
     /\ \A p \in PlanIds : plans'[p].popular => plans[p].popular \/ p = next.form.plan
  \/ /\ planHistory'.crossed /\ ~Badges(next)
     /\ \A p \in PlanIds : plans'[p].popular => plans[p].popular

(* Such a step keeps the badge settled.                                    *)
LEMMA BadgeStaysSettled ==
  ASSUME PlanInv, NEW e \in PlanEditors, NEW next \in SaveType,
         planOp' = [planOp EXCEPT ![e] = next], BadgesBy(e, next)
  PROVE  BadgeIsSettled'
<1>1. \A d \in PlanEditors : planOp'[d] = IF d = e THEN next ELSE planOp[d]
  BY DEF PlanInv, PlanShapes
<1>2. \A d \in PlanEditors : Badging(d)' <=> IF d = e THEN Badges(next) ELSE Badging(d)
  BY <1>1 DEF Badging, Badges
<1>3. BadgeIsSettled
  BY DEF PlanInv
<1>4. ASSUME NEW d \in PlanEditors, Badging(d)', planOp'[d].alone
      PROVE  /\ \A c \in PlanEditors \ {d} : ~Badging(c)'
             /\ \A p \in PlanIds : plans'[p].popular => p \in planOp'[d].cleared \cup {planOp'[d].form.plan}
  <2>1. CASE d = e
    <3>1. Badging(e) /\ planOp[e].alone
      BY <1>1, <1>2, <1>4, <2>1 DEF BadgesBy
    <3>2. /\ \A c \in PlanEditors \ {e} : ~Badging(c)
          /\ \A p \in PlanIds : plans[p].popular => p \in planOp[e].cleared \cup {planOp[e].form.plan}
      BY <1>3, <3>1 DEF BadgeIsSettled
    <3> QED
      BY <1>1, <1>2, <1>4, <2>1, <3>2 DEF BadgesBy
  <2>2. CASE d # e
    <3>1. Badging(d) /\ planOp[d].alone /\ planOp'[d] = planOp[d]
      BY <1>1, <1>2, <1>4, <2>2
    <3>2. /\ \A c \in PlanEditors \ {d} : ~Badging(c)
          /\ \A p \in PlanIds : plans[p].popular => p \in planOp[d].cleared \cup {planOp[d].form.plan}
      BY <1>3, <3>1 DEF BadgeIsSettled
    <3>3. ~Badging(e) /\ ~Badges(next)
      BY <2>2, <3>2 DEF BadgesBy
    <3> QED
      BY <1>2, <2>2, <3>1, <3>2, <3>3 DEF BadgesBy
  <2> QED
    BY <2>1, <2>2
<1>5. ASSUME ~planHistory'.crossed, NEW d \in PlanEditors, Badging(d)'
      PROVE  planOp'[d].alone
  <2>1. ~planHistory.crossed
    BY <1>5 DEF BadgesBy
  <2> QED
    BY <1>1, <1>2, <1>3, <1>5, <2>1 DEF BadgesBy, BadgeIsSettled
<1>6. ASSUME ~planHistory'.crossed, \A d \in PlanEditors : ~Badging(d)',
             NEW p \in PlanIds, NEW q \in PlanIds, plans'[p].popular, plans'[q].popular
      PROVE  p = q
  <2>1. /\ ~planHistory.crossed /\ ~Badging(e) /\ ~Badges(next)
        /\ plans[p].popular /\ plans[q].popular
    BY <1>2, <1>6 DEF BadgesBy
  <2>2. \A d \in PlanEditors : ~Badging(d)
    BY <1>2, <1>6, <2>1
  <2> QED
    BY <1>3, <2>1, <2>2 DEF BadgeIsSettled
<1> QED
  BY <1>4, <1>5, <1>6 DEF BadgeIsSettled

(* The rest of the invariant, for the step of one editor.                  *)
LEMMA EditorKeepsPlans ==
  ASSUME PlanInv, NEW e \in PlanEditors, NEW next \in SaveType,
         planOp' = [planOp EXCEPT ![e] = next], BadgesBy(e, next),
         plans' \in [PlanIds -> PlanType], prices' \in [PriceIds -> PriceType],
         planHistory' \in [saves : 0..MaxPlanSaves, crossed : BOOLEAN],
         \A p \in PlanIds : /\ plans'[p].shown \subseteq plans'[p].granted
                            /\ plans[p].granted \subseteq plans'[p].granted,
         next.pc \in {"list", "show"} => next.form.features \subseteq plans'[next.form.plan].granted
  PROVE  PlanInv'
<1>1. planOp' \in [PlanEditors -> SaveType]
      /\ \A d \in PlanEditors : planOp'[d] = IF d = e THEN next ELSE planOp[d]
  BY DEF PlanInv, PlanShapes
<1>2. ShownIsGranted'
  BY DEF ShownIsGranted
<1>3. ASSUME NEW d \in PlanEditors, planOp'[d].pc \in {"list", "show"}
      PROVE  planOp'[d].form.features \subseteq plans'[planOp'[d].form.plan].granted
  <2>1. CASE d = e
    BY <1>1, <1>3, <2>1
  <2>2. CASE d # e
    <3>1. planOp[d] \in SaveType /\ planOp'[d] = planOp[d]
      BY <1>1, <2>2 DEF PlanInv, PlanShapes
    <3>2. planOp[d].form.plan \in PlanIds
      BY <3>1 DEF SaveType, PlanForm
    <3> QED
      BY <1>3, <3>1, <3>2 DEF PlanInv, GrantsCome
  <2> QED
    BY <2>1, <2>2
<1> QED
  BY <1>1, <1>2, <1>3, BadgeStaysSettled DEF PlanInv, PlanShapes, GrantsCome

(* Drafts are forms, whatever an administrator makes of them.              *)
LEMMA DraftsAreForms ==
  ASSUME PlanShapes, NEW p \in PlanIds
  PROVE  /\ DraftOf(p) \in PlanForm
         /\ \A slug \in PlanIds :
              [DraftOf(p) EXCEPT !.plan = slug, !.create = TRUE, !.popular = FALSE] \in PlanForm
<1> DEFINE priced == [i \in PriceIds |-> IF i \in PricesOf(p) THEN prices[i].offer ELSE NoOffer]
           badge == plans[p].popular
           features == plans[p].shown \cup plans[p].granted
           bare == PricesOf(p) = {}
           draft == [plan |-> p, create |-> FALSE, popular |-> badge, features |-> features,
                     priced |-> priced, fresh |-> bare, limits |-> TRUE]
<1>1. priced \in [PriceIds -> Offers \cup {NoOffer}]
  BY DEF PlanShapes, PriceType
<1>2. badge \in BOOLEAN /\ features \in SUBSET PlanFeatures /\ bare \in BOOLEAN
  BY DEF PlanShapes, PlanType
<1>3. DraftOf(p) = [NoDraft EXCEPT !.plan = p, !.popular = badge, !.features = features,
                                   !.priced = priced, !.fresh = bare]
  BY DEF DraftOf
<1> HIDE DEF priced, badge, features, bare
<1>4. DraftOf(p) = draft
  <2> DEFINE none == [i \in PriceIds |-> NoOffer]
  <2>1. NoDraft = [plan |-> AnyPlan, create |-> FALSE, popular |-> FALSE, features |-> {},
                   priced |-> none, fresh |-> FALSE, limits |-> TRUE]
    BY DEF NoDraft
  <2> HIDE DEF none
  <2> QED
    BY <1>3, <2>1
<1>5. draft \in PlanForm
  BY <1>1, <1>2 DEF PlanForm
<1> HIDE DEF draft
<1>6. \A slug \in PlanIds : [draft EXCEPT !.plan = slug, !.create = TRUE, !.popular = FALSE] \in PlanForm
  BY <1>5 DEF PlanForm
<1> QED
  BY <1>4, <1>5, <1>6

(* ... and so is what is saved.                                            *)
LEMMA EditsAreForms ==
  ASSUME NEW wanted \in PlanForm, NEW edited \in Edited(wanted)
  PROVE  edited \in PlanForm
<1> DEFINE right == [wanted EXCEPT !.limits = TRUE]
<1>1. right \in PlanForm
  BY DEF PlanForm
<1>2. \/ edited \in {right, BadgeTurned(right), OptionAdded(right), LimitMistyped(right)}
      \/ \E f \in PlanFeatures : edited = FeatureTurned(right, f)
      \/ \E i \in PriceIds, o \in Offers \cup {NoOffer} : edited = OptionChanged(right, i, o)
  <2> DEFINE options == {j \in PriceIds : wanted.priced[j] # NoOffer}
             plain == {right, BadgeTurned(right), OptionAdded(right), LimitMistyped(right)}
             turned == {FeatureTurned(right, f) : f \in PlanFeatures}
             changed == {OptionChanged(right, i, o) : i \in options, o \in Offers \cup {NoOffer}}
  <2>1. Edited(wanted) = plain \cup turned \cup changed
    BY DEF Edited
  <2>2. CASE edited \in plain
    BY <2>2
  <2>3. CASE edited \in turned
    BY Zenon, <2>3
  <2>4. CASE edited \in changed
    <3> HIDE DEF right, plain, turned
    <3>1. options \subseteq PriceIds
      OBVIOUS
    <3> HIDE DEF options
    <3>2. PICK i \in options, o \in Offers \cup {NoOffer} : edited = OptionChanged(right, i, o)
      BY <2>4
    <3> QED
      BY <3>1, <3>2
  <2> HIDE DEF right, plain, turned, changed
  <2>5. edited \in plain \/ edited \in turned \/ edited \in changed
    BY <2>1
  <2> QED
    BY <2>2, <2>3, <2>4, <2>5
<1> HIDE DEF right
<1>3. OptionAdded(right) \in PlanForm /\ LimitMistyped(right) \in PlanForm
  BY <1>1 DEF OptionAdded, LimitMistyped, PlanForm
<1>4. BadgeTurned(right) \in PlanForm
  <2> DEFINE turned == ~right.popular
  <2>1. turned \in BOOLEAN /\ BadgeTurned(right) = [right EXCEPT !.popular = turned]
    BY DEF BadgeTurned
  <2> HIDE DEF turned
  <2> QED
    BY <1>1, <2>1 DEF PlanForm
<1>5. ASSUME NEW f \in PlanFeatures PROVE FeatureTurned(right, f) \in PlanForm
  <2> DEFINE turned == (right.features \ {f}) \cup ({f} \ right.features)
  <2>1. right.features \in SUBSET PlanFeatures
    BY <1>1 DEF PlanForm
  <2>2. turned \in SUBSET PlanFeatures /\ FeatureTurned(right, f) = [right EXCEPT !.features = turned]
    BY <2>1 DEF FeatureTurned
  <2> HIDE DEF turned
  <2> QED
    BY <1>1, <2>2 DEF PlanForm
<1>6. ASSUME NEW i \in PriceIds, NEW o \in Offers \cup {NoOffer}
      PROVE  OptionChanged(right, i, o) \in PlanForm
  <2> DEFINE changed == [right.priced EXCEPT ![i] = o]
  <2>1. right.priced \in [PriceIds -> Offers \cup {NoOffer}]
    BY <1>1 DEF PlanForm
  <2>2. changed \in [PriceIds -> Offers \cup {NoOffer}]
    BY <2>1
  <2>3. OptionChanged(right, i, o) = [right EXCEPT !.priced = changed]
    BY DEF OptionChanged
  <2> HIDE DEF changed
  <2> QED
    BY <1>1, <2>2, <2>3 DEF PlanForm
<1> QED
  BY <1>1, <1>2, <1>3, <1>4, <1>5, <1>6

(* A step that changes neither plans nor prices, of a save that does not   *)
(* order the badge.                                                        *)
LEMMA QuietStep ==
  ASSUME PlanInv, NEW e \in PlanEditors, NEW next \in SaveType,
         planOp' = [planOp EXCEPT ![e] = next], UNCHANGED <<plans, prices>>,
         planHistory'.crossed = planHistory.crossed,
         planHistory' \in [saves : 0..MaxPlanSaves, crossed : BOOLEAN],
         ~Badging(e), ~Badges(next), next.pc \notin {"list", "show"}
  PROVE  PlanInv'
<1>1. BadgesBy(e, next)
  BY DEF BadgesBy
<1> QED
  BY <1>1, EditorKeepsPlans DEF PlanInv, PlanShapes, PlanType, ShownIsGranted

(* A step that takes a save back to the editor, its badge noted.           *)
LEMMA BackStep ==
  ASSUME PlanInv, NEW e \in PlanEditors, BackToEditor(e),
         plans' \in [PlanIds -> PlanType], prices' \in [PriceIds -> PriceType],
         planHistory' \in [saves : 0..MaxPlanSaves, crossed : BOOLEAN],
         planHistory'.crossed = (planHistory.crossed \/ Badging(e)),
         \A p \in PlanIds : /\ plans'[p].popular = plans[p].popular
                            /\ plans'[p].shown \subseteq plans'[p].granted
                            /\ plans[p].granted \subseteq plans'[p].granted
  PROVE  PlanInv'
<1> DEFINE wanted == planOp[e].form
           next == [NoSave EXCEPT !.pc = "open", !.form = wanted]
<1>1. wanted \in PlanForm
  BY DEF PlanInv, PlanShapes, SaveType
<1>2. planOp' = [planOp EXCEPT ![e] = next]
  BY DEF BackToEditor
<1> HIDE DEF wanted
<1>3. next \in SaveType /\ next.pc = "open"
  BY <1>1, PlanConstants DEF SaveType
<1> HIDE DEF next
<1>4. BadgesBy(e, next)
  <2>1. ~Badges(next)
    BY <1>3 DEF Badges, SaveUnderWay
  <2>2. CASE Badging(e)
    <3>1. planHistory'.crossed
      BY <2>2
    <3> QED
      BY <2>1, <3>1 DEF BadgesBy
  <2>3. CASE ~Badging(e)
    <3>1. planHistory.crossed \in BOOLEAN
      BY DEF PlanInv, PlanShapes
    <3>2. planHistory'.crossed = planHistory.crossed
      BY <2>3, <3>1
    <3> QED
      BY <2>1, <2>3, <3>2 DEF BadgesBy
  <2> QED
    BY <2>2, <2>3
<1> QED
  BY <1>2, <1>3, <1>4, EditorKeepsPlans

(* The editor: opened, saved from, closed.                                 *)
LEMMA EditingKeepsPlans ==
  ASSUME PlanInv, NEW e \in PlanEditors,
         \/ \E p \in PlanIds : \/ OpenEdit(e, p) \/ OpenBlank(e, p)
                               \/ \E slug \in PlanIds : OpenDuplicate(e, p, slug)
         \/ \E wanted \in Edited(planOp[e].form) : AskPlanSave(e, wanted)
         \/ CloseEditor(e)
  PROVE  PlanInv'
<1>1. planOp[e] \in SaveType /\ planOp[e].form \in PlanForm
      /\ planHistory \in [saves : 0..MaxPlanSaves, crossed : BOOLEAN]
  BY DEF PlanInv, PlanShapes, SaveType
<1>2. ASSUME NEW wanted \in PlanForm, Opens(e, wanted) PROVE PlanInv'
  <2> DEFINE op == planOp[e]
             next == [op EXCEPT !.pc = "open", !.form = wanted]
  <2>1. planOp' = [planOp EXCEPT ![e] = next]
    BY <1>1, <1>2 DEF Opens, PlanInv, PlanShapes
  <2>2. op \in SaveType
    BY <1>1
  <2> HIDE DEF op
  <2>3. next \in SaveType /\ next.pc = "open"
    BY <2>2 DEF SaveType
  <2> HIDE DEF next
  <2>4. ~Badging(e) /\ ~Badges(next)
    BY <1>2, <2>3 DEF Opens, Badging, Badges, SaveUnderWay
  <2> QED
    BY <1>1, <1>2, <2>1, <2>3, <2>4, QuietStep DEF Opens
<1>3. ASSUME NEW wanted \in PlanForm, AskPlanSave(e, wanted) PROVE PlanInv'
  <2> DEFINE to == IF wanted.create THEN "create" ELSE "clear"
             next == [NoSave EXCEPT !.pc = to, !.form = wanted]
  <2>1. planOp' = [planOp EXCEPT ![e] = next] /\ planOp[e].pc = "open"
    BY <1>3 DEF AskPlanSave
  <2>2. to \in {"create", "clear"}
    OBVIOUS
  <2> HIDE DEF to
  <2>3. next \in SaveType /\ next.pc = to
    BY <2>2, PlanConstants DEF SaveType
  <2> HIDE DEF next
  <2>4. ~Badging(e) /\ ~Badges(next) /\ next.pc \notin {"list", "show"}
    BY <2>1, <2>2, <2>3 DEF Badging, Badges, SaveUnderWay
  <2>5. /\ planHistory' \in [saves : 0..MaxPlanSaves, crossed : BOOLEAN]
        /\ planHistory'.crossed = planHistory.crossed
    <3>1. planHistory.saves \in 0..MaxPlanSaves /\ planHistory.saves < MaxPlanSaves
      BY <1>1, <1>3 DEF AskPlanSave
    <3>2. planHistory.saves + 1 \in 0..MaxPlanSaves
      BY <3>1, PlanAssumption
    <3> DEFINE n == planHistory.saves + 1
    <3>3. planHistory' = [planHistory EXCEPT !.saves = n] /\ n \in 0..MaxPlanSaves
      BY <1>3, <3>2 DEF AskPlanSave
    <3> HIDE DEF n
    <3> QED
      BY <1>1, <3>3
  <2> QED
    BY <1>3, <2>1, <2>3, <2>4, <2>5, QuietStep DEF AskPlanSave
<1>4. CASE CloseEditor(e)
  <2>1. ~Badging(e) /\ ~Badges(NoSave)
    BY <1>4, PlanConstants DEF CloseEditor, Badging, Badges, SaveUnderWay
  <2> QED
    BY <1>1, <1>4, <2>1, PlanConstants, QuietStep DEF CloseEditor
<1>5. \A slug \in PlanIds : [NoDraft EXCEPT !.plan = slug, !.create = TRUE, !.fresh = TRUE] \in PlanForm
  BY PlanConstants DEF PlanForm
<1>6. ASSUME NEW p \in PlanIds, OpenEdit(e, p) \/ OpenBlank(e, p) PROVE PlanInv'
  BY <1>2, <1>5, <1>6, DraftsAreForms DEF OpenEdit, OpenBlank, PlanInv
<1>7. ASSUME NEW p \in PlanIds, NEW slug \in PlanIds, OpenDuplicate(e, p, slug) PROVE PlanInv'
  BY <1>2, <1>7, DraftsAreForms DEF OpenDuplicate, PlanInv
<1> QED
  BY <1>1, <1>3, <1>4, <1>6, <1>7, EditsAreForms

(* The first statement of a save: the plan, if it is new.                  *)
LEMMA CreateKeepsPlans ==
  ASSUME PlanInv, NEW e \in PlanEditors, CreatePlan(e)
  PROVE  PlanInv'
<1> DEFINE p == planOp[e].form.plan
           op == planOp[e]
<1>1. /\ op \in SaveType /\ p \in PlanIds /\ op.pc = "create" /\ ~Badging(e)
      /\ plans \in [PlanIds -> PlanType] /\ prices \in [PriceIds -> PriceType]
      /\ planHistory \in [saves : 0..MaxPlanSaves, crossed : BOOLEAN]
      /\ planHistory' = planHistory /\ prices' = prices
      /\ \A q \in PlanIds : plans[q].shown \subseteq plans[q].granted
  BY DEF PlanInv, PlanShapes, SaveType, PlanForm, CreatePlan, Badging, SaveUnderWay, ShownIsGranted
<1>2. CASE plans[p].there
  <2>1. BackToEditor(e) /\ plans' = plans
    BY <1>2 DEF CreatePlan
  <2>2. planHistory'.crossed = (planHistory.crossed \/ Badging(e))
    BY <1>1
  <2>3. \A q \in PlanIds : plans[q].granted \subseteq plans'[q].granted
    BY <2>1
  <2> HIDE DEF p, op
  <2> QED
    BY <1>1, <2>1, <2>2, <2>3, BackStep
<1>3. CASE ~plans[p].there
  <2> DEFINE next == [op EXCEPT !.pc = "clear"]
             new == [plans EXCEPT ![p].there = TRUE]
  <2>1. planOp' = [planOp EXCEPT ![e] = next] /\ plans' = new
    BY <1>3 DEF CreatePlan, SaveGoes
  <2> HIDE DEF p, op
  <2>2. next \in SaveType /\ next.pc = "clear"
    BY <1>1 DEF SaveType
  <2>3. /\ new \in [PlanIds -> PlanType]
        /\ \A q \in PlanIds : /\ new[q].popular = plans[q].popular /\ new[q].shown = plans[q].shown
                              /\ new[q].granted = plans[q].granted
    BY <1>1 DEF PlanType
  <2> HIDE DEF next, new
  <2>4. BadgesBy(e, next)
    BY <1>1, <2>1, <2>2, <2>3 DEF BadgesBy, Badges, SaveUnderWay
  <2> QED
    BY <1>1, <2>1, <2>2, <2>3, <2>4, EditorKeepsPlans
<1> QED
  BY <1>2, <1>3

(* The transaction's own statement: who else has the badge.                *)
LEMMA ClearKeepsPlans ==
  ASSUME PlanInv, NEW e \in PlanEditors, ClearPopular(e)
  PROVE  PlanInv'
<1> DEFINE op == planOp[e]
           wanted == planOp[e].form
           others == IF singleBadge THEN OthersWithBadge(wanted.plan) ELSE {}
           meets == \E d \in PlanEditors \ {e} : Badging(d)
<1>1. /\ op \in SaveType /\ wanted \in PlanForm /\ op.pc = "clear" /\ ~Badging(e)
      /\ planHistory \in [saves : 0..MaxPlanSaves, crossed : BOOLEAN]
      /\ UNCHANGED <<plans, prices>>
  BY DEF PlanInv, PlanShapes, SaveType, ClearPopular, Badging, SaveUnderWay
<1>2. CASE ~wanted.popular
  <2> DEFINE next == [op EXCEPT !.pc = "update"]
  <2>1. planOp' = [planOp EXCEPT ![e] = next] /\ planHistory' = planHistory
    BY <1>2 DEF ClearPopular, SaveGoes
  <2>2. next \in SaveType /\ next.pc = "update" /\ next.form = op.form
    <3> HIDE DEF op
    <3> QED
      BY <1>1 DEF SaveType
  <2>3. ~Badges(next)
    BY <1>2, <2>2 DEF Badges
  <2> HIDE DEF next
  <2> QED
    BY <1>1, <2>1, <2>2, <2>3, QuietStep
<1>3. CASE wanted.popular
  <2> DEFINE mine == [op EXCEPT !.pc = "update", !.cleared = others, !.alone = singleBadge /\ ~meets]
             theirs(d) == [planOp[d] EXCEPT !.alone = @ /\ ~Badging(d)]
  <2>1. /\ planOp' = [d \in PlanEditors |-> IF d = e THEN mine ELSE theirs(d)]
        /\ planHistory' = [planHistory EXCEPT !.crossed = @ \/ meets \/ ~singleBadge]
    BY <1>3 DEF ClearPopular
  <2>2. /\ mine \in SaveType /\ mine.pc = "update" /\ mine.form = op.form /\ mine.cleared = others
        /\ mine.alone = (singleBadge /\ ~meets)
    <3> DEFINE alone == singleBadge /\ ~meets
    <3>1. alone \in BOOLEAN /\ others \in SUBSET PlanIds
      BY DEF OthersWithBadge
    <3>2. mine = [op EXCEPT !.pc = "update", !.cleared = others, !.alone = alone]
      OBVIOUS
    <3> HIDE DEF op, others, mine, alone
    <3>3. mine \in SaveType /\ mine.pc = "update" /\ mine.form = op.form /\ mine.cleared = others
          /\ mine.alone = alone
      BY <1>1, <3>1, <3>2 DEF SaveType
    <3> QED
      BY <3>3 DEF alone
  <2>3. ASSUME NEW d \in PlanEditors
        PROVE  /\ theirs(d) \in SaveType /\ theirs(d).pc = planOp[d].pc
               /\ theirs(d).form = planOp[d].form /\ theirs(d).cleared = planOp[d].cleared
               /\ theirs(d).alone = (planOp[d].alone /\ ~Badging(d))
    <3> DEFINE other == planOp[d]
               alone == planOp[d].alone /\ ~Badging(d)
    <3>1. other \in SaveType /\ alone \in BOOLEAN
      BY DEF PlanInv, PlanShapes, SaveType
    <3>2. theirs(d) = [other EXCEPT !.alone = alone]
      OBVIOUS
    <3> HIDE DEF other, alone, theirs
    <3>3. /\ theirs(d) \in SaveType /\ theirs(d).pc = other.pc /\ theirs(d).form = other.form
          /\ theirs(d).cleared = other.cleared /\ theirs(d).alone = alone
      BY <3>1, <3>2 DEF SaveType
    <3> QED
      BY <3>3 DEF other, alone
  <2>4. /\ planHistory' \in [saves : 0..MaxPlanSaves, crossed : BOOLEAN]
        /\ planHistory'.crossed = (planHistory.crossed \/ meets \/ ~singleBadge)
    <3> DEFINE now == planHistory.crossed \/ meets \/ ~singleBadge
    <3>1. now \in BOOLEAN /\ planHistory' = [planHistory EXCEPT !.crossed = now]
      BY <1>1, <2>1
    <3> HIDE DEF now
    <3>2. planHistory' \in [saves : 0..MaxPlanSaves, crossed : BOOLEAN] /\ planHistory'.crossed = now
      BY <1>1, <3>1
    <3> QED
      BY <3>2 DEF now
  <2> HIDE DEF mine, theirs
  <2>5. planOp' \in [PlanEditors -> SaveType]
    BY <2>1, <2>2, <2>3
  <2>6. PlanShapes'
    BY <1>1, <2>4, <2>5 DEF PlanInv, PlanShapes
  <2>7. \A d \in PlanEditors :
          /\ planOp'[d].form = planOp[d].form
          /\ d # e => planOp'[d].pc = planOp[d].pc /\ planOp'[d].cleared = planOp[d].cleared
                      /\ planOp'[d].alone = (planOp[d].alone /\ ~Badging(d))
          /\ d = e => planOp'[d].pc = "update" /\ planOp'[d].cleared = others
                      /\ planOp'[d].alone = (singleBadge /\ ~meets)
    BY <2>1, <2>2, <2>3
  <2> HIDE DEF meets
  <2>8. GrantsCome'
    BY <1>1, <2>7 DEF PlanInv, GrantsCome
  <2>9. \A d \in PlanEditors : Badging(d)' <=> (d = e \/ Badging(d))
    BY <1>3, <2>7 DEF Badging, SaveUnderWay
  <2>10. BadgeIsSettled'
    <3>1. ASSUME NEW d \in PlanEditors, Badging(d)', planOp'[d].alone
          PROVE  /\ \A c \in PlanEditors \ {d} : ~Badging(c)'
                 /\ \A p \in PlanIds : plans'[p].popular => p \in planOp'[d].cleared \cup {planOp'[d].form.plan}
      <4>1. d = e /\ ~meets /\ singleBadge
        BY <2>7, <2>9, <3>1
      <4>2. \A c \in PlanEditors \ {e} : ~Badging(c)'
        BY <2>9, <4>1 DEF meets
      <4>3. \A p \in PlanIds : plans[p].popular => p \in others \cup {wanted.plan}
        BY <4>1 DEF OthersWithBadge
      <4> QED
        BY <1>1, <2>7, <4>1, <4>2, <4>3
    <3>2. ASSUME ~planHistory'.crossed, NEW d \in PlanEditors, Badging(d)'
          PROVE  planOp'[d].alone
      <4>1. ~meets /\ singleBadge
        BY <2>4, <3>2
      <4>2. d = e
        BY <2>9, <3>2, <4>1 DEF meets
      <4> QED
        BY <2>7, <4>1, <4>2
    <3>3. ~ \A d \in PlanEditors : ~Badging(d)'
      BY <2>9
    <3> QED
      BY <3>1, <3>2, <3>3 DEF BadgeIsSettled
  <2> QED
    BY <1>1, <2>6, <2>8, <2>10 DEF PlanInv, ShownIsGranted
<1> QED
  BY <1>2, <1>3

(* A save that goes on to its next statement is what it was.               *)
LEMMA SaveGoesOn ==
  ASSUME PlanInv, NEW e \in PlanEditors, NEW pc \in SaveUnderWay, SaveGoes(e, pc)
  PROVE  \E next \in SaveType :
           /\ planOp' = [planOp EXCEPT ![e] = next]
           /\ next.pc = pc /\ next.form = planOp[e].form /\ next.cleared = planOp[e].cleared
           /\ next.alone = planOp[e].alone /\ next.form \in PlanForm
<1> DEFINE op == planOp[e]
           next == [op EXCEPT !.pc = pc]
<1>1. planOp' = [planOp EXCEPT ![e] = next] /\ op \in SaveType
  BY DEF SaveGoes, PlanInv, PlanShapes
<1> HIDE DEF op
<1>2. next \in SaveType /\ next.pc = pc /\ next.form = op.form /\ next.cleared = op.cleared
      /\ next.alone = op.alone
  BY <1>1 DEF SaveType, SaveUnderWay
<1>3. next.form \in PlanForm
  BY <1>2 DEF SaveType
<1> HIDE DEF next
<1> QED
  BY <1>1, <1>2, <1>3 DEF op

(* ... and gives the badge to its own plan at most, if it orders one.      *)
LEMMA GoingOnKeepsPlans ==
  ASSUME PlanInv, NEW e \in PlanEditors, NEW pc \in SaveUnderWay, SaveGoes(e, pc),
         planOp[e].pc \in SaveUnderWay, UNCHANGED planHistory,
         plans' \in [PlanIds -> PlanType], prices' \in [PriceIds -> PriceType],
         \A p \in PlanIds :
           /\ plans'[p].popular => plans[p].popular \/ (p = planOp[e].form.plan /\ planOp[e].form.popular)
           /\ plans'[p].shown \subseteq plans'[p].granted
           /\ plans[p].granted \subseteq plans'[p].granted,
         pc \in {"list", "show"} => planOp[e].form.features \subseteq plans'[planOp[e].form.plan].granted
  PROVE  PlanInv'
<1>1. PICK next \in SaveType :
        /\ planOp' = [planOp EXCEPT ![e] = next]
        /\ next.pc = pc /\ next.form = planOp[e].form /\ next.cleared = planOp[e].cleared
        /\ next.alone = planOp[e].alone /\ next.form \in PlanForm
  BY SaveGoesOn
<1>2. BadgesBy(e, next)
  <2>1. Badging(e) <=> planOp[e].form.popular
    BY DEF Badging
  <2>2. Badges(next) <=> planOp[e].form.popular
    BY <1>1 DEF Badges
  <2>3. CASE planOp[e].form.popular
    BY <1>1, <2>1, <2>2, <2>3 DEF BadgesBy
  <2>4. CASE ~planOp[e].form.popular
    BY <1>1, <2>1, <2>2, <2>4 DEF BadgesBy
  <2> QED
    BY <2>3, <2>4
<1>3. planHistory' \in [saves : 0..MaxPlanSaves, crossed : BOOLEAN]
  BY DEF PlanInv, PlanShapes
<1> QED
  BY <1>1, <1>2, <1>3, EditorKeepsPlans

(* The plan's own row takes the badge, or gives it up.                     *)
LEMMA UpdateKeepsPlans ==
  ASSUME PlanInv, NEW e \in PlanEditors, UpdatePlan(e)
  PROVE  PlanInv'
<1> DEFINE p == planOp[e].form.plan
           badge == planOp[e].form.popular
           new == [plans EXCEPT ![p].popular = badge]
<1>1. /\ p \in PlanIds /\ badge \in BOOLEAN /\ plans \in [PlanIds -> PlanType]
      /\ prices' \in [PriceIds -> PriceType] /\ planOp[e].pc \in SaveUnderWay
      /\ "price" \in SaveUnderWay
      /\ SaveGoes(e, "price") /\ UNCHANGED planHistory /\ plans' = new
      /\ \A q \in PlanIds : plans[q].shown \subseteq plans[q].granted
  BY DEF UpdatePlan, PlanInv, PlanShapes, SaveType, PlanForm, SaveUnderWay, ShownIsGranted
<1> HIDE DEF badge, p
<1>2. /\ new \in [PlanIds -> PlanType]
      /\ \A q \in PlanIds : /\ new[q].popular => plans[q].popular \/ (q = p /\ badge)
                            /\ new[q].shown = plans[q].shown /\ new[q].granted = plans[q].granted
  <2>1. plans[p] \in PlanType
    BY <1>1
  <2> DEFINE row == [plans[p] EXCEPT !.popular = badge]
  <2>2. row \in PlanType /\ row.popular = badge /\ row.shown = plans[p].shown
        /\ row.granted = plans[p].granted
    BY <1>1, <2>1 DEF PlanType
  <2>3. new = [plans EXCEPT ![p] = row]
    OBVIOUS
  <2> HIDE DEF row, new
  <2>4. new \in [PlanIds -> PlanType] /\ \A q \in PlanIds : new[q] = IF q = p THEN row ELSE plans[q]
    BY <1>1, <2>2, <2>3
  <2>5. ASSUME NEW q \in PlanIds
        PROVE  /\ new[q].popular => plans[q].popular \/ (q = p /\ badge)
               /\ new[q].shown = plans[q].shown /\ new[q].granted = plans[q].granted
    <3>1. CASE q = p
      BY <2>2, <2>4, <3>1
    <3>2. CASE q # p
      BY <2>4, <3>2
    <3> QED
      BY <3>1, <3>2
  <2> QED
    BY <2>4, <2>5
<1> HIDE DEF new
<1>3. \A q \in PlanIds :
        /\ plans'[q].popular => plans[q].popular \/ (q = planOp[e].form.plan /\ planOp[e].form.popular)
        /\ plans'[q].shown \subseteq plans'[q].granted
        /\ plans[q].granted \subseteq plans'[q].granted
  BY <1>1, <1>2 DEF p, badge
<1> QED
  BY <1>1, <1>2, <1>3, GoingOnKeepsPlans

(* Prices that options have written are prices.                            *)
LEMMA PricedArePrices ==
  ASSUME PlanShapes, NEW wanted \in PlanForm,
         NEW done \in SUBSET {i \in PriceIds : wanted.priced[i] # NoOffer}
  PROVE  /\ Priced(wanted, done) \in [PriceIds -> PriceType]
         /\ \A i \in PriceIds :
              /\ Priced(wanted, done)[i].there = prices[i].there
              /\ Priced(wanted, done)[i].plan = prices[i].plan
              /\ Priced(wanted, done)[i] # prices[i] => prices[i].plan = wanted.plan
<1> SUFFICES ASSUME NEW i \in PriceIds
             PROVE  /\ Priced(wanted, done)[i] \in PriceType
                    /\ Priced(wanted, done)[i].there = prices[i].there
                    /\ Priced(wanted, done)[i].plan = prices[i].plan
                    /\ Priced(wanted, done)[i] # prices[i] => prices[i].plan = wanted.plan
  BY DEF Priced
<1>1. prices[i] \in PriceType
  BY DEF PlanShapes
<1>2. CASE i \in done /\ Own(wanted.plan, i)
  <2> DEFINE offer == wanted.priced[i]
  <2>1. offer \in Offers
    BY <1>2 DEF PlanForm
  <2>2. Priced(wanted, done)[i] = [prices[i] EXCEPT !.offer = offer]
    BY <1>2 DEF Priced
  <2>3. prices[i].plan = wanted.plan
    BY <1>2 DEF Own
  <2> HIDE DEF offer
  <2> QED
    BY <1>1, <2>1, <2>2, <2>3 DEF PriceType
<1>3. CASE ~(i \in done /\ Own(wanted.plan, i))
  BY <1>1, <1>3 DEF Priced
<1> QED
  BY <1>2, <1>3

(* The prices.                                                             *)
LEMMA PricesKeepPlans ==
  ASSUME PlanInv, NEW e \in PlanEditors, SavePrices(e)
  PROVE  /\ PlanInv'
         /\ \A i \in PriceIds : prices[i].there /\ prices'[i] # prices[i] =>
              /\ prices'[i].there /\ prices'[i].plan = prices[i].plan
              /\ planOp[e].form.plan = prices[i].plan
<1> DEFINE wanted == planOp[e].form
           listed == {i \in PriceIds : wanted.priced[i] # NoOffer}
           bad == {i \in listed : wanted.priced[i] \in BadOffers}
<1>1. /\ wanted \in PlanForm /\ wanted.plan \in PlanIds /\ wanted.popular \in BOOLEAN
      /\ planOp[e].pc \in SaveUnderWay /\ plans' = plans /\ planOp[e].pc = "price"
      /\ plans \in [PlanIds -> PlanType] /\ PlanShapes
      /\ planHistory \in [saves : 0..MaxPlanSaves, crossed : BOOLEAN]
      /\ Badging(e) <=> wanted.popular
      /\ "grant" \in SaveUnderWay
      /\ \A p \in PlanIds : plans[p].shown \subseteq plans[p].granted
  BY DEF SavePrices, PlanInv, PlanShapes, SaveType, PlanForm, SaveUnderWay, ShownIsGranted, Badging
<1> DEFINE broken == bad # {} /\ wanted.popular
<1>2. planHistory' = [planHistory EXCEPT !.crossed = @ \/ broken]
  BY DEF SavePrices
<1>3. \/ /\ bad = {} /\ ~wanted.fresh
         /\ prices' = Priced(wanted, listed) /\ SaveGoes(e, "grant")
      \/ /\ bad = {} /\ wanted.fresh
         /\ \E i \in PriceIds :
               /\ ~prices[i].there
               /\ prices' = [Priced(wanted, listed) EXCEPT ![i] = [there |-> TRUE, plan |-> wanted.plan,
                                                                   offer |-> GoodOffer]]
         /\ SaveGoes(e, "grant")
      \/ /\ bad # {}
         /\ \E done \in SUBSET (listed \ bad) : prices' = Priced(wanted, done)
         /\ BackToEditor(e)
  BY DEF SavePrices
<1>4. \A done \in SUBSET listed :
        /\ Priced(wanted, done) \in [PriceIds -> PriceType]
        /\ \A i \in PriceIds :
              /\ Priced(wanted, done)[i].there = prices[i].there
              /\ Priced(wanted, done)[i].plan = prices[i].plan
              /\ Priced(wanted, done)[i] # prices[i] => prices[i].plan = wanted.plan
  <2> HIDE DEF wanted
  <2> QED
    BY <1>1, PricedArePrices
<1>5. listed \in SUBSET listed /\ SUBSET (listed \ bad) \subseteq SUBSET listed
  OBVIOUS
<1>6. /\ planHistory' \in [saves : 0..MaxPlanSaves, crossed : BOOLEAN]
      /\ planHistory'.crossed = (planHistory.crossed \/ broken)
  <2> DEFINE now == planHistory.crossed \/ broken
  <2>1. planHistory' = [planHistory EXCEPT !.crossed = now] /\ now \in BOOLEAN
    BY <1>1, <1>2
  <2> HIDE DEF now
  <2>2. planHistory' \in [saves : 0..MaxPlanSaves, crossed : BOOLEAN] /\ planHistory'.crossed = now
    BY <1>1, <2>1
  <2> QED
    BY <2>2 DEF now
<1>7. /\ prices' \in [PriceIds -> PriceType]
      /\ \A i \in PriceIds : prices[i].there /\ prices'[i] # prices[i] =>
           prices'[i].there /\ prices'[i].plan = prices[i].plan /\ wanted.plan = prices[i].plan
  <2> HIDE DEF wanted, bad, listed
  <2>1. ASSUME NEW done \in SUBSET listed, prices' = Priced(wanted, done)
        PROVE  /\ prices' \in [PriceIds -> PriceType]
               /\ \A i \in PriceIds : prices[i].there /\ prices'[i] # prices[i] =>
                    prices'[i].there /\ prices'[i].plan = prices[i].plan /\ wanted.plan = prices[i].plan
    <3>1. /\ Priced(wanted, done) \in [PriceIds -> PriceType]
          /\ \A i \in PriceIds :
              /\ Priced(wanted, done)[i].there = prices[i].there
              /\ Priced(wanted, done)[i].plan = prices[i].plan
              /\ Priced(wanted, done)[i] # prices[i] => prices[i].plan = wanted.plan
      BY <1>4
    <3> QED
      BY <2>1, <3>1
  <2>2. ASSUME NEW j \in PriceIds, ~prices[j].there,
               prices' = [Priced(wanted, listed) EXCEPT ![j] = [there |-> TRUE, plan |-> wanted.plan,
                                                               offer |-> GoodOffer]]
        PROVE  /\ prices' \in [PriceIds -> PriceType]
               /\ \A i \in PriceIds : prices[i].there /\ prices'[i] # prices[i] =>
                    prices'[i].there /\ prices'[i].plan = prices[i].plan /\ wanted.plan = prices[i].plan
    <3> DEFINE row == [there |-> TRUE, plan |-> wanted.plan, offer |-> GoodOffer]
    <3>1. row \in PriceType
      BY <1>1, PlanConstants DEF PriceType
    <3> HIDE DEF row
    <3>2. prices' = [Priced(wanted, listed) EXCEPT ![j] = row]
      BY <2>2 DEF row
    <3>3. /\ Priced(wanted, listed) \in [PriceIds -> PriceType]
          /\ \A i \in PriceIds :
              /\ Priced(wanted, listed)[i].there = prices[i].there
              /\ Priced(wanted, listed)[i].plan = prices[i].plan
              /\ Priced(wanted, listed)[i] # prices[i] => prices[i].plan = wanted.plan
      BY <1>4, <1>5
    <3> QED
      BY <2>2, <3>1, <3>2, <3>3
  <2> QED
    BY <1>3, <1>5, <2>1, <2>2
<1>8. PlanInv'
  <2>1. CASE bad = {} /\ SaveGoes(e, "grant")
    <3>1. planHistory' = planHistory
      <4>1. broken = FALSE
        <5>1. ~broken
          BY <2>1
        <5> QED
          BY <5>1, Zenon
      <4> HIDE DEF broken
      <4>2. (planHistory.crossed \/ broken) = planHistory.crossed
        BY <1>1, <4>1
      <4> QED
        BY <1>1, <1>2, <4>2
    <3>2. \A p \in PlanIds :
            /\ plans'[p].popular => plans[p].popular \/ (p = planOp[e].form.plan /\ planOp[e].form.popular)
            /\ plans'[p].shown \subseteq plans'[p].granted
            /\ plans[p].granted \subseteq plans'[p].granted
      BY <1>1
    <3>3. plans' \in [PlanIds -> PlanType]
      BY <1>1
    <3> HIDE DEF bad, listed, wanted
    <3> QED
      BY <1>1, <1>7, <2>1, <3>1, <3>2, <3>3, GoingOnKeepsPlans
  <2>2. CASE bad # {} /\ BackToEditor(e)
    <3>1. (planHistory.crossed \/ broken) <=> (planHistory.crossed \/ Badging(e))
      BY <1>1, <2>2
    <3>2. planHistory'.crossed = (planHistory.crossed \/ Badging(e))
      BY <1>6, <3>1, Zenon
    <3> HIDE DEF bad, listed, wanted, broken
    <3> QED
      BY <1>1, <1>6, <1>7, <2>2, <3>2, BackStep
  <2> HIDE DEF bad, listed, wanted
  <2> QED
    BY <1>3, <2>1, <2>2
<1> QED
  BY <1>7, <1>8

(* A save that breaks off under way has its badge noted.                   *)
LEMMA BreakingOff ==
  ASSUME PlanInv, NEW e \in PlanEditors, planOp[e].pc \in SaveUnderWay,
         planHistory' = [planHistory EXCEPT !.crossed = @ \/ planOp[e].form.popular]
  PROVE  /\ planHistory' \in [saves : 0..MaxPlanSaves, crossed : BOOLEAN]
         /\ planHistory'.crossed = (planHistory.crossed \/ Badging(e))
<1> DEFINE now == planHistory.crossed \/ planOp[e].form.popular
<1>1. /\ planHistory \in [saves : 0..MaxPlanSaves, crossed : BOOLEAN] /\ now \in BOOLEAN
      /\ planHistory' = [planHistory EXCEPT !.crossed = now]
  BY DEF PlanInv, PlanShapes
<1>2. now <=> (planHistory.crossed \/ Badging(e))
  BY DEF Badging
<1> HIDE DEF now
<1>3. planHistory' \in [saves : 0..MaxPlanSaves, crossed : BOOLEAN] /\ planHistory'.crossed = now
  BY <1>1
<1>4. now = (planHistory.crossed \/ Badging(e))
  BY <1>1, <1>2, Zenon
<1> QED
  BY <1>3, <1>4, Zenon

(* The entitlements.                                                       *)
LEMMA GrantKeepsPlans ==
  ASSUME PlanInv, NEW e \in PlanEditors, GrantFeatures(e)
  PROVE  PlanInv'
<1> DEFINE wanted == planOp[e].form
           p == wanted.plan
           granted == plans[p].granted \cup wanted.features
           row == [plans[p] EXCEPT !.granted = granted]
           new == [plans EXCEPT ![p] = row]
<1>1. /\ wanted \in PlanForm /\ p \in PlanIds /\ wanted.features \in SUBSET PlanFeatures
      /\ planOp[e].pc \in SaveUnderWay /\ "list" \in SaveUnderWay
      /\ plans \in [PlanIds -> PlanType] /\ prices' \in [PriceIds -> PriceType]
      /\ \A q \in PlanIds : plans[q].shown \subseteq plans[q].granted
  BY DEF GrantFeatures, PlanInv, PlanShapes, SaveType, PlanForm, SaveUnderWay, ShownIsGranted
<1>2. plans' = new
  BY DEF GrantFeatures
<1>3. \/ wanted.limits /\ SaveGoes(e, "list") /\ UNCHANGED planHistory
      \/ /\ BackToEditor(e)
         /\ planHistory' = [planHistory EXCEPT !.crossed = @ \/ planOp[e].form.popular]
  BY DEF GrantFeatures
<1>4. plans[p] \in PlanType /\ granted \in SUBSET PlanFeatures /\ plans[p].granted \subseteq granted
      /\ wanted.features \subseteq granted
  BY <1>1 DEF PlanType
<1> HIDE DEF granted, p
<1>5. row \in PlanType /\ row.popular = plans[p].popular /\ row.shown = plans[p].shown
      /\ row.granted = granted
  BY <1>4 DEF PlanType
<1> HIDE DEF row
<1>6. /\ new \in [PlanIds -> PlanType]
      /\ \A q \in PlanIds : new[q] = IF q = p THEN row ELSE plans[q]
  BY <1>1, <1>5
<1> HIDE DEF new
<1>7. \A q \in PlanIds : /\ plans'[q].popular = plans[q].popular
                        /\ plans'[q].shown \subseteq plans'[q].granted
                        /\ plans[q].granted \subseteq plans'[q].granted
  <2> SUFFICES ASSUME NEW q \in PlanIds
               PROVE  /\ plans'[q].popular = plans[q].popular
                      /\ plans'[q].shown \subseteq plans'[q].granted
                      /\ plans[q].granted \subseteq plans'[q].granted
    OBVIOUS
  <2>1. CASE q = p
    BY <1>1, <1>2, <1>4, <1>5, <1>6, <2>1
  <2>2. CASE q # p
    BY <1>1, <1>2, <1>6, <2>2
  <2> QED
    BY <2>1, <2>2
<1>8. planOp[e].form.features \subseteq plans'[planOp[e].form.plan].granted
  BY <1>1, <1>2, <1>4, <1>5, <1>6 DEF p
<1>9. CASE SaveGoes(e, "list") /\ UNCHANGED planHistory
  BY <1>1, <1>2, <1>6, <1>7, <1>8, <1>9, GoingOnKeepsPlans
<1>10. CASE /\ BackToEditor(e)
            /\ planHistory' = [planHistory EXCEPT !.crossed = @ \/ planOp[e].form.popular]
  <2>1. /\ planHistory' \in [saves : 0..MaxPlanSaves, crossed : BOOLEAN]
        /\ planHistory'.crossed = (planHistory.crossed \/ Badging(e))
    BY <1>1, <1>10, BreakingOff
  <2> QED
    BY <1>1, <1>2, <1>6, <1>7, <1>10, <2>1, BackStep
<1> QED
  BY <1>3, <1>9, <1>10

(* The features shown, as they are seen ...                                *)
LEMMA ListKeepsPlans ==
  ASSUME PlanInv, NEW e \in PlanEditors, ListFeatures(e)
  PROVE  PlanInv'
<1> DEFINE op == planOp[e]
           seen == plans[op.form.plan].shown
           next == [op EXCEPT !.pc = "show", !.old = seen]
<1>1. /\ op \in SaveType /\ op.form.plan \in PlanIds /\ op.pc = "list"
      /\ plans' = plans /\ prices' = prices /\ planHistory' = planHistory
      /\ op.form.features \subseteq plans[op.form.plan].granted
      /\ \A q \in PlanIds : plans[q].shown \subseteq plans[q].granted
  BY DEF ListFeatures, PlanInv, PlanShapes, SaveType, PlanForm, ShownIsGranted, GrantsCome
<1>2. seen \in SUBSET PlanFeatures
  BY <1>1 DEF PlanInv, PlanShapes, PlanType
<1>3. planOp' = [planOp EXCEPT ![e] = next]
  BY DEF ListFeatures, PlanInv, PlanShapes
<1>4. Badging(e) <=> op.form.popular
  BY <1>1 DEF Badging, SaveUnderWay
<1> HIDE DEF seen
<1>5. /\ next \in SaveType /\ next.pc = "show" /\ next.form = op.form /\ next.cleared = op.cleared
      /\ next.alone = op.alone
  <2> HIDE DEF op
  <2> QED
    BY <1>1, <1>2 DEF SaveType
<1> HIDE DEF next
<1>6. Badges(next) <=> op.form.popular
  BY <1>5 DEF Badges, SaveUnderWay
<1>7. BadgesBy(e, next)
  <2>1. CASE op.form.popular
    BY <1>1, <1>4, <1>5, <1>6, <2>1 DEF BadgesBy
  <2>2. CASE ~op.form.popular
    BY <1>1, <1>4, <1>5, <1>6, <2>2 DEF BadgesBy
  <2> QED
    BY <2>1, <2>2
<1>8. /\ plans' \in [PlanIds -> PlanType] /\ prices' \in [PriceIds -> PriceType]
      /\ planHistory' \in [saves : 0..MaxPlanSaves, crossed : BOOLEAN]
  BY <1>1 DEF PlanInv, PlanShapes
<1> QED
  BY <1>1, <1>3, <1>5, <1>7, <1>8, EditorKeepsPlans

(* ... and as they are put in: they have been granted.                     *)
LEMMA ShowKeepsPlans ==
  ASSUME PlanInv, NEW e \in PlanEditors, ShowFeatures(e)
  PROVE  PlanInv'
<1> DEFINE wanted == planOp[e].form
           p == wanted.plan
           kept == plans[p].shown \ planOp[e].old
           shown == kept \cup wanted.features
           row == [plans[p] EXCEPT !.shown = shown]
           new == [plans EXCEPT ![p] = row]
<1>1. /\ wanted \in PlanForm /\ p \in PlanIds /\ wanted.features \in SUBSET PlanFeatures
      /\ planOp[e].pc \in SaveUnderWay /\ "commit" \in SaveUnderWay
      /\ plans \in [PlanIds -> PlanType] /\ prices' \in [PriceIds -> PriceType]
      /\ wanted.features \subseteq plans[p].granted
      /\ \A q \in PlanIds : plans[q].shown \subseteq plans[q].granted
  BY DEF ShowFeatures, PlanInv, PlanShapes, SaveType, PlanForm, SaveUnderWay, ShownIsGranted, GrantsCome
<1>2. \/ /\ BackToEditor(e) /\ plans' = plans
         /\ planHistory' = [planHistory EXCEPT !.crossed = @ \/ planOp[e].form.popular]
      \/ plans' = new /\ SaveGoes(e, "commit") /\ UNCHANGED planHistory
  BY DEF ShowFeatures
<1>3. CASE /\ BackToEditor(e) /\ plans' = plans
           /\ planHistory' = [planHistory EXCEPT !.crossed = @ \/ planOp[e].form.popular]
  <2>1. /\ planHistory' \in [saves : 0..MaxPlanSaves, crossed : BOOLEAN]
        /\ planHistory'.crossed = (planHistory.crossed \/ Badging(e))
    BY <1>1, <1>3, BreakingOff
  <2>2. \A q \in PlanIds : /\ plans'[q].popular = plans[q].popular
                          /\ plans'[q].shown \subseteq plans'[q].granted
                          /\ plans[q].granted \subseteq plans'[q].granted
    BY <1>1, <1>3
  <2> QED
    BY <1>1, <1>3, <2>1, <2>2, BackStep
<1>4. CASE plans' = new /\ SaveGoes(e, "commit") /\ UNCHANGED planHistory
  <2>1. plans[p] \in PlanType /\ shown \in SUBSET PlanFeatures /\ shown \subseteq plans[p].granted
    BY <1>1 DEF PlanType
  <2> HIDE DEF shown, p
  <2>2. row \in PlanType /\ row.popular = plans[p].popular /\ row.shown = shown
        /\ row.granted = plans[p].granted
    BY <2>1 DEF PlanType
  <2> HIDE DEF row
  <2>3. /\ new \in [PlanIds -> PlanType]
        /\ \A q \in PlanIds : new[q] = IF q = p THEN row ELSE plans[q]
    BY <1>1, <2>2
  <2> HIDE DEF new
  <2>4. \A q \in PlanIds : /\ plans'[q].popular = plans[q].popular
                          /\ plans'[q].shown \subseteq plans'[q].granted
                          /\ plans[q].granted \subseteq plans'[q].granted
    <3> SUFFICES ASSUME NEW q \in PlanIds
                 PROVE  /\ plans'[q].popular = plans[q].popular
                        /\ plans'[q].shown \subseteq plans'[q].granted
                        /\ plans[q].granted \subseteq plans'[q].granted
      OBVIOUS
    <3>1. CASE q = p
      BY <1>4, <2>1, <2>2, <2>3, <3>1
    <3>2. CASE q # p
      BY <1>1, <1>4, <2>3, <3>2
    <3> QED
      BY <3>1, <3>2
  <2> QED
    BY <1>1, <1>4, <2>3, <2>4, GoingOnKeepsPlans
<1> QED
  BY <1>2, <1>3, <1>4

(* The commit: where nobody else has ordered the badge it is settled.      *)
LEMMA CommitKeepsPlans ==
  ASSUME PlanInv, NEW e \in PlanEditors, CommitSave(e)
  PROVE  PlanInv'
<1> DEFINE op == planOp[e]
           settles == op.form.popular /\ op.alone
           now == planHistory.crossed /\ ~settles
<1>1. /\ op \in SaveType /\ op.form.plan \in PlanIds /\ op.pc = "commit"
      /\ plans \in [PlanIds -> PlanType] /\ prices' \in [PriceIds -> PriceType]
      /\ planOp \in [PlanEditors -> SaveType]
      /\ planHistory \in [saves : 0..MaxPlanSaves, crossed : BOOLEAN]
      /\ Badging(e) <=> op.form.popular
      /\ planOp' = [planOp EXCEPT ![e] = NoSave] /\ ~Badges(NoSave)
      /\ \A q \in PlanIds : plans[q].shown \subseteq plans[q].granted
  BY PlanConstants
  DEF CommitSave, PlanInv, PlanShapes, SaveType, PlanForm, SaveUnderWay, Badging, Badges, ShownIsGranted
<1>2. planHistory' \in [saves : 0..MaxPlanSaves, crossed : BOOLEAN] /\ planHistory'.crossed = now
  <2>1. planHistory' = [planHistory EXCEPT !.crossed = now] /\ now \in BOOLEAN
    BY <1>1 DEF CommitSave
  <2> HIDE DEF now
  <2> QED
    BY <1>1, <2>1
<1>3. /\ plans' \in [PlanIds -> PlanType]
      /\ \A p \in PlanIds : /\ plans'[p].popular <=> plans[p].popular /\ p \notin op.cleared
                            /\ plans'[p].shown = plans[p].shown /\ plans'[p].granted = plans[p].granted
  <2>1. plans' = [p \in PlanIds |-> IF p \in op.cleared THEN [plans[p] EXCEPT !.popular = FALSE]
                                    ELSE plans[p]]
    BY DEF CommitSave
  <2>2. ASSUME NEW p \in PlanIds
        PROVE  /\ plans'[p] \in PlanType
               /\ plans'[p].popular <=> plans[p].popular /\ p \notin op.cleared
               /\ plans'[p].shown = plans[p].shown /\ plans'[p].granted = plans[p].granted
    <3>1. plans[p] \in PlanType
      BY <1>1
    <3>2. CASE p \in op.cleared
      <4>1. plans'[p] = [plans[p] EXCEPT !.popular = FALSE]
        BY <2>1, <3>2
      <4>2. plans'[p] \in PlanType /\ plans'[p].popular = FALSE
            /\ plans'[p].shown = plans[p].shown /\ plans'[p].granted = plans[p].granted
        BY <3>1, <4>1 DEF PlanType
      <4> QED
        BY <3>2, <4>2
    <3>3. CASE p \notin op.cleared
      <4>1. plans'[p] = plans[p]
        BY <2>1, <3>3
      <4> QED
        BY <3>1, <3>3, <4>1
    <3> QED
      BY <3>2, <3>3
  <2>3. plans' \in [PlanIds -> PlanType]
    <3> HIDE DEF op
    <3>1. plans' = [p \in PlanIds |-> plans'[p]]
      BY <2>1
    <3>2. \A p \in PlanIds : plans'[p] \in PlanType
      BY <2>2
    <3> QED
      BY <3>1, <3>2
  <2> HIDE DEF op, settles, now
  <2> QED
    BY <2>2, <2>3, Zenon
<1>4. CASE settles
  <2>1. ~now
    BY <1>4
  <2>2. /\ \A d \in PlanEditors \ {e} : ~Badging(d)
        /\ \A p \in PlanIds : plans[p].popular => p \in op.cleared \cup {op.form.plan}
    BY <1>1, <1>4 DEF PlanInv, BadgeIsSettled
  <2>3. \A d \in PlanEditors : /\ planOp'[d] = IF d = e THEN NoSave ELSE planOp[d]
                              /\ ~Badging(d)'
    <3>1. \A d \in PlanEditors : planOp'[d] = IF d = e THEN NoSave ELSE planOp[d]
      BY <1>1
    <3> QED
      BY <1>1, <2>2, <3>1 DEF Badging, Badges
  <2>4. BadgeIsSettled'
    BY <1>3, <2>2, <2>3 DEF BadgeIsSettled
  <2>5. PlanShapes'
    BY <1>1, <1>2, <1>3, PlanConstants DEF PlanShapes
  <2>6. ShownIsGranted' /\ GrantsCome'
    <3>1. ShownIsGranted'
      BY <1>1, <1>3 DEF ShownIsGranted
    <3>2. ASSUME NEW d \in PlanEditors, planOp'[d].pc \in {"list", "show"}
          PROVE  planOp'[d].form.features \subseteq plans'[planOp'[d].form.plan].granted
      <4>1. planOp'[d] = planOp[d]
        BY <2>3, <3>2, PlanConstants
      <4>2. planOp[d].form.plan \in PlanIds
        BY <1>1 DEF SaveType, PlanForm
      <4> QED
        BY <1>3, <3>2, <4>1, <4>2 DEF PlanInv, GrantsCome
    <3> QED
      BY <3>1, <3>2 DEF GrantsCome
  <2> QED
    BY <2>4, <2>5, <2>6 DEF PlanInv
<1>5. CASE ~settles
  <2>1. planHistory'.crossed = planHistory.crossed
    <3>1. now <=> planHistory.crossed
      BY <1>5
    <3>2. now = planHistory.crossed
      BY <1>1, <3>1, Zenon
    <3> HIDE DEF now
    <3> QED
      BY <1>2, <3>2
  <2>2. BadgesBy(e, NoSave)
    <3>1. CASE op.form.popular
      <4>1. planHistory.crossed
        BY <1>1, <1>5, <3>1 DEF PlanInv, BadgeIsSettled
      <4> QED
        BY <1>1, <1>3, <2>1, <4>1 DEF BadgesBy
    <3>2. CASE ~op.form.popular
      BY <1>1, <1>3, <2>1, <3>2 DEF BadgesBy
    <3> QED
      BY <3>1, <3>2
  <2>3. \A p \in PlanIds : /\ plans'[p].shown \subseteq plans'[p].granted
                          /\ plans[p].granted \subseteq plans'[p].granted
    BY <1>1, <1>3
  <2> HIDE DEF op, settles, now
  <2> QED
    BY <1>1, <1>2, <1>3, <2>2, <2>3, PlanConstants, EditorKeepsPlans
<1> QED
  BY <1>4, <1>5

(* A save that fails, wherever it is.                                      *)
LEMMA BreakKeepsPlans ==
  ASSUME PlanInv, NEW e \in PlanEditors, SaveBreaks(e)
  PROVE  PlanInv'
<1> DEFINE now == planHistory.crossed \/ Badging(e)
<1>1. /\ planHistory \in [saves : 0..MaxPlanSaves, crossed : BOOLEAN] /\ now \in BOOLEAN
      /\ planHistory' = [planHistory EXCEPT !.crossed = now]
      /\ BackToEditor(e) /\ plans' = plans /\ prices' = prices
      /\ plans' \in [PlanIds -> PlanType] /\ prices' \in [PriceIds -> PriceType]
      /\ \A q \in PlanIds : plans[q].shown \subseteq plans[q].granted
  BY DEF SaveBreaks, PlanInv, PlanShapes, ShownIsGranted
<1> HIDE DEF now
<1>2. planHistory' \in [saves : 0..MaxPlanSaves, crossed : BOOLEAN] /\ planHistory'.crossed = now
  BY <1>1
<1>3. planHistory'.crossed = (planHistory.crossed \/ Badging(e))
  BY <1>2 DEF now
<1>4. \A q \in PlanIds : /\ plans'[q].popular = plans[q].popular
                        /\ plans'[q].shown \subseteq plans'[q].granted
                        /\ plans[q].granted \subseteq plans'[q].granted
  BY <1>1
<1> QED
  BY <1>1, <1>2, <1>3, <1>4, BackStep

(* Every step keeps the invariant.                                         *)
LEMMA PlanStep == PlanInv /\ [PlanNext]_planVars => PlanInv'
<1> SUFFICES ASSUME PlanInv, [PlanNext]_planVars PROVE PlanInv'
  OBVIOUS
<1>1. CASE UNCHANGED <<plans, prices, planOp, planHistory>>
  BY <1>1 DEF PlanInv, PlanShapes, ShownIsGranted, GrantsCome, BadgeIsSettled, Badging
<1>2. ASSUME NEW e \in PlanEditors,
             \/ \E p \in PlanIds : \/ OpenEdit(e, p) \/ OpenBlank(e, p)
                                   \/ \E slug \in PlanIds : OpenDuplicate(e, p, slug)
             \/ \E wanted \in Edited(planOp[e].form) : AskPlanSave(e, wanted)
             \/ CloseEditor(e) \/ CreatePlan(e) \/ ClearPopular(e) \/ UpdatePlan(e) \/ SavePrices(e)
             \/ GrantFeatures(e) \/ ListFeatures(e) \/ ShowFeatures(e) \/ CommitSave(e) \/ SaveBreaks(e)
      PROVE  PlanInv'
  BY <1>2, EditingKeepsPlans, CreateKeepsPlans, ClearKeepsPlans, UpdateKeepsPlans, PricesKeepPlans,
     GrantKeepsPlans, ListKeepsPlans, ShowKeepsPlans, CommitKeepsPlans, BreakKeepsPlans
<1> QED
  BY <1>1, <1>2 DEF PlanNext, SwitchSingleBadge, planVars

(* Only the statement about prices changes any.                            *)
LEMMA PricesComeFromTheirPlan ==
  ASSUME PlanInv, [PlanNext]_planVars, NEW i \in PriceIds, prices[i].there, prices'[i] # prices[i]
  PROVE  /\ prices'[i].there /\ prices'[i].plan = prices[i].plan
         /\ \E e \in PlanEditors : planOp[e].pc = "price" /\ planOp[e].form.plan = prices[i].plan
<1>1. PICK e \in PlanEditors : SavePrices(e)
  BY DEF PlanNext, planVars, SwitchSingleBadge, OpenEdit, OpenBlank, OpenDuplicate, Opens, AskPlanSave, CloseEditor, CreatePlan,
         ClearPopular, UpdatePlan, GrantFeatures, ListFeatures, ShowFeatures, CommitSave, SaveBreaks
<1>2. planOp[e].pc = "price"
  BY <1>1 DEF SavePrices
<1> QED
  BY <1>1, <1>2, PricesKeepPlans

(* Where the badge is settled and nobody orders it, one plan has it.       *)
LEMMA SettledBadgeIsOne == PlanInv => OneBadge
<1> SUFFICES ASSUME PlanInv, ~planHistory.crossed, \A e \in PlanEditors : ~Badging(e)
             PROVE  Cardinality({p \in PlanIds : plans[p].popular}) <= 1
  BY DEF OneBadge
<1> DEFINE badged == {p \in PlanIds : plans[p].popular}
<1>1. \A p, q \in badged : p = q
  BY DEF PlanInv, BadgeIsSettled
<1> HIDE DEF badged
<1>2. ASSUME NEW p \in badged PROVE Cardinality(badged) <= 1
  <2>1. badged = {p}
    BY <1>1, <1>2
  <2>2. Cardinality({p}) = 1
    BY FS_Singleton
  <2> QED
    BY <2>1, <2>2
<1>3. Cardinality(badged) <= 1
  <2>1. Cardinality({}) = 0
    BY FS_EmptySet
  <2> QED
    BY <1>2, <2>1
<1> QED
  BY <1>3 DEF badged

(* Together: the properties of the plans.                                  *)
LEMMA PlansStayFair == PlanSpec => [](ShownIsGranted /\ OneBadge) /\ PricesStayHome
<1>1. PlanInit => PlanInv
  BY PlanStart
<1>2. PlanInv /\ [PlanNext]_planVars => PlanInv'
  BY PlanStep
<1>3. PlanInv => ShownIsGranted /\ OneBadge
  BY SettledBadgeIsOne DEF PlanInv
<1>4. PlanInv /\ [PlanNext]_planVars =>
        [\A i \in PriceIds : prices[i].there /\ prices'[i] # prices[i] =>
           /\ prices'[i].there /\ prices'[i].plan = prices[i].plan
           /\ \E e \in PlanEditors : planOp[e].pc = "price" /\ planOp[e].form.plan = prices[i].plan]_planVars
  BY PricesComeFromTheirPlan
<1> QED
  BY <1>1, <1>2, <1>3, <1>4, PTL DEF PlanSpec, PricesStayHome

-----------------------------------------------------------------------------
(* Plans grant what they show, and one has the badge where nothing has     *)
(* crossed, broken off or been saved with the single badge's setting off;  *)
(* a price is changed by a save of its own plan; nobody pays more than was *)
(* shown, and a discount is paid with once; a payment whose settlement met *)
(* no other buys what was ordered, once, whoever settles it, and keeps it; *)
(* and no paid subscription becomes a trial (updatePlanWithConfig,         *)
(* grantAccessPeriod, pages/pricing.tsx) - for any plans, prices, editors, *)
(* pages, orders and settlements.                                          *)
THEOREM SalesStaySound == ShopSpec /\ PlanSpec => SalesAreSound
<1> QED
  BY ShopStaysFair, PlansStayFair DEF SalesAreSound

-----------------------------------------------------------------------------
(*****************************************************************************)
(* The types of all these components, and the run that holds them.           *)
(*****************************************************************************)

(* What the types of billing have beside the rows of RowsInv, SettleInv    *)
(* and SlotsInv.                                                           *)
BillingRest ==
  /\ paid \cup succeeded \subseteq Payments
  /\ byHand.what \in {"none", "grant", "cancel"}
  /\ requestsLeft \in 0..MaxRequests /\ othersLeft \in 0..MaxOthers

LEMMA BillingRestStep == BillingRest /\ [BillingNext]_billingVars => BillingRest'
<1> SUFFICES ASSUME BillingRest, [BillingNext]_billingVars PROVE BillingRest'
  OBVIOUS
<1>1. \A g \in Grants : g[2] \in Payments
  BY DEF Grants
<1>2. requestsLeft \in Nat /\ othersLeft \in Nat /\ MaxRequests \in Nat /\ MaxOthers \in Nat
      /\ requestsLeft <= MaxRequests /\ othersLeft <= MaxOthers
  BY BillingAssumption DEF BillingRest
<1>3. ASSUME NEW n \in Nat, NEW m \in Nat, n <= m, n > 0
      PROVE  n - 1 \in 0..m
  BY <1>3
<1>4. (paid \cup succeeded)' \subseteq Payments
  BY <1>1 DEF BillingRest, BillingNext, GrantStep, billingVars, Verify, Webhook, CreateCheckout,
       LookForPayment, ReadLive, WriteGrant, SettleAttempt, ClaimSlot, Redeem, MarkEvent, FailRequest,
       CrashRequests, ClaimTrial, AutoTrial, StartByHand, FinishByHand, Elapse, ExpireElapsed
<1>5. (byHand.what \in {"none", "grant", "cancel"})'
  <2>1. \/ byHand' = byHand \/ byHand' = NoHand
        \/ \E u \in Users, what \in {"grant", "cancel"} : StartByHand(what, u)
    BY DEF BillingNext, GrantStep, billingVars, Verify, Webhook, CreateCheckout,
         LookForPayment, ReadLive, WriteGrant, SettleAttempt, ClaimSlot, Redeem, MarkEvent, FailRequest,
         CrashRequests, ClaimTrial, AutoTrial, FinishByHand, Elapse, ExpireElapsed
  <2> QED
    BY <2>1 DEF BillingRest, StartByHand, NoHand
<1>6. requestsLeft' = requestsLeft \/ (requestsLeft > 0 /\ requestsLeft' = requestsLeft - 1)
  BY DEF BillingNext, GrantStep, billingVars, Verify, Webhook, CreateCheckout,
       LookForPayment, ReadLive, WriteGrant, SettleAttempt, ClaimSlot, Redeem, MarkEvent, FailRequest,
       CrashRequests, ClaimTrial, AutoTrial, StartByHand, FinishByHand, Elapse, ExpireElapsed
<1>7. othersLeft' = othersLeft \/ Other
  BY DEF BillingNext, GrantStep, billingVars, Verify, Webhook, CreateCheckout,
       LookForPayment, ReadLive, WriteGrant, SettleAttempt, ClaimSlot, Redeem, MarkEvent, FailRequest,
       CrashRequests, ClaimTrial, AutoTrial, StartByHand, FinishByHand, Elapse, ExpireElapsed
<1>8. requestsLeft' \in 0..MaxRequests
  BY <1>2, <1>3, <1>6 DEF BillingRest
<1>9. othersLeft' \in 0..MaxOthers
  BY <1>2, <1>3, <1>7 DEF BillingRest, Other
<1> QED
  BY <1>4, <1>5, <1>8, <1>9 DEF BillingRest

LEMMA BillingTypes == BillingSpec => []BillingTypeOK
<1> DEFINE Inv == RowsInv /\ SettleInv /\ SlotsInv /\ BillingRest
<1>1. BillingInit => Inv
  <2>1. BillingInit => BillingRest
    BY BillingAssumption DEF BillingInit, BillingRest, NoHand
  <2> QED
    BY <2>1, BillingStart
<1>2. Inv /\ [BillingNext]_billingVars => Inv'
  BY RowsStep, SettleStep, SlotsStep, BillingRestStep
<1>3. Inv => BillingTypeOK
  BY DEF RowsInv, SettleInv, SlotsInv, BillingRest, BillingTypeOK, SubRow, GrantRow
<1> QED
  BY <1>1, <1>2, <1>3, PTL DEF BillingSpec

(* What the types of quota have beside QuotaInv.                           *)
QuotaRest ==
  /\ sendOf \in [QuotaApps -> {"new", "ordered", "mailed"}]
  /\ owing \subseteq QuotaApps /\ uncharged \subseteq QuotaApps
  /\ referral \in [Friends -> [status : {"pending", "expired", "rejected", "completed"}, sends : Nat]]
  /\ rewarded \subseteq Friends
  /\ crediting \in [Mails -> {"new", "count", "weigh", "reward", "done"}]
  /\ faultsLeft \in 0..MaxFaults

LEMMA QuotaRestStep == QuotaRest /\ [QuotaNext]_quotaVars => QuotaRest'
<1> SUFFICES ASSUME QuotaRest, [QuotaNext]_quotaVars PROVE QuotaRest'
  OBVIOUS
<1>1. \A m \in Mails : m[1] \in Friends
  BY DEF Mails
<1>2. faultsLeft \in 0..MaxFaults /\ MaxFaults \in Nat
  BY QuotaAssumption DEF QuotaRest
<1>3. faultsLeft > 0 => faultsLeft - 1 \in 0..MaxFaults
  BY <1>2
<1>4. ASSUME NEW a \in QuotaApps,
             \/ \E limitless \in BOOLEAN : OrderWithinQuota(a, limitless) \/ ReadPlan(a, limitless)
             \/ MailGoes(a) \/ RetryConsumption(a) \/ ReadBonus(a) \/ Count(a)
             \/ RecordConsumption(a) \/ \E effect, noted \in BOOLEAN : ConsumptionFails(a, effect, noted)
      PROVE  QuotaRest'
  BY <1>3, <1>4 DEF QuotaRest, OrderWithinQuota, MailGoes, RetryConsumption, Consume, Look, ReadPlan,
        ReadBonus, LimitRead, Count, RecordConsumption, ConsumptionFails, ReferralsUnchanged
<1>5. ASSUME NEW m \in Mails,
             \/ FriendMails(m) \/ MarkExpired(m) \/ CountFriendSend(m)
             \/ WeighRewards(m) \/ Reward(m) \/ RewardFails(m)
      PROVE  QuotaRest'
  BY <1>1, <1>3, <1>5 DEF QuotaRest, FriendMails, MarkExpired, CountFriendSend, WeighRewards,
        Reward, RewardFails, Credits, SetReferral, NothingFails, AccountUnchanged
<1>6. ASSUME NEW f \in Friends, ExpireReferral(f)
      PROVE  QuotaRest'
  BY <1>6 DEF QuotaRest, ExpireReferral, SetReferral, NothingFails, AccountUnchanged
<1>7. ASSUME UNCHANGED quotaVars
      PROVE  QuotaRest'
  BY <1>7 DEF QuotaRest, quotaVars
<1>8. ASSUME AdminGrants \/ \E quota \in Quotas : ChangeQuota(quota)
      PROVE  QuotaRest'
  BY <1>3, <1>8 DEF QuotaRest, AdminGrants, ChangeQuota, AllowanceOnly
<1> QED
  BY <1>4, <1>5, <1>6, <1>7, <1>8 DEF QuotaNext

LEMMA QuotaTypes == QuotaSpec => []QuotaTypeOK
<1>1. QuotaInit => QuotaRest
  BY QuotaAssumption DEF QuotaInit, QuotaRest
<1>2. QuotaInv /\ QuotaRest => QuotaTypeOK
  BY DEF QuotaInv, QuotaRest, QuotaTypeOK, ConsumerRow
<1> QED
  BY <1>1, <1>2, QuotaStart, QuotaStep, QuotaRestStep, PTL DEF QuotaSpec

LEMMA MailTypes == MailSpec => []MailTypeOK
<1>1. MailInv => MailTypeOK
  BY DEF MailInv
<1> QED
  BY <1>1, MailStart, MailStep, PTL DEF MailSpec

LEMMA SessionTypesStay == SessionSpec => []SessionTypeOK
<1>1. SessionInv => SessionTypeOK
  BY DEF SessionInv
<1> QED
  BY <1>1, SessionStart, SessionStep, PTL DEF SessionSpec

LEMMA OnboardTypes == OnboardSpec => []OnboardTypeOK
<1>1. OnboardInv => OnboardTypeOK
  BY DEF OnboardInv
<1> QED
  BY <1>1, OnboardStart, OnboardStep, PTL DEF OnboardSpec

LEMMA PlanTypes == PlanSpec => []PlanTypeOK
<1>1. PlanInv => (singleBadge \in BOOLEAN => PlanTypeOK)
  BY DEF PlanInv, PlanShapes, PlanTypeOK, PlanType, PriceType, SaveType
<1>2. (singleBadge \in BOOLEAN) /\ [PlanNext]_planVars => (singleBadge \in BOOLEAN)'
  BY DEF PlanNext, planVars, SwitchSingleBadge, OpenEdit, OpenBlank, OpenDuplicate, Opens, AskPlanSave,
         CloseEditor, CreatePlan, ClearPopular, UpdatePlan, SavePrices, GrantFeatures, ListFeatures,
         ShowFeatures, CommitSave, SaveBreaks
<1>3. PlanInit => singleBadge \in BOOLEAN
  BY DEF PlanInit
<1> QED
  BY <1>1, <1>2, <1>3, PlanStart, PlanStep, PTL DEF PlanSpec

LEMMA ShopTypes == ShopSpec => []ShopTypeOK
<1>1. ShopInv => ShopTypeOK
  BY DEF ShopInv, ShopShapes, ShopTypeOK, OrderType, SettlementType, ShopPageType, ShopHistoryType,
         AccessType
<1> QED
  BY <1>1, ShopStart, ShopStep, PTL DEF ShopSpec

(* Requests that have counted their write and not made it yet.             *)
Saving == {r \in ChainRequests : chainOp[r].pc = "write"}

(* The writes that have been made: each moves a key by PRIORITY_OFFSET at  *)
(* most, and none of the others moves one up.                              *)
ChainRest ==
  /\ healthCache \in [UserKeys -> {"none", "ok", "refused"}]
  /\ chainHistory.writes <= MaxChainWrites
  /\ IsFiniteSet(Saving) /\ Cardinality(Saving) <= chainHistory.writes
  /\ \A c \in UserKeys :
       chain[c].prio <= ChainOffset * (chainHistory.writes - Cardinality(Saving) + 1)

(* A place in an order of keys is below the offset.                        *)
LEMMA PlacesAreLow ==
  ASSUME NEW S, S \subseteq UserKeys, NEW rank \in Orders(S), NEW c \in S
  PROVE  rank[c] \in Nat /\ rank[c] + 1 <= ChainOffset
<1>1. S \in SUBSET UserKeys
  OBVIOUS
<1>2. IsFiniteSet(S) /\ Cardinality(S) \in Nat /\ Cardinality(S) <= Cardinality(UserKeys)
  BY <1>1, ChainAssumption, FS_Subset, FS_CardinalityType
<1>3. Cardinality(UserKeys) \in Nat
  BY ChainAssumption, FS_CardinalityType
<1>4. rank[c] \in 0 .. (Cardinality(S) - 1)
  BY DEF Orders
<1> QED
  BY <1>2, <1>3, <1>4, ChainAssumption

(* All the keys that are there take low places.                            *)
LEMMA OrderedKeysAreLow ==
  ASSUME NEW rows \in [UserKeys -> KeyRow], NEW S, S = {c \in UserKeys : rows[c].there},
         NEW rank \in Orders(S), chain' = WithPriorities(rows, rank), NEW c \in UserKeys
  PROVE  chain'[c].prio <= ChainOffset \/ chain'[c].prio = rows[c].prio
<1>1. DOMAIN rank = S
  BY DEF Orders
<1>2. CASE rows[c].there
  <2>1. chain'[c] = [rows[c] EXCEPT !.prio = rank[c]] /\ c \in S /\ rows[c] \in KeyRow
    BY <1>1, <1>2 DEF WithPriorities
  <2>2. rank[c] \in Nat /\ rank[c] + 1 <= ChainOffset
    BY <2>1, PlacesAreLow
  <2>3. chain'[c].prio = rank[c]
    BY <2>1 DEF KeyRow
  <2> QED
    BY <2>2, <2>3, ChainAssumption
<1>3. CASE ~rows[c].there
  BY <1>3 DEF WithPriorities
<1> QED
  BY <1>2, <1>3

(* Where the priorities of a chain may go.                                 *)
KeepsLow == \A c \in UserKeys : chain'[c].prio <= ChainOffset \/ chain'[c].prio = chain[c].prio

MovesUp == \A c \in UserKeys : chain'[c].prio <= ChainOffset \/ chain'[c].prio <= chain[c].prio + ChainOffset

LEMMA ReplacedStaysLow == ASSUME ChainInv, NEW r \in ChainRequests, ReplaceKey(r) PROVE KeepsLow
<1> DEFINE op == chainOp[r]
<1>0. chain \in [UserKeys -> KeyRow] /\ chainOp \in [ChainRequests -> ChainOpRow] /\ OpsFit
  BY DEF ChainInv, ChainRows
<1>1. op \in ChainOpRow /\ op.pc = "write" /\ op.key \in UserKeys /\ op.secret \in Secrets /\ op.first \in BOOLEAN
  BY <1>0 DEF ReplaceKey, OpsFit, ChainOpRow
<1>2. CASE op.key \notin HeldKeys
  BY <1>2 DEF ReplaceKey, KeepsLow
<1>3. CASE op.key \in HeldKeys
  <2> DEFINE saved == SavedRow(op.key, op.secret, chain[op.key].prio)
             row == [chain EXCEPT ![op.key] = saved]
  <2>1. IF op.first THEN \E rank \in Orders(HeldKeys) : rank[op.key] = 0 /\ chain' = WithPriorities(row, rank)
        ELSE chain' = row
    BY <1>3 DEF ReplaceKey
  <2>2. saved \in KeyRow /\ saved.there /\ saved.prio = chain[op.key].prio
    <3>1. chain[op.key].prio \in Nat
      BY <1>0, <1>1 DEF KeyRow
    <3> HIDE DEF op
    <3> QED
      BY <1>0, <1>1, <3>1, SavedRowsArePending
  <2> HIDE DEF saved
  <2>3. /\ row \in [UserKeys -> KeyRow] /\ \A c \in UserKeys : row[c].prio = chain[c].prio
        /\ {c \in UserKeys : row[c].there} = HeldKeys
    BY <1>0, <1>1, <1>3, <2>2 DEF HeldKeys
  <2> HIDE DEF op, row
  <2>4. CASE op.first
    BY <2>1, <2>3, <2>4, OrderedKeysAreLow DEF KeepsLow
  <2>5. CASE ~op.first
    BY <2>1, <2>3, <2>5 DEF KeepsLow
  <2> QED
    BY <2>4, <2>5
<1> QED
  BY <1>2, <1>3

LEMMA AddedMovesUp == ASSUME ChainInv, NEW r \in ChainRequests, AddKey(r) PROVE MovesUp
<1> DEFINE op == chainOp[r]
<1>0. chain \in [UserKeys -> KeyRow] /\ chainOp \in [ChainRequests -> ChainOpRow] /\ OpsFit
  BY DEF ChainInv, ChainRows
<1>1. /\ op \in ChainOpRow /\ op.pc = "write" /\ op.key \notin op.seenKeys /\ op.key \in UserKeys
      /\ op.secret \in Secrets /\ op.first \in BOOLEAN /\ op.seenKeys \in SUBSET UserKeys
  BY <1>0 DEF AddKey, OpsFit, ChainOpRow
<1> DEFINE first == IF op.first THEN 0 ELSE Cardinality(op.seenKeys)
           saved == SavedRow(op.key, op.secret, first)
           added == [chain EXCEPT ![op.key] = saved]
           Places(rank) == [c \in op.seenKeys \cup {op.key} |-> IF c = op.key THEN 0 ELSE rank[c] + 1]
           Rows(rank) == IF op.first /\ op.seenKeys # {} THEN WithPriorities(added, Places(rank)) ELSE added
<1>2. PICK rank \in Orders(op.seenKeys) : chain' = chain \/ chain' = Rows(rank)
  BY DEF AddKey
<1>3. first \in Nat /\ first <= ChainOffset
  <2>1. op.seenKeys \in SUBSET UserKeys /\ IsFiniteSet(UserKeys)
    BY <1>1, ChainAssumption
  <2>2. /\ Cardinality(op.seenKeys) \in Nat /\ Cardinality(UserKeys) \in Nat
        /\ Cardinality(op.seenKeys) <= Cardinality(UserKeys)
    BY <2>1, FS_Subset, FS_CardinalityType
  <2> QED
    BY <2>2, ChainAssumption
<1>4. saved \in KeyRow /\ saved.prio = first
  <2> HIDE DEF op, first
  <2> QED
    BY <1>0, <1>1, <1>3, SavedRowsArePending
<1>5. ASSUME NEW c \in op.seenKeys PROVE rank[c] \in Nat /\ rank[c] + 1 <= ChainOffset
  BY <1>1, PlacesAreLow
<1> HIDE DEF first, saved
<1>6. /\ added \in [UserKeys -> KeyRow]
      /\ \A c \in UserKeys : added[c].prio <= ChainOffset \/ added[c].prio = chain[c].prio
  BY <1>0, <1>1, <1>3, <1>4
<1>7. \A c \in UserKeys : added[c].prio \in Nat /\ chain[c].prio \in Nat
  BY <1>0, <1>6 DEF KeyRow
<1>8. CASE chain' = chain
  BY <1>7, <1>8, ChainAssumption DEF MovesUp
<1>9. CASE chain' = added
  BY <1>6, <1>7, <1>9, ChainAssumption DEF MovesUp
<1>10. CASE chain' = WithPriorities(added, Places(rank))
  <2> DEFINE places == Places(rank)
  <2>1. \A c \in DOMAIN places : places[c] \in Nat /\ places[c] <= ChainOffset
    BY <1>5, ChainAssumption
  <2> HIDE DEF places, added, op
  <2> SUFFICES ASSUME NEW c \in UserKeys
               PROVE  chain'[c].prio <= ChainOffset \/ chain'[c].prio <= chain[c].prio + ChainOffset
    BY DEF MovesUp
  <2>2. chain'[c] = IF ~added[c].there THEN added[c]
                    ELSE [added[c] EXCEPT !.prio = IF c \in DOMAIN places THEN places[c]
                                                   ELSE added[c].prio + ChainOffset]
    BY <1>10 DEF WithPriorities, places
  <2>3. added[c] \in KeyRow
    BY <1>6
  <2>4. \/ chain'[c].prio = added[c].prio
        \/ c \in DOMAIN places /\ chain'[c].prio = places[c]
        \/ c \notin DOMAIN places /\ added[c].there /\ chain'[c].prio = added[c].prio + ChainOffset
    BY <2>2, <2>3 DEF KeyRow
  <2>5. c \notin DOMAIN places => added[c] = chain[c]
    BY <1>0, <1>1 DEF places, added
  <2> QED
    BY <1>6, <1>7, <2>1, <2>4, <2>5, ChainAssumption
<1> QED
  BY <1>2, <1>8, <1>9, <1>10

LEMMA OthersStayLow ==
  ASSUME ChainInv, [ChainNext]_chainVars, \A r \in ChainRequests : ~ReplaceKey(r) /\ ~AddKey(r)
  PROVE  KeepsLow
<1>0. chain \in [UserKeys -> KeyRow] /\ chainOp \in [ChainRequests -> ChainOpRow] /\ OpsFit
  BY DEF ChainInv, ChainRows
<1>1. HeldKeys = {c \in UserKeys : chain[c].there}
  BY DEF HeldKeys
<1>2. ASSUME NEW rank \in Orders(HeldKeys), chain' = WithPriorities(chain, rank) PROVE KeepsLow
  BY <1>0, <1>1, <1>2, OrderedKeysAreLow DEF KeepsLow
<1>3. ASSUME NEW r \in ChainRequests, Promote(r) PROVE KeepsLow
  <2> DEFINE op == chainOp[r]
  <2>1. op.pc = "promote" /\ op.key \in op.seenKeys
    BY <1>0, <1>3 DEF Promote, OpsFit
  <2>2. CASE op.seenKeys # HeldKeys
    BY <1>3, <2>2 DEF Promote, KeepsLow
  <2>3. CASE op.seenKeys = HeldKeys
    <3>1. PICK rank \in Listed(HeldKeys) : chain' = WithPriorities(chain, WithFirst(op.key, rank))
      BY <1>3, <2>3 DEF Promote
    <3>2. rank \in Orders(HeldKeys) /\ op.key \in HeldKeys /\ IsFiniteSet(HeldKeys)
      BY <2>1, <2>3, <3>1, KeysAreFinite DEF Listed, HeldKeys
    <3> HIDE DEF op
    <3>3. WithFirst(op.key, rank) \in Orders(HeldKeys)
      BY <3>2, FirstIsAnOrder
    <3> QED
      BY <1>2, <3>1, <3>3
  <2> QED
    BY <2>2, <2>3
<1>4. ASSUME NEW c \in UserKeys, DeleteKey(c) PROVE KeepsLow
  <2> DEFINE rest == HeldKeys \ {c}
             rows == [chain EXCEPT ![c] = NoRow]
  <2>1. IsFiniteSet(rest) /\ rest \subseteq UserKeys
    BY KeysAreFinite DEF HeldKeys
  <2>2. PICK rank \in Orders(rest) : chain' = WithPriorities(rows, rank)
    <3> DEFINE Sorted(rank) == \A d, e \in rest : chain[d].prio < chain[e].prio => rank[d] < rank[e]
               prio == [d \in rest |-> chain[d].prio]
    <3>1. prio \in [rest -> Nat]
      BY <1>0, <2>1 DEF KeyRow
    <3>2. \E rank \in Orders(rest) : \A d, e \in rest : prio[d] < prio[e] => rank[d] < rank[e]
      <4> HIDE DEF prio
      <4> QED
        BY <2>1, <3>1, RowsHaveAnOrder
    <3>3. \E rank \in Orders(rest) : Sorted(rank)
      BY <3>2
    <3>4. (CHOOSE rank \in Orders(rest) : Sorted(rank)) \in Orders(rest)
      BY <3>3
    <3>5. chain' = WithPriorities(rows, CHOOSE rank \in Orders(rest) : Sorted(rank))
      BY <1>4 DEF DeleteKey, WithoutKey
    <3> QED
      BY <3>4, <3>5
  <2>3. /\ rows \in [UserKeys -> KeyRow] /\ ~rows[c].there /\ rows[c].prio = 0
        /\ \A d \in UserKeys \ {c} : rows[d] = chain[d]
    BY <1>0, EmptyRows DEF NoRow
  <2>4. {d \in UserKeys : rows[d].there} = rest
    BY <2>3 DEF HeldKeys
  <2> HIDE DEF rows, rest
  <2>5. \A d \in UserKeys : chain'[d].prio <= ChainOffset \/ chain'[d].prio = rows[d].prio
    BY <2>2, <2>3, <2>4, OrderedKeysAreLow
  <2> QED
    BY <2>3, <2>5, ChainAssumption DEF KeepsLow
<1>5. ASSUME NEW rank \in Orders(HeldKeys), ReorderChain(rank) PROVE KeepsLow
  BY <1>2, <1>5 DEF ReorderChain
<1>6. ASSUME NEW r \in ChainRequests, VerifyKey(r) PROVE KeepsLow
  <2> DEFINE key == chainOp[r].key
             status == IF chainOp[r].ok THEN "valid" ELSE "invalid"
  <2>1. chain' = chain \/ chain' = [chain EXCEPT ![key].status = status]
    BY <1>6 DEF VerifyKey
  <2>2. \A c \in UserKeys : chain[c] \in KeyRow
    BY <1>0
  <2> HIDE DEF key, status
  <2>3. \A c \in UserKeys : chain'[c].prio = chain[c].prio
    BY <1>0, <2>1, <2>2 DEF KeyRow
  <2> QED
    BY <2>3 DEF KeepsLow
<1>7. CASE chain' = chain
  BY <1>7 DEF KeepsLow
<1> QED
  BY <1>3, <1>4, <1>5, <1>6, <1>7
     DEF ChainNext, chainVars, CheckKey, CheckFails, AskPromote, AskSave, Retest, CacheEnds

(* How the writes that are still owed change with one request.             *)
LEMMA SavingTurns ==
  ASSUME chainOp \in [ChainRequests -> ChainOpRow], IsFiniteSet(Saving), NEW r \in ChainRequests, NEW op,
         chainOp' = [chainOp EXCEPT ![r] = op]
  PROVE  /\ IsFiniteSet(Saving') /\ Cardinality(Saving) \in Nat /\ Cardinality(Saving') \in Nat
         /\ op.pc = "write" /\ chainOp[r].pc # "write" => Cardinality(Saving') = Cardinality(Saving) + 1
         /\ op.pc # "write" /\ chainOp[r].pc = "write" => Cardinality(Saving') = Cardinality(Saving) - 1
         /\ op.pc # "write" /\ chainOp[r].pc # "write" => Cardinality(Saving') = Cardinality(Saving)
<1>1. Saving' = IF op.pc = "write" THEN Saving \cup {r} ELSE Saving \ {r}
  BY DEF Saving
<1>2. r \in Saving <=> chainOp[r].pc = "write"
  BY DEF Saving
<1>3. CASE op.pc = "write"
  <2>1. /\ IsFiniteSet(Saving \cup {r})
        /\ Cardinality(Saving \cup {r}) = IF r \in Saving THEN Cardinality(Saving) ELSE Cardinality(Saving) + 1
    BY FS_AddElement
  <2> QED
    BY <1>1, <1>2, <1>3, <2>1, FS_CardinalityType
<1>4. CASE op.pc # "write"
  <2>1. /\ IsFiniteSet(Saving \ {r})
        /\ Cardinality(Saving \ {r}) = IF r \in Saving THEN Cardinality(Saving) - 1 ELSE Cardinality(Saving)
    BY FS_RemoveElement
  <2> QED
    BY <1>1, <1>2, <1>4, <2>1, FS_CardinalityType
<1> QED
  BY <1>3, <1>4

(* What a step does to the count of writes and to those still owed.        *)
WritesAre(made, owed) ==
  /\ IsFiniteSet(Saving') /\ chainHistory'.writes = made
  /\ Cardinality(Saving') = owed

LEMMA WritesStep ==
  ASSUME ChainInv, ChainRest, [ChainNext]_chainVars
  PROVE  LET made == chainHistory.writes
             owed == Cardinality(Saving)
         IN  /\ \/ WritesAre(made, owed)
                \/ made < MaxChainWrites /\ (WritesAre(made + 1, owed + 1) \/ WritesAre(made + 1, owed))
                \/ WritesAre(made, owed - 1)
             /\ \A r \in ChainRequests : ReplaceKey(r) \/ AddKey(r) => WritesAre(made, owed - 1)
<1> DEFINE made == chainHistory.writes
           owed == Cardinality(Saving)
<1>0. /\ chainOp \in [ChainRequests -> ChainOpRow] /\ IsFiniteSet(Saving)
      /\ chainHistory \in [writes : Nat, overtaken : BOOLEAN, doubted : SUBSET UserKeys]
  BY DEF ChainInv, ChainRows, ChainRest
<1>1. \A r \in ChainRequests : chainOp[r] \in ChainOpRow
  BY <1>0
<1>2. ASSUME NEW seen, NEW ordered \in BOOLEAN
      PROVE  Counted(seen, ordered).writes = made
  BY <1>0, <1>2, WritesAreCounted
<1>3. ASSUME NEW r \in ChainRequests, NEW c \in UserKeys, NEW s \in Secrets, NEW first \in BOOLEAN,
             AskSave(r, c, s, first)
      PROVE  made < MaxChainWrites /\ WritesAre(made + 1, owed + 1)
  <2> DEFINE op == [NoOp EXCEPT !.pc = "write", !.key = c, !.secret = s, !.first = first, !.seenKeys = HeldKeys]
  <2>1. chainOp' = [chainOp EXCEPT ![r] = op] /\ chainOp[r].pc # "write" /\ made < MaxChainWrites
        /\ chainHistory' = [chainHistory EXCEPT !.writes = @ + 1]
    BY <1>3 DEF AskSave, OneWrite
  <2>2. op.pc = "write"
    BY EmptyRows DEF ChainOpRow
  <2> HIDE DEF op
  <2> QED
    BY <1>0, <2>1, <2>2, SavingTurns DEF WritesAre
<1>4. ASSUME NEW r \in ChainRequests, NEW c \in UserKeys, AskPromote(r, c)
      PROVE  made < MaxChainWrites /\ WritesAre(made + 1, owed)
  <2> DEFINE op == [NoOp EXCEPT !.pc = "promote", !.key = c, !.seenKeys = HeldKeys]
  <2>1. chainOp' = [chainOp EXCEPT ![r] = op] /\ chainOp[r].pc # "write" /\ made < MaxChainWrites
        /\ chainHistory' = [chainHistory EXCEPT !.writes = @ + 1]
    BY <1>4 DEF AskPromote, OneWrite
  <2>2. op.pc = "promote"
    BY EmptyRows DEF ChainOpRow
  <2> HIDE DEF op
  <2> QED
    BY <1>0, <2>1, <2>2, SavingTurns DEF WritesAre
<1>5. ASSUME NEW r \in ChainRequests, Ends(r) \/ ChainGoes(r, "check"),
             chainHistory'.writes = made
      PROVE  WritesAre(made, IF chainOp[r].pc = "write" THEN owed - 1 ELSE owed)
  <2> DEFINE op == [chainOp[r] EXCEPT !.pc = "check"]
  <2>1. op.pc = "check" /\ NoOp.pc = "none"
    BY <1>1, EmptyRows DEF ChainOpRow
  <2>2. chainOp' = [chainOp EXCEPT ![r] = NoOp] \/ chainOp' = [chainOp EXCEPT ![r] = op]
    BY <1>5 DEF Ends, ChainGoes
  <2> HIDE DEF op
  <2> QED
    BY <1>0, <1>5, <2>1, <2>2, SavingTurns DEF WritesAre
<1>6. ASSUME NEW r \in ChainRequests, ReplaceKey(r) \/ AddKey(r) PROVE WritesAre(made, owed - 1)
  <2>1. chainOp[r].pc = "write" /\ chainOp[r].first \in BOOLEAN
    BY <1>1, <1>6 DEF ReplaceKey, AddKey, ChainOpRow
  <2>2. chainHistory'.writes = made
    BY <1>2, <1>6, <2>1 DEF ReplaceKey, AddKey
  <2>3. Ends(r) \/ ChainGoes(r, "check")
    BY <1>6 DEF ReplaceKey, AddKey
  <2> QED
    BY <1>5, <2>1, <2>2, <2>3
<1>7. ASSUME NEW r \in ChainRequests, Promote(r) PROVE WritesAre(made, owed)
  <2>1. chainHistory'.writes = made /\ Ends(r) /\ chainOp[r].pc = "promote"
    BY <1>2, <1>7 DEF Promote
  <2> QED
    BY <1>5, <2>1
<1>8. ASSUME NEW r \in ChainRequests, VerifyKey(r) PROVE WritesAre(made, owed)
  <2>1. chainHistory'.writes = made /\ Ends(r) /\ chainOp[r].pc = "verify"
    BY <1>0, <1>8 DEF VerifyKey
  <2> QED
    BY <1>5, <2>1
<1>9. ASSUME NEW r \in ChainRequests, CheckKey(r) \/ CheckFails(r) PROVE WritesAre(made, owed)
  <2>1. chainHistory' = chainHistory /\ chainOp[r].pc = "check" /\ chainOp[r] \in ChainOpRow
    BY <1>1, <1>9 DEF CheckKey, CheckFails
  <2>2. PICK op : chainOp' = [chainOp EXCEPT ![r] = op] /\ op.pc # "write"
    <3> DEFINE kept == healthCache[chainOp[r].key] # "none"
               ok == IF kept THEN healthCache[chainOp[r].key] = "ok" ELSE chainOp[r].secret \in GoodSecrets
               checked == [chainOp[r] EXCEPT !.pc = "verify", !.ok = ok, !.kept = kept]
               failed == [chainOp[r] EXCEPT !.pc = "verify", !.ok = FALSE]
    <3>1. checked.pc = "verify" /\ failed.pc = "verify" /\ NoOp.pc = "none"
      <4> HIDE DEF kept, ok
      <4> QED
        BY <2>1, EmptyRows DEF ChainOpRow
    <3>2. \/ chainOp' = [chainOp EXCEPT ![r] = checked] \/ chainOp' = [chainOp EXCEPT ![r] = failed]
          \/ chainOp' = [chainOp EXCEPT ![r] = NoOp]
      BY <1>0, <1>9 DEF CheckKey, CheckFails, Ends
    <3> HIDE DEF checked, failed
    <3> QED
      BY <3>1, <3>2
  <2> QED
    BY <1>0, <2>1, <2>2, SavingTurns DEF WritesAre
<1>10. ASSUME NEW rank \in Orders(HeldKeys), ReorderChain(rank)
       PROVE  made < MaxChainWrites /\ WritesAre(made + 1, owed)
  <2> DEFINE new == Counted(HeldKeys, TRUE)
  <2>1. chainHistory' = [new EXCEPT !.writes = new.writes + 1] /\ chainOp' = chainOp /\ made < MaxChainWrites
    BY <1>10 DEF ReorderChain, OneWrite
  <2>2. new \in [writes : Nat, overtaken : BOOLEAN, doubted : SUBSET UserKeys] /\ new.writes = made
    BY <1>0, WritesAreCounted
  <2> HIDE DEF new
  <2>3. Saving' = Saving /\ chainHistory'.writes = made + 1
    BY <2>1, <2>2 DEF Saving
  <2> QED
    BY <1>0, <2>1, <2>3 DEF WritesAre
<1>11. ASSUME NEW c \in UserKeys, DeleteKey(c)
       PROVE  made < MaxChainWrites /\ WritesAre(made + 1, owed)
  <2> DEFINE new == Counted(HeldKeys, TRUE)
  <2>1. /\ chainHistory' = [new EXCEPT !.writes = new.writes + 1, !.doubted = new.doubted \ {c}]
        /\ chainOp' = chainOp /\ made < MaxChainWrites
    BY <1>0, <1>11, WritesAreCounted DEF DeleteKey, OneWrite
  <2>2. new \in [writes : Nat, overtaken : BOOLEAN, doubted : SUBSET UserKeys] /\ new.writes = made
    BY <1>0, WritesAreCounted
  <2> HIDE DEF new
  <2>3. Saving' = Saving /\ chainHistory'.writes = made + 1
    BY <2>1, <2>2 DEF Saving
  <2> QED
    BY <1>0, <2>1, <2>3 DEF WritesAre
<1>12. ASSUME UNCHANGED <<chainOp, chainHistory>> PROVE WritesAre(made, owed)
  BY <1>0, <1>12 DEF WritesAre, Saving
<1> QED
  BY <1>3, <1>4, <1>6, <1>7, <1>8, <1>9, <1>10, <1>11, <1>12
     DEF ChainNext, chainVars, Retest, CacheEnds

LEMMA ChainRestStep == ChainInv /\ ChainRest /\ [ChainNext]_chainVars => ChainRest'
<1> SUFFICES ASSUME ChainInv, ChainRest, [ChainNext]_chainVars PROVE ChainRest'
  OBVIOUS
<1>0. ChainInv'
  BY ChainStep
<1>1. /\ \A c \in UserKeys : chain[c].prio \in Nat /\ chain'[c].prio \in Nat
      /\ chainHistory.writes \in Nat /\ chainHistory'.writes \in Nat /\ ChainOffset \in Nat
      /\ MaxChainWrites \in Nat
  BY <1>0, ChainAssumption DEF ChainInv, ChainRows, KeyRow
<1>2. Cardinality(Saving) \in Nat
  BY FS_CardinalityType DEF ChainRest
<1> DEFINE made == chainHistory.writes
           owed == Cardinality(Saving)
<1>3. IsFiniteSet(Saving') /\ Cardinality(Saving') \in Nat
  BY WritesStep, FS_CardinalityType DEF WritesAre
<1>4. /\ chainHistory'.writes <= MaxChainWrites
      /\ made - owed \in Nat /\ chainHistory'.writes - Cardinality(Saving') \in Nat
      /\ made - owed <= chainHistory'.writes - Cardinality(Saving')
  BY <1>1, <1>2, <1>3, WritesStep DEF WritesAre, ChainRest
<1>5. Cardinality(Saving') <= chainHistory'.writes
  BY <1>1, <1>3, <1>4
<1>6. PICK n \in Nat, m \in Nat : n = made - owed /\ m = chainHistory'.writes - Cardinality(Saving') /\ n <= m
  BY <1>4
<1>7. \A c \in UserKeys : chain[c].prio <= ChainOffset * (n + 1)
  BY <1>6 DEF ChainRest
<1>8. /\ ChainOffset * (n + 1) \in Nat /\ ChainOffset * (m + 1) \in Nat /\ ChainOffset <= ChainOffset * (m + 1)
      /\ ChainOffset * (n + 1) <= ChainOffset * (m + 1)
      /\ m = n + 1 => ChainOffset * (m + 1) = ChainOffset * (n + 1) + ChainOffset
  <2>1. ASSUME NEW k \in Nat, NEW x \in Nat, NEW y \in Nat, x <= y PROVE k * x \in Nat /\ k * x <= k * y
    BY <2>1
  <2>2. ChainOffset * 1 <= ChainOffset * (m + 1) /\ ChainOffset * 1 = ChainOffset
    BY <1>1, <1>6, <2>1
  <2>3. ChainOffset * (n + 1) <= ChainOffset * (m + 1)
    BY <1>1, <1>6, <2>1
  <2>4. ChainOffset * ((n + 1) + 1) = ChainOffset * (n + 1) + ChainOffset
    BY <1>1, <1>6
  <2>5. ChainOffset * (n + 1) \in Nat /\ ChainOffset * (m + 1) \in Nat
    BY <1>1, <1>6
  <2>6. m = n + 1 => ChainOffset * (m + 1) = ChainOffset * ((n + 1) + 1)
    OBVIOUS
  <2> QED
    BY <2>2, <2>3, <2>4, <2>5, <2>6
<1>9. PICK low \in Nat, high \in Nat : low = ChainOffset * (n + 1) /\ high = ChainOffset * (m + 1)
  BY <1>8
<1>10. \A c \in UserKeys : chain'[c].prio <= high
  <2> SUFFICES ASSUME NEW c \in UserKeys PROVE chain'[c].prio <= high
    OBVIOUS
  <2>1. /\ chain[c].prio <= low /\ low <= high /\ ChainOffset <= high /\ (m = n + 1 => high = low + ChainOffset)
    BY <1>7, <1>8, <1>9
  <2>2. CASE \A r \in ChainRequests : ~ReplaceKey(r) /\ ~AddKey(r)
    <3>1. chain'[c].prio <= ChainOffset \/ chain'[c].prio = chain[c].prio
      BY <2>2, OthersStayLow DEF KeepsLow
    <3> QED
      BY <1>1, <2>1, <3>1
  <2>3. ASSUME NEW r \in ChainRequests, ReplaceKey(r) PROVE chain'[c].prio <= high
    <3>1. chain'[c].prio <= ChainOffset \/ chain'[c].prio = chain[c].prio
      BY <2>3, ReplacedStaysLow DEF KeepsLow
    <3> QED
      BY <1>1, <2>1, <3>1
  <2>4. ASSUME NEW r \in ChainRequests, AddKey(r) PROVE chain'[c].prio <= high
    <3>1. chain'[c].prio <= ChainOffset \/ chain'[c].prio <= chain[c].prio + ChainOffset
      BY <2>4, AddedMovesUp DEF MovesUp
    <3>2. WritesAre(made, owed - 1)
      BY <2>4, WritesStep
    <3>3. m = n + 1
      BY <1>1, <1>2, <1>6, <3>2 DEF WritesAre
    <3> QED
      BY <1>1, <2>1, <3>1, <3>3
  <2> QED
    BY <2>2, <2>3, <2>4
<1>11. \A c \in UserKeys :
         chain'[c].prio <= ChainOffset * (chainHistory'.writes - Cardinality(Saving') + 1)
  BY <1>6, <1>9, <1>10
<1>12. healthCache' \in [UserKeys -> {"none", "ok", "refused"}]
  BY DEF ChainRest, ChainNext, chainVars, ReplaceKey, AddKey, CheckKey, CheckFails, VerifyKey, Promote,
         AskPromote, AskSave, ReorderChain, DeleteKey, Retest, CacheEnds
<1> QED
  BY <1>3, <1>4, <1>5, <1>11, <1>12 DEF ChainRest

LEMMA ChainRestStart == ChainInit => ChainRest
<1> SUFFICES ASSUME ChainInit PROVE ChainRest
  OBVIOUS
<1>1. Saving = {}
  BY EmptyRows DEF ChainInit, Saving
<1>2. IsFiniteSet(Saving) /\ Cardinality(Saving) = 0
  BY <1>1, FS_EmptySet
<1>3. PICK S \in SUBSET UserKeys, rank \in Orders(UserKeys) : chain = GoodChain(S, rank)
  BY DEF ChainInit
<1>4. chainHistory.writes = 0 /\ healthCache \in [UserKeys -> {"none", "ok", "refused"}]
  BY DEF ChainInit
<1>5. ASSUME NEW c \in UserKeys PROVE chain[c].prio <= ChainOffset
  <2>1. rank[c] \in Nat /\ rank[c] + 1 <= ChainOffset
    BY PlacesAreLow
  <2>2. chain[c].prio = rank[c] \/ chain[c].prio = 0
    BY <1>3 DEF GoodChain, NoRow
  <2> QED
    BY <2>1, <2>2, ChainAssumption
<1>6. chainHistory.writes - Cardinality(Saving) + 1 = 1 /\ ChainOffset * 1 = ChainOffset
  BY <1>2, <1>4, ChainAssumption
<1> QED
  BY <1>2, <1>4, <1>5, <1>6, ChainAssumption DEF ChainRest

LEMMA ChainTypes == ChainSpec => []ChainTypeOK
<1>1. ChainInv /\ ChainRest => ChainTypeOK
  <2> SUFFICES ASSUME ChainInv, ChainRest PROVE ChainTypeOK
    OBVIOUS
  <2>1. /\ chain \in [UserKeys -> KeyRow] /\ chainOp \in [ChainRequests -> ChainOpRow]
        /\ chainHistory \in [writes : Nat, overtaken : BOOLEAN, doubted : SUBSET UserKeys]
        /\ \A c \in UserKeys : chain[c].prio \in Nat
    BY DEF ChainInv, ChainRows, KeyRow
  <2>2. PICK k \in Nat, w \in Nat, top \in Nat :
          /\ k = ChainOffset /\ w = MaxChainWrites /\ top = chainHistory.writes - Cardinality(Saving) + 1
          /\ top <= w * 2 + 1
    <3>1. /\ Cardinality(Saving) \in Nat /\ Cardinality(Saving) <= chainHistory.writes
          /\ chainHistory.writes <= MaxChainWrites /\ chainHistory.writes \in Nat
      BY <2>1, FS_CardinalityType DEF ChainRest
    <3>2. /\ chainHistory.writes - Cardinality(Saving) + 1 \in Nat
          /\ chainHistory.writes - Cardinality(Saving) + 1 <= MaxChainWrites * 2 + 1
      BY <3>1, ChainAssumption
    <3> QED
      BY <3>2, ChainAssumption
  <2>3. k * top \in Nat /\ k * (w * 2 + 1) \in Nat /\ k * top <= k * (w * 2 + 1)
    <3>1. ASSUME NEW x \in Nat, NEW y \in Nat, x <= y PROVE k * x \in Nat /\ k * y \in Nat /\ k * x <= k * y
      BY <3>1
    <3> QED
      BY <2>2, <3>1
  <2>4. PICK low \in Nat, high \in Nat : low = k * top /\ high = k * (w * 2 + 1) /\ low <= high
    BY <2>3
  <2>5. ASSUME NEW c \in UserKeys PROVE chain[c].prio \in 0..high
    <3>1. chain[c].prio <= low
      BY <2>2, <2>4 DEF ChainRest
    <3> QED
      BY <2>1, <2>4, <3>1
  <2>6. Priorities = 0..high
    BY <2>2, <2>4 DEF Priorities
  <2>7. chain \in [UserKeys -> [there : BOOLEAN, prio : Priorities, secret : Secrets,
                               status : {"pending", "valid", "invalid"}]]
    BY <2>1, <2>5, <2>6 DEF KeyRow
  <2>8. chainHistory \in [writes : 0..MaxChainWrites, overtaken : BOOLEAN, doubted : SUBSET UserKeys]
    BY <2>1, ChainAssumption DEF ChainRest
  <2> QED
    BY <2>1, <2>7, <2>8 DEF ChainRest, ChainTypeOK, ChainOpRow
<1> QED
  BY <1>1, ChainStart, ChainStep, ChainRestStart, ChainRestStep, PTL DEF ChainSpec

(* The inputs that refuse nothing take no value that could be refused.     *)
OpenKeys == SettingKeys \ (TrialKeys \cup DetectionKeys)

(* What a page's state may hold in them; a save of the detection page      *)
(* sends no bad score.                                                     *)
GoodForm(p, f) ==
  /\ \A k \in OpenKeys : {f.shown[k], f.draft[k], f.ask[k]} \subseteq SettingValues
  /\ IsFor(p, "detection") /\ f.pc = "saving" => \A k \in DetectionKeys : f.ask[k] \in SettingValues

SettingsRest ==
  /\ setting \in [SettingKeys -> SettingValues]
  /\ \A p \in SettingPages : GoodForm(p, form[p]) /\ straggling[p] \subseteq QuotaKeys \X SettingValues
  /\ settingCount \in [steps : 0..MaxSettingSteps, lookups : 0..MaxLookups]

LEMMA OpenKeysAre ==
  /\ OpenKeys \subseteq SettingKeys /\ QuotaKeys \subseteq OpenKeys /\ DetectionKeys \subseteq SettingKeys
  /\ \A k \in OpenKeys : Typed(k) = SettingValues
  /\ \A v \in Values : v # BadValue => v \in SettingValues
  /\ Default \in SettingValues
BY SettingsAssumption DEF OpenKeys, SettingKeys, AppKeys, Typed, Values

(* A row is written with a value that is not refused.                      *)
LEMMA WrittenIsGood ==
  ASSUME setting \in [SettingKeys -> SettingValues], NEW values, Written(values),
         \A k \in DOMAIN values : values[k] \in SettingValues
  PROVE  setting' \in [SettingKeys -> SettingValues]
BY DEF Written

(* What pages and stragglers hold, when one page's state turns into f.     *)
LEMMA FormsTurn ==
  ASSUME SettingsInv, SettingsRest, NEW p \in SettingPages, NEW f, GoodForm(p, f),
         form' = [form EXCEPT ![p] = f], UNCHANGED straggling
  PROVE  \A q \in SettingPages :
           GoodForm(q, form'[q]) /\ straggling'[q] \subseteq QuotaKeys \X SettingValues
<1>1. form \in [SettingPages -> SettingForms]
  BY DEF SettingsInv, SettingsShape
<1>2. \A q \in SettingPages : form'[q] = IF q = p THEN f ELSE form[q]
  BY <1>1
<1>3. \A q \in SettingPages : GoodForm(q, form'[q])
  BY <1>2 DEF SettingsRest
<1> QED
  BY <1>3 DEF SettingsRest

LEMMA PagesKeepGood ==
  ASSUME SettingsInv, SettingsRest, NEW p \in SettingPages,
         \/ OpenForm(p) \/ LeaveForm(p) \/ ResetDetection(p) \/ SaveSettings(p) \/ RefuseSave(p)
         \/ ShowStored(p) \/ ReloadFails(p) \/ \E k \in SettingKeys : \E v \in Typed(k) : Type(p, k, v)
  PROVE  SettingsRest'
<1> DEFINE old == form[p]
<1>0. /\ form \in [SettingPages -> SettingForms] /\ old \in SettingForms /\ GoodForm(p, old)
      /\ setting' = setting /\ UNCHANGED straggling
  BY DEF SettingsInv, SettingsShape, SettingsRest, OpenForm, LeaveForm, ResetDetection, SaveSettings, RefuseSave,
         ShowStored, ReloadFails, Type
<1>1. settingCount' \in [steps : 0..MaxSettingSteps, lookups : 0..MaxLookups]
  <2>1. \/ settingCount' = settingCount
        \/ settingCount.steps < MaxSettingSteps /\ settingCount' = [settingCount EXCEPT !.steps = @ + 1]
    BY DEF OpenForm, LeaveForm, ResetDetection, SaveSettings, RefuseSave, ShowStored, ReloadFails, Type
  <2>2. settingCount \in [steps : 0..MaxSettingSteps, lookups : 0..MaxLookups] /\ MaxSettingSteps \in Nat
    BY SettingsAssumption DEF SettingsRest
  <2> QED
    BY <2>1, <2>2
<1>2. PICK f : form' = [form EXCEPT ![p] = f] /\ GoodForm(p, f)
  <2>1. /\ Blank.pc = "blank" /\ Blank.shown = AllDefault /\ Blank.draft = AllDefault /\ Blank.ask = AllDefault
        /\ Blank = [pc |-> "blank", shown |-> AllDefault, draft |-> AllDefault, ask |-> AllDefault, left |-> {}]
    BY DEF Blank
  <2>2. \A k \in OpenKeys : AllDefault[k] \in SettingValues
    BY OpenKeysAre DEF AllDefault
  <2>3. GoodForm(p, Blank)
    BY <2>1, <2>2 DEF GoodForm
  <2>4. CASE LeaveForm(p)
    BY <2>3, <2>4 DEF LeaveForm
  <2>5. CASE OpenForm(p) \/ ShowStored(p)
    <3> DEFINE shown == Loaded(p)
               f == [Blank EXCEPT !.pc = "open", !.shown = shown, !.draft = shown]
    <3>1. form' = [form EXCEPT ![p] = f]
      BY <2>5 DEF OpenForm, ShowStored, ShowsLoaded, Shows
    <3>2. \A k \in OpenKeys : shown[k] \in SettingValues
      BY OpenKeysAre DEF Loaded, SettingsRest
    <3> HIDE DEF shown
    <3>3. f.pc = "open" /\ f.shown = shown /\ f.draft = shown /\ f.ask = AllDefault
      BY <2>1
    <3>4. GoodForm(p, f)
      BY <2>2, <3>2, <3>3 DEF GoodForm
    <3> QED
      BY <3>1, <3>4
  <2>6. CASE ResetDetection(p)
    <3> DEFINE f == [old EXCEPT !.draft = old.shown]
    <3>1. form' = [form EXCEPT ![p] = f] /\ old.pc = "open"
      BY <1>0, <2>6 DEF ResetDetection
    <3>2. f.pc = old.pc /\ f.shown = old.shown /\ f.draft = old.shown /\ f.ask = old.ask
      BY <1>0 DEF SettingForms
    <3>3. GoodForm(p, f)
      BY <1>0, <3>1, <3>2 DEF GoodForm
    <3> QED
      BY <3>1, <3>3
  <2>7. CASE RefuseSave(p) \/ ReloadFails(p)
    <3>1. \/ form' = [form EXCEPT ![p] = [old EXCEPT !.pc = "open", !.left = {}]]
          \/ form' = [form EXCEPT ![p] = [old EXCEPT !.pc = "open"]]
      BY <1>0, <2>7 DEF RefuseSave, ReloadFails
    <3>2. PICK f : /\ form' = [form EXCEPT ![p] = f]
                   /\ f.pc = "open" /\ f.shown = old.shown /\ f.draft = old.draft /\ f.ask = old.ask
      BY <1>0, <3>1 DEF SettingForms
    <3>3. GoodForm(p, f)
      BY <1>0, <3>2 DEF GoodForm
    <3> QED
      BY <3>2, <3>3
  <2>8. CASE SaveSettings(p)
    <3> DEFINE f == [old EXCEPT !.pc = "saving", !.ask = old.draft, !.left = Sent(p)]
    <3>1. form' = [form EXCEPT ![p] = f] /\ MaySave(p)
      BY <1>0, <2>8 DEF SaveSettings
    <3>2. f.pc = "saving" /\ f.shown = old.shown /\ f.draft = old.draft /\ f.ask = old.draft
      BY <1>0 DEF SettingForms
    <3>3. IsFor(p, "detection") => \A k \in DetectionKeys : old.draft[k] \in SettingValues
      <4>1. old.draft \in [SettingKeys -> Values]
        BY <1>0 DEF SettingForms
      <4> QED
        BY <3>1, <4>1, OpenKeysAre DEF MaySave
    <3> HIDE DEF f
    <3>4. GoodForm(p, f)
      BY <1>0, <3>2, <3>3 DEF GoodForm
    <3> QED
      BY <3>1, <3>4
  <2>9. ASSUME NEW k \in SettingKeys, NEW v \in Typed(k), Type(p, k, v)
        PROVE  \E f : form' = [form EXCEPT ![p] = f] /\ GoodForm(p, f)
    <3> DEFINE draft == [old.draft EXCEPT ![k] = v]
               f == [old EXCEPT !.draft = draft]
    <3>1. form' = [form EXCEPT ![p] = f]
      BY <1>0, <2>9 DEF Type
    <3>2. old.draft \in [SettingKeys -> Values]
      BY <1>0 DEF SettingForms
    <3>3. \A i \in OpenKeys : draft[i] \in SettingValues
      BY <1>0, <3>2, OpenKeysAre DEF GoodForm
    <3> HIDE DEF draft
    <3>4. f.pc = old.pc /\ f.shown = old.shown /\ f.draft = draft /\ f.ask = old.ask
      BY <1>0 DEF SettingForms
    <3> HIDE DEF f
    <3>5. GoodForm(p, f)
      BY <1>0, <3>3, <3>4 DEF GoodForm
    <3> QED
      BY <3>1, <3>5
  <2> QED
    BY <2>4, <2>5, <2>6, <2>7, <2>8, <2>9
<1> HIDE DEF old
<1>3. \A q \in SettingPages : GoodForm(q, form'[q]) /\ straggling'[q] \subseteq QuotaKeys \X SettingValues
  BY <1>0, <1>2, FormsTurn
<1>4. SettingsRest' <=>
        /\ setting' \in [SettingKeys -> SettingValues]
        /\ \A q \in SettingPages : GoodForm(q, form'[q]) /\ straggling'[q] \subseteq QuotaKeys \X SettingValues
        /\ settingCount' \in [steps : 0..MaxSettingSteps, lookups : 0..MaxLookups]
  BY DEF SettingsRest, GoodForm, IsFor
<1> QED
  BY <1>0, <1>1, <1>3, <1>4 DEF SettingsRest

(* The invariant of a later state, in that state's values.                 *)
LEMMA SettingsRestNext ==
  ASSUME setting' \in [SettingKeys -> SettingValues],
         \A q \in SettingPages : GoodForm(q, form'[q]) /\ straggling'[q] \subseteq QuotaKeys \X SettingValues,
         settingCount' \in [steps : 0..MaxSettingSteps, lookups : 0..MaxLookups]
  PROVE  SettingsRest'
BY DEF SettingsRest, GoodForm, IsFor

LEMMA WritesKeepGood ==
  ASSUME SettingsInv, SettingsRest, NEW p \in SettingPages,
         (\E k \in AppKeys : StoreSetting(p, k)) \/ StoreDetection(p)
  PROVE  SettingsRest'
<1> DEFINE old == form[p]
<1>0. /\ form \in [SettingPages -> SettingForms] /\ old \in SettingForms /\ GoodForm(p, old)
      /\ UNCHANGED straggling /\ settingCount' = settingCount
      /\ setting \in [SettingKeys -> SettingValues] /\ old.ask \in [SettingKeys -> Values]
  BY DEF SettingsInv, SettingsShape, SettingForms, SettingsRest, StoreSetting, StoreDetection
<1>1. /\ old.pc = "saving"
      /\ \E f : form' = [form EXCEPT ![p] = f] /\ GoodForm(p, f)
      /\ setting' \in [SettingKeys -> SettingValues]
  <2>1. ASSUME NEW k \in AppKeys, StoreSetting(p, k)
        PROVE  /\ old.pc = "saving" /\ \E f : form' = [form EXCEPT ![p] = f] /\ GoodForm(p, f)
               /\ setting' \in [SettingKeys -> SettingValues]
    <3> DEFINE f == [old EXCEPT !.left = old.left \ {k}]
               values == [i \in {k} |-> old.ask[k]]
    <3>1. form' = [form EXCEPT ![p] = f] /\ old.pc = "saving" /\ Written(values) /\ old.ask[k] # BadValue
      BY <1>0, <2>1 DEF StoreSetting
    <3>2. f.pc = old.pc /\ f.shown = old.shown /\ f.draft = old.draft /\ f.ask = old.ask
      BY <1>0 DEF SettingForms
    <3> HIDE DEF f
    <3>3. GoodForm(p, f)
      BY <1>0, <3>2 DEF GoodForm
    <3>4. \A i \in DOMAIN values : values[i] \in SettingValues
      BY <1>0, <3>1, OpenKeysAre DEF SettingKeys
    <3> HIDE DEF values
    <3> QED
      BY <1>0, <3>1, <3>3, <3>4, WrittenIsGood
  <2>2. CASE StoreDetection(p)
    <3> DEFINE values == [i \in DetectionKeys |-> old.ask[i]]
    <3>1. old.pc = "saving" /\ IsFor(p, "detection") /\ Written(values)
      BY <2>2 DEF StoreDetection
    <3>2. \A i \in DOMAIN values : values[i] \in SettingValues
      BY <1>0, <3>1 DEF GoodForm
    <3>3. setting' \in [SettingKeys -> SettingValues]
      <4> HIDE DEF values
      <4> QED
        BY <1>0, <3>1, <3>2, WrittenIsGood
    <3>4. \/ Shows(p, old.ask) \/ form' = [form EXCEPT ![p] = [old EXCEPT !.pc = "open", !.left = {}]]
      BY <1>0, <2>2 DEF StoreDetection
    <3>5. CASE Shows(p, old.ask)
      <4> DEFINE f == [Blank EXCEPT !.pc = "open", !.shown = old.ask, !.draft = old.ask]
      <4>1. form' = [form EXCEPT ![p] = f]
        BY <3>5 DEF Shows
      <4>2. f.pc = "open" /\ f.shown = old.ask /\ f.draft = old.ask /\ f.ask = AllDefault
        BY DEF Blank
      <4>3. \A k \in OpenKeys : AllDefault[k] \in SettingValues
        BY OpenKeysAre DEF AllDefault
      <4> HIDE DEF f
      <4>4. GoodForm(p, f)
        BY <1>0, <4>2, <4>3 DEF GoodForm
      <4> QED
        BY <3>1, <3>3, <4>1, <4>4
    <3>6. CASE form' = [form EXCEPT ![p] = [old EXCEPT !.pc = "open", !.left = {}]]
      <4> DEFINE f == [old EXCEPT !.pc = "open", !.left = {}]
      <4>1. f.pc = "open" /\ f.shown = old.shown /\ f.draft = old.draft /\ f.ask = old.ask
        BY <1>0 DEF SettingForms
      <4>2. form' = [form EXCEPT ![p] = f]
        BY <3>6
      <4> HIDE DEF f
      <4>3. GoodForm(p, f)
        BY <1>0, <4>1 DEF GoodForm
      <4> QED
        BY <3>1, <3>3, <4>2, <4>3
    <3> QED
      BY <3>4, <3>5, <3>6
  <2> QED
    BY <2>1, <2>2
<1> HIDE DEF old
<1>2. PICK f : form' = [form EXCEPT ![p] = f] /\ GoodForm(p, f)
  BY <1>1
<1>3. \A q \in SettingPages : GoodForm(q, form'[q]) /\ straggling'[q] \subseteq QuotaKeys \X SettingValues
  BY <1>0, <1>2, FormsTurn
<1>4. settingCount' \in [steps : 0..MaxSettingSteps, lookups : 0..MaxLookups]
  BY <1>0 DEF SettingsRest
<1> QED
  BY <1>1, <1>3, <1>4, SettingsRestNext

LEMMA LimitsKeepGood ==
  ASSUME SettingsInv, SettingsRest, NEW p \in SettingPages,
         \/ SendLimits(p) \/ \E limit \in straggling[p] : StoreLimit(p, limit) \/ LimitFails(p, limit)
  PROVE  SettingsRest'
<1> DEFINE old == form[p]
<1>0. /\ form \in [SettingPages -> SettingForms] /\ old \in SettingForms /\ GoodForm(p, old)
      /\ straggling \in [SettingPages -> SUBSET (QuotaKeys \X Values)]
      /\ setting \in [SettingKeys -> SettingValues]
      /\ \A q \in SettingPages : GoodForm(q, form[q]) /\ straggling[q] \subseteq QuotaKeys \X SettingValues
  BY DEF SettingsInv, SettingsShape, SettingsRest
<1>1. settingCount' \in [steps : 0..MaxSettingSteps, lookups : 0..MaxLookups]
  BY DEF SettingsRest, SendLimits, StoreLimit, LimitFails
<1>2. setting' \in [SettingKeys -> SettingValues]
  <2>1. ASSUME NEW limit \in straggling[p], StoreLimit(p, limit) PROVE setting' \in [SettingKeys -> SettingValues]
    <3> DEFINE values == [i \in {limit[1]} |-> limit[2]]
    <3>1. Written(values) /\ \A i \in DOMAIN values : values[i] \in SettingValues
      BY <1>0, <2>1 DEF StoreLimit
    <3> HIDE DEF values
    <3> QED
      BY <1>0, <3>1, WrittenIsGood
  <2> QED
    BY <1>0, <2>1 DEF SendLimits, LimitFails
<1>3. \A q \in SettingPages : straggling'[q] \subseteq QuotaKeys \X SettingValues
  <2>1. Limits(p) \subseteq QuotaKeys \X SettingValues
    BY <1>0, OpenKeysAre DEF Limits, GoodForm
  <2>2. CASE SendLimits(p)
    BY <1>0, <2>1, <2>2 DEF SendLimits
  <2>3. ASSUME NEW limit \in straggling[p], StoreLimit(p, limit) \/ LimitFails(p, limit)
        PROVE  \A q \in SettingPages : straggling'[q] \subseteq QuotaKeys \X SettingValues
    BY <1>0, <2>3 DEF StoreLimit, LimitFails
  <2> QED
    BY <2>2, <2>3
<1>4. \A q \in SettingPages : GoodForm(q, form'[q])
  <2>1. \/ form' = form
        \/ form' = [form EXCEPT ![p] = [old EXCEPT !.pc = "limits", !.left = {}]]
        \/ form' = [form EXCEPT ![p] = [old EXCEPT !.pc = "open"]]
    BY <1>0 DEF SendLimits, StoreLimit, LimitFails
  <2>2. \/ form' = form
        \/ \E f : /\ form' = [form EXCEPT ![p] = f] /\ f.pc \in {"limits", "open"}
                  /\ f.shown = old.shown /\ f.draft = old.draft /\ f.ask = old.ask
    <3> DEFINE sent == [old EXCEPT !.pc = "limits", !.left = {}]
               shut == [old EXCEPT !.pc = "open"]
    <3>1. /\ sent.pc = "limits" /\ sent.shown = old.shown
          /\ sent.draft = old.draft /\ sent.ask = old.ask
      BY <1>0 DEF SettingForms
    <3>2. /\ shut.pc = "open" /\ shut.shown = old.shown
          /\ shut.draft = old.draft /\ shut.ask = old.ask
      BY <1>0 DEF SettingForms
    <3>3. \/ form' = form
          \/ form' = [form EXCEPT ![p] = sent]
          \/ form' = [form EXCEPT ![p] = shut]
      BY <2>1
    <3> HIDE DEF sent, shut
    <3> QED
      BY <3>1, <3>2, <3>3
  <2>3. ASSUME NEW f, form' = [form EXCEPT ![p] = f], f.pc \in {"limits", "open"},
               f.shown = old.shown, f.draft = old.draft, f.ask = old.ask
        PROVE  \A q \in SettingPages : GoodForm(q, form'[q])
    <3>1. GoodForm(p, f)
      BY <1>0, <2>3 DEF GoodForm
    <3>2. \A q \in SettingPages : form'[q] = IF q = p THEN f ELSE form[q]
      BY <1>0, <2>3
    <3> QED
      BY <1>0, <3>1, <3>2
  <2> QED
    BY <1>0, <2>2, <2>3
<1> QED
  BY <1>1, <1>2, <1>3, <1>4, SettingsRestNext

LEMMA SettingsRestStep == SettingsInv /\ SettingsRest /\ [SettingsNext]_settingVars => SettingsRest'
<1> SUFFICES ASSUME SettingsInv, SettingsRest, [SettingsNext]_settingVars PROVE SettingsRest'
  OBVIOUS
<1>1. ASSUME NEW p \in SettingPages, PageStep(p) PROVE SettingsRest'
  BY <1>1, PagesKeepGood, WritesKeepGood, LimitsKeepGood DEF PageStep
<1>2. ASSUME UNCHANGED <<setting, form, straggling>>,
             \/ settingCount' = settingCount
             \/ settingCount.lookups < MaxLookups /\ settingCount' = [settingCount EXCEPT !.lookups = @ + 1]
      PROVE  SettingsRest'
  <2>1. settingCount \in [steps : 0..MaxSettingSteps, lookups : 0..MaxLookups] /\ MaxLookups \in Nat
    BY SettingsAssumption DEF SettingsRest
  <2>2. settingCount' \in [steps : 0..MaxSettingSteps, lookups : 0..MaxLookups]
    BY <1>2, <2>1
  <2>3. /\ setting' \in [SettingKeys -> SettingValues]
        /\ \A q \in SettingPages : GoodForm(q, form'[q]) /\ straggling'[q] \subseteq QuotaKeys \X SettingValues
    BY <1>2 DEF SettingsRest
  <2> QED
    BY <2>2, <2>3, SettingsRestNext
<1>3. ASSUME NEW l \in Lookups, LookUp(l) \/ ReadSettings(l) \/ ReadFails(l) \/ KeepSettings(l)
      PROVE  SettingsRest'
  BY <1>2, <1>3 DEF LookUp, ReadSettings, ReadFails, Answered, KeepSettings
<1>4. ASSUME NEW s \in AppServers, CopyEnds(s) PROVE SettingsRest'
  BY <1>2, <1>4 DEF CopyEnds
<1>5. CASE UNCHANGED settingVars
  BY <1>2, <1>5 DEF settingVars
<1> QED
  BY <1>1, <1>3, <1>4, <1>5 DEF SettingsNext

LEMMA SettingsTypes == SettingsSpec => []SettingsTypeOK
<1>1. SettingsInit => SettingsRest
  <2> SUFFICES ASSUME SettingsInit PROVE SettingsRest
    OBVIOUS
  <2>1. /\ \A p \in SettingPages : form[p] = Blank /\ straggling[p] = {}
        /\ settingCount = [steps |-> 0, lookups |-> 0]
        /\ \E v \in SettingValues : setting = [AllDefault EXCEPT ![TrialMode] = v]
    BY DEF SettingsInit
  <2>2. AllDefault \in [SettingKeys -> SettingValues]
    BY OpenKeysAre DEF AllDefault
  <2>3. setting \in [SettingKeys -> SettingValues]
    BY <2>1, <2>2
  <2>4. \A p \in SettingPages : GoodForm(p, Blank)
    BY <2>2, OpenKeysAre DEF GoodForm, Blank
  <2> QED
    BY <2>1, <2>3, <2>4, SettingsAssumption DEF SettingsRest
<1>2. SettingsInv /\ SettingsRest => SettingsTypeOK
  BY DEF SettingsInv, SettingsShape, SettingForms, SettingsRest, SettingsTypeOK
<1> QED
  BY <1>1, <1>2, SettingsStart, SettingsStep, SettingsRestStep, PTL DEF SettingsSpec

(* One of the parts moves and the others wait, so that every behaviour of  *)
(* the run MCAccounts is one of each component, and what is proved of a    *)
(* component alone holds in the run.                                       *)
LEMMA EachPartRuns == MCSafetySpec => /\ BillingSpec /\ QuotaSpec /\ MailSpec
                                      /\ SessionSpec /\ OnboardSpec /\ ChainSpec
                                      /\ PlanSpec /\ ShopSpec /\ SettingsSpec
<1>1. MCInit => /\ BillingInit /\ QuotaInit /\ MailInit /\ SessionInit /\ OnboardInit
                /\ ChainInit /\ PlanInit /\ ShopInit /\ SettingsInit
  BY DEF MCInit
<1>2. [MCNext]_vars => [BillingNext]_billingVars
  BY DEF MCNext, vars, OnlyBilling, OnlyQuota, OnlyMail, OnlySession, OnlyOnboard, OnlyChain,
         OnlyPlan, OnlyShop, OnlySettings
<1>3. [MCNext]_vars => [QuotaNext]_quotaVars
  BY DEF MCNext, vars, OnlyBilling, OnlyQuota, OnlyMail, OnlySession, OnlyOnboard, OnlyChain,
         OnlyPlan, OnlyShop, OnlySettings
<1>4. [MCNext]_vars => [MailNext]_mailVars
  BY DEF MCNext, vars, OnlyBilling, OnlyQuota, OnlyMail, OnlySession, OnlyOnboard, OnlyChain,
         OnlyPlan, OnlyShop, OnlySettings
<1>5. [MCNext]_vars => [SessionNext]_sessionVars
  BY DEF MCNext, vars, OnlyBilling, OnlyQuota, OnlyMail, OnlySession, OnlyOnboard, OnlyChain,
         OnlyPlan, OnlyShop, OnlySettings
<1>6. [MCNext]_vars => [OnboardNext]_onboardVars
  BY DEF MCNext, vars, OnlyBilling, OnlyQuota, OnlyMail, OnlySession, OnlyOnboard, OnlyChain,
         OnlyPlan, OnlyShop, OnlySettings
<1>7. [MCNext]_vars => [ChainNext]_chainVars
  BY DEF MCNext, vars, OnlyBilling, OnlyQuota, OnlyMail, OnlySession, OnlyOnboard, OnlyChain,
         OnlyPlan, OnlyShop, OnlySettings
<1>8. [MCNext]_vars => [PlanNext]_planVars
  BY DEF MCNext, vars, OnlyBilling, OnlyQuota, OnlyMail, OnlySession, OnlyOnboard, OnlyChain,
         OnlyPlan, OnlyShop, OnlySettings
<1>9. [MCNext]_vars => [ShopNext]_shopVars
  BY DEF MCNext, vars, OnlyBilling, OnlyQuota, OnlyMail, OnlySession, OnlyOnboard, OnlyChain,
         OnlyPlan, OnlyShop, OnlySettings
<1>10. [MCNext]_vars => [SettingsNext]_settingVars
  BY DEF MCNext, vars, OnlyBilling, OnlyQuota, OnlyMail, OnlySession, OnlyOnboard, OnlyChain,
         OnlyPlan, OnlyShop, OnlySettings
<1> QED
  BY <1>1, <1>2, <1>3, <1>4, <1>5, <1>6, <1>7, <1>8, <1>9, <1>10, PTL
     DEF MCSafetySpec, BillingSpec, QuotaSpec, MailSpec, SessionSpec, OnboardSpec, ChainSpec,
         PlanSpec, ShopSpec, SettingsSpec

(* Whatever part moves, the state of every component keeps its type: no    *)
(* counter leaves its bounds, no row, page or process a shape the code     *)
(* gives it, for every value of the constants.                             *)
THEOREM AccountsKeepTheirTypes == MCSafetySpec => []AccountsTypeOK
<1>1. /\ BillingTypeOK /\ QuotaTypeOK /\ MailTypeOK /\ SessionTypeOK /\ OnboardTypeOK
      /\ ChainTypeOK /\ PlanTypeOK /\ ShopTypeOK /\ SettingsTypeOK
      => AccountsTypeOK
  BY DEF AccountsTypeOK
<1> QED
  BY <1>1, EachPartRuns, BillingTypes, QuotaTypes, MailTypes, SessionTypesStay, OnboardTypes,
     ChainTypes, PlanTypes, ShopTypes, SettingsTypes, PTL
====
