----------------------------- MODULE MailAccounts -----------------------------
(***************************************************************************)
(* A user's Gmail account: the tokens of the row, which send jobs refresh  *)
(* under a lock in Redis, while the user connects the account again or     *)
(* disconnects it.  Refresh tokens are numbers, 0 is NULL; Google accepts  *)
(* some of them, and may replace the one it is shown by another.           *)
(***************************************************************************)
EXTENDS Naturals

CONSTANTS Senders,       \* send jobs of the user at the same time
          MaxTokens,     \* bound: refresh tokens Google issues
          MaxAges        \* bound: times an access token runs out

VARIABLES account,       \* the row of email_accounts; id 0: there is none
          accepted,      \* refresh tokens Google accepts
          issued,        \* refresh tokens issued
          accountLock,   \* holder of oauth:token:lock, or NoSender
          sender,        \* the jobs in getFreshAccessToken, with the row they read
          consent,       \* handleCallback between the exchange and the upsert
          leaving,       \* disconnect between the revocation and the delete
          ages,
          renewals,      \* history: refreshes since the access token ran out
          excused        \* history: the lock did not protect a refresh, or a
                         \* consent came in the middle of one

mailVars == <<account, accepted, issued, accountLock, sender, consent, leaving, ages,
              renewals, excused>>

NoSender == "none"

ASSUME MailAssumption == {MaxTokens, MaxAges} \subseteq Nat /\ NoSender \notin Senders

Accounts == [id : 0..MaxTokens, status : {"connected", "revoked"}, refresh : 0..MaxTokens,
             fresh : BOOLEAN]

NoAccount == [id |-> 0, status |-> "connected", refresh |-> 0, fresh |-> FALSE]

Resting == [pc |-> "idle", row |-> NoAccount, token |-> 0]

MailTypeOK ==
  /\ account \in Accounts
  /\ issued \in 0..MaxTokens /\ accepted \subseteq 1..issued
  /\ accountLock \in Senders \cup {NoSender}
  /\ sender \in [Senders -> [pc : {"idle", "lock", "read", "ask", "store", "refused",
                                   "release", "unlock"},
                             row : Accounts, token : 0..MaxTokens]]
  /\ consent \in 0..MaxTokens /\ leaving \in 0..MaxTokens
  /\ ages \in 0..MaxAges /\ renewals \in Nat
  /\ excused \in BOOLEAN

MailInit ==
  /\ account = NoAccount
  /\ accepted = {} /\ issued = 0
  /\ accountLock = NoSender
  /\ sender = [s \in Senders |-> Resting]
  /\ consent = 0 /\ leaving = 0
  /\ ages = 0 /\ renewals = 0 /\ excused = FALSE

Busy == \E s \in Senders : sender[s].pc \in {"ask", "store", "refused"}

SenderGoes(s, pc) == sender' = [sender EXCEPT ![s].pc = pc]

-----------------------------------------------------------------------------
(* The user *)

(* The OAuth callback: the code is exchanged; prompt=consent brings a new  *)
(* refresh token.  Only one callback is under way at a time.               *)
Consent ==
  /\ consent = 0 /\ issued < MaxTokens
  /\ issued' = issued + 1
  /\ accepted' = accepted \cup {issued'}
  /\ consent' = issued'
  /\ UNCHANGED <<account, accountLock, sender, leaving, ages, renewals, excused>>

(* upsertOAuthAccount: the row keeps its id if there is one. *)
ConnectAccount ==
  /\ consent # 0
  /\ account' = [id      |-> IF account.id = 0 THEN consent ELSE account.id,
                 status  |-> "connected",
                 refresh |-> consent,
                 fresh   |-> TRUE]
  /\ consent' = 0
  /\ excused' = (excused \/ Busy)
  /\ UNCHANGED <<accepted, issued, accountLock, sender, leaving, ages, renewals>>

(* At Google, or by disconnect, whose revocation ends the whole grant. *)
Revoke ==
  /\ accepted # {}
  /\ accepted' = {}
  /\ UNCHANGED <<account, issued, accountLock, sender, consent, leaving, ages, renewals,
                 excused>>

StartDisconnect ==
  /\ account.id # 0 /\ leaving = 0
  /\ leaving' = account.id
  /\ accepted' = {} \/ UNCHANGED accepted       \* the revocation may fail
  /\ UNCHANGED <<account, issued, accountLock, sender, consent, ages, renewals, excused>>

FinishDisconnect ==
  /\ leaving # 0
  /\ account' = IF account.id = leaving THEN NoAccount ELSE account
  /\ leaving' = 0
  /\ UNCHANGED <<accepted, issued, accountLock, sender, consent, ages, renewals, excused>>

-----------------------------------------------------------------------------
(* A send job: resolveSendingAccount, then getFreshAccessToken             *)

(* An access token that is still good is used as it is. *)
StartSending(s) ==
  /\ sender[s].pc = "idle"
  /\ account.id # 0 /\ account.status = "connected" /\ ~account.fresh
  /\ sender' = [sender EXCEPT ![s] = [pc |-> "lock", row |-> account, token |-> 0]]
  /\ UNCHANGED <<account, accepted, issued, accountLock, consent, leaving, ages, renewals,
                 excused>>

(* SET NX; or LOCK_WAIT_MS are over, and the job goes on without it. *)
LockAccount(s) ==
  /\ sender[s].pc = "lock"
  /\ \/ accountLock = NoSender /\ accountLock' = s /\ UNCHANGED excused
     \/ accountLock # NoSender /\ excused' = TRUE /\ UNCHANGED accountLock
  /\ SenderGoes(s, "read")
  /\ UNCHANGED <<account, accepted, issued, consent, leaving, ages, renewals>>

(* getById under the lock; a row that is gone is replaced by the old copy. *)
Latest(s) == IF account.id = sender[s].row.id THEN account ELSE sender[s].row

TokenOf(s) == Latest(s).refresh

(* A plausible bug: what was read before the lock decides. *)
FaultyNeedsRefresh(s) == ~sender[s].row.fresh

(* Another worker may have just refreshed it. *)
NeedsRefresh(s) == ~Latest(s).fresh

ReadAgain(s) ==
  /\ sender[s].pc = "read"
  /\ sender' = [sender EXCEPT ![s] =
       [pc |-> IF NeedsRefresh(s) THEN "ask" ELSE "release", row |-> Latest(s),
        token |-> TokenOf(s)]]
  /\ UNCHANGED <<account, accepted, issued, accountLock, consent, leaving, ages, renewals,
                 excused>>

(* Google answers: with an access token and perhaps another refresh token  *)
(* in place of the one shown, with invalid_grant, or not at all.  "token"  *)
(* is then what updateAccessToken is given for the refresh token.          *)
GoogleRenews(s, rotates) ==
  /\ sender[s].pc = "ask" /\ sender[s].token \in accepted
  /\ IF rotates
     THEN /\ issued < MaxTokens
          /\ issued' = issued + 1
          /\ accepted' = (accepted \ {sender[s].token}) \cup {issued'}
          /\ sender' = [sender EXCEPT ![s].pc = "store", ![s].token = issued']
     ELSE /\ sender' = [sender EXCEPT ![s].pc = "store", ![s].token = 0]
          /\ UNCHANGED <<issued, accepted>>
  /\ UNCHANGED <<account, accountLock, consent, leaving, ages, renewals, excused>>

GoogleRefuses(s) ==
  /\ sender[s].pc = "ask" /\ sender[s].token \notin accepted
  /\ SenderGoes(s, "refused")
  /\ UNCHANGED <<account, accepted, issued, accountLock, consent, leaving, ages, renewals,
                 excused>>

GoogleFails(s) ==
  /\ sender[s].pc = "ask"
  /\ SenderGoes(s, "release")
  /\ UNCHANGED <<account, accepted, issued, accountLock, consent, leaving, ages, renewals,
                 excused>>

(* updateAccessToken: COALESCE keeps the refresh token; a row that is gone *)
(* stays gone, and the job sends all the same.                             *)
StoreTokens(s) ==
  /\ sender[s].pc = "store"
  /\ IF account.id = sender[s].row.id
     THEN /\ account' = [account EXCEPT !.status = "connected", !.fresh = TRUE,
                           !.refresh = IF sender[s].token = 0 THEN @ ELSE sender[s].token]
          /\ renewals' = renewals + 1
     ELSE UNCHANGED <<account, renewals>>
  /\ SenderGoes(s, "release")
  /\ UNCHANGED <<accepted, issued, accountLock, consent, leaving, ages, excused>>

(* invalid_grant: markStatus, whatever the row holds by now *)
MarkRevoked(s) ==
  /\ sender[s].pc = "refused"
  /\ account' = IF account.id = sender[s].row.id
                THEN [account EXCEPT !.status = "revoked"] ELSE account
  /\ SenderGoes(s, "release")
  /\ UNCHANGED <<accepted, issued, accountLock, consent, leaving, ages, renewals, excused>>

(* The lock is looked at, and deleted in a second command. *)
LookAtLock(s) ==
  /\ sender[s].pc = "release"
  /\ IF accountLock = s THEN SenderGoes(s, "unlock")
     ELSE sender' = [sender EXCEPT ![s] = Resting]
  /\ UNCHANGED <<account, accepted, issued, accountLock, consent, leaving, ages, renewals,
                 excused>>

Unlock(s) ==
  /\ sender[s].pc = "unlock"
  /\ accountLock' = NoSender
  /\ sender' = [sender EXCEPT ![s] = Resting]
  /\ UNCHANGED <<account, accepted, issued, consent, leaving, ages, renewals, excused>>

(* The process dies: the lock is left to LOCK_TTL_MS, and a refresh token  *)
(* Google has just replaced is lost.                                       *)
KillSender(s) ==
  /\ sender[s].pc # "idle"
  /\ sender' = [sender EXCEPT ![s] = Resting]
  /\ UNCHANGED <<account, accepted, issued, accountLock, consent, leaving, ages, renewals,
                 excused>>

(* LOCK_TTL_MS: of a dead holder's, or one that takes that long. *)
LockRunsOut ==
  /\ accountLock # NoSender
  /\ accountLock' = NoSender
  /\ excused' = (excused \/ sender[accountLock].pc # "idle")
  /\ UNCHANGED <<account, accepted, issued, sender, consent, leaving, ages, renewals>>

AccessTokenAges ==
  /\ account.id # 0 /\ account.fresh /\ ages < MaxAges
  /\ account' = [account EXCEPT !.fresh = FALSE]
  /\ ages' = ages + 1 /\ renewals' = 0
  /\ UNCHANGED <<accepted, issued, accountLock, sender, consent, leaving, excused>>

SenderStep(s) ==
  \/ StartSending(s) \/ LockAccount(s) \/ ReadAgain(s)
  \/ \E b \in BOOLEAN : GoogleRenews(s, b)
  \/ GoogleRefuses(s) \/ GoogleFails(s) \/ StoreTokens(s) \/ MarkRevoked(s)
  \/ LookAtLock(s) \/ Unlock(s) \/ KillSender(s)

MailNext ==
  \/ Consent \/ ConnectAccount \/ Revoke \/ StartDisconnect \/ FinishDisconnect
  \/ LockRunsOut \/ AccessTokenAges
  \/ \E s \in Senders : SenderStep(s)

MailSpec == MailInit /\ [][MailNext]_mailVars

-----------------------------------------------------------------------------
(* "Parallel send jobs don't all hit Google at once": an access token that *)
(* ran out is renewed once, as long as no job outlived its lock or its     *)
(* patience, and nobody connected the account during a refresh.            *)
OneRenewalPerExpiry == ~excused => renewals <= 1

(* Under the same conditions an account is not marked revoked, and the     *)
(* user not asked to connect it again, while Google accepts the refresh    *)
(* token it holds.                                                         *)
RevokedIsRefused ==
  ~excused /\ account.id # 0 /\ account.status = "revoked" => account.refresh \notin accepted

(* What parallel sends do to the account they share.                       *)
RenewalsAgree == OneRenewalPerExpiry /\ RevokedIsRefused
=============================================================================
