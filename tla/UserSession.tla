------------------------------ MODULE UserSession ------------------------------
(***************************************************************************)
(* Who is signed in: Supabase keeps the session for all pages of a         *)
(* browser, a page mirrors it (AuthContext) with the user the server knows *)
(* by it, every request carries its token, the server checks the token and *)
(* finds the user's row, and some of its refusals sign the page out.       *)
(***************************************************************************)
EXTENDS Naturals, FiniteSets

CONSTANTS Identities,   \* Google accounts
          NoIdentity,     \* no account
          PageRequests,   \* a page's requests under way
          MaxTurns    \* bound: sign-ins, sign-outs elsewhere, ageing tokens, failing
                      \* getSessions

ASSUME SessionAssumption ==
  Identities # {} /\ NoIdentity \notin Identities /\ MaxTurns \in Nat

VARIABLES login,    \* the session Supabase keeps, and whether its token is still good
          page,     \* AuthContext: session, user, the token's mirror, hydration
          request,  \* the page's requests
          logout,   \* logoutInFlight
          server,   \* whether the signing keys can be had; what it knows of each account
          turns     \* history: sign-ins; a late user is shown; a sign-out has failed

sessionVars == <<login, page, request, logout, server, turns>>

(* What the server knows of an account: nothing, an unlinked legacy user   *)
(* with its address, or a linked one; or its tokens do not show a verified *)
(* address, or none.                                                       *)
Kinds == {"new", "legacy", "linked", "unverified", "noEmail"}

People == Identities \cup {NoIdentity}

(* The mirror of the token: whose it is, or none after getSession failed.  *)
Mirrored == People \cup {"unread"}

Idle == [pc |-> "none", me |-> FALSE, as |-> NoIdentity, fresh |-> TRUE, retried |-> FALSE]
FreshPage == [session |-> NoIdentity, user |-> NoIdentity, token |-> NoIdentity, resolved |-> FALSE,
              booted |-> FALSE]

SessionTypeOK ==
  /\ login \in [who : People, fresh : BOOLEAN]
  /\ page \in [session : People, user : People, token : Mirrored, resolved : BOOLEAN,
               booted : BOOLEAN]
  /\ request \in [PageRequests -> [pc : {"none", "headers", "sent", "insert", "refresh"},
                               me : BOOLEAN, as : People, fresh : BOOLEAN, retried : BOOLEAN]]
  /\ logout \in [pc : {"no", "signOut", "late"}, cause : {"none", "asked", "refused"}]
  /\ server \in [keys : BOOLEAN, of : [Identities -> Kinds]]
  /\ turns \in [n : 0..MaxTurns, stale : BOOLEAN, survived : BOOLEAN]

(* The accounts are alike to begin with: on the server one does not matter *)
(* to the other.                                                           *)
SessionInit ==
  /\ login \in [who : {NoIdentity, CHOOSE a \in Identities : TRUE}, fresh : {TRUE}] /\ page = FreshPage
  /\ request = [r \in PageRequests |-> Idle]
  /\ logout = [pc |-> "no", cause |-> "none"]
  /\ server \in {[keys |-> TRUE, of |-> [a \in Identities |-> kind]] : kind \in Kinds \ {"linked"}}
  /\ turns = [n |-> 0, stale |-> FALSE, survived |-> FALSE]

-----------------------------------------------------------------------------
(* The server's answers *)

(* verifySupabaseAccessToken and the middleware: what is wrong with the    *)
(* request, in the order it is looked for.                                 *)
Refusal(r) ==
  IF request[r].as = NoIdentity THEN "MISSING_AUTH_HEADER"
  ELSE IF ~server.keys THEN "JWKS_FETCH_FAILED"
  ELSE IF ~request[r].fresh THEN "TOKEN_EXPIRED"
  ELSE CASE server.of[request[r].as] = "noEmail" -> "MISSING_EMAIL"
         [] server.of[request[r].as] = "unverified" -> "EMAIL_NOT_VERIFIED"
         [] OTHER -> "none"

HttpStatus(code) ==
  IF code = "LEGACY_USER_PENDING_MANUAL_LINK" THEN 403
  ELSE IF code = "AUTH_USER_SYNC_FAILED" THEN 500 ELSE 401

NonLogoutCodes == {"EMAIL_NOT_VERIFIED", "LEGACY_USER_PENDING_MANUAL_LINK"}
SoftCodes == {"MISSING_AUTH_HEADER"}

(* A plausible bug: every 401 but a missing token ends the session. *)
FaultyForcesLogout(code) == HttpStatus(code) = 401 /\ code \notin SoftCodes

(* shouldForceLogout *)
ForcesLogout(code) == HttpStatus(code) = 401 /\ code \notin NonLogoutCodes \cup SoftCodes

RetriesAfterRenewal(code) == code \in {"TOKEN_EXPIRED", "MISSING_AUTH_HEADER"}

-----------------------------------------------------------------------------
(* The page's session and requests *)

AsksMe == \E r \in PageRequests : request[r].pc # "none" /\ request[r].me

(* An auth event reaches the page: applySession and, with a session,       *)
(* refreshUser; SIGNED_OUT clears the user.                                *)
SessionApplied(who) ==
  [page EXCEPT !.session = who, !.token = who, !.user = IF who = NoIdentity THEN NoIdentity ELSE @,
               !.resolved = @ \/ who = NoIdentity]

NewRequest(me) == [Idle EXCEPT !.pc = "headers", !.me = me]

(* refreshUser needs a free request; the bound holds the event back.       *)
RefreshUser(reqs) ==
  \E r \in PageRequests : reqs[r].pc = "none" /\ request' = [reqs EXCEPT ![r] = NewRequest(TRUE)]

Event(who) ==
  /\ page' = SessionApplied(who)
  /\ IF who = NoIdentity THEN UNCHANGED request ELSE RefreshUser(request)

SignedInAs(who) == login' = [who |-> who, fresh |-> TRUE]
OneTurn == turns.n < MaxTurns /\ turns' = [turns EXCEPT !.n = @ + 1, !.survived = FALSE]

(* signInWithOAuth leaves the page; it comes back as a new one.            *)
SignInHere(a) ==
  /\ page.booted /\ page.session = NoIdentity /\ turns.n < MaxTurns
  /\ turns' = [n |-> turns.n + 1, stale |-> FALSE, survived |-> FALSE]
  /\ SignedInAs(a) /\ page' = FreshPage /\ request' = [r \in PageRequests |-> Idle]
  /\ logout' = [pc |-> "no", cause |-> "none"]
  /\ UNCHANGED server

(* Another page of the browser signs in or out. *)
SignInElsewhere(a) ==
  /\ page.booted /\ login.who # a /\ OneTurn
  /\ SignedInAs(a) /\ Event(a)
  /\ UNCHANGED <<logout, server>>

SignOutElsewhere ==
  /\ page.booted /\ login.who # NoIdentity /\ OneTurn
  /\ SignedInAs(NoIdentity) /\ Event(NoIdentity)
  /\ UNCHANGED <<logout, server>>

(* bootstrap: the initial session is taken from getSession, which may fail *)
(* or take longer than the hydration may.                                  *)
Bootstrap(found) ==
  /\ ~page.booted
  /\ LET who == IF found THEN login.who ELSE NoIdentity
     IN  /\ page' = [SessionApplied(who) EXCEPT !.resolved = TRUE, !.booted = TRUE]
         /\ IF who = NoIdentity THEN UNCHANGED request ELSE RefreshUser(request)
         /\ turns' = [turns EXCEPT !.survived = @ \/ ~found]
  /\ UNCHANGED <<login, logout, server>>

HydrationTimeout ==
  /\ ~page.booted /\ ~page.resolved
  /\ page' = [page EXCEPT !.resolved = TRUE]
  /\ UNCHANGED <<login, request, logout, server, turns>>

(* Tokens age; Supabase renews its own from time to time, which revives a  *)
(* page that has signed out while the session survived.                    *)
Age ==
  /\ login.fresh /\ login.who # NoIdentity /\ turns.n < MaxTurns
  /\ login' = [login EXCEPT !.fresh = FALSE]
  /\ request' = [r \in PageRequests |-> [request[r] EXCEPT !.fresh = @ /\ request[r].as # login.who]]
  /\ turns' = [turns EXCEPT !.n = @ + 1]
  /\ UNCHANGED <<page, logout, server>>

Renew ==
  /\ page.booted /\ login.who # NoIdentity /\ ~login.fresh
  /\ SignedInAs(login.who) /\ Event(login.who)
  /\ turns' = [turns EXCEPT !.survived = FALSE]
  /\ UNCHANGED <<logout, server>>

BeginRequest(r) ==
  /\ page.session # NoIdentity /\ request[r].pc = "none"
  /\ request' = [request EXCEPT ![r] = NewRequest(FALSE)]
  /\ UNCHANGED <<login, page, logout, server, turns>>

(* getSupabaseAccessToken, which mirrors the token whatever the page       *)
(* thinks; an aged one is sent as it is when it cannot be renewed.         *)
Send(r) ==
  /\ request[r].pc = "headers"
  /\ request' = [request EXCEPT ![r].pc = "sent", ![r].as = login.who, ![r].fresh = login.fresh]
  /\ page' = [page EXCEPT !.token = login.who]
  /\ UNCHANGED <<login, logout, server, turns>>

(* getSession fails: the mirror is emptied and the request goes out        *)
(* without a token, while the session stays.                               *)
SendWithoutToken(r) ==
  /\ request[r].pc = "headers" /\ login.who # NoIdentity /\ turns.n < MaxTurns
  /\ request' = [request EXCEPT ![r].pc = "sent", ![r].as = NoIdentity, ![r].fresh = login.fresh]
  /\ page' = [page EXCEPT !.token = "unread"]
  /\ turns' = [turns EXCEPT !.n = @ + 1]
  /\ UNCHANGED <<login, logout, server>>

-----------------------------------------------------------------------------
(* Answers *)

Ended(r) == request' = [request EXCEPT ![r] = Idle]

(* A user is found: only fetchMe looks at it. *)
Welcome(r) ==
  /\ Ended(r)
  /\ page' = IF request[r].me THEN [page EXCEPT !.user = request[r].as] ELSE page
  /\ turns' = IF request[r].me THEN [turns EXCEPT !.stale = request[r].as # page.session] ELSE turns
  /\ UNCHANGED <<login, logout>>

(* logout begins: the page forgets session, user and token at once; the    *)
(* extension is told and the queries are cancelled, then signOut is called.*)
LogoutBegins(cause) ==
  /\ logout' = [pc |-> "signOut", cause |-> cause]
  /\ page' = [SessionApplied(NoIdentity) EXCEPT !.user = NoIdentity]

(* A refusal: the handler acts only while the page has a session, and only *)
(* one logout runs at a time; a refused fetchMe leaves no user.            *)
Refuse(r, code) ==
  /\ IF ForcesLogout(code) /\ page.session # NoIdentity /\ logout.pc \in {"no", "late"}
     THEN LogoutBegins("refused") /\ Ended(r)
     ELSE /\ Ended(r) /\ UNCHANGED logout
          /\ page' = IF request[r].me THEN [page EXCEPT !.user = NoIdentity] ELSE page
  /\ turns' = [turns EXCEPT !.stale = @ /\ ~request[r].me]
  /\ UNCHANGED login

(* supabaseAuthMiddleware checks the token and looks for the user's row.   *)
MiddlewareAnswer(r) ==
  /\ request[r].pc = "sent"
  /\ LET code == Refusal(r) IN
     IF code # "none"
     THEN IF RetriesAfterRenewal(code) /\ ~request[r].retried
          THEN /\ request' = [request EXCEPT ![r].pc = "refresh"]
               /\ UNCHANGED <<login, page, logout, turns>>
          ELSE Refuse(r, code)
     ELSE CASE server.of[request[r].as] = "linked" -> Welcome(r)
            [] server.of[request[r].as] = "legacy" ->
                 Refuse(r, "LEGACY_USER_PENDING_MANUAL_LINK")
            [] OTHER -> /\ request' = [request EXCEPT ![r].pc = "insert"]
                        /\ UNCHANGED <<login, page, logout, turns>>
  /\ UNCHANGED server

(* insertNewUserFromSupabase: of concurrent first requests one inserts, an *)
(* e-mail address that another row holds by now is an error.               *)
InsertUser(r) ==
  /\ request[r].pc = "insert"
  /\ IF server.of[request[r].as] \in {"new", "linked"}
     THEN /\ server' = [server EXCEPT !.of[request[r].as] = "linked"]
          /\ Welcome(r)
     ELSE Refuse(r, "AUTH_USER_SYNC_FAILED") /\ UNCHANGED server

(* The server or the way to it fails; no handler is called. *)
RequestFails(r) ==
  /\ request[r].pc \in {"sent", "insert"}
  /\ Refuse(r, "AUTH_USER_SYNC_FAILED")
  /\ UNCHANGED server

(* tryRefreshSupabaseSession, then the request once more; without a new    *)
(* token the refusal stands.                                               *)
RenewForRetry(r, renewed) ==
  /\ request[r].pc = "refresh"
  /\ IF renewed
     THEN /\ login.who # NoIdentity /\ SignedInAs(login.who)
          /\ page' = SessionApplied(login.who)
          /\ RefreshUser([request EXCEPT ![r].pc = "headers", ![r].retried = TRUE])
          /\ turns' = [turns EXCEPT !.survived = FALSE] /\ UNCHANGED logout
     ELSE Refuse(r, IF request[r].as = NoIdentity THEN "MISSING_AUTH_HEADER" ELSE "TOKEN_EXPIRED")
  /\ UNCHANGED server

-----------------------------------------------------------------------------
(* Signing out *)

AskLogout ==
  /\ page.session # NoIdentity /\ logout.pc \in {"no", "late"}
  /\ LogoutBegins("asked")
  /\ UNCHANGED <<login, request, server, turns>>

(* Supabase removes the session and tells the page, maybe after the 8      *)
(* seconds that logout waits.                                              *)
SignedOut ==
  /\ logout.pc \in {"signOut", "late"}
  /\ logout' = [pc |-> "no", cause |-> "none"]
  /\ SignedInAs(NoIdentity) /\ Event(NoIdentity)
  /\ UNCHANGED <<server, turns>>

(* signOut fails: its error is not looked at and the session stays.        *)
SignOutFails ==
  /\ logout.pc \in {"signOut", "late"}
  /\ logout' = [pc |-> "no", cause |-> "none"]
  /\ turns' = [turns EXCEPT !.survived = TRUE]
  /\ UNCHANGED <<login, page, request, server>>

SignOutTakesLong ==
  /\ logout.pc = "signOut"
  /\ logout' = [logout EXCEPT !.pc = "late"]
  /\ UNCHANGED <<login, page, request, server, turns>>

(* The signing keys come and go; an administrator links a legacy user or   *)
(* imports one with an address that is about to be inserted.               *)
KeysChange ==
  /\ server' = [server EXCEPT !.keys = ~@]
  /\ UNCHANGED <<login, page, request, logout, turns>>

RowChanges(a, from, to) ==
  /\ <<from, to>> \in {<<"legacy", "linked">>, <<"new", "legacy">>}
  /\ server.of[a] = from /\ server' = [server EXCEPT !.of[a] = to]
  /\ UNCHANGED <<login, page, request, logout, turns>>

SessionNext ==
  \/ \E a \in Identities : \/ SignInHere(a) \/ SignInElsewhere(a)
                         \/ RowChanges(a, "legacy", "linked") \/ RowChanges(a, "new", "legacy")
  \/ SignOutElsewhere \/ HydrationTimeout \/ Age \/ Renew \/ AskLogout
  \/ SignedOut \/ SignOutFails \/ SignOutTakesLong \/ KeysChange
  \/ \E b \in BOOLEAN : Bootstrap(b)
  \/ \E r \in PageRequests : \/ BeginRequest(r) \/ Send(r) \/ SendWithoutToken(r)
                         \/ MiddlewareAnswer(r) \/ InsertUser(r) \/ RequestFails(r)
                         \/ \E renewed \in BOOLEAN : RenewForRetry(r, renewed)

SessionSpec == SessionInit /\ [][SessionNext]_sessionVars

-----------------------------------------------------------------------------
(* Once nothing is under way, the page's session and token are Supabase's  *)
(* and the user is theirs or unknown - but for a session that survived its *)
(* sign-out, a fetchMe that was answered after the session had changed,    *)
(* and a token that could not be read for the last request.                *)
SessionsAgree ==
  page.booted /\ logout.pc = "no" /\ ~AsksMe =>
    /\ turns.survived \/ (page.session = login.who /\ page.token \in {login.who, "unread"})
    /\ turns.stale \/ page.user \in {page.session, NoIdentity}

(* Nobody is signed out by an answer while the account's token is good:    *)
(* there was no verified e-mail claim to be had, the keys were away, the   *)
(* token had expired, or the answer was meant for an earlier session.      *)
NobodyIsThrownOut ==
  [][\A a \in Identities :
       logout.cause = "none" /\ logout'.cause = "refused" /\ page.session = a =>
         \/ server.of[a] = "noEmail" \/ ~server.keys
         \/ \E r \in PageRequests : request[r].pc # "none" /\ request'[r].pc = "none"
              /\ (request[r].as # a \/ ~request[r].fresh)]_sessionVars

(* Page, Supabase and server agree on who is signed in, and an account in  *)
(* order stays signed in.                                                  *)
SessionIsSound == []SessionsAgree /\ NobodyIsThrownOut
=============================================================================
