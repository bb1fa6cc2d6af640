--------------------------- MODULE ExtensionSession ---------------------------
(***************************************************************************)
(* The session the browser extension keeps in chrome.storage: brought by   *)
(* the website over a one-time connect token, renewed by whichever request *)
(* finds it expired, and dropped.  Nothing keeps two requests from         *)
(* renewing it at the same time.  A refresh token is the number of its     *)
(* session and how often it was renewed; the identity provider accepts the *)
(* latest of a session that has not ended.                                 *)
(***************************************************************************)
EXTENDS Naturals, FiniteSets

CONSTANTS Fetches,          \* apiFetch calls and the alarm's refresh at the same time
          MaxSessions,      \* bound: sessions the website hands over
          MaxRenewals       \* bound: renewals of a session

ASSUME SessionAssumption == MaxSessions \in Nat /\ MaxRenewals \in Nat \ {0}

VARIABLES stored,           \* chrome.storage.local: the refresh token, and whether the
                            \* access token beside it is still good
          granted,          \* session -> renewal the provider accepts, 0: none
          given,            \* sessions handed over
          bundle,           \* the session behind an unused connect token, or 0
          fetching,         \* the calls: where they are, and with what
          crossed,          \* history: a refresh met another one, a connect or a
                            \* disconnect, or its end was cut off or not heard of
          why               \* history: what emptied the storage last

extensionVars == <<stored, granted, given, bundle, fetching, crossed, why>>

Sessions == 1..MaxSessions

Token == [session : 0..MaxSessions, renewal : 0..MaxRenewals]

NoToken == [session |-> 0, renewal |-> 0]

Fresh(session) == [session |-> session, renewal |-> 1]

Accepted(token) == token.session # 0 /\ granted[token.session] = token.renewal

NoSession == [token |-> NoToken, good |-> FALSE]

NoFetch == [pc |-> "idle", with |-> NoToken, again |-> FALSE]

ExtensionTypeOK ==
  /\ stored \in [token : Token, good : BOOLEAN]
  /\ given \in 0..MaxSessions /\ bundle \in 0..given
  /\ granted \in [Sessions -> 0..MaxRenewals]
  /\ fetching \in [Fetches -> [pc : {"idle", "renew", "save", "refused", "call", "retry", "caught"},
                               with : Token, again : BOOLEAN]]
  /\ crossed \in BOOLEAN
  /\ why \in {"nothing", "user", "refused", "bad answer", "retry"}

ExtensionInit ==
  /\ stored = NoSession
  /\ granted = [n \in Sessions |-> 0] /\ given = 0 /\ bundle = 0
  /\ fetching = [x \in Fetches |-> NoFetch]
  /\ crossed = FALSE /\ why = "nothing"

Renewing == {x \in Fetches : fetching[x].pc \in {"renew", "save", "refused"}}

-----------------------------------------------------------------------------
(* The website: createConnectToken and exchangeConnectToken, which takes   *)
(* the token with it.                                                      *)

OfferSession ==
  /\ bundle = 0 /\ given < MaxSessions
  /\ given' = given + 1
  /\ granted' = [granted EXCEPT ![given'] = 1]
  /\ bundle' = given'
  /\ UNCHANGED <<stored, fetching, crossed, why>>

(* handleConnect; a connect token not used within 90 seconds is gone. *)
TakeSession ==
  /\ bundle # 0
  /\ bundle' = 0
  /\ \/ /\ stored' = [token |-> Fresh(bundle), good |-> TRUE]
        /\ crossed' = (crossed \/ Renewing # {})
     \/ UNCHANGED <<stored, crossed>>
  /\ UNCHANGED <<granted, given, fetching, why>>

(* handleDisconnect: the storage only; the session lives on. *)
SignOut ==
  /\ stored # NoSession
  /\ stored' = NoSession
  /\ why' = "user"
  /\ crossed' = (crossed \/ Renewing # {})
  /\ UNCHANGED <<granted, given, bundle, fetching>>

AccessExpires ==
  /\ stored.good
  /\ stored' = [stored EXCEPT !.good = FALSE]
  /\ UNCHANGED <<granted, given, bundle, fetching, crossed, why>>

(* The session is ended at the identity provider. *)
SessionEnds(n) ==
  /\ granted[n] # 0
  /\ granted' = [granted EXCEPT ![n] = 0]
  /\ UNCHANGED <<stored, given, bundle, fetching, crossed, why>>

-----------------------------------------------------------------------------
(* A request: apiFetch *)

(* getAccessToken: with no session there is no request. *)
StartFetch(x) ==
  /\ fetching[x].pc = "idle" /\ stored # NoSession
  /\ IF stored.good
     THEN /\ fetching' = [fetching EXCEPT ![x].pc = "call"] /\ UNCHANGED crossed
     ELSE /\ fetching' = [fetching EXCEPT ![x] = [pc |-> "renew", with |-> stored.token,
                                                  again |-> FALSE]]
          /\ crossed' = (crossed \/ Renewing # {})
  /\ UNCHANGED <<stored, granted, given, bundle, why>>

(* body.refresh_token *)
NextToken(token) == [token EXCEPT !.renewal = @ + 1]

(* refreshAccessToken, at the identity provider *)
ProviderRenews(x) ==
  LET token == fetching[x].with
  IN  /\ fetching[x].pc = "renew" /\ Accepted(token) /\ token.renewal < MaxRenewals
      /\ granted' = [granted EXCEPT ![token.session] = @ + 1]
      /\ fetching' = [fetching EXCEPT ![x].pc = "save", ![x].with = NextToken(token)]
      /\ UNCHANGED <<stored, given, bundle, crossed, why>>

ProviderRefuses(x) ==
  /\ fetching[x].pc = "renew" /\ ~Accepted(fetching[x].with)
  /\ fetching' = [fetching EXCEPT ![x].pc = "refused"]
  /\ UNCHANGED <<stored, granted, given, bundle, crossed, why>>

(* clearAuthStorage: whatever is there by now. *)
Empty(reason) == stored' = NoSession /\ why' = reason

(* An exception ends the request; that of a second attempt is caught by    *)
(* apiFetch, which empties the storage (once more).                        *)
Throws(x) ==
  fetching' = [fetching EXCEPT ![x] = IF fetching[x].again THEN [fetching[x] EXCEPT !.pc = "caught"]
                                               ELSE NoFetch]

DropRefused(x) ==
  /\ fetching[x].pc = "refused"
  /\ Empty("refused") /\ Throws(x)
  /\ UNCHANGED <<granted, given, bundle, crossed>>

(* Any other answer but new tokens is treated alike: a status that is not  *)
(* ok, before or after the provider renewed, or a body without the access  *)
(* token.                                                                  *)
BadAnswer(x) ==
  /\ fetching[x].pc \in {"renew", "save"}
  /\ Empty("bad answer") /\ Throws(x)
  /\ UNCHANGED <<granted, given, bundle, crossed>>

(* The provider cannot be reached, or its answer does not arrive. *)
RenewalFails(x) ==
  /\ fetching[x].pc \in {"renew", "save"}
  /\ crossed' = (crossed \/ fetching[x].pc = "save")
  /\ Throws(x)
  /\ UNCHANGED <<stored, granted, given, bundle, why>>

(* The new tokens are stored, also if the user has signed out meanwhile. *)
SaveSession(x) ==
  /\ fetching[x].pc = "save"
  /\ stored' = [token |-> fetching[x].with, good |-> TRUE]
  /\ fetching' = [fetching EXCEPT ![x].pc = IF fetching[x].again THEN "retry" ELSE "call"]
  /\ UNCHANGED <<granted, given, bundle, crossed, why>>

(* Any answer but 401, or none, ends the request. *)
Answered(x) ==
  /\ fetching[x].pc = "call"
  /\ fetching' = [fetching EXCEPT ![x] = NoFetch]
  /\ UNCHANGED <<stored, granted, given, bundle, crossed, why>>

(* 401: refreshAccessToken, with what is stored now; nothing stored there  *)
(* is NOT_CONNECTED.                                                       *)
Unauthorized(x) ==
  /\ fetching[x].pc = "call"
  /\ IF stored = NoSession
     THEN fetching' = [fetching EXCEPT ![x] = NoFetch] /\ UNCHANGED crossed
     ELSE /\ fetching' = [fetching EXCEPT ![x] = [pc |-> "renew", with |-> stored.token,
                                                  again |-> TRUE]]
          /\ crossed' = (crossed \/ Renewing # {})
  /\ UNCHANGED <<stored, granted, given, bundle, why>>

(* The second answer, or none: whatever is wrong ends the session, 401 at  *)
(* once.                                                                   *)
RetryAnswered(x) ==
  /\ fetching[x].pc = "retry"
  /\ \/ fetching' = [fetching EXCEPT ![x] = NoFetch] /\ UNCHANGED <<stored, why>>
     \/ Throws(x) /\ (Empty("retry") \/ UNCHANGED <<stored, why>>)
  /\ UNCHANGED <<granted, given, bundle, crossed>>

DropCaught(x) ==
  /\ fetching[x].pc = "caught"
  /\ Empty("retry")
  /\ fetching' = [fetching EXCEPT ![x] = NoFetch]
  /\ UNCHANGED <<granted, given, bundle, crossed>>

(* The service worker is stopped: what it was doing is gone. *)
StopServiceWorker ==
  /\ \E x \in Fetches : fetching[x].pc # "idle"
  /\ fetching' = [x \in Fetches |-> NoFetch]
  /\ crossed' = (crossed \/ \E x \in Fetches : fetching[x].pc = "save")
  /\ UNCHANGED <<stored, granted, given, bundle, why>>

FetchStep(x) ==
  \/ StartFetch(x) \/ ProviderRenews(x) \/ ProviderRefuses(x) \/ DropRefused(x)
  \/ BadAnswer(x) \/ RenewalFails(x) \/ SaveSession(x) \/ Answered(x) \/ Unauthorized(x)
  \/ RetryAnswered(x) \/ DropCaught(x)

ExtensionNext ==
  \/ OfferSession \/ TakeSession \/ SignOut \/ AccessExpires \/ StopServiceWorker
  \/ \E n \in Sessions : SessionEnds(n)
  \/ \E x \in Fetches : FetchStep(x)

ExtensionSpec == ExtensionInit /\ [][ExtensionNext]_extensionVars

-----------------------------------------------------------------------------
(* The extension is signed out only of a session that has ended, or        *)
(* because the user asked for it, because the identity provider answered a *)
(* renewal with neither tokens nor a refusal, or because a second attempt  *)
(* after a 401 failed too; unless something crossed a refresh: another one *)
(* (nothing keeps two requests apart), a connect, a disconnect, or the end *)
(* of the service worker, or of the connection, before the new token was   *)
(* stored.                                                                 *)
SignedOutWhenEnded ==
  [][stored # NoSession /\ stored' = NoSession /\ ~crossed
     /\ why' \notin {"user", "bad answer", "retry"}
       => granted[stored.token.session] = 0]_extensionVars
=============================================================================
