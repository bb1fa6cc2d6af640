----------------------------- MODULE AiCredentials -----------------------------
(***************************************************************************)
(* A user's own AI keys: a chain of credentials in order of priority, the  *)
(* first being the primary one.  Requests that change the chain read it    *)
(* and write it in a later statement; a saved key is checked with the      *)
(* provider, whose answer the gateway keeps for a while, and marked.       *)
(***************************************************************************)
EXTENDS Naturals, FiniteSets, Functions

CONSTANTS UserKeys,     \* credentials: a provider and a label
          NoUserKey,    \* no credential
          Secrets,      \* API keys
          GoodSecrets,  \* those the provider accepts
          ChainRequests, \* requests under way
          ChainOffset,  \* PRIORITY_OFFSET
          MaxChainWrites \* bound: requests that change the chain

ASSUME ChainAssumption ==
  /\ GoodSecrets \subseteq Secrets /\ NoUserKey \notin UserKeys
  /\ IsFiniteSet(UserKeys) /\ GoodSecrets # {} /\ ChainOffset \in Nat /\ ChainOffset > Cardinality(UserKeys) /\ MaxChainWrites \in Nat

VARIABLES chain,      \* user_ai_credentials: key -> row
          chainOp,    \* the requests
          healthCache, \* key -> the kept answer of its health check
          chainHistory \* writes; whether one was overtaken; keys whose check is in doubt

chainVars == <<chain, chainOp, healthCache, chainHistory>>

NoRow == [there |-> FALSE, prio |-> 0, secret |-> CHOOSE s \in Secrets : TRUE, status |-> "pending"]
NoOp == [pc |-> "none", key |-> NoUserKey, secret |-> CHOOSE s \in Secrets : TRUE, first |-> FALSE,
         seenKeys |-> {}, ok |-> FALSE, kept |-> FALSE]
HeldKeys == {c \in UserKeys : chain[c].there}
Priorities == 0 .. (ChainOffset * (MaxChainWrites * 2 + 1))

ChainTypeOK ==
  /\ chain \in [UserKeys -> [there : BOOLEAN, prio : Priorities, secret : Secrets,
                             status : {"pending", "valid", "invalid"}]]
  /\ chainOp \in [ChainRequests -> [pc : {"none", "write", "check", "verify", "promote"},
                                    key : UserKeys \cup {NoUserKey}, secret : Secrets,
                                    first : BOOLEAN, seenKeys : SUBSET UserKeys, ok : BOOLEAN,
                                    kept : BOOLEAN]]
  /\ healthCache \in [UserKeys -> {"none", "ok", "refused"}]
  /\ chainHistory \in [writes : 0..MaxChainWrites, overtaken : BOOLEAN, doubted : SUBSET UserKeys]

(* Orders of a set of credentials: a place for each. *)
Orders(S) == {order \in [S -> 0 .. (Cardinality(S) - 1)] : IsInjective(order)}

(* Keys S of the user, all found good, in an order. *)
GoodChain(S, order) ==
  [c \in UserKeys |->
     IF c \in S THEN [there |-> TRUE, prio |-> order[c], status |-> "valid",
                      secret |-> CHOOSE s \in GoodSecrets : TRUE]
     ELSE NoRow]

(* Any chain of such keys. *)
ChainInit ==
  /\ chain \in {GoodChain(S, order) : S \in SUBSET UserKeys, order \in Orders(UserKeys)}
  /\ HeldKeys = {} \/ {chain[c].prio : c \in HeldKeys} = 0 .. (Cardinality(HeldKeys) - 1)
  /\ chainOp = [r \in ChainRequests |-> NoOp]
  /\ healthCache = [c \in UserKeys |-> "none"]
  /\ chainHistory = [writes |-> 0, overtaken |-> FALSE, doubted |-> {}]

-----------------------------------------------------------------------------
(* The order *)

(* The lists that the database can return ORDER BY priority. *)
Listed(S) == {order \in Orders(S) : \A c, d \in S : chain[c].prio < chain[d].prio => order[c] < order[d]}

(* With c first and the others as they were. *)
WithFirst(c, order) ==
  [d \in DOMAIN order |-> IF d = c THEN 0 ELSE order[d] + (IF order[d] < order[c] THEN 1 ELSE 0)]

(* applyPriorities: everything is moved out of the way, then the listed    *)
(* credentials that are there take their places.                           *)
WithPriorities(rows, order) ==
  [c \in UserKeys |->
     IF ~rows[c].there THEN rows[c]
     ELSE [rows[c] EXCEPT !.prio = IF c \in DOMAIN order THEN order[c] ELSE @ + ChainOffset]]

(* The partial unique index: one primary. *)
OnePrimary(rows) == Cardinality({c \in UserKeys : rows[c].there /\ rows[c].prio = 0}) <= 1

OneWrite == chainHistory.writes < MaxChainWrites
Ends(r) == chainOp' = [chainOp EXCEPT ![r] = NoOp]
ChainGoes(r, pc) == chainOp' = [chainOp EXCEPT ![r].pc = pc]

(* A write that sees another set of credentials than its request has read  *)
(* has been overtaken; one that orders all of them sets that right.        *)
Counted(seenKeys, ordered) ==
  [chainHistory EXCEPT !.overtaken = seenKeys # HeldKeys \/ (@ /\ ~ordered)]

-----------------------------------------------------------------------------
(* Saving *)

(* saveCredentialController: provider, model and certified list pass; the  *)
(* transaction's first queries.                                            *)
AskSave(r, c, secret, first) ==
  /\ chainOp[r].pc = "none" /\ OneWrite
  /\ chainOp' = [chainOp EXCEPT ![r] = [NoOp EXCEPT !.pc = "write", !.key = c, !.secret = secret,
                                                    !.first = first, !.seenKeys = HeldKeys]]
  /\ chainHistory' = [chainHistory EXCEPT !.writes = @ + 1]
  /\ UNCHANGED <<chain, healthCache>>

(* A plausible bug: a replaced key stays verified. *)
FaultyUnverified(row) == row

(* An existing row's new key is not verified yet. *)
Unverified(row) == [row EXCEPT !.status = "pending"]

SavedRow(c, secret, prio) ==
  [Unverified(chain[c]) EXCEPT !.there = TRUE, !.secret = secret, !.prio = prio]

(* upsertCredential for a row that was there when it was read: its others  *)
(* come in any order after a primary one (no ORDER BY); a row deleted      *)
(* since is an error.                                                      *)
ReplaceKey(r) ==
  LET op == chainOp[r] IN
  /\ op.pc = "write" /\ op.key \in op.seenKeys
  /\ IF op.key \notin HeldKeys THEN Ends(r) /\ UNCHANGED <<chain, chainHistory>>
     ELSE /\ LET row == [chain EXCEPT ![op.key] = SavedRow(op.key, op.secret, @.prio)]
             IN  IF op.first
                 THEN \E order \in Orders(HeldKeys) :
                        order[op.key] = 0 /\ chain' = WithPriorities(row, order)
                 ELSE chain' = row
          /\ chainHistory' = Counted(IF op.first THEN HeldKeys ELSE op.seenKeys, op.first)
          /\ ChainGoes(r, "check")
  /\ UNCHANGED healthCache

(* upsertCredential for a new row: a backup goes behind those that were    *)
(* read, a primary one before them; the unique indexes refuse the rest.    *)
AddKey(r) ==
  LET op == chainOp[r] IN
  /\ op.pc = "write" /\ op.key \notin op.seenKeys
  /\ \E order \in Orders(op.seenKeys) :
       /\ order \in Listed(op.seenKeys) \/ op.seenKeys \cap HeldKeys # op.seenKeys
       /\ LET added == [chain EXCEPT ![op.key] =
                          SavedRow(op.key, op.secret, IF op.first THEN 0 ELSE Cardinality(op.seenKeys))]
              places == [c \in op.seenKeys \cup {op.key} |-> IF c = op.key THEN 0 ELSE order[c] + 1]
              rows == IF op.first /\ op.seenKeys # {} THEN WithPriorities(added, places) ELSE added
          IN  IF op.key \in HeldKeys \/ ~OnePrimary(rows)
              THEN Ends(r) /\ UNCHANGED <<chain, chainHistory>>
              ELSE /\ chain' = rows /\ ChainGoes(r, "check")
                   /\ chainHistory' = Counted(op.seenKeys, op.first)
  /\ UNCHANGED healthCache

(* healthCheck of the gateway: an answer kept for the credential will do,  *)
(* whichever key it was for.                                               *)
CheckKey(r) ==
  LET op == chainOp[r]
      kept == healthCache[op.key] # "none"
      ok == IF kept THEN healthCache[op.key] = "ok" ELSE op.secret \in GoodSecrets
  IN /\ op.pc = "check"
     /\ chainOp' = [chainOp EXCEPT ![r].pc = "verify", ![r].ok = ok, ![r].kept = kept]
     /\ healthCache' = [healthCache EXCEPT ![op.key] = IF ok THEN "ok" ELSE "refused"]
     /\ UNCHANGED <<chain, chainHistory>>

(* The provider does not answer in time, or anything else fails: the first *)
(* counts as refused.                                                      *)
CheckFails(r) ==
  /\ chainOp[r].pc = "check" /\ healthCache[chainOp[r].key] = "none"
  /\ \/ Ends(r) /\ UNCHANGED healthCache
     \/ /\ chainOp' = [chainOp EXCEPT ![r].pc = "verify", ![r].ok = FALSE]
        /\ healthCache' = [healthCache EXCEPT ![chainOp[r].key] = "refused"]
  /\ UNCHANGED <<chain, chainHistory>>

(* applyVerificationResult marks the row, whatever key it holds by now.    *)
(* A refused key stays in the chain, and in its place.                     *)
VerifyKey(r) ==
  LET op == chainOp[r] IN
  /\ op.pc = "verify"
  /\ chain' = IF op.key \in HeldKeys
              THEN [chain EXCEPT ![op.key].status = IF op.ok THEN "valid" ELSE "invalid"] ELSE chain
  /\ chainHistory' = [chainHistory EXCEPT !.doubted =
                        IF op.kept \/ chain[op.key].secret # op.secret THEN @ \cup {op.key}
                        ELSE @ \ {op.key}]
  /\ Ends(r) /\ UNCHANGED healthCache

-----------------------------------------------------------------------------
(* The chain *)

(* reorderChain takes a list of all the credentials or nothing. *)
ReorderChain(order) ==
  /\ OneWrite /\ chain' = WithPriorities(chain, order) /\ chain' # chain
  /\ chainHistory' = [Counted(HeldKeys, TRUE) EXCEPT !.writes = @ + 1]
  /\ UNCHANGED <<chainOp, healthCache>>

(* promoteToPrimary lists the chain first, outside the transaction. *)
AskPromote(r, c) ==
  /\ chainOp[r].pc = "none" /\ OneWrite /\ c \in HeldKeys
  /\ chainOp' = [chainOp EXCEPT ![r] = [NoOp EXCEPT !.pc = "promote", !.key = c, !.seenKeys = HeldKeys]]
  /\ chainHistory' = [chainHistory EXCEPT !.writes = @ + 1]
  /\ UNCHANGED <<chain, healthCache>>

Promote(r) ==
  LET op == chainOp[r] IN
  /\ op.pc = "promote"
  /\ IF op.seenKeys # HeldKeys THEN UNCHANGED <<chain, chainHistory>>
     ELSE /\ \E order \in Listed(op.seenKeys) :
               chain' = WithPriorities(chain, WithFirst(op.key, order))
          /\ chainHistory' = Counted(HeldKeys, TRUE)
  /\ Ends(r) /\ UNCHANGED healthCache

(* The chain without c, compacted. *)
WithoutKey(c) ==
  LET rest == HeldKeys \ {c}
      order == CHOOSE order \in Orders(rest) :
                 \A d, e \in rest : chain[d].prio < chain[e].prio => order[d] < order[e]
  IN WithPriorities([chain EXCEPT ![c] = NoRow], order)

(* deleteCredential; a new row of that name has a new id. *)
DeleteKey(c) ==
  /\ OneWrite /\ c \in HeldKeys
  /\ \A r \in ChainRequests : chainOp[r].pc \in {"check", "verify"} => chainOp[r].key # c
  /\ chain' = WithoutKey(c) /\ healthCache' = [healthCache EXCEPT ![c] = "none"]
  /\ chainHistory' = [Counted(HeldKeys, TRUE) EXCEPT !.writes = @ + 1, !.doubted = @ \ {c}]
  /\ UNCHANGED chainOp

(* healthCheckCredentialController changes nothing but the health (and     *)
(* what is kept of it); HEALTH_CHECK_CACHE_TTL_MS.                         *)
Retest(c) ==
  /\ c \in HeldKeys /\ healthCache[c] = "none"
  /\ healthCache' = [healthCache EXCEPT ![c] =
                       IF chain[c].secret \in GoodSecrets THEN "ok" ELSE "refused"]
  /\ UNCHANGED <<chain, chainOp, chainHistory>>

CacheEnds(c) ==
  /\ healthCache[c] # "none" /\ healthCache' = [healthCache EXCEPT ![c] = "none"]
  /\ UNCHANGED <<chain, chainOp, chainHistory>>

ChainNext ==
  \/ \E r \in ChainRequests :
       \/ ReplaceKey(r) \/ AddKey(r) \/ CheckKey(r) \/ CheckFails(r) \/ VerifyKey(r) \/ Promote(r)
       \/ \E c \in UserKeys : \/ AskPromote(r, c)
                              \/ \E s \in Secrets, first \in BOOLEAN : AskSave(r, c, s, first)
  \/ \E order \in Orders(HeldKeys) : ReorderChain(order)
  \/ \E c \in UserKeys : DeleteKey(c) \/ Retest(c) \/ CacheEnds(c)

ChainSpec == ChainInit /\ [][ChainNext]_chainVars

-----------------------------------------------------------------------------
(* The chain has one primary and backups numbered behind it, without gaps, *)
(* unless a write was overtaken by another and nobody has ordered since.   *)
ChainIsDense ==
  ~chainHistory.overtaken =>
    {chain[c].prio : c \in HeldKeys} = 0 .. (Cardinality(HeldKeys) - 1)

(* What counts as verified (the setup calls it ready) is a key that the    *)
(* provider accepts, unless the answer was kept from another key or the    *)
(* key was replaced while it was checked.                                  *)
ValidMeansTested ==
  \A c \in HeldKeys \ chainHistory.doubted :
    chain[c].status = "valid" => chain[c].secret \in GoodSecrets

(* The chain of keys is in order, and what counts as verified is.          *)
CredentialsAreSound == ChainIsDense /\ ValidMeansTested
=============================================================================
