------------------------------ MODULE PgRetries ------------------------------
(***************************************************************************)
(* Queries on the pool, outside a transaction, are tried again after a     *)
(* transient error, while a circuit shared by the process allows it.  The  *)
(* other circuit breaker of the process, before the AI provider, is        *)
(* AiGateway's; the two share nothing.                                     *)
(***************************************************************************)
EXTENDS AiGateway

CONSTANTS Queries,          \* executeWithPgRetry calls at the same time
          FailureThreshold, \* FAILURE_THRESHOLD, 10
          MaxTries          \* DEFAULT_MAX_ATTEMPTS, 3

ASSUME RetryAssumption == FailureThreshold \in Nat \ {0} /\ MaxTries \in Nat \ {0}

VARIABLES failures,   \* failures in the window, counted up to the threshold
          opened,     \* openedAt: "no", within the cooldown ("hot"), or "cooled"
          query,      \* the calls: [pc, tries]
          repeats     \* history: retries of each call since openedAt was set

retryVars == <<failures, opened, query, repeats>>

NoQuery == [pc |-> "idle", tries |-> 0]

RetryTypeOK ==
  /\ failures \in 0..FailureThreshold
  /\ opened \in {"no", "hot", "cooled"}
  /\ query \in [Queries -> [pc : {"idle", "running", "waiting"}, tries : 0..MaxTries]]
  /\ repeats \in [Queries -> 0..MaxTries]

RetryInit ==
  /\ failures = 0
  /\ opened = "no"
  /\ query = [q \in Queries |-> NoQuery]
  /\ repeats = [q \in Queries |-> 0]

(* A plausible bug: the answer for a closed circuit only. *)
FaultyMayRetry == opened # "hot" \/ failures >= FailureThreshold

(* canRetry: not within the cooldown.  After it every caller is let        *)
(* through, and the circuit does not open again until a retry succeeded.   *)
MayRetry == opened # "hot"

OneFailureMore == IF failures < FailureThreshold THEN failures + 1 ELSE failures

Begin(q) ==
  /\ query[q].pc = "idle"
  /\ query' = [query EXCEPT ![q] = [pc |-> "running", tries |-> 1]]
  /\ repeats' = [repeats EXCEPT ![q] = 0]
  /\ UNCHANGED <<failures, opened>>

(* recordSuccess, only when it took more than one try *)
Succeeds(q) ==
  /\ query[q].pc = "running"
  /\ query' = [query EXCEPT ![q] = NoQuery]
  /\ IF query[q].tries > 1
     THEN opened' = "no" /\ failures' = 0
     ELSE UNCHANGED <<opened, failures>>
  /\ UNCHANGED repeats

(* An error that is not transient is thrown at once. *)
Refused(q) ==
  /\ query[q].pc = "running"
  /\ query' = [query EXCEPT ![q] = NoQuery]
  /\ UNCHANGED <<failures, opened, repeats>>

(* recordTransientFailure; then whether to retry is decided, before the    *)
(* wait and not after it.                                                  *)
FailsForNow(q) ==
  /\ query[q].pc = "running"
  /\ failures' = OneFailureMore
  /\ opened' = IF failures' >= FailureThreshold /\ opened = "no" THEN "hot" ELSE opened
  /\ query' = [query EXCEPT ![q] = IF MayRetry' /\ @.tries < MaxTries
                                   THEN [@ EXCEPT !.pc = "waiting"] ELSE NoQuery]
  /\ repeats' = IF opened' # opened THEN [r \in Queries |-> 0] ELSE repeats

TryAgain(q) ==
  /\ query[q].pc = "waiting"
  /\ query' = [query EXCEPT ![q] = [pc |-> "running", tries |-> @.tries + 1]]
  /\ repeats' = [repeats EXCEPT ![q] = @ + 1]
  /\ UNCHANGED <<failures, opened>>

(* WINDOW_MS: the oldest failures leave the window. *)
Forget ==
  /\ failures' \in 0..FailureThreshold /\ failures' < failures
  /\ UNCHANGED <<opened, query, repeats>>

(* pgRetryCircuitCooldownMs since openedAt *)
CoolDown ==
  /\ opened = "hot"
  /\ opened' = "cooled"
  /\ UNCHANGED <<failures, query, repeats>>

RetryNext ==
  \/ Forget
  \/ CoolDown
  \/ \E q \in Queries : Begin(q) \/ Succeeds(q) \/ Refused(q) \/ FailsForNow(q) \/ TryAgain(q)

RetrySpec == RetryInit /\ [][RetryNext]_retryVars

-----------------------------------------------------------------------------
(* "Prevents retry amplification during outages": while the cooldown of an *)
(* open circuit runs, a query is tried again at most once, and only a      *)
(* query that was already waiting to be when the circuit opened.           *)
OneRepeatWhileOpen == opened = "hot" => \A q \in Queries : repeats[q] <= 1

(* Neither breaker goes wrong: the AI gateway's circuit gives its probe    *)
(* back and counts what it should, and no query is repeated again and      *)
(* again while the database's is open.                                     *)
BreakersAreSound == CircuitIsSound /\ OneRepeatWhileOpen
=============================================================================
