------------------------------ MODULE AiGateway ------------------------------
(***************************************************************************)
(* Requests to the language models: a circuit breaker shared by all of     *)
(* them, and for each request the user's chain of credentials, whose       *)
(* health the requests record.  Answers may come long after the circuit    *)
(* has changed its state.                                                  *)
(***************************************************************************)
EXTENDS Naturals, Sequences, FiniteSets

CONSTANTS Calls,         \* runGatewayRequest calls at the same time
          Chain,         \* the user's credentials, by priority
          Threshold      \* LLM_CIRCUIT_BREAKER_THRESHOLD

ASSUME GatewayAssumption == Threshold \in Nat \ {0}

VARIABLES circuit,       \* state, consecutiveFailures, halfOpenProbeActive
          cooled,        \* CB_COOLDOWN_MS have passed since the last failure
          lost,          \* history: a probe ended before it began
          call,          \* the calls: where they are, the attempts that are left
          health,        \* user_ai_credentials.health_status
          marking        \* markCredentialSuccess, which nobody waits for

gatewayVars == <<circuit, cooled, lost, call, health, marking>>

Credentials == {Chain[i] : i \in DOMAIN Chain}

ASSUME ChainIsSequence == Chain \in Seq(Credentials)

Platform == "platform"

NoCall == [pc |-> "idle", left |-> <<>>, to |-> "healthy"]

NoMark == <<"none", Platform>>

Recoverable == {"rate_limited", "quota_exceeded"}

Health == {"healthy", "invalid"} \cup Recoverable

GatewayTypeOK ==
  /\ circuit \in [state : {"CLOSED", "OPEN", "HALF_OPEN"}, failures : 0..Threshold + 1,
                  probe : BOOLEAN]
  /\ {cooled, lost} \subseteq BOOLEAN
  /\ \A g \in Calls :
       /\ call[g].pc \in {"idle", "resolve", "try", "health", "thrown"}
       /\ call[g].left \in Seq(Credentials \cup {Platform}) /\ call[g].to \in Health
       /\ marking[g] \in {"none", "look", "write"} \X (Credentials \cup {Platform})
  /\ health \in [Credentials -> Health]

GatewayInit ==
  /\ circuit = [state |-> "CLOSED", failures |-> 0, probe |-> FALSE]
  /\ cooled = FALSE /\ lost = FALSE
  /\ call = [g \in Calls |-> NoCall]
  /\ health = [c \in Credentials |-> "healthy"]
  /\ marking = [g \in Calls |-> NoMark]

-----------------------------------------------------------------------------
(* The circuit.  Failures are counted up to one above the threshold. *)

OneMore == IF circuit.failures > Threshold THEN circuit.failures ELSE circuit.failures + 1

(* recordSuccess: whose success it is does not matter. *)
AfterSuccess ==
  IF circuit.state = "HALF_OPEN"
  THEN [state |-> "CLOSED", failures |-> 0, probe |-> FALSE]
  ELSE [circuit EXCEPT !.failures = 0]

(* recordTransientFailure *)
AfterTransient ==
  LET counted == [circuit EXCEPT !.failures = OneMore]
  IN  CASE circuit.state = "HALF_OPEN" -> [counted EXCEPT !.state = "OPEN", !.probe = FALSE]
        [] circuit.state = "CLOSED" /\ OneMore >= Threshold -> [counted EXCEPT !.state = "OPEN"]
        [] OTHER -> counted

(* recordNonRetryableFailure *)
AfterNonRetryable ==
  [circuit EXCEPT !.probe = @ /\ circuit.state # "HALF_OPEN"]

(* checkCircuit lets a call pass: always when closed, one as a probe when  *)
(* the cooldown is over.                                                   *)
MayPass ==
  \/ circuit.state = "CLOSED"
  \/ circuit.state = "OPEN" /\ cooled
  \/ circuit.state = "HALF_OPEN" /\ ~circuit.probe

Passed == IF circuit.state = "CLOSED" THEN circuit
          ELSE [circuit EXCEPT !.state = "HALF_OPEN", !.probe = TRUE]

(* CB_COOLDOWN_MS pass without another failure. *)
Cool ==
  /\ ~cooled
  /\ cooled' = TRUE
  /\ UNCHANGED <<circuit, lost, call, health, marking>>

-----------------------------------------------------------------------------
(* A request: runGatewayRequest *)

StartCall(g) ==
  /\ call[g].pc = "idle" /\ marking[g] = NoMark
  /\ MayPass
  /\ circuit' = Passed
  /\ call' = [call EXCEPT ![g].pc = "resolve"]
  /\ UNCHANGED <<cooled, lost, health, marking>>

(* The job was cancelled before: the exception comes from outside the try  *)
(* block, and nothing is recorded.                                         *)
AbortBeforeStart ==
  /\ MayPass
  /\ circuit' = Passed
  /\ lost' = (lost \/ circuit'.probe)
  /\ UNCHANGED <<cooled, call, health, marking>>

Usable(c) == health[c] = "healthy"

(* The healthy credentials of the chain, in their order. *)
UsableChain ==
  LET upTo[n \in 0..Len(Chain)] ==
        IF n = 0 THEN <<>>
        ELSE IF Usable(Chain[n]) THEN Append(upTo[n - 1], Chain[n]) ELSE upTo[n - 1]
  IN  upTo[Len(Chain)]

(* buildUserCredentialAttempts: the healthy ones; with none of them the    *)
(* platform's, if it has one, for which the same holds after a failure of  *)
(* them all (allowPlatformFallback).                                       *)
ResolveChain(g, platform) ==
  /\ call[g].pc = "resolve"
  /\ LET attempts == UsableChain \o (IF platform THEN <<Platform>> ELSE <<>>)
     IN  call' = [call EXCEPT ![g].pc = IF attempts = <<>> THEN "thrown" ELSE "try",
                              ![g].left = attempts]
  /\ UNCHANGED <<circuit, cooled, lost, health, marking>>

CallSucceeds(g) ==
  /\ call[g].pc = "try"
  /\ circuit' = AfterSuccess
  /\ call' = [call EXCEPT ![g] = NoCall]
  /\ marking' = [marking EXCEPT ![g] = IF Head(call[g].left) = Platform THEN NoMark
                                       ELSE <<"look", Head(call[g].left)>>]
  /\ UNCHANGED <<cooled, lost, health>>

EndsTransient(g) ==
  /\ circuit' = AfterTransient
  /\ cooled' = FALSE
  /\ call' = [call EXCEPT ![g] = NoCall]

EndsNonRetryable(g) ==
  /\ circuit' = AfterNonRetryable
  /\ call' = [call EXCEPT ![g] = NoCall]
  /\ UNCHANGED cooled

(* The next attempt; whether the retry budget has anything left is logged, *)
(* and the loop goes on in either case.                                    *)
NextAttempt(g) ==
  /\ call' = [call EXCEPT ![g].left = Tail(@), ![g].pc = "try", ![g].to = "healthy"]
  /\ UNCHANGED <<circuit, cooled>>

(* After a failed attempt: a failure that is not to be retried is thrown,  *)
(* unless the provider's own error came through; the last one is thrown in *)
(* any case, as a transient failure or not.                                *)
AfterFailure(g, retryable) ==
  \/ Len(call[g].left) > 1 /\ NextAttempt(g)
  \/ ~retryable /\ EndsNonRetryable(g)
  \/ Len(call[g].left) = 1 /\ retryable /\ EndsTransient(g)

(* classifyExecutionFailure: a timeout, a network error or a 5xx says      *)
(* nothing of the credential, nor does a rejected prompt ...               *)
CallFails(g, retryable) ==
  /\ call[g].pc = "try"
  /\ AfterFailure(g, retryable)
  /\ UNCHANGED <<lost, health, marking>>

(* ... a limit, an empty account or a refused key does. *)
CredentialFails(g, to) ==
  /\ call[g].pc = "try" /\ Head(call[g].left) # Platform
  /\ call' = [call EXCEPT ![g].pc = "health", ![g].to = to]
  /\ UNCHANGED <<circuit, cooled, lost, health, marking>>

(* updateCredentialHealth with a failure, whatever was recorded before *)
RecordHealth(g) ==
  /\ call[g].pc = "health"
  /\ health' = [health EXCEPT ![Head(call[g].left)] = call[g].to]
  /\ AfterFailure(g, call[g].to = "rate_limited")
  /\ UNCHANGED <<lost, marking>>

(* No credential and no platform: a NonRetryableError. *)
NoAttempt(g) ==
  /\ call[g].pc = "thrown"
  /\ EndsNonRetryable(g)
  /\ UNCHANGED <<lost, health, marking>>

(* markCredentialSuccess looks at the health, more than once, and then     *)
(* writes "healthy" whatever it has become since the last look.            *)
LookAtHealth(g) ==
  /\ marking[g][1] = "look"
  /\ marking' = [marking EXCEPT ![g] = IF health[@[2]] \in Recoverable
                                       THEN <<"write", @[2]>> ELSE NoMark]
  /\ UNCHANGED <<circuit, cooled, lost, call, health>>

MarkHealthy(g) ==
  /\ marking[g][1] = "write"
  /\ health' = [health EXCEPT ![marking[g][2]] = "healthy"]
  /\ marking' = [marking EXCEPT ![g] = NoMark]
  /\ UNCHANGED <<circuit, cooled, lost, call>>

(* healthCheck, by the user *)
CheckHealth(c) ==
  /\ health' = [health EXCEPT ![c] = "healthy"]
  /\ UNCHANGED <<circuit, cooled, lost, call, marking>>

GatewayNext ==
  \/ Cool
  \/ AbortBeforeStart
  \/ \E g \in Calls :
       \/ StartCall(g) \/ CallSucceeds(g) \/ RecordHealth(g) \/ NoAttempt(g)
       \/ LookAtHealth(g) \/ MarkHealthy(g)
       \/ \E b \in BOOLEAN : ResolveChain(g, b) \/ CallFails(g, b)
       \/ \E to \in Health \ {"healthy"} : CredentialFails(g, to)
  \/ \E c \in Credentials : CheckHealth(c)

GatewaySpec == GatewayInit /\ [][GatewayNext]_gatewayVars

-----------------------------------------------------------------------------
(* The probe of a half-open circuit is given back on every way out of a    *)
(* request: while it is taken some request is under way, unless a          *)
(* cancelled one took it with it (AbortBeforeStart).                       *)
ProbeIsHeld ==
  circuit.probe /\ ~lost => \E g \in Calls : call[g].pc # "idle"

(* A closed circuit stands for fewer failures in a row than open it, also  *)
(* after late answers of requests that began before it was opened.         *)
ClosedIsBelowThreshold == circuit.state = "CLOSED" => circuit.failures < Threshold

(* The circuit can neither be left without its probe nor close too early.  *)
CircuitIsSound == ProbeIsHeld /\ ClosedIsBelowThreshold
=============================================================================
