----------------------------- MODULE ProviderCalls -----------------------------
(***************************************************************************)
(* One key at one provider of language models: what its adapter makes of   *)
(* an answer, how often it asks again, and what the gateway then believes  *)
(* of the key.  The adapters throw errors that carry words only, so the    *)
(* gateway has to find the reason in them; the test of a key judges the    *)
(* provider's own error.                                                   *)
(***************************************************************************)
EXTENDS Naturals, FiniteSets

CONSTANTS Adapters,      \* of "openai", "groq", "anthropic", "gemini", "local"
          MaxWords       \* bounds the words of one message that matter

ASSUME CallsAssumption == MaxWords \in Nat

VARIABLES ask,           \* the request or test under way, or the last one
          noted,         \* user_ai_credentials.health_status of the key
          nagged         \* history: a failure that lasts was asked again

callsVars == <<ask, noted, nagged>>

Statuses == {400, 401, 402, 403, 404, 429, 500, 504}

Transport == {"ETIMEDOUT", "ECONNRESET", "ABORT_ERR"}

Codes == {"insufficient_quota", "model_not_found", "json_validate_failed"}

Words == {"authentication", "permission_denied", "quota", "billing", "model", "invalid_json", "aborted"}

(* What can come back: a text, or an error with or without a status.  The  *)
(* transport's error may have lost its code ("fetch failed").              *)
Texts200 == {"json", "fenced", "broken", "empty"}

Messages == {w \in SUBSET Words : Cardinality(w) <= MaxWords}

Failures ==
  [status : {0}, code : Transport \cup {"none"}, words : Messages]
    \cup [status : Statuses, code : Codes \cup {"none"}, words : Messages]

NoTrouble == [status |-> 0, code |-> "none", words |-> {}]

NotAsked(by) == [pc |-> "idle", by |-> by, use |-> "json", tries |-> 0,
                 got |-> NoTrouble, late |-> FALSE, said |-> "none"]

CallsTypeOK ==
  /\ ask \in [pc : {"idle", "asked", "failed", "ended"}, by : Adapters, use : {"json", "text", "test"},
              tries : 0..3, got : Failures, late : BOOLEAN,
              said : {"none", "ok", "retry", "give_up", "HEALTH_CHECK_TIMEOUT", "PROVIDER_TIMEOUT",
                      "NETWORK_FAILURE", "AUTH_FAILURE", "AI_MODEL_INVALID", "PROVIDER_ERROR", "refused",
                      "MODEL_REQUIRED", "INVALID_MODEL_FORMAT"}]
  /\ noted \in {"healthy", "invalid", "rate_limited", "quota_exceeded"}
  /\ nagged \in BOOLEAN

CallsInit ==
  /\ ask \in {NotAsked(by) : by \in Adapters}
  /\ noted = "healthy" /\ nagged = FALSE

-----------------------------------------------------------------------------
(* The adapters' errors: whether they may be tried again, and their words. *)

(* anthropicFetch and geminiGenerate keep only the status and the message. *)
SeenBy(by, f) ==
  IF by \in {"anthropic", "gemini"} /\ f.status # 0 THEN [f EXCEPT !.code = "none"] ELSE f

IsJsonFailure(f) ==
  f.status = 400 /\ ("invalid_json" \in f.words \/ f.code = "json_validate_failed")

Aborted(f) == f.code = "ABORT_ERR" \/ "aborted" \in f.words

IsQuota(f) == f.status = 429 /\ (f.code = "insufficient_quota" \/ "quota" \in f.words)

(* classifyProviderError *)
Repeatable(f) ==
  \/ Aborted(f) \/ f.code \in Transport \/ IsJsonFailure(f)
  \/ f.status \in {429, 500, 502, 503, 504} /\ ~IsQuota(f)

FaultyWordsOf(f) == f.words

WordsOf(f) ==
  f.words \cup (IF f.status \in {401, 403} /\ ~Aborted(f) THEN {"authentication"} ELSE {})

(* A text that cannot be read: parseJsonFromText throws an error to retry, *)
(* extractOpenAIResponse and generateText plain ones, which are not.       *)
Api(by, n) ==
  CASE by \notin {"openai", "groq"} -> "messages"
    [] by = "groq" /\ n > 1 -> "chat.completions"
    [] OTHER -> "responses"

Unread == {"broken", "empty"}

(* The adapters without an OpenAI client answer with a text only if it is  *)
(* JSON.                                                                   *)
Readable(by, use, text) ==
  IF use = "text" /\ by \in {"openai", "groq"} THEN text # "empty" ELSE text \notin Unread

(* buildStructuredJsonStrategies; everything else is asked once. *)
Attempts(by, use) == IF by \in {"openai", "groq"} /\ use = "json" THEN 3 ELSE 1

-----------------------------------------------------------------------------
(* The test of a key: classifyHealthCheckError looks at the raw error, and *)
(* calls every failure whose message names a model one of the model.       *)

TestSeenBy(by, f) ==
  IF by = "gemini" /\ f.status # 0 THEN [f EXCEPT !.code = "none"] ELSE f

Verdict(f) ==
  IF f.code \in Transport
  THEN CASE f.code = "ABORT_ERR" -> "HEALTH_CHECK_TIMEOUT"
         [] f.code = "ETIMEDOUT" -> "PROVIDER_TIMEOUT"
         [] f.code = "ECONNRESET" -> "NETWORK_FAILURE"
  ELSE IF f.status \in {401, 403} THEN "AUTH_FAILURE"
  ELSE IF f.status = 404 \/ "model" \in f.words \/ f.code = "model_not_found" THEN "AI_MODEL_INVALID"
  ELSE IF f.status = 504 THEN "PROVIDER_TIMEOUT" ELSE "PROVIDER_ERROR"

(* A local server's test knows no statuses: what is not 200 is not ok. *)
TestSays(by, f) ==
  IF by = "local" /\ f.status # 0 THEN "refused" ELSE Verdict(TestSeenBy(by, f))

-----------------------------------------------------------------------------
(* The gateway's belief: classifyExecutionFailure, whose status and code   *)
(* are those of the adapter's error, which has none.                       *)
Transition(words) ==
  IF words \cap {"authentication", "permission_denied"} # {} THEN "invalid"
  ELSE IF "billing" \in words THEN "quota_exceeded" ELSE "none"

-----------------------------------------------------------------------------

(* The name of the model: a provider must have one, a local server's test  *)
(* need not (normalizeModelInput).                                         *)
ModelCode(name) ==
  CASE name = "missing" /\ ask.by # "local" -> "MODEL_REQUIRED"
    [] name = "ill-formed" -> "INVALID_MODEL_FORMAT"
    [] OTHER -> "none"

(* The key is used while it is healthy, and tested at any time; execution  *)
(* on a local provider is refused before (validateExecutionRequest), as is *)
(* a model without a proper name.                                          *)
AskProvider(use, name) ==
  /\ ask.pc \in {"idle", "ended"}
  /\ use # "test" => noted = "healthy"
  /\ LET request == [NotAsked(ask.by) EXCEPT !.use = use]
         refused == use # "test" /\ ask.by = "local"
     IN  ask' = IF refused \/ ModelCode(name) # "none"
                THEN [request EXCEPT !.pc = "ended",
                                     !.said = IF use = "test" THEN ModelCode(name) ELSE "give_up"]
                ELSE [request EXCEPT !.pc = "asked", !.tries = 1]
  /\ UNCHANGED <<noted, nagged>>

(* A 200: the test has passed whatever it says, and clears every health. *)
TestPasses ==
  /\ ask.pc = "asked" /\ ask.use = "test"
  /\ ask' = [ask EXCEPT !.pc = "ended", !.said = "ok"]
  /\ noted' = "healthy"
  /\ UNCHANGED nagged

(* The adapter throws, or asks once more, with the next of its APIs. *)
Throw(f, retry) ==
  /\ IF retry /\ ask.tries < Attempts(ask.by, ask.use)
     THEN ask' = [ask EXCEPT !.tries = @ + 1]
     ELSE ask' = [ask EXCEPT !.pc = "failed", !.got = f, !.said = IF retry THEN "retry" ELSE "give_up"]
  /\ UNCHANGED noted

TextComes(text) ==
  /\ ask.pc = "asked" /\ ask.use # "test"
  /\ \/ /\ Readable(ask.by, ask.use, text)
        /\ ask' = [ask EXCEPT !.pc = "ended", !.said = "ok", !.got = NoTrouble]
        /\ UNCHANGED noted
     \/ /\ ~Readable(ask.by, ask.use, text)
        /\ Throw(NoTrouble, Api(ask.by, ask.tries) # "responses")
  /\ UNCHANGED nagged

(* A failure that will not pass by asking again: the key is refused or     *)
(* empty, the request or the model is wrong.                               *)
Lasts(f) ==
  /\ "aborted" \notin f.words
  /\ \/ f.status \in {401, 402, 403, 404}
     \/ f.status = 400 /\ "invalid_json" \notin f.words /\ f.code # "json_validate_failed"
     \/ f.status = 429 /\ "quota" \in f.words

FailureComes ==
  /\ ask.pc = "asked" /\ ask.use # "test"
  /\ \E f \in Failures :
       LET seen == SeenBy(ask.by, f)
       IN  /\ Throw(seen, Repeatable(seen))
           /\ nagged' = (nagged \/ (Lasts(f) /\ ask'.pc = "asked"))

TestFails ==
  /\ ask.pc = "asked" /\ ask.use = "test"
  /\ \E f \in Failures : ask' = [ask EXCEPT !.pc = "ended", !.got = f, !.said = TestSays(ask.by, f)]
  /\ UNCHANGED <<noted, nagged>>

(* The test's timer fired: whatever comes now is a timeout, be it the      *)
(* abort or an answer that was on its way.                                 *)
TestTimesOut ==
  /\ ask.pc = "asked" /\ ask.use = "test"
  /\ \E f \in Failures :
       ask' = [ask EXCEPT !.pc = "ended", !.got = f, !.late = TRUE,
                          !.said = IF ask.by = "local" /\ f.status # 0 THEN "refused"
                                   ELSE "HEALTH_CHECK_TIMEOUT"]
  /\ UNCHANGED <<noted, nagged>>

(* The gateway records what it believes of the key, and goes on. *)
Believe ==
  /\ ask.pc = "failed"
  /\ LET to == Transition(WordsOf(ask.got))
     IN  noted' = IF to = "none" THEN noted ELSE to
  /\ ask' = [ask EXCEPT !.pc = "ended"]
  /\ UNCHANGED nagged

CallsNext ==
  \/ TestPasses \/ FailureComes \/ TestFails \/ TestTimesOut \/ Believe
  \/ \E use \in {"json", "text", "test"}, name \in {"named", "missing", "ill-formed"} :
       AskProvider(use, name)
  \/ \E text \in Texts200 : TextComes(text)

CallsSpec == CallsInit /\ [][CallsNext]_callsVars

-----------------------------------------------------------------------------
KeyRefused(f) == f.status \in {401, 403} /\ "aborted" \notin f.words

(* A key that the provider refuses is taken out of use by whichever        *)
(* request met the refusal, though its status does not reach the gateway;  *)
(* a test of the key tells the same (openaiCompatibleCore.js:124,          *)
(* aiRetryPolicy.js:18, operationTimeout.js:66).                           *)
RefusalIsSeen ==
  ask.pc = "ended" /\ KeyRefused(ask.got) =>
    IF ask.use = "test" THEN ask.late \/ ask.said \in {"AUTH_FAILURE", "refused"}
    ELSE noted = "invalid" /\ ask.said = "give_up"

(* A key is not taken out of use for a trouble whose answer does not speak *)
(* of it, and no adapter asks again what cannot change (it is asked at     *)
(* most three times).                                                      *)
TroubleIsNotTheKeys ==
  ask.pc = "ended" /\ ask.use # "test" /\ noted # "healthy" =>
    KeyRefused(ask.got) \/ ask.got.words \cap {"authentication", "permission_denied", "billing"} # {}

VerdictsAgree == RefusalIsSeen /\ TroubleIsNotTheKeys /\ ~nagged
=============================================================================
