---------------------------- MODULE Certification ----------------------------
(***************************************************************************)
(* The certification of an AI model by an administrator: the text of a     *)
(* resume is found, the model parses it and writes a mail, a judge gives   *)
(* the mail a score, twice over, and the scores of the attempts that       *)
(* succeeded, their share and what all of them cost make the overall score *)
(* the model is ranked, passed and recommended by.                         *)
(***************************************************************************)
EXTENDS Integers, Sequences, FiniteSets

CONSTANTS ParsedResumes,  \* what a parse may yield: sets of ResumeFacts
          JudgeScores,    \* scores of the judge
          StepCosts,      \* the price of one call, in thousandths of a dollar (0: unknown)
          AttemptCount,   \* CERTIFICATION_ATTEMPT_COUNT
          PassThreshold, RecommendThreshold

ResumeFacts == {"name", "nameFound", "email", "emailFound", "skills3", "skills5", "skillsFound",
                "phone", "location", "summary", "experience", "education", "projects"}

(* What the server has of a resume: a stored text, one that sanitizing     *)
(* leaves long enough, a stored file, a file with readable text, a parsed  *)
(* form long enough.                                                       *)
TextSources == {"raw", "rawUsable", "file", "fileReadable", "parsed"}

ASSUME CertificationAssumption ==
  /\ \A f \in ParsedResumes : f \subseteq ResumeFacts
  /\ JudgeScores \subseteq 0..100
  /\ StepCosts \subseteq Nat
  /\ AttemptCount \in Nat \ {0}
  /\ PassThreshold \in 0..100 /\ RecommendThreshold \in 0..100

VARIABLE bench    \* the run: how far it is, the attempts made, the one under way

Steps == {"resume_parse", "email_generation", "judge_scoring"}

CertTypeOK ==
  /\ bench.pc \in {"idle", "attempt", "saved", "refused"}
  /\ bench.runs \in Seq([success : BOOLEAN, resume : 0..100, email : 0..100, cost : Nat])
  /\ Len(bench.runs) <= AttemptCount
  /\ bench.step \in Steps /\ bench.resume \in 0..100 /\ bench.cost \in Nat

CertInit == bench = [pc |-> "idle", runs |-> <<>>, step |-> "resume_parse", resume |-> 0, cost |-> 0]

-----------------------------------------------------------------------------
(* Scores *)

Percent(some, whole) == (200 * some + whole) \div (2 * whole)    \* roundScore of a share

CountOf(f, facts) == Cardinality(f \cap facts)

RequiredScore(f) == Percent(CountOf({"name", "email", "skills3"}, f), 3)

CompletenessScore(f) ==
  10 * CountOf({"phone", "location", "summary", "projects"}, f) + 15 * CountOf({"skills5"}, f)
    + 25 * CountOf({"experience"}, f) + 20 * CountOf({"education"}, f)

GroundingScore(f) == 30 * CountOf({"nameFound", "emailFound"}, f) + 40 * CountOf({"skillsFound"}, f)

(* A parse that does not fit the schema has failed before it is scored. *)
ResumeScore(f) ==
  (20 * 100 + 25 * RequiredScore(f) + 30 * CompletenessScore(f) + 25 * GroundingScore(f) + 50)
    \div 100

AttemptScore(parse, mail) == (45 * parse + 55 * mail + 50) \div 100

(* numbers[1] + ... + numbers[n] *)
Total(numbers, n) ==
  LET sum[i \in 0..n] == IF i = 0 THEN 0 ELSE sum[i - 1] + numbers[i]
  IN  sum[n]

Successes(runs) == {i \in DOMAIN runs : runs[i].success}

ScoreOf(run) == IF run.success THEN AttemptScore(run.resume, run.email) ELSE 0

(* The average of the attempts that succeeded. *)
CertificationScore(runs) ==
  LET good == Cardinality(Successes(runs))
      earned == Total([i \in DOMAIN runs |-> ScoreOf(runs[i])], Len(runs))
  IN  IF good = 0 THEN 0 ELSE (2 * earned + good) \div (2 * good)

ReliabilityScore(runs) == Percent(Cardinality(Successes(runs)), AttemptCount)

TotalCost(runs) == Total([i \in DOMAIN runs |-> runs[i].cost], Len(runs))

(* Score over cost, of 30000 per dollar.  A cost of nothing counts as a    *)
(* millionth of a dollar.                                                  *)
NormalizedValue(runs) ==
  LET score == CertificationScore(runs)
      cost == TotalCost(runs)
      value == IF cost = 0 THEN 100 * score ELSE (20 * score + 3 * cost) \div (6 * cost)
  IN  IF value > 100 THEN 100 ELSE value

OverallScore(runs) ==
  (6 * CertificationScore(runs) + 2 * NormalizedValue(runs) + 2 * ReliabilityScore(runs) + 5) \div 10

ModelPasses(runs) == OverallScore(runs) >= PassThreshold

ModelRecommended(runs) == OverallScore(runs) >= RecommendThreshold

-----------------------------------------------------------------------------
(* The run *)

(* The stored text if it is long enough; else the file, whatever becomes   *)
(* of it; the parsed form only where there is neither.                     *)
TextFound(have) ==
  \/ {"raw", "rawUsable"} \subseteq have
  \/ {"file", "fileReadable"} \subseteq have
  \/ "file" \notin have /\ "parsed" \in have

(* The active resume, or an uploaded file. *)
StartRun(have, upload) ==
  /\ bench.pc = "idle"
  /\ bench' = [bench EXCEPT !.pc = IF IF upload THEN "fileReadable" \in have ELSE TextFound(have)
                                   THEN "attempt" ELSE "refused"]

EndAttempt(run) ==
  bench' = [bench EXCEPT !.runs = Append(@, run), !.step = "resume_parse", !.resume = 0, !.cost = 0,
                         !.pc = IF Len(bench.runs) + 1 = AttemptCount THEN "saved" ELSE "attempt"]

ParseResume(f, cost) ==
  /\ bench.pc = "attempt" /\ bench.step = "resume_parse"
  /\ bench' = [bench EXCEPT !.step = "email_generation", !.resume = ResumeScore(f), !.cost = cost]

GenerateEmail(cost) ==
  /\ bench.pc = "attempt" /\ bench.step = "email_generation"
  /\ bench' = [bench EXCEPT !.step = "judge_scoring", !.cost = @ + cost]

JudgeEmail(score, cost) ==
  /\ bench.pc = "attempt" /\ bench.step = "judge_scoring"
  /\ EndAttempt([success |-> TRUE, resume |-> bench.resume, email |-> score,
                 cost |-> bench.cost + cost])

(* Whatever fails, the attempt ends; what its earlier calls cost is kept.  *)
AttemptFails ==
  /\ bench.pc = "attempt"
  /\ EndAttempt([success |-> FALSE, resume |-> 0, email |-> 0, cost |-> bench.cost])

CertNext ==
  \/ \E have \in SUBSET TextSources, upload \in BOOLEAN : StartRun(have, upload)
  \/ \E f \in ParsedResumes, cost \in StepCosts : ParseResume(f, cost)
  \/ \E cost \in StepCosts : GenerateEmail(cost)
  \/ \E score \in JudgeScores, cost \in StepCosts : JudgeEmail(score, cost)
  \/ AttemptFails

CertSpec == CertInit /\ [][CertNext]_bench

-----------------------------------------------------------------------------
(* Properties *)

(* The overall score says of a finished run what an administrator reads    *)
(* from it: a model that failed an attempt is recommended only for a       *)
(* flawless other one, one that never succeeded is not passed, a better    *)
(* judgement of a mail never lowers it and a known higher cost never       *)
(* raises it (certificationScoring.js).                                    *)
RatingIsFair ==
  bench.pc = "saved" =>
    LET runs == bench.runs
    IN  /\ ModelRecommended(runs) =>
             \/ \A i \in DOMAIN runs : runs[i].success
             \/ CertificationScore(runs) = 100
        /\ ModelPasses(runs) => \E i \in DOMAIN runs : runs[i].success
        /\ \A i \in DOMAIN runs :
             /\ runs[i].success => \A s \in JudgeScores :
                  s >= runs[i].email =>
                    OverallScore([runs EXCEPT ![i].email = s]) >= OverallScore(runs)
             /\ \A c \in StepCosts :
                  OverallScore([runs EXCEPT ![i].cost = @ + c]) <= OverallScore(runs)
=============================================================================
