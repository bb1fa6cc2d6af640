------------------------------- MODULE JdParsing -------------------------------
(***************************************************************************)
(* How a job description becomes an application's parsed description:      *)
(* parseJobDescription asks the model (up to three times), brings its      *)
(* answer into the contract, adds what the text itself shows, weighs all   *)
(* of it and accepts or rejects the description.  A text is the set of     *)
(* facts in it; the model reads some of them, the heuristics the others.   *)
(***************************************************************************)
EXTENDS Integers, FiniteSets

CONSTANTS Samples,  \* descriptions to begin with
          MaxMore   \* bound: facts added to one of them

ASSUME MaxMoreAssumption == MaxMore \in Nat

(* What only the model can find.                                           *)
ModelFacts == {"title", "alias", "listedRole", "manyRoles", "tooManyRoles",
               "skill", "moreSkills", "company", "email"}
(* What the heuristics see in the text, the taxonomy knows of the role, or *)
(* the resume shows.                                                       *)
TextFacts == {"sectionRole", "titleLine", "intent", "short", "buzzwords", "clusters",
              "foreign", "spam", "knownRole", "resumeMatch"}
Facts == ModelFacts \cup TextFacts

ASSUME SampleAssumption == Samples \subseteq SUBSET Facts

(* A fact that is only possible with another one.                          *)
Needs(f) == CASE f = "alias" -> {"title"}
              [] f = "moreSkills" -> {"skill"}
              [] f = "manyRoles" -> {"listedRole"}
              [] f \in {"tooManyRoles", "clusters"} -> {"manyRoles"}
              [] OTHER -> {}

VARIABLES sample,     \* what the writing of the description began with
          posting,     \* its facts
          parse,      \* where parseJobDescription is: its attempt, what it found
          failedParse \* the row of failed_parses for this description

parsingVars == <<sample, posting, parse, failedParse>>

Outcomes == {"success", "partial_success", "low_confidence", "ambiguous_multi_role",
             "spam_detected", "garbage_input"}
NotParsed == [pc |-> "written", attempt |-> 0, found |-> {}, outcome |-> "none"]

ParsingTypeOK ==
  /\ sample \in Samples /\ posting \in SUBSET Facts
  /\ parse \in [pc : {"written", "ask", "accepted", "rejected", "failed"}, attempt : 0..3,
                found : SUBSET Facts, outcome : Outcomes \cup {"none"}]
  /\ failedParse \in {"none", "explained", "bare"}

ParsingInit ==
  /\ sample \in Samples /\ posting = sample
  /\ parse = NotParsed /\ failedParse = "none"

-----------------------------------------------------------------------------
(* The heuristics, each of which finds its fact or does not: a role under  *)
(* a hiring header, a title in a labelled or the first line, a title among *)
(* the taxonomy's aliases, skills of the selected role in the ontology,    *)
(* words of hiring or of a scam.                                           *)
SectionRole(f) == "sectionRole" \in f
LineTitle(f) == "titleLine" \in f
IsAlias(f) == "alias" \in f
OntologySkills(f) == "knownRole" \in f
HasHiringIntent(f) == "intent" \in f \/ SectionRole(f)
DetectSpam(f) == "spam" \in f

(* enrichParsedJd.  allCanonical: the title, the model's roles and those   *)
(* of the hiring sections.                                                 *)
Roles(f) ==
  IF "tooManyRoles" \in f THEN 11
  ELSE IF "manyRoles" \in f THEN 6
  ELSE Cardinality(f \cap {"title", "listedRole", "sectionRole"})

(* selectBestRole: several roles, and the resume speaks for none of them. *)
IsAmbiguous(f) == Roles(f) > 1 /\ "resumeMatch" \notin f

HasTitle(f) == Roles(f) > 0 \/ LineTitle(f)
InfersSkills(f) == "skill" \notin f /\ HasTitle(f) /\ OntologySkills(f)
HasRoleOrSkills(f) == HasTitle(f) \/ "skill" \in f

(* Skills inferred from the selected role become the source of its title,  *)
(* whatever that was; a title from a labelled line counts for itself.      *)
TitleSource(f) ==
  IF InfersSkills(f) /\ Roles(f) > 0 THEN "inferred_from_skills"
  ELSE IF "title" \in f THEN IF IsAlias(f) THEN "alias" ELSE "explicit_llm"
  ELSE IF Roles(f) > 0 /\ "resumeMatch" \in f THEN "matched_resume_skills"
  ELSE "heuristic"

Points(condition, n) == IF condition THEN n ELSE 0

SkillPoints(f) ==
  Points("moreSkills" \in f, 15) + Points(f \cap {"skill", "moreSkills"} = {"skill"}, 8)

(* buildPenalties: the roles include a title found last. *)
Penalties(f) ==
  Points(Roles(f) > 10, 30) + Points(Roles(f) \in 6..10, 15) + Points("short" \in f, 20)
    + Points("buzzwords" \in f, 15) + Points(~HasHiringIntent(f), 25)
    + Points("clusters" \in f, 15) + Points("foreign" \in f /\ ~HasTitle(f), 10)

(* computeParseConfidence, in percent *)
Confidence(f) ==
  LET sum == Points("title" \in f, 35)
               + Points("title" \notin f /\ HasTitle(f), 28)
               + Points(SectionRole(f), 20)
               + Points(TitleSource(f) = "alias", 15) + SkillPoints(f)
               + Points(TitleSource(f) = "matched_resume_skills", 10) - Penalties(f)
  IN  IF sum < 0 THEN 0 ELSE sum

(* assignParseOutcome, and the success without company and address.  With  *)
(* neither role nor skills the confidence is below 35: unsupported_format  *)
(* is never reached.                                                       *)
ParseOutcome(f) ==
  IF DetectSpam(f) THEN "spam_detected"
  ELSE IF ~HasRoleOrSkills(f) THEN "garbage_input"
  ELSE IF IsAmbiguous(f) THEN "ambiguous_multi_role"
  ELSE IF Confidence(f) >= 75 /\ f \cap {"company", "email"} # {} THEN "success"
  ELSE IF Confidence(f) >= 50 THEN "partial_success"
  ELSE "low_confidence"

IsApplyEligible(f) == ParseOutcome(f) \notin {"spam_detected", "garbage_input"}

-----------------------------------------------------------------------------
(* A description with one more fact. *)
Mention(f) ==
  /\ parse.pc = "written"
  /\ f \notin posting /\ Needs(f) \subseteq posting /\ Cardinality(posting \ sample) < MaxMore
  /\ posting' = posting \cup {f}
  /\ UNCHANGED <<sample, parse, failedParse>>

StartParse ==
  /\ parse.pc = "written"
  /\ parse' = [parse EXCEPT !.pc = "ask", !.attempt = 1]
  /\ UNCHANGED <<sample, posting, failedParse>>

(* generateStructuredJson fails; only a retryable error gets another       *)
(* attempt, and neither leaves a row in failed_parses.                     *)
AskFails(retryable) ==
  /\ parse.pc = "ask"
  /\ parse' = IF retryable /\ parse.attempt < 3 THEN [parse EXCEPT !.attempt = @ + 1]
              ELSE [parse EXCEPT !.pc = "failed"]
  /\ UNCHANGED <<sample, posting, failedParse>>

(* normalizeProviderPayload: an answer that does not fit the contract      *)
(* becomes the empty contract, so that the retry for a schema mismatch     *)
(* never comes; the heuristics go on alone.                                *)
Normalized(fits) == IF fits THEN posting ELSE posting \ ModelFacts

(* persistJdParseFailure runs for the rejection, and again in the catch    *)
(* clause without the outcome; each may fail and is then ignored.          *)
Answer(fits, firstStored, secondStored) ==
  /\ parse.pc = "ask"
  /\ LET found == Normalized(fits)
         row == IF firstStored THEN "explained" ELSE failedParse
     IN  /\ parse' = [parse EXCEPT !.found = found, !.outcome = ParseOutcome(found),
                        !.pc = IF IsApplyEligible(found) THEN "accepted" ELSE "rejected"]
         /\ failedParse' = IF IsApplyEligible(found) THEN failedParse
                           ELSE IF secondStored THEN "bare" ELSE row
  /\ UNCHANGED <<sample, posting>>

ParsingNext ==
  \/ \E f \in Facts : Mention(f)
  \/ StartParse
  \/ \E b \in BOOLEAN : AskFails(b)
  \/ \E fits, first, second \in BOOLEAN : Answer(fits, first, second)

ParsingSpec == ParsingInit /\ [][ParsingNext]_parsingVars

-----------------------------------------------------------------------------
Rank(outcome) ==
  CASE outcome \in {"spam_detected", "garbage_input"} -> 0
    [] outcome \in {"low_confidence", "ambiguous_multi_role"} -> 1
    [] outcome = "partial_success" -> 2
    [] OTHER -> 3

(* The sources of title and skills displace each other, and points are     *)
(* given and taken in different functions.  Still no description fares     *)
(* worse for a skill, a company, an address, a word of hiring intent or a  *)
(* resume that matches: with one more of these facts its outcome is at     *)
(* least what it is.                                                       *)
NoFactHurts ==
  parse.pc \in {"accepted", "rejected"} =>
    \A f \in {"skill", "moreSkills", "company", "email", "intent", "resumeMatch"} :
      Needs(f) \subseteq parse.found =>
        Rank(ParseOutcome(parse.found \cup {f})) >= Rank(parse.outcome)
=============================================================================
