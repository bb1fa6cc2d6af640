------------------------------ MODULE EmailDrafts ------------------------------
(***************************************************************************)
(* How an application's email is written: generateApplicationEmail has the *)
(* model write a draft, scores it, has it rewritten once if the scores ask *)
(* for it, with a critique that says what is wrong, and keeps one of the   *)
(* two.  A draft is the set of traits in which it differs from a good one  *)
(* that names role and company at once; scores are computed as the code    *)
(* computes them, in hundredths where it does not round.                   *)
(***************************************************************************)
EXTENDS JdParsing

CONSTANTS Drafts,    \* drafts to begin with
          MaxTraits  \* bound: traits beyond those of one of them

ASSUME MaxTraitsAssumption == MaxTraits \in Nat

(* The opening: a job without title, role or company not in the preview,   *)
(* one or two weak openers, a greeting alone in the first paragraph, too   *)
(* many words before the second.                                           *)
OpeningTraits == {"noRole", "roleLate", "companyLate", "weakOpener", "secondWeakOpener",
                  "greetingLine", "hook", "longOpening"}
(* Sentences and paragraphs. *)
ShapeTraits == {"longSentences", "longAverage", "noShortSentence", "uniform",
                "oneParagraph", "fatParagraph", "wordy", "evenParagraphs"}
(* Phrases and marks that make a text look generated, and what else is     *)
(* wrong: no greeting, sign-off or name, or a tool nobody spoke of.        *)
PhraseTraits == {"banned", "templated", "semicolons", "contrasts", "robotic", "buzzwords",
                 "sameStarters", "repeats", "shouting", "adjectives", "stack",
                 "broken", "invented"}
Traits == OpeningTraits \cup ShapeTraits \cup PhraseTraits

ASSUME DraftAssumption == Drafts \subseteq SUBSET Traits

Requires(t) == CASE t = "secondWeakOpener" -> {"weakOpener"}
                 [] t = "templated" -> {"banned"}
                 [] t = "contrasts" -> {"semicolons"}
                 [] t = "buzzwords" -> {"robotic"}
                 [] t = "greetingLine" -> {"companyLate"}
                 [] t = "oneParagraph" -> {"longOpening"}
                 [] OTHER -> {}

(* The traits a text can have together. *)
Consistent(d) ==
  /\ \A t \in d : Requires(t) \subseteq d
  /\ ~({"noRole", "roleLate"} \subseteq d) /\ ~({"greetingLine", "longOpening"} \subseteq d)
  /\ "greetingLine" \in d => d \cap {"noRole", "roleLate"} # {}
  /\ ~({"oneParagraph", "evenParagraphs"} \subseteq d)

VARIABLES firstDraft, \* what the writing began with
          draft,      \* the traits of the draft at hand
          writing,    \* where generateApplicationEmail is
          reasons     \* what the critique of the rewrite names

draftVars == <<firstDraft, draft, writing, reasons>>

-----------------------------------------------------------------------------
Clamped(n) == IF n < 0 THEN 0 ELSE IF n > 100 THEN 100 ELSE n
Rounded(hundredths) == Clamped((hundredths + 50) \div 100)
If(condition, n) == IF condition THEN n ELSE 0

(* scoreOpeningStrength *)
OpeningStrength(d) ==
  Clamped(70 - 22 * Cardinality(d \cap {"weakOpener", "secondWeakOpener"})
            + (IF "noRole" \in d THEN 0 ELSE IF "roleLate" \in d THEN -15 ELSE 12)
            + If("companyLate" \notin d, 10) + If("hook" \in d, 8)
            - If("longOpening" \in d, 10)
            - If("greetingLine" \in d /\ "noRole" \notin d, 8))

(* scoreRecruiterReadability *)
NamesRole(d) == d \cap {"noRole", "roleLate"} = {}
MobilePreview(d) ==
  70 + (IF NamesRole(d) THEN 15 ELSE -20) + If("companyLate" \notin d, 10)
     - If("greetingLine" \in d, 15)
SentenceFriction(d) ==
  75 - If("longSentences" \in d, 20) - If("longAverage" \in d, 12)
     - If("noShortSentence" \in d, 8)
CognitiveEase(d) == 80 - If("fatParagraph" \in d, 25) - If("oneParagraph" \in d, 30)
ParagraphFlow(d) == 75 + If("oneParagraph" \notin d, 10)
                       + If("oneParagraph" \notin d /\ "evenParagraphs" \notin d, 8)
InformationDensity(d) ==
  100 - (IF "greetingLine" \in d THEN 15 ELSE If("noRole" \in d, 30)) - If("wordy" \in d, 15)
ScanSpeed(d) ==
  Rounded((OpeningStrength(d) + MobilePreview(d)) * 50 + If(NamesRole(d), 1000))

(* Dense paragraphs raise the sum: what is added is 100 minus the ease.    *)
Readability(d) ==
  Rounded(25 * OpeningStrength(d) + 20 * MobilePreview(d) + 15 * SentenceFriction(d)
            + 15 * InformationDensity(d) + 15 * ScanSpeed(d)
            + 5 * (100 - CognitiveEase(d)) + 5 * ParagraphFlow(d))

(* The signals of validateGeneratedEmail that the traits stand for; dashes *)
(* and most markup are gone when it looks (sanitizeEmailOutput).           *)
Banned(d) == IF "templated" \in d THEN 100 ELSE If("banned" \in d, 54)
Punctuation(d) == IF "contrasts" \in d THEN 81 ELSE If("semicolons" \in d, 36)
Robotic(d) == IF "buzzwords" \in d THEN 98 ELSE If("robotic" \in d, 42)
Generic(d) == Clamped(25 * Cardinality(d \cap {"weakOpener", "secondWeakOpener"})
                        + If("roleLate" \in d, 10) + If("companyLate" \in d, 8))

Cadence(d) == If("sameStarters" \in d, 15)
Repetition(d) == If("repeats" \in d, 60)
Enthusiasm(d) == If("shouting" \in d, 100)
Adjectives(d) == If("adjectives" \in d, 30)
StackDumping(d) == If("stack" \in d, 48)

CompositeRisk(d) ==
  Rounded(18 * Banned(d) + 20 * Punctuation(d) + 8 * Cadence(d) + 8 * Repetition(d)
            + 10 * Enthusiasm(d) + 10 * Robotic(d) + 6 * Adjectives(d) + 12 * Generic(d)
            + 8 * StackDumping(d))

(* scoreEmailRealism *)
AiDetectability(d) ==
  Rounded(35 * Punctuation(d) + 20 * Banned(d) + 10 * Cadence(d)
            + 20 * Robotic(d) + 15 * Adjectives(d) + If("uniform" \in d, 1200))

BrokenStructure(d) == d \cap {"broken", "oneParagraph"}
Hallucinations(d) == d \cap {"invented"}
SevereGenericity(d) ==
  {"weakOpener", "secondWeakOpener", "companyLate"} \subseteq d /\ ~NamesRole(d)
HardFailures(d) ==
  BrokenStructure(d) \cup Hallucinations(d)
    \cup {f \in {"severeGenericity"} : SevereGenericity(d)}

(* recruiterCompositeScore, in hundredths *)
RecruiterComposite(d) ==
  45 * Readability(d) + 35 * OpeningStrength(d) + 20 * (100 - AiDetectability(d))

(* A plausible bug: the opening's minimum was raised here alone. *)
FaultyOpeningMin == 60

(* RETRY_THRESHOLDS.openingStrengthMin *)
OpeningMin == 45

(* shouldTriggerRetry: an invented tool alone is no reason to rewrite. *)
ShouldTriggerRetry(d) ==
  \/ HardFailures(d) \ Hallucinations(d) # {}
  \/ CompositeRisk(d) >= 70 \/ AiDetectability(d) >= 75
  \/ Readability(d) < 50 \/ OpeningStrength(d) < OpeningMin

(* synthesizeEmailCritique.  Its line on dense paragraphs appears when the *)
(* ease is above 50, so for nearly every draft: it says nothing of this    *)
(* one and is left out.                                                    *)
Critique(d) ==
  HardFailures(d)
    \cup {r \in {"opening"} : "weakOpener" \in d \/ OpeningStrength(d) < 50}
    \cup {r \in {"phrases"} : Banned(d) >= 40}
    \cup {r \in {"punctuation"} : Punctuation(d) >= 30}
    \cup {r \in {"tools"} : StackDumping(d) >= 35}
    \cup {r \in {"starters"} : "sameStarters" \in d}
    \cup {r \in {"tone"} : AiDetectability(d) >= 70}
    \cup {r \in {"corporate"} : Robotic(d) >= 30}

-----------------------------------------------------------------------------
Reasons == {"broken", "invented", "oneParagraph", "severeGenericity", "opening", "phrases",
            "punctuation", "tools", "starters", "tone", "corporate"}

DraftTypeOK ==
  /\ firstDraft \in Drafts /\ draft \in SUBSET Traits
  /\ writing \in {"model", "drafted", "rewriting", "rewritten", "kept", "failed"}
  /\ reasons \in SUBSET Reasons

DraftInit ==
  /\ firstDraft \in Drafts /\ draft = firstDraft
  /\ writing = "model" /\ reasons = {}

(* The model's draft has one more trait. *)
Show(t) ==
  /\ writing = "model"
  /\ t \notin draft /\ Consistent(draft \cup {t})
  /\ Cardinality(draft \ firstDraft) < MaxTraits
  /\ draft' = draft \cup {t}
  /\ UNCHANGED <<firstDraft, writing, reasons>>

(* callEmailLlm returns a draft that fits the schema, or throws. *)
ModelDrafts ==
  /\ writing = "model" /\ writing' = "drafted"
  /\ UNCHANGED <<firstDraft, draft, reasons>>

(* The first call, or the one for the rewrite: the draft it was to improve *)
(* is lost with it.                                                        *)
DraftingFails ==
  /\ writing \in {"model", "rewriting"} /\ writing' = "failed"
  /\ UNCHANGED <<firstDraft, draft, reasons>>

KeepDraft ==
  /\ writing = "drafted" /\ ~ShouldTriggerRetry(draft)
  /\ writing' = "kept"
  /\ UNCHANGED <<firstDraft, draft, reasons>>

AskRewrite ==
  /\ writing = "drafted" /\ ShouldTriggerRetry(draft)
  /\ writing' = "rewriting" /\ reasons' = Critique(draft)
  /\ UNCHANGED <<firstDraft, draft>>

(* The rewrite differs in at most one trait; it is kept if the composite   *)
(* is not lower or the risk is, and is not looked at again.                *)
Rewrite(t) ==
  /\ writing = "rewriting"
  /\ LET other == IF t \in draft THEN draft \ {t} ELSE draft \cup {t}
         Better == RecruiterComposite(other) >= RecruiterComposite(draft)
                     \/ CompositeRisk(other) < CompositeRisk(draft)
     IN  Consistent(other) /\ draft' = IF Better THEN other ELSE draft
  /\ writing' = "rewritten"
  /\ UNCHANGED <<firstDraft, reasons>>

DraftNext ==
  \/ \E t \in Traits : Show(t) \/ Rewrite(t)
  \/ ModelDrafts \/ DraftingFails \/ KeepDraft \/ AskRewrite

DraftSpec == DraftInit /\ [][DraftNext]_draftVars

-----------------------------------------------------------------------------
(* A greeting alone in the first paragraph hides role and company from the *)
(* preview; words that count as a hook lift its opening all the same.      *)
HookedGreeting(d) == {"greetingLine", "hook"} \subseteq d

(* The scores that ask for a rewrite and those the critique speaks of have *)
(* thresholds of their own in files of their own; still a rewrite is for   *)
(* something the critique can name, and not for the text                   *)
(* "Email is acceptable" - but where the readability alone is too low, of  *)
(* which the critique has no line, and that takes a greeting with a hook.  *)
RewriteHasReason ==
  writing = "rewriting" /\ reasons = {} => Readability(draft) < 50 /\ HookedGreeting(draft)

(* No fact that speaks for a description or a resume lowers its score, and *)
(* no mail is rewritten without a reason.                                  *)
JudgementsAreFair == NoFactHurts /\ RewriteHasReason
=============================================================================
