--------------------------- MODULE ApplyComposer ---------------------------
(***************************************************************************)
(* The page on which the user applies: a pasted job description, the       *)
(* e-mail written for it after a delay, the style of that e-mail (saved    *)
(* after a shorter delay), and the submission, by hand or, in automatic    *)
(* mode, by an effect.                                                     *)
(***************************************************************************)
EXTENDS Naturals

CONSTANTS Texts, Styles,
          MaxPastes,      \* bound: changes of the text
          MaxPreviews,    \* bound: requests for a preview
          MaxChoices,     \* bound: choices of a style
          MaxTroubles     \* bound: mode and set-up changes, failed requests

VARIABLES jdText, autoMode,
          canApply,         \* a parsed resume and the rest of the set-up are there
          previewDue,       \* the 800 ms timer
          previewAsked,     \* preview requests on their way
          previewNo,        \* previewRequestRef
          previewJd, email, \* the preview: for which text, and what is in its fields
          generating,
          autoSubmitted,    \* autoSubmitJdRef
          submission,       \* the request to apply
          shownStyle, pendingStyle, lastSent, styleDue, stylePatch,
          storedStyle,      \* the server's
          chosen,           \* history: the style the user chose last
          missed,           \* history: a choice came due while another was being saved
          touched,          \* history: the user acted since the last submission
          usedUp            \* how much of each bound is used

previewVars == <<previewDue, previewAsked, previewNo, previewJd, email, generating>>
styleVars == <<shownStyle, pendingStyle, lastSent, styleDue, stylePatch, storedStyle, chosen, missed>>
composerVars == <<jdText, autoMode, canApply, previewVars, autoSubmitted, submission, styleVars, touched, usedUp>>

NoText == "no text"
NoEmail == [for |-> NoText, style |-> "none"]
NoStyle == "nothing"

ASSUME ComposerAssumption ==
  /\ {MaxPastes, MaxPreviews, MaxChoices, MaxTroubles} \subseteq Nat
  /\ NoText \notin Texts /\ NoStyle \notin Styles

NoSubmission == [jd |-> NoText, email |-> NoEmail]

ComposerTypeOK ==
  /\ jdText \in Texts \cup {NoText} /\ previewJd \in Texts \cup {NoText}
  /\ autoSubmitted \in Texts \cup {NoText, "null"}
  /\ {autoMode, canApply, previewDue, generating, styleDue, missed, touched} \subseteq BOOLEAN
  /\ previewNo \in 0..MaxPreviews
  /\ previewAsked \subseteq [no : 1..MaxPreviews, jd : Texts, style : Styles \cup {NoStyle}]
  /\ email.for \in Texts \cup {NoText}
  /\ submission.jd \in Texts \cup {NoText}
  /\ {shownStyle, storedStyle, lastSent, chosen} \subseteq Styles
  /\ pendingStyle \in Styles \cup {NoStyle}
  /\ stylePatch.style \in Styles \cup {NoStyle} /\ stylePatch.applied \in BOOLEAN

NoPatch == [style |-> NoStyle, applied |-> FALSE]

ComposerInit ==
  /\ jdText = NoText /\ autoMode \in BOOLEAN /\ canApply = TRUE
  /\ previewDue = FALSE /\ previewAsked = {} /\ previewNo = 0
  /\ previewJd = NoText /\ email = NoEmail /\ generating = FALSE
  /\ autoSubmitted = "null" /\ submission = NoSubmission
  /\ \E s \in Styles : /\ shownStyle = s /\ lastSent = s /\ storedStyle = s /\ chosen = s
  /\ pendingStyle = NoStyle /\ styleDue = FALSE /\ stylePatch = NoPatch
  /\ missed = FALSE /\ touched = TRUE
  /\ usedUp = [pastes |-> 0, choices |-> 0, troubles |-> 0]

sending == submission # NoSubmission
busy == generating \/ sending
hasPreview == previewJd # NoText
previewStale == jdText # NoText /\ jdText # previewJd

Trouble ==
  /\ usedUp.troubles < MaxTroubles
  /\ usedUp' = [usedUp EXCEPT !.troubles = @ + 1]

-----------------------------------------------------------------------------
(* The effect that runs when the text, the set-up or the style changed: an *)
(* empty text resets the preview but leaves the request on its way current; *)
(* any other one starts the timer again.                                   *)
PreviewEffect(text, ready) ==
  /\ IF text = NoText
     THEN /\ previewJd' = NoText /\ email' = NoEmail /\ generating' = FALSE
          /\ autoSubmitted' = "null"
     ELSE UNCHANGED <<previewJd, email, generating, autoSubmitted>>
  /\ previewDue' = (ready /\ text # NoText)
  /\ UNCHANGED <<previewAsked, previewNo>>

Paste(t) ==
  /\ ~busy /\ t # jdText /\ usedUp.pastes < MaxPastes
  /\ usedUp' = [usedUp EXCEPT !.pastes = @ + 1]
  /\ jdText' = t /\ touched' = TRUE
  /\ PreviewEffect(t, canApply)
  /\ UNCHANGED <<autoMode, canApply, submission, styleVars>>

SetupChanges ==
  /\ Trouble
  /\ canApply' = ~canApply
  /\ PreviewEffect(jdText, ~canApply)
  /\ UNCHANGED <<jdText, autoMode, submission, styleVars, touched>>

SwitchMode ==
  /\ Trouble
  /\ autoMode' = ~autoMode /\ autoSubmitted' = "null" /\ touched' = TRUE
  /\ UNCHANGED <<jdText, canApply, previewVars, submission, styleVars>>

-----------------------------------------------------------------------------
(* The preview.  Its request is made with the text of the moment; the      *)
(* server reads the style it has stored.                                   *)

AskPreview ==
  /\ previewDue /\ previewNo < MaxPreviews
  /\ previewDue' = FALSE /\ generating' = TRUE
  /\ previewNo' = previewNo + 1
  /\ previewAsked' = previewAsked \cup {[no |-> previewNo + 1, jd |-> jdText, style |-> NoStyle]}
  /\ UNCHANGED <<jdText, autoMode, canApply, previewJd, email, autoSubmitted, submission, styleVars, touched, usedUp>>

WriteEmail(r) ==
  /\ r \in previewAsked /\ r.style = NoStyle
  /\ previewAsked' = (previewAsked \ {r}) \cup {[r EXCEPT !.style = storedStyle]}
  /\ UNCHANGED <<jdText, autoMode, canApply, previewDue, previewNo, previewJd, email, generating,
                 autoSubmitted, submission, styleVars, touched, usedUp>>

Current(r) == r.no = previewNo

(* Faulty variant: the answer is taken for the text that is there now. *)
FaultyPreviewedText(r) == jdText

PreviewedText(r) == r.jd

PreviewAnswer(r) ==
  /\ r \in previewAsked /\ r.style # NoStyle
  /\ previewAsked' = previewAsked \ {r}
  /\ IF Current(r)
     THEN /\ email' = [for |-> r.jd, style |-> r.style]
          /\ previewJd' = PreviewedText(r)
          /\ generating' = FALSE
     ELSE UNCHANGED <<email, previewJd, generating>>
  /\ UNCHANGED <<jdText, autoMode, canApply, previewDue, previewNo, autoSubmitted, submission, styleVars, touched, usedUp>>

PreviewFails(r) ==
  /\ r \in previewAsked /\ Trouble
  /\ previewAsked' = previewAsked \ {r}
  /\ generating' = (generating /\ ~Current(r))
  /\ UNCHANGED <<jdText, autoMode, canApply, previewDue, previewNo, previewJd, email,
                 autoSubmitted, submission, styleVars, touched>>

-----------------------------------------------------------------------------
(* The submission *)

MaySubmit == canApply /\ ~busy /\ hasPreview /\ ~previewStale

Submit ==
  /\ ~autoMode /\ MaySubmit /\ jdText # NoText
  /\ submission' = [jd |-> jdText, email |-> email]
  /\ touched' = FALSE
  /\ UNCHANGED <<jdText, autoMode, canApply, previewVars, autoSubmitted, styleVars, usedUp>>

Untried(t) == autoSubmitted # t

(* A preview that came after the text was cleared is submitted without     *)
(* one, which shows an error and nothing more.                             *)
AutoSubmit ==
  /\ autoMode /\ MaySubmit /\ Untried(jdText)
  /\ autoSubmitted' = jdText
  /\ IF jdText = NoText THEN UNCHANGED <<submission, touched>>
     ELSE submission' = [jd |-> jdText, email |-> email] /\ touched' = FALSE
  /\ UNCHANGED <<jdText, autoMode, canApply, previewVars, styleVars, usedUp>>

Submitted ==
  /\ sending
  /\ submission' = NoSubmission
  /\ jdText' = NoText
  /\ PreviewEffect(NoText, canApply)
  /\ UNCHANGED <<autoMode, canApply, styleVars, touched, usedUp>>

SubmissionFails ==
  /\ sending /\ Trouble
  /\ submission' = NoSubmission
  /\ UNCHANGED <<jdText, autoMode, canApply, previewVars, autoSubmitted, styleVars, touched>>

-----------------------------------------------------------------------------
(* The style: shown at once, saved 400 ms later, one request at a time.    *)

Shows(s) ==
  /\ shownStyle' = s
  /\ IF s # shownStyle THEN PreviewEffect(jdText, canApply) ELSE UNCHANGED <<previewVars, autoSubmitted>>

ChooseStyle(s) ==
  /\ ~autoMode /\ hasPreview /\ ~busy /\ s # shownStyle
  /\ usedUp.choices < MaxChoices
  /\ usedUp' = [usedUp EXCEPT !.choices = @ + 1]
  /\ Shows(s) /\ chosen' = s
  /\ pendingStyle' = s /\ styleDue' = TRUE
  /\ UNCHANGED <<jdText, autoMode, canApply, submission, lastSent, stylePatch, storedStyle, missed, touched>>

(* flushPatch: not while another is being saved, and nothing that was      *)
(* saved last.                                                             *)
FlushStyle ==
  /\ styleDue
  /\ styleDue' = FALSE
  /\ missed' = (missed \/ (stylePatch # NoPatch /\ pendingStyle # stylePatch.style))
  /\ stylePatch' = IF pendingStyle # lastSent /\ stylePatch = NoPatch
                   THEN [style |-> pendingStyle, applied |-> FALSE] ELSE stylePatch
  /\ UNCHANGED <<jdText, autoMode, canApply, previewVars, autoSubmitted, submission, shownStyle,
                 pendingStyle, lastSent, storedStyle, chosen, touched, usedUp>>

StoreStyle ==
  /\ stylePatch # NoPatch /\ ~stylePatch.applied
  /\ storedStyle' = stylePatch.style
  /\ stylePatch' = [stylePatch EXCEPT !.applied = TRUE]
  /\ UNCHANGED <<jdText, autoMode, canApply, previewVars, autoSubmitted, submission, shownStyle,
                 pendingStyle, lastSent, styleDue, chosen, missed, touched, usedUp>>

(* The answer replaces what is shown.  The flush on settlement finds the   *)
(* request still counted as pending and does nothing.                      *)
StyleStored ==
  /\ stylePatch.applied
  /\ Shows(stylePatch.style)
  /\ lastSent' = stylePatch.style /\ stylePatch' = NoPatch
  /\ UNCHANGED <<jdText, autoMode, canApply, submission, pendingStyle, styleDue, storedStyle, chosen,
                 missed, touched, usedUp>>

(* The choice stays on the screen; nothing sends it again. *)
StylePatchFails ==
  /\ stylePatch # NoPatch /\ Trouble
  /\ stylePatch' = NoPatch /\ missed' = TRUE
  /\ UNCHANGED <<jdText, autoMode, canApply, previewVars, autoSubmitted, submission, shownStyle,
                 pendingStyle, lastSent, styleDue, storedStyle, chosen, touched>>

ComposerNext ==
  \/ \E t \in Texts \cup {NoText} : Paste(t)
  \/ SwitchMode \/ SetupChanges
  \/ AskPreview
  \/ \E r \in previewAsked : WriteEmail(r) \/ PreviewAnswer(r) \/ PreviewFails(r)
  \/ Submit \/ AutoSubmit \/ Submitted \/ SubmissionFails
  \/ \E s \in Styles : ChooseStyle(s)
  \/ FlushStyle \/ StoreStyle \/ StyleStored \/ StylePatchFails

ComposerSpec == ComposerInit /\ [][ComposerNext]_composerVars

-----------------------------------------------------------------------------
(***************************************************************************)
(* What goes out with a description was written for that description,      *)
(* though previews are answered late, after the text was cleared and       *)
(* replaced, and several are on their way.                                 *)
(***************************************************************************)
EmailIsForItsText == sending => submission.email.for = submission.jd

(***************************************************************************)
(* The page never applies again by itself: an automatic submission follows *)
(* something the user did after the last one, however often previews are   *)
(* renewed and submissions fail.                                           *)
(***************************************************************************)
NoUnaskedRepeat == [][autoMode /\ ~sending /\ sending' => touched]_composerVars

(***************************************************************************)
(* Once nothing is on its way, the style the server uses and the one the   *)
(* page shows are the one chosen last - unless a save failed, or the       *)
(* choice came due while an earlier one was being saved, which drops it.   *)
(***************************************************************************)
ChosenStyleIsStored ==
  ~styleDue /\ stylePatch = NoPatch /\ ~missed => storedStyle = chosen /\ shownStyle = chosen

(***************************************************************************)
(* The composer: mail and text belong together, the chosen style is kept,  *)
(* and no failed request is repeated unasked (useApplyWorkspace).          *)
(***************************************************************************)
ComposerIsSound == [](EmailIsForItsText /\ ChosenStyleIsStored) /\ NoUnaskedRepeat
=============================================================================
