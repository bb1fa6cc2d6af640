------------------------------- MODULE EmailEdits -------------------------------
(***************************************************************************)
(* The mail of one application: a details sheet edits, saves and sends it, *)
(* another tab may save too, and the send worker mails the text it reads.  *)
(* The sheet learns of the application only by asking for its detail,      *)
(* which knows nothing of jobs: a mail under way can still be edited.      *)
(***************************************************************************)
EXTENDS Naturals, FiniteSets

CONSTANTS Letters,       \* texts of the mail
          NoLetter,      \* an empty subject or body
          MaxSendOrders      \* bounds the orders to send

ASSUME LettersAssumption == NoLetter \notin Letters /\ Letters # {} /\ MaxSendOrders \in Nat

VARIABLES letterRow,        \* the application: its status and the text of its mail
          letterJob,       \* its send job, with the text the worker has read
          redo,          \* its process job, which writes a text it has read back
          sheet,         \* the details sheet: detail, editor, request under way
          loose,         \* a save whose sheet does not wait for it any more
          due,           \* history: the texts that this order may mail
          own,           \* history: the same for the order the sheet prepares
          rewritten,       \* history: a text was written after the worker had read
          orders

editVars == <<letterRow, letterJob, redo, sheet, loose, due, own, rewritten, orders>>

RowStatuses == {"needs_review", "draft", "generated", "failed", "sent"}

Seen == [status : RowStatuses, text : Letters]

EditTypeOK ==
  /\ letterRow \in Seen
  /\ letterJob \in [pc : {"none", "queued", "read", "out"}, text : Letters]
  /\ redo \in [pc : {"none", "queued", "read"}, text : Letters]
  /\ sheet.detail \in Seen /\ sheet.draft \in Letters \cup {NoLetter} /\ sheet.what \in Letters \cup {NoLetter}
  /\ sheet.pc \in {"idle", "save", "saving", "send", "sending", "order", "continue", "retry"}
  /\ sheet.fetch \in {"none", "asked", "read"} /\ sheet.answer \in Seen
  /\ loose \in [pc : {"none", "asked", "checked"}, text : Letters]
  /\ due \cup own \subseteq Letters /\ rewritten \in BOOLEAN /\ orders \in 0..MaxSendOrders

FirstLetter == CHOOSE t \in Letters : TRUE

(* A generated application, or one that waits for a recipient, in a sheet  *)
(* that has loaded it.                                                     *)
EditInit ==
  /\ letterRow \in [status : {"generated", "needs_review"}, text : {FirstLetter}]
  /\ letterJob = [pc |-> "none", text |-> FirstLetter] /\ redo = letterJob /\ loose = letterJob
  /\ sheet = [detail |-> letterRow, draft |-> FirstLetter, pc |-> "idle", what |-> NoLetter,
              fetch |-> "none", answer |-> letterRow]
  /\ due = {} /\ own = {} /\ rewritten = FALSE /\ orders = 0

-----------------------------------------------------------------------------
(* The sheet *)

RefetchNow(s) == [s EXCEPT !.fetch = "asked", !.answer = s.detail]

(* The query of the detail: on opening, when it is stale, by hand. *)
AskDetail ==
  /\ sheet.fetch = "none"
  /\ sheet' = RefetchNow(sheet)
  /\ UNCHANGED <<letterRow, letterJob, redo, loose, due, own, rewritten, orders>>

(* serializeApplicationDetail of the row alone: canSend is that of an      *)
(* application without jobs.                                               *)
ReadForDetail ==
  /\ sheet.fetch = "asked"
  /\ sheet' = [sheet EXCEPT !.fetch = "read", !.answer = letterRow]
  /\ UNCHANGED <<letterRow, letterJob, redo, loose, due, own, rewritten, orders>>

(* Whatever is new in the detail puts the stored text into the editor,     *)
(* over what was typed meanwhile.                                          *)
DetailArrives ==
  /\ sheet.fetch = "read"
  /\ \E kept \in {sheet.answer.text} \cup (IF sheet.answer = sheet.detail THEN {sheet.draft} ELSE {}) :
       sheet' = [sheet EXCEPT !.fetch = "none", !.detail = sheet.answer, !.draft = kept]
  /\ UNCHANGED <<letterRow, letterJob, redo, loose, due, own, rewritten, orders>>

DetailFails ==
  /\ sheet.fetch = "asked"
  /\ sheet' = [sheet EXCEPT !.fetch = "none"]
  /\ UNCHANGED <<letterRow, letterJob, redo, loose, due, own, rewritten, orders>>

IsReadyEditable == sheet.detail.status = "generated" /\ sheet.pc = "idle"

TypeText(t) ==
  /\ IsReadyEditable
  /\ sheet' = [sheet EXCEPT !.draft = t]
  /\ UNCHANGED <<letterRow, letterJob, redo, loose, due, own, rewritten, orders>>

PressSave ==
  /\ IsReadyEditable
  /\ sheet' = [sheet EXCEPT !.pc = "save", !.what = sheet.draft]
  /\ UNCHANGED <<letterRow, letterJob, redo, loose, due, own, rewritten, orders>>

(* handleSend writes the editor's text first, then orders. *)
FaultyPressSend ==
  /\ IsReadyEditable
  /\ sheet' = [sheet EXCEPT !.pc = "order"]
  /\ own' = {sheet.draft} \ {NoLetter}
  /\ UNCHANGED <<letterRow, letterJob, redo, loose, due, rewritten, orders>>

PressSend ==
  /\ IsReadyEditable
  /\ sheet' = [sheet EXCEPT !.pc = "send", !.what = sheet.draft]
  /\ own' = {sheet.draft} \ {NoLetter}
  /\ UNCHANGED <<letterRow, letterJob, redo, loose, due, rewritten, orders>>

PressContinue ==
  /\ sheet.pc = "idle" /\ sheet.detail.status = "needs_review"
  /\ sheet' = [sheet EXCEPT !.pc = "continue"]
  /\ UNCHANGED <<letterRow, letterJob, redo, loose, due, own, rewritten, orders>>

PressRetry ==
  /\ sheet.pc = "idle" /\ sheet.detail.status = "failed"
  /\ sheet' = [sheet EXCEPT !.pc = "retry"]
  /\ UNCHANGED <<letterRow, letterJob, redo, loose, due, own, rewritten, orders>>

(* After a failed request nothing is asked for again. *)
Refuse ==
  /\ sheet' = [sheet EXCEPT !.pc = "idle", !.what = NoLetter]
  /\ own' = {}
  /\ UNCHANGED <<letterRow, letterJob, redo, loose, due, rewritten, orders>>

(* The client stops waiting for a save, which goes on on the server. *)
SaveCutOff ==
  /\ sheet.pc \in {"save", "saving", "send", "sending"} /\ sheet.what # NoLetter
  /\ loose.pc = "none"
  /\ loose' = [pc |-> IF sheet.pc \in {"save", "send"} THEN "asked" ELSE "checked", text |-> sheet.what]
  /\ sheet' = [sheet EXCEPT !.pc = "idle", !.what = NoLetter] /\ own' = {}
  /\ UNCHANGED <<letterRow, letterJob, redo, due, rewritten, orders>>

-----------------------------------------------------------------------------
(* The server: patchApplicationEmail looks at the status, and then writes  *)
(* whatever the status has become.                                         *)

CheckPatch ==
  /\ sheet.pc \in {"save", "send"}
  /\ IF sheet.what # NoLetter /\ letterRow.status = "generated"
     THEN /\ sheet' = [sheet EXCEPT !.pc = IF @ = "save" THEN "saving" ELSE "sending"]
          /\ UNCHANGED <<letterRow, letterJob, redo, loose, due, own, rewritten, orders>>
     ELSE Refuse

Ordering == sheet.pc \in {"send", "sending", "order"}

(* A text is written: it is due to whoever mails after this. *)
WriteText(t) ==
  /\ letterRow' = [letterRow EXCEPT !.text = t]
  /\ due' = IF letterJob.pc \in {"queued", "read"} THEN due \cup {t} ELSE due
  /\ own' = IF Ordering THEN own \cup {t} ELSE own
  /\ rewritten' = (rewritten \/ letterJob.pc \in {"read", "out"} \/ letterRow.status = "sent")

WritePatch ==
  /\ sheet.pc \in {"saving", "sending"}
  /\ WriteText(sheet.what)
  /\ sheet' = IF sheet.pc = "sending" THEN [sheet EXCEPT !.pc = "order", !.what = NoLetter]
              ELSE RefetchNow([sheet EXCEPT !.pc = "idle", !.what = NoLetter])
  /\ UNCHANGED <<letterJob, redo, loose, orders>>

(* Another tab saves. *)
OtherSaves(t) ==
  /\ loose.pc = "none"
  /\ loose' = [pc |-> "asked", text |-> t]
  /\ UNCHANGED <<letterRow, letterJob, redo, sheet, due, own, rewritten, orders>>

LooseChecked ==
  /\ loose.pc = "asked"
  /\ loose' = [loose EXCEPT !.pc = IF letterRow.status = "generated" THEN "checked" ELSE "none",
                            !.text = IF letterRow.status = "generated" THEN @ ELSE FirstLetter]
  /\ UNCHANGED <<letterRow, letterJob, redo, sheet, due, own, rewritten, orders>>

LooseWritten ==
  /\ loose.pc = "checked"
  /\ WriteText(loose.text)
  /\ loose' = [pc |-> "none", text |-> FirstLetter]
  /\ UNCHANGED <<letterJob, redo, sheet, orders>>

Queued(texts) ==
  /\ orders < MaxSendOrders
  /\ letterJob' = [pc |-> "queued", text |-> FirstLetter]
  /\ due' = texts /\ rewritten' = FALSE /\ orders' = orders + 1

(* The order of the sheet: a send under way is joined ("already in         *)
(* progress"), a sent application is fine, and in any case it says queued. *)
OrderArrives ==
  /\ sheet.pc = "order"
  /\ IF letterRow.status \in {"generated", "sent"}
     THEN /\ sheet' = RefetchNow([sheet EXCEPT !.pc = "idle"]) /\ own' = {}
          /\ IF letterRow.status = "generated" /\ letterJob.pc = "none" THEN Queued(own)
             ELSE UNCHANGED <<letterJob, due, rewritten, orders>>
          /\ UNCHANGED <<letterRow, redo, loose>>
     ELSE Refuse

(* The menu of the list sends what is stored. *)
ListSend ==
  /\ letterRow.status = "generated" /\ letterJob.pc = "none"
  /\ Queued({letterRow.text})
  /\ UNCHANGED <<letterRow, redo, sheet, loose, own>>

(* continueApplication, with the text that was generated *)
ContinueArrives ==
  /\ sheet.pc = "continue"
  /\ IF letterRow.status = "needs_review"
     THEN /\ letterRow' = [letterRow EXCEPT !.status = "generated"]
          /\ Queued({letterRow.text})
          /\ sheet' = RefetchNow([sheet EXCEPT !.pc = "idle"])
          /\ UNCHANGED <<redo, loose, own>>
     ELSE Refuse

(* retryApplication of a failed one: processed once more *)
RetryArrives ==
  /\ sheet.pc = "retry"
  /\ IF letterRow.status = "failed"
     THEN /\ letterRow' = [letterRow EXCEPT !.status = "draft"]
          /\ redo' = [pc |-> "queued", text |-> FirstLetter]
          /\ sheet' = RefetchNow([sheet EXCEPT !.pc = "idle"])
          /\ UNCHANGED <<letterJob, loose, due, own, rewritten, orders>>
     ELSE Refuse

-----------------------------------------------------------------------------
(* The workers.  The send worker reads the application when an attempt     *)
(* begins; a failed attempt is made again or fails the application.        *)

ReadLetter ==
  /\ letterJob.pc = "queued" /\ letterRow.status = "generated"
  /\ letterJob' = [pc |-> "read", text |-> letterRow.text]
  /\ rewritten' = FALSE
  /\ UNCHANGED <<letterRow, redo, sheet, loose, due, own, orders>>

LetterFails ==
  /\ letterJob.pc = "read"
  /\ \/ letterJob' = [pc |-> "queued", text |-> FirstLetter] /\ UNCHANGED letterRow
        /\ UNCHANGED due
     \/ /\ letterJob' = [pc |-> "none", text |-> FirstLetter] /\ due' = {}
        /\ letterRow' = [letterRow EXCEPT !.status = "failed"]
  /\ rewritten' = FALSE
  /\ UNCHANGED <<redo, sheet, loose, own, orders>>

LetterGoesOut ==
  /\ letterJob.pc = "read"
  /\ letterJob' = [letterJob EXCEPT !.pc = "out"] /\ due' = {}
  /\ UNCHANGED <<letterRow, redo, sheet, loose, own, rewritten, orders>>

MarkedSent ==
  /\ letterJob.pc = "out" /\ letterRow.status = "generated"
  /\ letterRow' = [letterRow EXCEPT !.status = "sent"]
  /\ UNCHANGED <<letterJob, redo, sheet, loose, due, own, rewritten, orders>>

(* The process worker keeps a text it finds, and writes it back with the   *)
(* rest of its results, if any; the send may follow.                        *)
ReadForProcess ==
  /\ redo.pc = "queued"
  /\ redo' = [pc |-> "read", text |-> letterRow.text]
  /\ UNCHANGED <<letterRow, letterJob, sheet, loose, due, own, rewritten, orders>>

(* A failed attempt that is repeated reads the application once more. *)
ProcessAgain ==
  /\ redo.pc = "read"
  /\ redo' = [pc |-> "queued", text |-> FirstLetter]
  /\ UNCHANGED <<letterRow, letterJob, sheet, loose, due, own, rewritten, orders>>

Processed(next, sendNow) ==
  /\ redo.pc = "read"
  /\ redo' = [pc |-> "none", text |-> FirstLetter]
  /\ letterRow' = [status |-> next, text |-> IF next = "failed" THEN letterRow.text ELSE redo.text]
  /\ own' = IF Ordering THEN own \cup {letterRow'.text} ELSE own
  /\ IF sendNow THEN next = "generated" /\ Queued({redo.text})
     ELSE UNCHANGED <<letterJob, due, rewritten, orders>>
  /\ UNCHANGED <<sheet, loose>>

EditNext ==
  \/ AskDetail \/ ReadForDetail \/ DetailArrives \/ DetailFails
  \/ PressSave \/ PressSend \/ PressContinue \/ PressRetry \/ SaveCutOff
  \/ CheckPatch \/ WritePatch \/ LooseChecked \/ LooseWritten
  \/ OrderArrives \/ ListSend \/ ContinueArrives \/ RetryArrives
  \/ ReadLetter \/ LetterFails \/ LetterGoesOut \/ MarkedSent
  \/ ReadForProcess \/ ProcessAgain
  \/ \E t \in Letters \cup {NoLetter} : TypeText(t)
  \/ \E t \in Letters : OtherSaves(t)
  \/ \E next \in {"generated", "needs_review", "failed"}, b \in BOOLEAN : Processed(next, b)

EditSpec == EditInit /\ [][EditNext]_editVars

-----------------------------------------------------------------------------
(* A mail has the text its order was given for: what the editor of the     *)
(* sheet held when Send was pressed, what was stored for an order from the *)
(* list, or a text saved after that (ApplicationDetailsSheet.tsx:95,       *)
(* sendApplication.worker.js:148).                                         *)
OrderedIsMailed == letterJob.pc = "read" => letterJob.text \in due

(* What a sent application shows is what was mailed, but for a save that   *)
(* came between the worker's reading and the end.                          *)
SentIsAsMailed == letterRow.status = "sent" /\ ~rewritten => letterRow.text = letterJob.text

MailedAsShown == OrderedIsMailed /\ SentIsAsMailed
=============================================================================
