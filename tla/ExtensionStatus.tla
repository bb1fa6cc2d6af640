---------------------------- MODULE ExtensionStatus ----------------------------
(***************************************************************************)
(* What the browser extension knows of the account: the status (apply mode *)
(* and whether the setup is complete) in chrome.storage, fetched for the   *)
(* popup, for a LinkedIn page, after a connect, after a toggle and when    *)
(* the website says that the mode has changed.  Requests overlap, each     *)
(* writes the whole status, and nothing orders them.  Its session and the  *)
(* buttons in posts, the extension's other parts, are modules of their own.*)
(***************************************************************************)
EXTENDS ExtensionSession, LinkedInPosts

CONSTANTS Asks,           \* POPUP_STATUS requests at the same time
          MaxModeChanges  \* bound: changes of the mode

ASSUME MaxModeAssumption == MaxModeChanges \in Nat

VARIABLES signedIn,  \* an access token is stored
          atServer,   \* at the server: users.apply_mode, and the setup's completeness
          modeChanges,
          cachedStatus,     \* cachedPopupStatus
          asks,      \* the requests: for whom, and the answer
          patch,     \* SET_APPLY_MODE: where it is, its mode, and whether its popup is open
          popup,     \* open, what its toggle shows, a render to come
          metAnother    \* history: a change was not told, or met a request under way

statusVars == <<signedIn, atServer, modeChanges, cachedStatus, asks, patch, popup, metAnother>>

Modes == {"auto", "review"}
Status == [mode : Modes, ready : BOOLEAN]
NoCache == [mode |-> "none", ready |-> FALSE]
NoAsk == [pc |-> "idle", from |-> "sync", got |-> NoCache]
NoChange == [pc |-> "none", to |-> "review", heard |-> FALSE]
Opposite(mode) == IF mode = "auto" THEN "review" ELSE "auto"

StatusTypeOK ==
  /\ signedIn \in BOOLEAN /\ atServer \in Status /\ modeChanges \in 0..MaxModeChanges
  /\ cachedStatus \in Status \cup {NoCache}
  /\ asks \in [Asks -> [pc : {"idle", "asked", "answered"}, got : Status \cup {NoCache},
                        from : {"connect", "sync", "popup", "toggle", "page"}]]
  /\ patch \in [pc : {"none", "sent", "fetch"}, to : Modes, heard : BOOLEAN]
  /\ popup \in [open : BOOLEAN, shows : Modes, render : BOOLEAN]
  /\ metAnother \in BOOLEAN

StatusInit ==
  /\ signedIn = FALSE /\ atServer = [mode |-> "review", ready |-> FALSE] /\ modeChanges = 0
  /\ cachedStatus = NoCache /\ asks = [x \in Asks |-> NoAsk] /\ patch = NoChange
  /\ popup = [open |-> FALSE, shows |-> "review", render |-> FALSE]
  /\ metAnother = FALSE

UnderWay == {x \in Asks : asks[x].pc # "idle"}
Quiet == UnderWay = {} /\ patch.pc = "none"

Request(x, from) ==
  asks[x].pc = "idle" /\ asks' = [asks EXCEPT ![x] = [NoAsk EXCEPT !.pc = "asked", !.from = from]]

-----------------------------------------------------------------------------
(* The website *)

(* handleConnect: the session of an account, whose status is fetched.      *)
SignIn(x, of) ==
  /\ ~signedIn
  /\ of.mode = atServer.mode \/ modeChanges < MaxModeChanges
  /\ signedIn' = TRUE /\ atServer' = of
  /\ modeChanges' = IF of.mode = atServer.mode THEN modeChanges ELSE modeChanges + 1
  /\ Request(x, "connect")
  /\ popup' = [popup EXCEPT !.render = popup.open]
  /\ metAnother' = (metAnother \/ ~Quiet)
  /\ UNCHANGED <<cachedStatus, patch>>

(* handleDisconnect: token and cache go; requests under way do not.        *)
DisconnectExtension ==
  /\ signedIn
  /\ signedIn' = FALSE /\ cachedStatus' = NoCache
  /\ popup' = [popup EXCEPT !.render = popup.open]
  /\ metAnother' = (metAnother \/ ~Quiet)
  /\ UNCHANGED <<atServer, modeChanges, asks, patch>>

CompleteSetup ==
  /\ signedIn /\ ~atServer.ready
  /\ atServer' = [atServer EXCEPT !.ready = TRUE]
  /\ UNCHANGED <<signedIn, modeChanges, cachedStatus, asks, patch, popup, metAnother>>

(* useAutoApply: the mode is patched, then ONETAP_APPLY_MODE_SYNC makes    *)
(* the extension fetch the status; a popup that is open is not told.       *)
DashboardToggles(x) ==
  /\ signedIn /\ modeChanges < MaxModeChanges
  /\ atServer' = [atServer EXCEPT !.mode = Opposite(@)] /\ modeChanges' = modeChanges + 1
  /\ Request(x, "sync")
  /\ metAnother' = (metAnother \/ ~Quiet \/ popup.open)
  /\ UNCHANGED <<signedIn, cachedStatus, patch, popup>>

(* The same in another browser, or with its answer lost: nobody is told.   *)
ChangedElsewhere ==
  /\ signedIn /\ modeChanges < MaxModeChanges
  /\ atServer' = [atServer EXCEPT !.mode = Opposite(@)] /\ modeChanges' = modeChanges + 1
  /\ metAnother' = TRUE
  /\ UNCHANGED <<signedIn, cachedStatus, asks, patch, popup>>

-----------------------------------------------------------------------------
(* The service worker: fetchPopupStatus *)

ServerAnswers(x) ==
  /\ asks[x].pc = "asked" /\ signedIn
  /\ asks' = [asks EXCEPT ![x].pc = "answered", ![x].got = atServer]
  /\ UNCHANGED <<signedIn, atServer, modeChanges, cachedStatus, patch, popup, metAnother>>

(* A plausible bug: the toggle's own fetch does not write the cache. *)
FaultyStored(x) == IF asks[x].from = "toggle" THEN cachedStatus ELSE asks[x].got

(* setCachedPopupStatus: whatever has been stored meanwhile. *)
Stored(x) == asks[x].got

(* The answer is stored, and given to the one who asked: a popup shows its *)
(* mode, a toggle already does.                                            *)
StatusFetched(x) ==
  /\ asks[x].pc = "answered"
  /\ cachedStatus' = Stored(x)
  /\ asks' = [asks EXCEPT ![x] = NoAsk]
  /\ popup' = IF asks[x].from = "popup" /\ popup.open
              THEN [popup EXCEPT !.shows = asks[x].got.mode] ELSE popup
  /\ patch' = IF asks[x].from = "toggle" THEN NoChange ELSE patch
  /\ UNCHANGED <<signedIn, atServer, modeChanges, metAnother>>

(* The toggle goes back, though the mode may have been set. *)
TakeBack == IF patch.heard THEN [popup EXCEPT !.shows = Opposite(patch.to)] ELSE popup

(* The popup falls back on the cache. *)
StatusFails(x) ==
  /\ asks[x].pc = "asked"
  /\ asks' = [asks EXCEPT ![x] = NoAsk]
  /\ popup' = CASE asks[x].from = "toggle" -> TakeBack
                [] asks[x].from = "popup" /\ popup.open /\ cachedStatus # NoCache ->
                     [popup EXCEPT !.shows = cachedStatus.mode]
                [] OTHER -> popup
  /\ patch' = IF asks[x].from = "toggle" THEN NoChange ELSE patch
  /\ metAnother' = TRUE
  /\ UNCHANGED <<signedIn, atServer, modeChanges, cachedStatus>>

-----------------------------------------------------------------------------
(* The popup *)

(* render: the cached status at once, a fresh one when it comes. *)
Render(x) ==
  /\ popup' = [open |-> TRUE, render |-> FALSE,
               shows |-> IF signedIn /\ cachedStatus # NoCache THEN cachedStatus.mode
                         ELSE IF popup.open THEN popup.shows ELSE "review"]
  /\ IF signedIn THEN Request(x, "popup") ELSE UNCHANGED asks
  /\ UNCHANGED <<signedIn, atServer, modeChanges, cachedStatus, patch>>

(* Opened while nothing is under way, the popup starts anew.               *)
OpenPopup(x) ==
  /\ ~popup.open
  /\ Render(x)
  /\ metAnother' = (metAnother /\ ~(Quiet /\ signedIn))

HearToken(x) == popup.render /\ Render(x) /\ metAnother' = (metAnother \/ ~Quiet)

ClosePopup ==
  /\ popup.open
  /\ popup' = [popup EXCEPT !.open = FALSE, !.render = FALSE]
  /\ patch' = [patch EXCEPT !.heard = FALSE]
  /\ UNCHANGED <<signedIn, atServer, modeChanges, cachedStatus, asks, metAnother>>

(* A click on the toggle shows the new mode and sends it; one at a time.   *)
Toggle ==
  /\ popup.open /\ signedIn /\ patch.pc = "none" /\ modeChanges < MaxModeChanges
  /\ popup' = [popup EXCEPT !.shows = Opposite(@)]
  /\ patch' = [pc |-> "sent", to |-> Opposite(popup.shows), heard |-> TRUE]
  /\ modeChanges' = modeChanges + 1
  /\ metAnother' = (metAnother \/ ~Quiet)
  /\ UNCHANGED <<signedIn, atServer, cachedStatus, asks>>

(* patchApplyMode: the mode is set, then the status is fetched and stored. *)
PatchArrives(x) ==
  /\ patch.pc = "sent" /\ signedIn
  /\ atServer' = [atServer EXCEPT !.mode = patch.to]
  /\ Request(x, "toggle")
  /\ patch' = [patch EXCEPT !.pc = "fetch"]
  /\ metAnother' = (metAnother \/ UnderWay # {} \/ (popup.open /\ ~patch.heard))
  /\ UNCHANGED <<signedIn, modeChanges, cachedStatus, popup>>

(* The request, or the answer to it, is lost. *)
PatchFails(reached) ==
  /\ patch.pc = "sent"
  /\ atServer' = IF reached /\ signedIn THEN [atServer EXCEPT !.mode = patch.to] ELSE atServer
  /\ popup' = TakeBack
  /\ patch' = NoChange
  /\ metAnother' = (metAnother \/ reached)
  /\ UNCHANGED <<signedIn, modeChanges, cachedStatus, asks>>

-----------------------------------------------------------------------------
(* A LinkedIn page trusts a cache with a complete setup and asks otherwise *)
(* (getSetupStatus): when it starts, and at every change of the storage,   *)
(* its own answer's included, so that it asks until the setup is complete. *)
PageAsks(x) ==
  /\ signedIn /\ ~cachedStatus.ready
  /\ Request(x, "page")
  /\ UNCHANGED <<signedIn, atServer, modeChanges, cachedStatus, patch, popup, metAnother>>

StatusNext ==
  \/ DisconnectExtension \/ CompleteSetup \/ ChangedElsewhere \/ ClosePopup \/ Toggle
  \/ \E b \in BOOLEAN : PatchFails(b)
  \/ \E x \in Asks : \/ \E of \in Status : SignIn(x, of)
                     \/ DashboardToggles(x) \/ ServerAnswers(x) \/ StatusFetched(x)
                     \/ StatusFails(x) \/ OpenPopup(x) \/ HearToken(x) \/ PatchArrives(x)
                     \/ PageAsks(x)

StatusSpec == StatusInit /\ [][StatusNext]_statusVars

-----------------------------------------------------------------------------
(* Once every request has been answered, the cache holds the account's     *)
(* mode and the popup shows it, unless a change met a request under way,   *)
(* was made elsewhere, or could not be fetched: a toggle that goes back    *)
(* has changed nothing, and what the dashboard changed has arrived.        *)
ModeIsShown ==
  Quiet /\ signedIn /\ ~metAnother =>
    /\ cachedStatus # NoCache => cachedStatus.mode = atServer.mode
    /\ popup.open /\ ~popup.render => popup.shows = atServer.mode

(* What the extension shows of the account and of a post is so: the popup  *)
(* and the cache once requests are answered, a button once it has queued;  *)
(* and a session that has ended for it is not asked with again.            *)
ExtensionIsSound == [](ModeIsShown /\ QueuedIsShown) /\ SignedOutWhenEnded
=============================================================================
