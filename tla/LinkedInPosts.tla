----------------------------- MODULE LinkedInPosts -----------------------------
(***************************************************************************)
(* The extension on a LinkedIn page: it looks for hiring posts whenever    *)
(* the page changes, puts a button into each, and a click on it queues an  *)
(* application.  Scans overlap, a click waits for the service worker, the  *)
(* extension may be updated and LinkedIn draws a post again at any time.   *)
(* A post is a set of facts.                                               *)
(***************************************************************************)
EXTENDS Naturals, FiniteSets

CONSTANTS Posts,    \* the posts that come by
          Buttons,  \* a post's buttons
          MaxTaps   \* bound: applications queued by one button

(* An address, all of them blocked ones, words of hiring and of applying,  *)
(* a text below 40 or above 2500 characters, a row of social buttons, or   *)
(* a single one.                                                           *)
PostFacts == {"email", "blocked", "hiring", "applying", "short", "long", "row", "control"}

ASSUME PostAssumption ==
  Posts \subseteq SUBSET PostFacts /\ Posts # {} /\ MaxTaps \in Nat

VARIABLES connected,    \* token and status in the storage
          content,      \* the content script: valid, initialized, observing, its banner
          post,         \* the post in view
          inserting,    \* scans that found no button in it and asked for the apply mode
          button        \* the buttons of the post

postVars == <<connected, content, post, inserting, button>>

NoButton == [look |-> "none", timer |-> FALSE, queued |-> 0, lost |-> FALSE]

PostTypeOK ==
  /\ connected \in [token : BOOLEAN, ready : BOOLEAN]
  /\ content \in [valid : BOOLEAN, initialized : BOOLEAN, observing : BOOLEAN,
                  check : {"due", "setup", "done"}, banner : {"none", "connect", "setup"}]
  /\ post \in Posts /\ inserting \in 0..2
  /\ button \in [Buttons -> [look : {"none", "idle", "loading", "error", "added"},
                             timer : BOOLEAN, queued : 0..MaxTaps, lost : BOOLEAN]]

PostInit ==
  /\ connected = [token |-> FALSE, ready |-> FALSE]
  /\ content = [valid |-> TRUE, initialized |-> FALSE, observing |-> FALSE, check |-> "due",
                banner |-> "none"]
  /\ post = CHOOSE p \in Posts : TRUE
  /\ inserting = 0 /\ button = [b \in Buttons |-> NoButton]

-----------------------------------------------------------------------------
(* What makes a post one to apply to *)

Weight(p, f, n) == IF f \in p THEN n ELSE 0

(* scorePost with DEFAULT_DETECTION_CONFIG *)
ScorePost(p) == Weight(p, "email", 50) + Weight(p, "hiring", 30) + Weight(p, "applying", 20)

(* collectPostRoots begins with a text that holds an address, of whatever  *)
(* kind, and takes the block around it.                                    *)
IsPostRoot(p) == p \cap {"email", "blocked"} # {} /\ "long" \notin p

(* findActionContainer: the innermost row of at least two social controls. *)
HasRow(p) == "row" \in p

(* findActionBarInfo: such a row, or that of a single control, which       *)
(* insertIntoFallbackBar needs as well.                                    *)
HasPlace(p) == HasRow(p) \/ "control" \in p

IsOffered(p) ==
  IsPostRoot(p) /\ "short" \notin p /\ ScorePost(p) >= 70 /\ HasPlace(p)

-----------------------------------------------------------------------------
(* The storage, changed by the service worker; the page hears of it.       *)
StorageChanges(to) ==
  /\ to # connected
  /\ connected' = to
  /\ content' = IF ~content.valid THEN content
                ELSE [content EXCEPT !.check = "due",
                        !.initialized = @ /\ to.token = connected.token]
  /\ UNCHANGED <<post, inserting, button>>

(* refreshLinkedInBanner: the connection is looked at first, the setup may *)
(* have to be fetched.                                                     *)
CheckConnection ==
  /\ content.valid /\ content.check = "due"
  /\ content' = IF connected.token THEN [content EXCEPT !.check = "setup"]
                ELSE [content EXCEPT !.check = "done", !.banner = "connect"]
  /\ UNCHANGED <<connected, post, inserting, button>>

(* With a complete setup, init goes on to the first scan and observes the  *)
(* page from then on, also when the user signs out later.                  *)
CheckSetup ==
  /\ content.valid /\ content.check = "setup"
  /\ content' = IF connected.ready
                THEN [content EXCEPT !.check = "done", !.banner = "none", !.initialized = TRUE,
                        !.observing = TRUE]
                ELSE [content EXCEPT !.check = "done", !.banner = "setup"]
  /\ UNCHANGED <<connected, post, inserting, button>>

(* shutdownContentScript: the extension was updated or removed; the page   *)
(* keeps its buttons, no request gets through.                             *)
Invalidate ==
  /\ content.valid
  /\ content' = [content EXCEPT !.valid = FALSE, !.initialized = FALSE, !.observing = FALSE]
  /\ inserting' = 0
  /\ UNCHANGED <<connected, post, button>>

(* LinkedIn draws a post: what was in its place is gone. *)
DrawPost(p) ==
  /\ post' = p
  /\ inserting' = 0 /\ button' = [b \in Buttons |-> NoButton]
  /\ UNCHANGED <<connected, content>>

(* scanFeed, injectButton: a post with a button is left alone.             *)
Scan ==
  /\ content.observing /\ IsOffered(post) /\ inserting < 2
  /\ \A b \in Buttons : button[b].look = "none"
  /\ inserting' = inserting + 1
  /\ UNCHANGED <<connected, content, post, button>>

(* After the wait for the apply mode nobody looks for a button again.      *)
Insert(b) ==
  /\ inserting > 0 /\ button[b].look = "none"
  /\ inserting' = inserting - 1
  /\ button' = [button EXCEPT ![b] = [NoButton EXCEPT !.look = "idle"]]
  /\ UNCHANGED <<connected, content, post>>

(* wireButton: busy from the click to a failure. *)
Click(b) ==
  /\ content.valid /\ button[b].look \in {"idle", "error"}
  /\ button' = [button EXCEPT ![b].look = "loading"]
  /\ UNCHANGED <<connected, content, post, inserting>>

(* AUTO_APPLY reaches the server. *)
Queue(b) ==
  /\ content.valid /\ connected.token
  /\ button[b].look = "loading" /\ button[b].queued < MaxTaps
  /\ button' = [button EXCEPT ![b].look = "added", ![b].queued = @ + 1]
  /\ UNCHANGED <<connected, content, post, inserting>>

(* The request fails, or its answer is lost (the service worker is stopped *)
(* before it comes); the error goes away by itself.                        *)
TapFails(b, reached) ==
  /\ button[b].look = "loading"
  /\ reached => content.valid /\ connected.token /\ button[b].queued < MaxTaps
  /\ button' = [button EXCEPT ![b].look = "error", ![b].timer = TRUE,
                  ![b].queued = IF reached THEN @ + 1 ELSE @, ![b].lost = @ \/ reached]
  /\ UNCHANGED <<connected, content, post, inserting>>

(* updateButtonIdleState *)
IdleState(look) == IF look = "error" THEN "idle" ELSE look

(* 2.5 seconds after an error: the button may be loading again by then.    *)
ErrorGoes(b) ==
  /\ button[b].timer
  /\ button' = [button EXCEPT ![b].timer = FALSE, ![b].look = IdleState(@)]
  /\ UNCHANGED <<connected, content, post, inserting>>

PostNext ==
  \/ CheckConnection \/ CheckSetup \/ Invalidate \/ Scan
  \/ \E to \in {[token |-> FALSE, ready |-> FALSE], [token |-> TRUE, ready |-> FALSE],
                [token |-> TRUE, ready |-> TRUE]} : StorageChanges(to)
  \/ \E p \in Posts : DrawPost(p)
  \/ \E b \in Buttons : \/ Insert(b) \/ Click(b) \/ Queue(b) \/ ErrorGoes(b)
                        \/ \E reached \in BOOLEAN : TapFails(b, reached)

PostSpec == PostInit /\ [][PostNext]_postVars

-----------------------------------------------------------------------------
(* While its post stays, a button that has queued an application says so   *)
(* and queues no other: an earlier error's timer, a second scan, a sign-out*)
(* or the apply mode's hints do not make it ready again.  Only an answer   *)
(* that was lost leaves it with an error.                                  *)
QueuedIsShown ==
  \A b \in Buttons :
    button[b].queued > 0 /\ ~button[b].lost => button[b].look = "added" /\ button[b].queued = 1
=============================================================================
