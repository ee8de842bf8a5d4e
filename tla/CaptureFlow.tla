----------------------------- MODULE CaptureFlow -----------------------------
(***************************************************************************)
(* A capture from the hotkey to the shelf, and the revision of a card: the *)
(* session orchestrator (src-tauri/src/session/state.rs), the commands     *)
(* that drive it (ipc/commands.rs), the close handlers of the windows      *)
(* (lib.rs) and the two webviews that talk to them, the capture overlay    *)
(* (OverlayApp.svelte) and the main window with its editor (App.svelte,    *)
(* RevisionEditor.svelte).                                                 *)
(*                                                                         *)
(* The session commands are synchronous: each runs to its end on the main  *)
(* thread, so a session state is seen by others only when a command leaves *)
(* it behind.  What interleaves is the traffic.  A webview's calls arrive  *)
(* in the order it made them; events arrive in the order of emission; an   *)
(* answer and an event may overtake each other; window close requests and  *)
(* hotkeys come from the operating system and overtake every call.         *)
(*                                                                         *)
(* Abstractions: captures are numbered in the order they are taken, 0 is   *)
(* none; of the crop only its presence is kept; the selection the backend  *)
(* could hold is left out, no window ever reports one; the cards that can  *)
(* be edited are fixed, an editor lock keeps its card in the cache (see    *)
(* HeldEntriesSurvive of CaptureCache).                                    *)
(***************************************************************************)
EXTENDS SessionMachine, Naturals, Sequences, FiniteSets

CONSTANTS
  Cards,             \* shelf entries that can be opened in the editor
  NoCard,            \* no editor scene
  Argvs,             \* command lines of a second launch
  MaxCaptures,       \* bound: captures taken
  MaxPending,        \* bound: user calls under way per webview
  MaxFaults          \* bound: failures of the platform and of windows

ASSUME CardsAssumption == NoCard \notin Cards
ASSUME ArgvsAssumption == <<>> \notin Argvs
ASSUME BoundsAssumption ==
  MaxCaptures \in Nat /\ MaxPending \in Nat /\ MaxFaults \in Nat

VARIABLES
  session,           \* SessionInner.state
  lastCapture,       \* SessionInner.last_capture
  locks,             \* entries whose Editor lock is held
  overlayVisible,    \* the overlay window is on screen
  taken,             \* captures taken so far
  delivered,         \* history: captures a commit has delivered
  cancelled,         \* history: captures the user has cancelled
  faults,            \* failures so far
  mount,             \* overlay page: "loading", "subscribed"
  shown,             \* overlay page: the capture on its stage
  crop,              \* overlay page: a crop is drawn
  committing,        \* overlay page: a commit is under way
  overlayCalls,      \* calls of the overlay page, not handled yet
  overlayAnswers,    \* answers under way to the overlay page
  overlayEvents,     \* capture-ready events under way
  scene,             \* main page: the card in the editor
  mainCalls,         \* editor calls of the main and shelf pages
  mainAnswers,       \* answers under way to the main page
  mainEvents         \* revision-opened (a card) and -closed (NoCard) events

backVars    == <<session, lastCapture, locks, overlayVisible, taken, delivered,
                 cancelled>>
overlayVars == <<mount, shown, crop, committing>>
overlayWire == <<overlayCalls, overlayAnswers, overlayEvents>>
mainVars    == <<scene, mainCalls, mainAnswers, mainEvents>>
vars == <<backVars, faults, overlayVars, overlayWire, mainVars>>

Captures == 1..MaxCaptures
OverlayCall   == {"snapshot", "commit", "cancel"}
OverlayAnswer == [op : {"snapshot", "committed", "failed", "cancelled"},
                  capture : Captures \cup {0}]
\* `mine': the call was made by the editor that is on screen now.
MainCall   == [op : {"open", "open_shelf", "commit", "cancel"},
               card : Cards, mine : BOOLEAN]
MainAnswer == [op : {"opened", "closed", "failed"},
               card : Cards, mine : BOOLEAN]

TypeOK ==
  /\ session \in SessionState
  /\ lastCapture \in Captures \cup {0}
  /\ locks \subseteq Cards
  /\ overlayVisible \in BOOLEAN
  /\ taken \in 0..MaxCaptures
  /\ delivered \subseteq Captures /\ cancelled \subseteq Captures
  /\ faults \in Nat
  /\ mount \in {"loading", "subscribed"}
  /\ shown \in Captures \cup {0}
  /\ crop \in BOOLEAN /\ committing \in BOOLEAN
  /\ overlayCalls \in Seq(OverlayCall)
  /\ overlayAnswers \in Seq(OverlayAnswer)
  /\ overlayEvents \in Seq(Captures)
  /\ scene \in Cards \cup {NoCard}
  /\ mainCalls \subseteq MainCall /\ mainAnswers \subseteq MainAnswer
  /\ mainEvents \in Seq(Cards \cup {NoCard})

Init ==
  /\ session = "Idle" /\ lastCapture = 0 /\ locks = {}
  /\ overlayVisible = FALSE /\ taken = 0 /\ delivered = {} /\ cancelled = {}
  /\ faults = 0
  /\ mount = "loading" /\ shown = 0 /\ crop = FALSE /\ committing = FALSE
  /\ overlayCalls = <<>> /\ overlayAnswers = <<>> /\ overlayEvents = <<>>
  /\ scene = NoCard
  /\ mainCalls = {} /\ mainAnswers = {} /\ mainEvents = <<>>

\* A failure of the platform, of a window or of the disk.
Fault == faults < MaxFaults /\ faults' = faults + 1

-----------------------------------------------------------------------------
(* Taking a capture (capture_native).  A busy session refuses; only a      *)
(* session left in Ready is recovered.                                     *)

\* Seeded fault: a selection does not keep the session busy.
GrabsWhileSelecting ==
  session \in {"Idle", "Ready", "Selecting"} /\ taken < MaxCaptures

Grabs == (IsBusy(session) => session = "Ready") /\ taken < MaxCaptures

\* The session at the grab, and after it.
Grabbing == RequestCapture(IF session = "Ready" THEN Reset(session) ELSE session)
Grabbed  == CaptureComplete(Grabbing)

\* The platform cannot read the framebuffer: the command returns its error.
CaptureFails ==
  /\ Grabs /\ Fault
  /\ session' = Grabbing
  /\ lastCapture' = IF session = "Ready" THEN 0 ELSE lastCapture
  /\ UNCHANGED <<locks, overlayVisible, taken, delivered, cancelled,
                 overlayVars, overlayWire, mainVars>>

\* Seeded fault: an overlay that cannot be shown leaves the session Ready.
CaptureRegionStayingReady ==
  /\ Grabs
  /\ taken' = taken + 1 /\ lastCapture' = taken + 1
  /\ \/ /\ session' = "Selecting" /\ overlayVisible' = TRUE
        /\ overlayEvents' = IF mount = "loading" THEN overlayEvents
                            ELSE Append(overlayEvents, taken + 1)
        /\ UNCHANGED faults
     \/ Fault /\ session' = "Ready" /\ UNCHANGED <<overlayVisible, overlayEvents>>
  /\ UNCHANGED <<locks, delivered, cancelled, overlayVars, overlayCalls,
                 overlayAnswers, mainVars>>

\* A frozen region: the overlay is shown, then the capture is announced to
\* whoever listens by then.
CaptureRegion ==
  /\ Grabs
  /\ taken' = taken + 1 /\ lastCapture' = taken + 1
  /\ \/ /\ session' = OverlayMounted(Grabbed) /\ overlayVisible' = TRUE
        /\ overlayEvents' = IF mount = "loading" THEN overlayEvents
                            ELSE Append(overlayEvents, taken + 1)
        /\ UNCHANGED faults
     \/ /\ Fault                           \* the overlay cannot be shown
        /\ session' = CancelSession(Grabbed)
        /\ UNCHANGED <<overlayVisible, overlayEvents>>
  /\ UNCHANGED <<locks, delivered, cancelled, overlayVars, overlayCalls,
                 overlayAnswers, mainVars>>

\* The delivery of a commit: the retained capture, whatever the session.
Delivers == \/ delivered' = delivered \cup {lastCapture'} /\ UNCHANGED faults
            \/ Fault /\ UNCHANGED delivered

\* A full screen capture is committed at once.
CaptureFullScreen ==
  /\ Grabs
  /\ taken' = taken + 1 /\ lastCapture' = taken + 1
  /\ Delivers
  /\ session' = Finish(Grabbed) /\ overlayVisible' = FALSE
  /\ UNCHANGED <<locks, cancelled, overlayVars, overlayWire, mainVars>>

CaptureIntent == {"region", "full_screen"}
CaptureNative(intent) ==
  CaptureFails \/ IF intent = "region" THEN CaptureRegion ELSE CaptureFullScreen

\* A second launch hands its command line to the running program: the first
\* flag that is known decides.  The shelf, the settings and the main window
\* are only shown.
ClassifyFlag(token) ==
  CASE token \in {"--capture-region", "--capture_region", "--capture"} -> "region"
    [] token \in {"--capture-full-screen", "--capture_full_screen", "--full-screen",
                  "--fullscreen"} -> "full_screen"
    [] token \in {"--shelf-history", "--shelf_history", "--shelf"} -> "shelf"
    [] token \in {"--settings", "--open-settings", "--open_settings"} -> "settings"
    [] OTHER -> "unknown"

SecondaryLaunchIntent == CaptureIntent \cup {"shelf", "settings", "default"}
ParseLaunchIntent(argv) ==
  LET flags == SelectSeq(Tail(argv), LAMBDA token : ClassifyFlag(token) # "unknown")
  IN  IF flags = <<>> THEN "default" ELSE ClassifyFlag(Head(flags))

ForwardToExistingInstance(intent) ==
  IF intent \in CaptureIntent THEN CaptureNative(intent) ELSE UNCHANGED vars

\* The tray forwards the same intents: four entries of its menu, and the press
\* of the left button on its icon.  Its other entries show the recent captures,
\* pause the hotkeys (see Hotkeys) or end the program.
MenuItem == {"capture_region", "capture_full", "shelf_history", "recent_captures",
             "pause_hotkeys", "settings", "exit"}
MenuIntent(item) ==
  CASE item = "capture_region" -> "region"
    [] item = "capture_full"   -> "full_screen"
    [] item = "shelf_history"  -> "shelf"
    [] item = "settings"       -> "settings"
    [] OTHER                   -> "none"
OnMenuEvent(item) ==
  IF MenuIntent(item) \in SecondaryLaunchIntent
  THEN ForwardToExistingInstance(MenuIntent(item)) ELSE UNCHANGED vars

TrayClick == [button : {"left", "right", "middle"}, state : {"down", "up"}]
ShouldCaptureFromTrayClick(click) == click = [button |-> "left", state |-> "down"]
OnTrayIconEvent(click) ==
  ShouldCaptureFromTrayClick(click) /\ ForwardToExistingInstance("region")

-----------------------------------------------------------------------------
(* The overlay's calls.                                                    *)

\* The capture on screen is given up: the session was selecting in it.
GivenUp == IF session = "Selecting" THEN cancelled \cup {lastCapture}
                                    ELSE cancelled

Answers(op, c) ==
  overlayAnswers' = Append(overlayAnswers, [op |-> op, capture |-> c])

\* get_session_snapshot
HandleSnapshot ==
  /\ overlayCalls # <<>> /\ Head(overlayCalls) = "snapshot"
  /\ overlayCalls' = Tail(overlayCalls)
  /\ Answers("snapshot", lastCapture)
  /\ UNCHANGED <<backVars, faults, overlayVars, overlayEvents, mainVars>>

\* request_cancel: handle_escape, then the overlay goes.
HandleCancel ==
  /\ overlayCalls # <<>> /\ Head(overlayCalls) = "cancel"
  /\ overlayCalls' = Tail(overlayCalls)
  /\ session' = HandleEscape(session)
  /\ IF Escapes(session)
       THEN /\ overlayVisible' = FALSE
            /\ cancelled' = GivenUp
            /\ Answers("cancelled", 0)
       ELSE UNCHANGED <<overlayVisible, cancelled, overlayAnswers>>
  /\ UNCHANGED <<lastCapture, locks, taken, delivered, faults, overlayVars,
                 overlayEvents, mainVars>>

\* Seeded fault: a failed delivery returns before the session is finished.
HandleCommitKeepingSession ==
  /\ overlayCalls # <<>> /\ Head(overlayCalls) = "commit"
  /\ overlayCalls' = Tail(overlayCalls)
  /\ UNCHANGED lastCapture
  /\ \/ /\ lastCapture # 0 /\ delivered' = delivered \cup {lastCapture}
        /\ session' = IF session \in {"Ready", "Selecting"} THEN "Idle" ELSE session
        /\ Answers("committed", 0) /\ UNCHANGED faults
     \/ Fault /\ UNCHANGED <<session, delivered>> /\ Answers("failed", 0)
  /\ overlayVisible' = FALSE
  /\ UNCHANGED <<locks, taken, cancelled, overlayVars, overlayEvents, mainVars>>

\* commit_capture: deliver, finish the session if it can be, hide the overlay.
HandleCommit ==
  /\ overlayCalls # <<>> /\ Head(overlayCalls) = "commit"
  /\ overlayCalls' = Tail(overlayCalls)
  /\ UNCHANGED lastCapture
  /\ \/ /\ lastCapture # 0 /\ delivered' = delivered \cup {lastCapture}
        /\ Answers("committed", 0) /\ UNCHANGED faults
     \/ /\ IF lastCapture = 0 THEN UNCHANGED faults ELSE Fault
        /\ UNCHANGED delivered /\ Answers("failed", 0)
  /\ session' = Finish(session)
  /\ overlayVisible' = FALSE
  /\ UNCHANGED <<locks, taken, cancelled, overlayVars, overlayEvents, mainVars>>

\* Seeded fault: the closed overlay leaves its session behind.
CloseOverlayOnly ==
  /\ overlayVisible
  /\ overlayVisible' = FALSE
  /\ UNCHANGED <<session, lastCapture, locks, taken, delivered, cancelled,
                 faults, overlayVars, overlayWire, mainVars>>

\* The operating system closes the overlay window (handle_run_event).
CloseOverlay ==
  /\ overlayVisible
  /\ overlayVisible' = FALSE
  /\ session' = IF session = "Selecting" THEN CancelSession(session) ELSE session
  /\ cancelled' = GivenUp
  /\ UNCHANGED <<lastCapture, locks, taken, delivered, faults, overlayVars,
                 overlayWire, mainVars>>

-----------------------------------------------------------------------------
(* The overlay page.                                                       *)

\* Seeded fault: the snapshot is asked for, and only then listened.
SubscribeLate ==
  /\ mount = "loading"
  /\ IF "snapshot" \in {overlayCalls[i] : i \in DOMAIN overlayCalls}
       THEN mount' = "subscribed" /\ UNCHANGED overlayCalls
       ELSE UNCHANGED mount /\ overlayCalls' = Append(overlayCalls, "snapshot")
  /\ UNCHANGED <<backVars, faults, shown, crop, committing, overlayAnswers,
                 overlayEvents, mainVars>>

\* The listener is installed before the session snapshot is asked for.
Subscribe ==
  /\ mount = "loading"
  /\ mount' = "subscribed"
  /\ overlayCalls' = Append(overlayCalls, "snapshot")
  /\ UNCHANGED <<backVars, faults, shown, crop, committing, overlayAnswers,
                 overlayEvents, mainVars>>

\* loadCapture: a new capture takes the stage and starts without a crop.
Load(c) ==
  /\ shown' = c
  /\ crop' = IF c = shown THEN crop ELSE FALSE

TakeCaptureReady ==
  /\ overlayEvents # <<>>
  /\ Load(Head(overlayEvents))
  /\ overlayEvents' = Tail(overlayEvents)
  /\ UNCHANGED <<backVars, faults, mount, committing, overlayCalls,
                 overlayAnswers, mainVars>>

\* Seeded fault: the snapshot replaces whatever is on the stage.
TakeAnswerAlways ==
  /\ overlayAnswers # <<>>
  /\ overlayAnswers' = Tail(overlayAnswers)
  /\ LET a == Head(overlayAnswers)
     IN /\ IF a.op = "snapshot" THEN Load(a.capture)
             ELSE /\ UNCHANGED shown
                  /\ crop' = (crop /\ a.op = "failed")
        /\ committing' = (committing /\ a.op \notin {"committed", "failed"})
  /\ UNCHANGED <<backVars, faults, mount, overlayCalls, overlayEvents, mainVars>>

\* Seeded fault: only a successful commit takes back the busy flag.
TakeAnswerOnSuccess ==
  /\ overlayAnswers # <<>>
  /\ overlayAnswers' = Tail(overlayAnswers)
  /\ LET a == Head(overlayAnswers)
     IN /\ IF a.op = "snapshot"
             THEN IF shown = 0 THEN Load(a.capture) ELSE UNCHANGED <<shown, crop>>
             ELSE /\ UNCHANGED shown
                  /\ crop' = (crop /\ a.op = "failed")
        /\ committing' = (committing /\ a.op # "committed")
  /\ UNCHANGED <<backVars, faults, mount, overlayCalls, overlayEvents, mainVars>>

\* The snapshot is used only while no capture is on the stage; a failed
\* commit keeps the crop.
TakeAnswer ==
  /\ overlayAnswers # <<>>
  /\ overlayAnswers' = Tail(overlayAnswers)
  /\ LET a == Head(overlayAnswers)
     IN /\ IF a.op = "snapshot"
             THEN IF shown = 0 THEN Load(a.capture) ELSE UNCHANGED <<shown, crop>>
             ELSE /\ UNCHANGED shown
                  /\ crop' = (crop /\ a.op = "failed")
        /\ committing' = (committing /\ a.op \notin {"committed", "failed"})
  /\ UNCHANGED <<backVars, faults, mount, overlayCalls, overlayEvents, mainVars>>

\* The user acts on the stage, which is there once a capture is.
OnStage == overlayVisible /\ shown # 0

DrawCrop ==
  /\ OnStage /\ ~crop
  /\ crop' = TRUE
  /\ UNCHANGED <<backVars, faults, mount, shown, committing, overlayWire,
                 mainVars>>

\* onCommit ignores every further request until the first is answered.
Commit ==
  /\ OnStage /\ crop /\ ~committing
  /\ committing' = TRUE
  /\ overlayCalls' = Append(overlayCalls, "commit")
  /\ UNCHANGED <<backVars, faults, mount, shown, crop, overlayAnswers,
                 overlayEvents, mainVars>>

\* The first Escape drops the crop, the next one asks to cancel.
Escape ==
  /\ OnStage
  /\ \/ crop /\ crop' = FALSE /\ UNCHANGED overlayCalls
     \/ /\ ~crop /\ Len(overlayCalls) < MaxPending
        /\ overlayCalls' = Append(overlayCalls, "cancel")
        /\ UNCHANGED crop
  /\ UNCHANGED <<backVars, faults, mount, shown, committing, overlayAnswers,
                 overlayEvents, mainVars>>

-----------------------------------------------------------------------------
(* Revision: the editor calls.                                             *)

Call(op, c, mine)   == [op |-> op, card |-> c, mine |-> mine]

\* Call r is handled, with answer op.
Reply(r, op) ==
  /\ mainCalls' = mainCalls \ {r}
  /\ mainAnswers' = mainAnswers \cup {Call(op, r.card, r.mine)}

\* open_revision: the session first, then the lock, then the window.  The
\* shelf page only reports a failure; the main page also takes the answer.
HandleOpen(r) ==
  /\ r \in mainCalls /\ r.op \in {"open", "open_shelf"}
  /\ mainCalls' = mainCalls \ {r}
  /\ \/ /\ ~IsBusy(session) /\ r.card \notin locks
        /\ session' = RequestReopen(session) /\ locks' = locks \cup {r.card}
        /\ mainEvents' = Append(mainEvents, r.card)
        /\ mainAnswers' = IF r.op = "open"
                            THEN mainAnswers \cup {Call("opened", r.card, FALSE)}
                            ELSE mainAnswers
        /\ UNCHANGED faults
     \/ /\ IsBusy(session) \/ r.card \in locks
        /\ UNCHANGED <<session, locks, mainEvents, mainAnswers, faults>>
     \/ /\ ~IsBusy(session) /\ Fault       \* the window cannot be shown
        /\ UNCHANGED <<session, locks, mainEvents, mainAnswers>>
  /\ UNCHANGED <<lastCapture, overlayVisible, taken, delivered, cancelled,
                 overlayVars, overlayWire, scene>>

\* Seeded fault: a refused commit restores the editing session of a card
\* that nobody holds.
HandleRevisionCommitRestoring(r) ==
  /\ r \in mainCalls /\ r.op = "commit"
  /\ \/ /\ r.card \in locks /\ session = "Reopening"
        /\ session' = "Idle" /\ locks' = locks \ {r.card}
        /\ Reply(r, "closed")
        /\ UNCHANGED faults
     \/ /\ \/ (r.card \notin locks \/ session # "Reopening") /\ UNCHANGED faults
           \/ Fault
        /\ session' = IF session = "Idle" THEN "Reopening" ELSE session
        /\ UNCHANGED locks
        /\ Reply(r, "failed")
  /\ UNCHANGED <<lastCapture, overlayVisible, taken, delivered, cancelled,
                 overlayVars, overlayWire, scene, mainEvents>>

\* Seeded fault: a failure past the start of the commit ends the session.
HandleRevisionCommitUnrestored(r) ==
  /\ r \in mainCalls /\ r.op = "commit"
  /\ \/ /\ r.card \in locks /\ session = "Reopening"
        /\ session' = "Idle"
        /\ \/ /\ locks' = locks \ {r.card}
              /\ Reply(r, "closed") /\ UNCHANGED faults
           \/ Fault /\ Reply(r, "failed") /\ UNCHANGED locks
     \/ /\ r.card \notin locks \/ session # "Reopening"
        /\ session' = IF session = "Idle" /\ r.card \in locks
                        THEN "Reopening" ELSE session
        /\ UNCHANGED <<locks, faults>>
        /\ Reply(r, "failed")
  /\ UNCHANGED <<lastCapture, overlayVisible, taken, delivered, cancelled,
                 overlayVars, overlayWire, scene, mainEvents>>

\* commit_revision: refused without the lock or outside an editing session;
\* a failure, before or after the session has moved on, leaves the session
\* in Reopening for another try.
HandleRevisionCommit(r) ==
  /\ r \in mainCalls /\ r.op = "commit"
  /\ \/ /\ r.card \in locks /\ session = "Reopening"
        /\ session' = FinishRevision(RequestRevisionCommit(session))
        /\ locks' = locks \ {r.card}
        /\ Reply(r, "closed")
        /\ UNCHANGED faults
     \/ /\ \/ (r.card \notin locks \/ session # "Reopening") /\ UNCHANGED faults
           \/ Fault
        /\ session' = IF session = "Idle" /\ r.card \in locks
                        THEN "Reopening" ELSE session
        /\ UNCHANGED locks
        /\ Reply(r, "failed")
  /\ UNCHANGED <<lastCapture, overlayVisible, taken, delivered, cancelled,
                 overlayVars, overlayWire, scene, mainEvents>>

\* cancel_revision: with the lock, the session is cancelled whatever it is.
HandleRevisionCancel(r) ==
  /\ r \in mainCalls /\ r.op = "cancel"
  /\ IF r.card \in locks
       THEN /\ locks' = locks \ {r.card}
            /\ session' = CancelSession(session)
            /\ cancelled' = GivenUp
       ELSE UNCHANGED <<locks, session, cancelled>>
  /\ Reply(r, "closed")
  /\ UNCHANGED <<lastCapture, overlayVisible, taken, delivered, faults,
                 overlayVars, overlayWire, scene, mainEvents>>

\* The operating system closes the main window (handle_run_event).
CloseMain ==
  /\ session = "Reopening" /\ Len(mainEvents) < MaxPending
  /\ session' = CancelSession(session) /\ locks' = {}
  /\ mainEvents' = Append(mainEvents, NoCard)
  /\ UNCHANGED <<lastCapture, overlayVisible, taken, delivered, cancelled,
                 faults, overlayVars, overlayWire, scene, mainCalls,
                 mainAnswers>>

-----------------------------------------------------------------------------
(* The main page.                                                          *)

Busy == \E r \in mainCalls \cup mainAnswers : r.mine

\* The editor of another card is another component: what is under way for
\* the old one no longer keeps the page busy, but is still answered.
Disown(calls, c) ==
  IF c = scene THEN calls ELSE {[r EXCEPT !.mine = FALSE] : r \in calls}

Show(c, answers) ==
  /\ scene' = c
  /\ mainCalls' = Disown(mainCalls, c)
  /\ mainAnswers' = Disown(answers, c)

TakeMainEvent ==
  /\ mainEvents # <<>>
  /\ mainEvents' = Tail(mainEvents)
  /\ Show(Head(mainEvents), mainAnswers)
  /\ UNCHANGED <<backVars, faults, overlayVars, overlayWire>>

\* onEdit shows the opened scene; onClosed clears whatever scene is shown.
TakeMainAnswer(r) ==
  /\ r \in mainAnswers
  /\ Show(CASE r.op = "opened" -> r.card
            [] r.op = "closed" -> NoCard
            [] r.op = "failed" -> scene, mainAnswers \ {r})
  /\ UNCHANGED <<backVars, faults, overlayVars, overlayWire, mainEvents>>

Pending == Cardinality(mainCalls) + Cardinality(mainAnswers) + Len(mainEvents)

\* A card is opened from the main page's history or from the shelf window.
Edit(c, op) ==
  /\ Pending < MaxPending
  /\ op = "open" => scene = NoCard
  /\ mainCalls' = mainCalls \cup {Call(op, c, FALSE)}
  /\ UNCHANGED <<backVars, faults, overlayVars, overlayWire, scene,
                 mainAnswers, mainEvents>>

\* Done or Close in the editor, once per answer.
Leave(op) ==
  /\ scene # NoCard /\ ~Busy /\ Pending < MaxPending
  /\ mainCalls' = mainCalls \cup {Call(op, scene, TRUE)}
  /\ UNCHANGED <<backVars, faults, overlayVars, overlayWire, scene,
                 mainAnswers, mainEvents>>

-----------------------------------------------------------------------------
\* The hotkeys and the tray; a second launch.
Capture == \/ \E intent \in CaptureIntent : CaptureNative(intent)
           \/ \E argv \in Argvs : ForwardToExistingInstance(ParseLaunchIntent(argv))
           \/ \E item \in MenuItem : OnMenuEvent(item)
           \/ \E click \in TrayClick : OnTrayIconEvent(click)

OverlayHandlers == HandleSnapshot \/ HandleCancel \/ HandleCommit
OverlayPage     == Subscribe \/ TakeCaptureReady \/ TakeAnswer
OverlayUser     == DrawCrop \/ Commit \/ Escape \/ CloseOverlay

MainHandler(r) == \/ HandleOpen(r) \/ HandleRevisionCommit(r)
                  \/ HandleRevisionCancel(r)
MainHandlers   == \E r \in mainCalls : MainHandler(r)
MainPage       == TakeMainEvent \/ \E r \in mainAnswers : TakeMainAnswer(r)
MainUser == \/ \E c \in Cards : Edit(c, "open") \/ Edit(c, "open_shelf")
            \/ Leave("commit") \/ Leave("cancel") \/ CloseMain

Next == \/ Capture \/ OverlayHandlers \/ OverlayPage \/ OverlayUser
        \/ MainHandlers \/ MainPage \/ MainUser

Spec == Init /\ [][Next]_vars

\* Calls, events and answers are delivered in the end; the pages load.
Delivery ==
  /\ WF_vars(OverlayHandlers)
  /\ WF_vars(Subscribe) /\ WF_vars(TakeCaptureReady) /\ WF_vars(TakeAnswer)
  /\ WF_vars(TakeMainEvent)
  /\ \A r \in MainCall : WF_vars(MainHandler(r))
  /\ \A r \in MainAnswer : WF_vars(TakeMainAnswer(r))

FairSpec == Spec /\ Delivery

-----------------------------------------------------------------------------
(* Between two commands the session is at rest: no command leaves it on    *)
(* the way through Ready, Committing, Cleanup or RevisionCommitting.       *)
RestsBetweenCommands ==
  session \in {"Idle", "Capturing", "Selecting", "Reopening"}

(* While a selection is awaited the overlay is on screen: otherwise nobody *)
(* could finish the session, and every later capture would be refused.     *)
NoStrandedSelection ==
  session = "Selecting" => overlayVisible

(* Once its mail is read, the overlay shows the capture being selected: no *)
(* order of page load, snapshot answer and event leaves an older one.      *)
OverlayConverges ==
  /\ session = "Selecting" /\ mount = "subscribed"
  /\ overlayEvents = <<>> /\ overlayAnswers = <<>>
  /\ \A i \in DOMAIN overlayCalls : overlayCalls[i] # "snapshot"
  => shown = lastCapture

(* An editing session always has a card whose editor can end it.           *)
EditingHoldsACard ==
  session = "Reopening" => locks # {}

(* A revision commit is all or nothing: it ends the session and frees the  *)
(* card, or both stay for another try.                                     *)
RevisionCommitIsAtomic ==
  [][\A r \in mainCalls \ mainCalls' :
       session = "Reopening" /\ r.op = "commit" /\ r.card \in locks =>
         (session' = "Reopening") = (r.card \in locks')]_vars

(* The capture under selection is never exchanged for another one.         *)
SelectionIsNotReplaced ==
  [][session = "Selecting" /\ session' = "Selecting" =>
       lastCapture' = lastCapture]_vars

(* A capture to select in is shown by the overlay, if nobody ends it first. *)
SelectionIsShown ==
  \A c \in Captures :
    session = "Selecting" /\ lastCapture = c ~>
      shown = c \/ session # "Selecting"

(* The overlay's commit is always answered: its buttons come back.         *)
CommitsAreAnswered == committing ~> ~committing

(* Claim of README.md: the session returns to Idle on every exit path; it  *)
(* is busy only while a window is there to end it.                         *)
FailuresReturnToIdle == session # "Capturing"

(* Claim of state.rs (reset): a capture dismissed by Escape is not         *)
(* available to the commit pipeline.                                       *)
CancelledIsNotCommitted == delivered \cap cancelled = {}

(* Claim of ADR-0009: the session is the source of truth for whether an    *)
(* editor is open; once every message is read, an editing session has an   *)
(* editor on screen.                                                       *)
EditorIsOnScreen ==
  session = "Reopening" /\ mainCalls = {} /\ mainAnswers = {}
    /\ mainEvents = <<>> => scene # NoCard
=============================================================================
