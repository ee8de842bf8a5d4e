-------------------------- MODULE CaptureFlowProofs --------------------------
(***************************************************************************)
(* What holds of CaptureFlow for every set of cards and every bound: the   *)
(* safety invariants of the session, which together are inductive, that a  *)
(* selection keeps its capture, that a revision is committed by its own    *)
(* handler only, and that the overlay's page ends up showing the capture   *)
(* that is retained.                                                       *)
(***************************************************************************)
EXTENDS CaptureFlow, SequenceTheorems, TLAPS

(* The selection is in a capture that was taken: without it a cancelled    *)
(* selection could cancel capture 0, which is none.                        *)
SelectionHasCapture == session = "Selecting" => lastCapture # 0

FlowInv == /\ TypeOK /\ RestsBetweenCommands /\ NoStrandedSelection
           /\ EditingHoldsACard /\ SelectionHasCapture

-----------------------------------------------------------------------------
(* Facts about the mail of the pages.                                      *)

\* Taking the mark away from calls or answers keeps their types.
LEMMA DisownTypes ==
  ASSUME NEW c, NEW calls, NEW Ops,
         calls \subseteq [op : Ops, card : Cards, mine : BOOLEAN]
  PROVE  Disown(calls, c) \subseteq [op : Ops, card : Cards, mine : BOOLEAN]
  BY DEF Disown

\* An answer of the editor commands has the type of its outcome.
LEMMA ReplyTypes ==
  ASSUME TypeOK, NEW r \in mainCalls, NEW op \in {"opened", "closed", "failed"},
         Reply(r, op)
  PROVE  mainCalls' \subseteq MainCall /\ mainAnswers' \subseteq MainAnswer
<1>1. r.card \in Cards /\ r.mine \in BOOLEAN
  BY DEF TypeOK, MainCall
<1>2. Call(op, r.card, r.mine) \in MainAnswer
  BY <1>1 DEF Call, MainAnswer
<1>. QED  BY <1>2 DEF Reply, TypeOK

\* The answer to an overlay call has its type, and the call is consumed.
LEMMA AnswerTypes ==
  ASSUME TypeOK, NEW op \in {"snapshot", "committed", "failed", "cancelled"},
         NEW c \in Captures \cup {0}, Answers(op, c)
  PROVE  overlayAnswers' \in Seq(OverlayAnswer)
<1>1. [op |-> op, capture |-> c] \in OverlayAnswer
  BY DEF OverlayAnswer
<1>. QED  BY <1>1 DEF Answers, TypeOK

\* The rest of a queue is a queue, and its head has the type of its items.
LEMMA QueueTypes ==
  ASSUME NEW S, NEW q \in Seq(S), q # <<>>
  PROVE  Head(q) \in S /\ Tail(q) \in Seq(S)
  OBVIOUS

\* A queue grows by items of its type.
LEMMA AppendTypes ==
  ASSUME NEW S, NEW q \in Seq(S), NEW x \in S
  PROVE  Append(q, x) \in Seq(S)
  OBVIOUS

\* A failure is counted.
LEMMA FaultCounts ==
  ASSUME TypeOK, Fault \/ UNCHANGED faults
  PROVE  faults' \in Nat
  BY DEF TypeOK, Fault

-----------------------------------------------------------------------------
(* Facts about the session machine.                                        *)

\* What the orchestrator's methods make of a state: a cancel ends in Idle
\* wherever it starts, and only Ready and Selecting can be finished.
LEMMA SessionFacts ==
  ASSUME NEW s \in SessionState
  PROVE  /\ CancelSession(s) = "Idle"
         /\ HandleEscape(s) = IF Escapes(s) THEN "Idle" ELSE s
         /\ Finish(s) = IF s \in {"Ready", "Selecting"} THEN "Idle" ELSE s
  BY SMT DEF SessionState, CancelSession, HandleEscape, Finish, Walk,
             RequestTransition, AllowedNext

\* A revision runs through Reopening and RevisionCommitting back to Idle.
LEMMA RevisionFacts ==
  /\ RequestReopen("Idle") = "Reopening"
  /\ FinishRevision(RequestRevisionCommit("Reopening")) = "Idle"
  BY SMT DEF RequestReopen, RequestRevisionCommit, FinishRevision, IsBusy, Walk,
             RequestTransition, AllowedNext

\* A grab that is allowed runs through Capturing to Ready, from where the
\* overlay, a cancel and a full screen commit go on.
LEMMA GrabFacts ==
  ASSUME Grabs
  PROVE  /\ Grabbing = "Capturing" /\ Grabbed = "Ready"
         /\ OverlayMounted(Grabbed) = "Selecting"
         /\ CancelSession(Grabbed) = "Idle" /\ Finish(Grabbed) = "Idle"
<1>1. Grabbing = "Capturing"
  BY SMT DEF Grabs, Grabbing, RequestCapture, IsBusy, Reset, RequestTransition,
             AllowedNext
<1>2. Grabbed = "Ready"
  BY SMT, <1>1 DEF Grabbed, CaptureComplete, RequestTransition, AllowedNext
<1>3. OverlayMounted("Ready") = "Selecting"
  BY SMT DEF OverlayMounted, RequestTransition, AllowedNext
<1>. QED  BY <1>1, <1>2, <1>3, SessionFacts DEF SessionState

-----------------------------------------------------------------------------
\* The program starts with the session at rest and nothing on its way.
LEMMA FlowInit == Init => FlowInv
<1>. SUFFICES ASSUME Init PROVE FlowInv
  OBVIOUS
<1>1. /\ overlayCalls \in Seq(OverlayCall) /\ overlayAnswers \in Seq(OverlayAnswer)
      /\ overlayEvents \in Seq(Captures) /\ mainEvents \in Seq(Cards \cup {NoCard})
  BY DEF Init
<1>2. 0 \in 0..MaxCaptures
  BY BoundsAssumption
<1>3. TypeOK
  BY <1>1, <1>2 DEF Init, TypeOK, SessionState
<1>. QED
  BY <1>3 DEF Init, FlowInv, RestsBetweenCommands, NoStrandedSelection,
              EditingHoldsACard, SelectionHasCapture
\* Taking a capture keeps the invariant: an overlay that cannot be shown
\* takes the session back to Idle.
LEMMA CaptureKeeps ==
  ASSUME FlowInv, NEW intent, CaptureNative(intent)
  PROVE  FlowInv'
<1>. USE DEF FlowInv
<1>1. Grabs => taken + 1 \in Captures /\ taken + 1 \in 0..MaxCaptures
  BY BoundsAssumption DEF TypeOK, Grabs, Captures
<1>2. CASE CaptureFails
  <2>1. TypeOK'
    BY <1>2, FaultCounts, GrabFacts
       DEF CaptureFails, TypeOK, overlayVars, overlayWire, mainVars, SessionState
  <2>. QED
    BY <1>2, <2>1, GrabFacts
       DEF CaptureFails, RestsBetweenCommands, NoStrandedSelection,
                      EditingHoldsACard, SelectionHasCapture
<1>3. CASE CaptureRegion
  <2>0. Append(overlayEvents, taken + 1) \in Seq(Captures)
    BY <1>1, <1>3, AppendTypes DEF CaptureRegion, TypeOK
  <2>1. overlayEvents' \in Seq(Captures)
    BY <1>3, <2>0 DEF CaptureRegion, TypeOK
  <2>2. faults' \in Nat
    BY <1>3, FaultCounts DEF CaptureRegion
  <2>3. TypeOK'
    BY <1>1, <1>3, <2>1, <2>2, GrabFacts
       DEF CaptureRegion, TypeOK, overlayVars, mainVars, SessionState
  <2>4. lastCapture' # 0
    BY <1>1, <1>3, BoundsAssumption DEF CaptureRegion, Captures
  <2>. QED
    BY <1>3, <2>3, <2>4, GrabFacts
       DEF CaptureRegion, RestsBetweenCommands, NoStrandedSelection,
                      EditingHoldsACard, SelectionHasCapture
<1>4. CASE CaptureFullScreen
  <2>1. delivered' \subseteq Captures /\ faults' \in Nat
    BY <1>1, <1>4, FaultCounts DEF CaptureFullScreen, Delivers, TypeOK
  <2>2. TypeOK'
    BY <1>1, <1>4, <2>1, GrabFacts
       DEF CaptureFullScreen, TypeOK, overlayVars, overlayWire, mainVars,
           SessionState
  <2>. QED
    BY <1>4, <2>2, GrabFacts
       DEF CaptureFullScreen, RestsBetweenCommands,
                      NoStrandedSelection, EditingHoldsACard,
                      SelectionHasCapture
<1>. QED  BY <1>2, <1>3, <1>4 DEF CaptureNative

\* The calls and the closing of the overlay keep the invariant: whenever the
\* overlay goes, the selection goes with it.
LEMMA OverlayBackendKeeps ==
  FlowInv /\ (OverlayHandlers \/ CloseOverlay) => FlowInv'
<1>. SUFFICES ASSUME FlowInv, OverlayHandlers \/ CloseOverlay PROVE FlowInv'
  OBVIOUS
<1>. USE DEF FlowInv
<1>0. GivenUp \subseteq Captures
  BY DEF GivenUp, TypeOK, SelectionHasCapture
<1>1. CASE HandleSnapshot
  <2>1. overlayCalls' \in Seq(OverlayCall)
    BY <1>1, QueueTypes DEF HandleSnapshot, TypeOK
  <2>2. overlayAnswers' \in Seq(OverlayAnswer)
    BY <1>1, AnswerTypes DEF HandleSnapshot, TypeOK
  <2>3. TypeOK'
    BY <1>1, <2>1, <2>2 DEF HandleSnapshot, TypeOK, backVars, overlayVars, mainVars
  <2>. QED
    BY <1>1, <2>3 DEF HandleSnapshot, backVars, RestsBetweenCommands,
                      NoStrandedSelection, EditingHoldsACard,
                      SelectionHasCapture
<1>2. CASE HandleCancel
  <2>1. overlayCalls' \in Seq(OverlayCall)
    BY <1>2, QueueTypes DEF HandleCancel, TypeOK
  <2>2. overlayAnswers' \in Seq(OverlayAnswer)
    BY <1>2, AnswerTypes DEF HandleCancel, TypeOK
  <2>3. TypeOK'
    BY <1>0, <1>2, <2>1, <2>2, SessionFacts
       DEF HandleCancel, TypeOK, overlayVars, mainVars, SessionState
  <2>. QED
    BY <1>2, <2>3, SessionFacts
       DEF HandleCancel, TypeOK, Escapes, RestsBetweenCommands, NoStrandedSelection,
                      EditingHoldsACard, SelectionHasCapture
<1>3. CASE HandleCommit
  <2>1. overlayCalls' \in Seq(OverlayCall)
    BY <1>3, QueueTypes DEF HandleCommit, TypeOK
  <2>2. overlayAnswers' \in Seq(OverlayAnswer)
    BY <1>3, AnswerTypes DEF HandleCommit, TypeOK
  <2>3. delivered' \subseteq Captures /\ faults' \in Nat
    BY <1>3, FaultCounts DEF HandleCommit, TypeOK
  <2>4. TypeOK'
    BY <1>3, <2>1, <2>2, <2>3, SessionFacts
       DEF HandleCommit, TypeOK, overlayVars, mainVars, SessionState
  <2>. QED
    BY <1>3, <2>4, SessionFacts
       DEF HandleCommit, TypeOK, RestsBetweenCommands, NoStrandedSelection,
                      EditingHoldsACard, SelectionHasCapture
<1>4. CASE CloseOverlay
  <2>1. TypeOK'
    BY <1>0, <1>4, SessionFacts
       DEF CloseOverlay, TypeOK, overlayVars, overlayWire, mainVars, SessionState
  <2>. QED
    BY <1>4, <2>1, SessionFacts
       DEF CloseOverlay, TypeOK, Escapes, RestsBetweenCommands, NoStrandedSelection,
                      EditingHoldsACard, SelectionHasCapture
<1>. QED  BY <1>1, <1>2, <1>3, <1>4 DEF OverlayHandlers

\* The overlay page only changes its own state and its mail.
LEMMA OverlayPageKeeps ==
  FlowInv /\ (OverlayPage \/ DrawCrop \/ Commit \/ Escape) => FlowInv'
<1>. SUFFICES ASSUME FlowInv, OverlayPage \/ DrawCrop \/ Commit \/ Escape
              PROVE  FlowInv'
  OBVIOUS
<1>. USE DEF FlowInv
<1>0. ASSUME UNCHANGED <<session, lastCapture, locks, overlayVisible>>, TypeOK'
      PROVE  FlowInv'
  BY <1>0 DEF RestsBetweenCommands, NoStrandedSelection, EditingHoldsACard,
              SelectionHasCapture, SelectionHasCapture
<1>1. CASE Subscribe
  <2>1. overlayCalls' \in Seq(OverlayCall)
    BY <1>1 DEF Subscribe, TypeOK, OverlayCall
  <2>2. TypeOK'
    BY <1>1, <2>1 DEF Subscribe, TypeOK, backVars, mainVars
  <2>. QED  BY <1>0, <1>1, <2>2 DEF Subscribe, backVars
<1>2. CASE TakeCaptureReady
  <2>1. Head(overlayEvents) \in Captures /\ overlayEvents' \in Seq(Captures)
    BY <1>2, QueueTypes DEF TakeCaptureReady, TypeOK
  <2>2. TypeOK'
    BY <1>2, <2>1 DEF TakeCaptureReady, Load, TypeOK, backVars, mainVars
  <2>. QED  BY <1>0, <1>2, <2>2 DEF TakeCaptureReady, backVars
<1>3. CASE TakeAnswer
  <2>1. /\ Head(overlayAnswers) \in OverlayAnswer
        /\ overlayAnswers' \in Seq(OverlayAnswer)
    BY <1>3, QueueTypes DEF TakeAnswer, TypeOK
  <2>2. Head(overlayAnswers).capture \in Captures \cup {0}
    BY <2>1 DEF OverlayAnswer
  <2>3. shown' \in Captures \cup {0} /\ crop' \in BOOLEAN /\ committing' \in BOOLEAN
    BY <1>3, <2>2 DEF TakeAnswer, Load, TypeOK
  <2>4. TypeOK'
    BY <1>3, <2>1, <2>3 DEF TakeAnswer, TypeOK, backVars, mainVars
  <2>. QED  BY <1>0, <1>3, <2>4 DEF TakeAnswer, backVars
<1>4. CASE DrawCrop
  <2>1. TypeOK'
    BY <1>4 DEF DrawCrop, TypeOK, backVars, overlayWire, mainVars
  <2>. QED  BY <1>0, <1>4, <2>1 DEF DrawCrop, backVars
<1>5. CASE Commit
  <2>1. overlayCalls' \in Seq(OverlayCall)
    BY <1>5 DEF Commit, TypeOK, OverlayCall
  <2>2. TypeOK'
    BY <1>5, <2>1 DEF Commit, TypeOK, backVars, mainVars
  <2>. QED  BY <1>0, <1>5, <2>2 DEF Commit, backVars
<1>6. CASE Escape
  <2>1. overlayCalls' \in Seq(OverlayCall)
    <3>1. Append(overlayCalls, "cancel") \in Seq(OverlayCall)
      BY AppendTypes DEF TypeOK, OverlayCall
    <3>. QED  BY <1>6, <3>1 DEF Escape, TypeOK
  <2>2. TypeOK'
    BY <1>6, <2>1 DEF Escape, TypeOK, backVars, mainVars
  <2>. QED  BY <1>0, <1>6, <2>2 DEF Escape, backVars
<1>. QED  BY <1>1, <1>2, <1>3, <1>4, <1>5, <1>6 DEF OverlayPage

\* The editor commands and the closing of the main window keep the
\* invariant: the session is Reopening only as long as a card is held.
LEMMA MainBackendKeeps == FlowInv /\ (MainHandlers \/ CloseMain) => FlowInv'
<1>. SUFFICES ASSUME FlowInv, MainHandlers \/ CloseMain PROVE FlowInv'
  OBVIOUS
<1>. USE DEF FlowInv
<1>1. ASSUME NEW r \in mainCalls, HandleOpen(r) PROVE FlowInv'
  <2>1. r.card \in Cards
    BY DEF TypeOK, MainCall
  <2>2. Call("opened", r.card, FALSE) \in MainAnswer
    BY <2>1 DEF Call, MainAnswer
  <2>3. mainAnswers' \subseteq MainAnswer /\ mainCalls' \subseteq MainCall
    BY <1>1, <2>2 DEF HandleOpen, TypeOK
  <2>4. mainEvents' \in Seq(Cards \cup {NoCard})
    <3>1. Append(mainEvents, r.card) \in Seq(Cards \cup {NoCard})
      BY <2>1, AppendTypes DEF TypeOK
    <3>. QED  BY <1>1, <3>1 DEF HandleOpen, TypeOK
  <2>5. faults' \in Nat
    BY <1>1, FaultCounts DEF HandleOpen
  <2>6. TypeOK'
    BY <1>1, <2>1, <2>3, <2>4, <2>5, RevisionFacts
       DEF HandleOpen, IsBusy, TypeOK, overlayVars, overlayWire, SessionState
  <2>. QED
    BY <1>1, <2>6, RevisionFacts
       DEF HandleOpen, IsBusy, RestsBetweenCommands, NoStrandedSelection,
                      EditingHoldsACard, SelectionHasCapture
<1>2. ASSUME NEW r \in mainCalls, HandleRevisionCommit(r) PROVE FlowInv'
  <2>1. mainCalls' \subseteq MainCall /\ mainAnswers' \subseteq MainAnswer
    BY <1>2, ReplyTypes DEF HandleRevisionCommit
  <2>2. faults' \in Nat
    BY <1>2, FaultCounts DEF HandleRevisionCommit
  <2>3. TypeOK'
    BY <1>2, <2>1, <2>2, RevisionFacts
       DEF HandleRevisionCommit, TypeOK, overlayVars, overlayWire, SessionState
  <2>. QED
    BY <1>2, <2>3, RevisionFacts
       DEF HandleRevisionCommit, RestsBetweenCommands,
                      NoStrandedSelection, EditingHoldsACard,
                      SelectionHasCapture
<1>3. ASSUME NEW r \in mainCalls, HandleRevisionCancel(r) PROVE FlowInv'
  <2>1. mainCalls' \subseteq MainCall /\ mainAnswers' \subseteq MainAnswer
    BY <1>3, ReplyTypes DEF HandleRevisionCancel
  <2>2. GivenUp \subseteq Captures
    BY DEF GivenUp, TypeOK, SelectionHasCapture
  <2>3. TypeOK'
    BY <1>3, <2>1, <2>2, SessionFacts
       DEF HandleRevisionCancel, TypeOK, overlayVars, overlayWire, SessionState
  <2>. QED
    BY <1>3, <2>3, SessionFacts
       DEF HandleRevisionCancel, TypeOK, RestsBetweenCommands,
                      NoStrandedSelection, EditingHoldsACard,
                      SelectionHasCapture
<1>4. CASE CloseMain
  <2>1. mainEvents' \in Seq(Cards \cup {NoCard})
    BY <1>4 DEF CloseMain, TypeOK
  <2>2. TypeOK'
    BY <1>4, <2>1, SessionFacts
       DEF CloseMain, TypeOK, overlayVars, overlayWire, SessionState
  <2>. QED
    BY <1>4, <2>2, SessionFacts
       DEF CloseMain, TypeOK, RestsBetweenCommands, NoStrandedSelection,
                      EditingHoldsACard, SelectionHasCapture
<1>. QED  BY <1>1, <1>2, <1>3, <1>4 DEF MainHandlers, MainHandler

\* The main page only changes its own state and its mail.
LEMMA MainPageKeeps ==
  ASSUME FlowInv,
         \/ MainPage
         \/ \E c \in Cards : Edit(c, "open") \/ Edit(c, "open_shelf")
         \/ Leave("commit") \/ Leave("cancel")
  PROVE  FlowInv'
<1>. USE DEF FlowInv
<1>0. ASSUME UNCHANGED <<session, lastCapture, locks, overlayVisible>>, TypeOK'
      PROVE  FlowInv'
  BY <1>0 DEF RestsBetweenCommands, NoStrandedSelection, EditingHoldsACard,
              SelectionHasCapture, SelectionHasCapture
<1>1. ASSUME NEW c \in Cards \cup {NoCard}, NEW as \in SUBSET mainAnswers,
             Show(c, as)
      PROVE  /\ scene' \in Cards \cup {NoCard}
             /\ mainCalls' \subseteq MainCall /\ mainAnswers' \subseteq MainAnswer
  <2>1. mainCalls' \subseteq MainCall
    BY <1>1, DisownTypes DEF Show, TypeOK, MainCall
  <2>2. mainAnswers' \subseteq MainAnswer
    BY <1>1, DisownTypes DEF Show, TypeOK, MainAnswer
  <2>. QED  BY <1>1, <2>1, <2>2 DEF Show
<1>2. CASE TakeMainEvent
  <2>1. /\ Head(mainEvents) \in Cards \cup {NoCard}
        /\ mainEvents' \in Seq(Cards \cup {NoCard})
    BY <1>2, QueueTypes DEF TakeMainEvent, TypeOK
  <2>2. TypeOK'
    BY <1>1, <1>2, <2>1
       DEF TakeMainEvent, TypeOK, backVars, overlayVars, overlayWire
  <2>. QED  BY <1>0, <1>2, <2>2 DEF TakeMainEvent, backVars
<1>3. ASSUME NEW r \in mainAnswers, TakeMainAnswer(r) PROVE FlowInv'
  <2>1. r.card \in Cards /\ r.op \in {"opened", "closed", "failed"}
    BY DEF TypeOK, MainAnswer
  <2>2. PICK c \in Cards \cup {NoCard} : Show(c, mainAnswers \ {r})
    BY <1>3, <2>1 DEF TakeMainAnswer, TypeOK
  <2>3. TypeOK'
    BY <1>1, <1>3, <2>2
       DEF TakeMainAnswer, TypeOK, backVars, overlayVars, overlayWire
  <2>. QED  BY <1>0, <1>3, <2>3 DEF TakeMainAnswer, backVars
<1>4. ASSUME NEW c \in Cards, NEW op \in {"open", "open_shelf"}, Edit(c, op)
      PROVE  FlowInv'
  <2>1. Call(op, c, FALSE) \in MainCall
    BY DEF Call, MainCall
  <2>2. TypeOK'
    BY <1>4, <2>1 DEF Edit, TypeOK, backVars, overlayVars, overlayWire
  <2>. QED  BY <1>0, <1>4, <2>2 DEF Edit, backVars
<1>5. ASSUME NEW op \in {"commit", "cancel"}, Leave(op) PROVE FlowInv'
  <2>1. Call(op, scene, TRUE) \in MainCall
    BY <1>5 DEF Leave, TypeOK, Call, MainCall
  <2>2. TypeOK'
    BY <1>5, <2>1 DEF Leave, TypeOK, backVars, overlayVars, overlayWire
  <2>. QED  BY <1>0, <1>5, <2>2 DEF Leave, backVars
<1>. QED  BY <1>2, <1>3, <1>4, <1>5 DEF MainPage

\* Every step of the flow keeps the invariant.
LEMMA FlowStep == FlowInv /\ [Next]_vars => FlowInv'
<1>. SUFFICES ASSUME FlowInv, [Next]_vars PROVE FlowInv'
  OBVIOUS
<1>1. CASE UNCHANGED vars
  <2>1. UNCHANGED <<backVars, faults, overlayVars, overlayWire, mainVars>>
    BY <1>1 DEF vars
  <2>. QED
    BY <2>1 DEF backVars, overlayVars, overlayWire, mainVars, FlowInv, TypeOK,
                RestsBetweenCommands, NoStrandedSelection,
                EditingHoldsACard, SelectionHasCapture
<1>2. CASE Capture \/ OverlayHandlers \/ CloseOverlay
  BY <1>1, <1>2, CaptureKeeps, OverlayBackendKeeps
     DEF Capture, ForwardToExistingInstance, OnMenuEvent, OnTrayIconEvent
<1>3. CASE OverlayPage \/ DrawCrop \/ Commit \/ Escape
  BY <1>3, OverlayPageKeeps
<1>4. CASE MainHandlers \/ CloseMain
  BY <1>4, MainBackendKeeps
<1>5. CASE \/ MainPage
           \/ \E c \in Cards : Edit(c, "open") \/ Edit(c, "open_shelf")
           \/ Leave("commit") \/ Leave("cancel")
  BY <1>5, MainPageKeeps
<1>. QED  BY <1>1, <1>2, <1>3, <1>4, <1>5 DEF Next, OverlayUser, MainUser

-----------------------------------------------------------------------------
\* The invariants hold together in every reachable state.
THEOREM FlowInvariance == Spec => []FlowInv
  BY FlowInit, FlowStep, PTL DEF Spec

\* The state of the flow keeps its types: no mail is answered with mail of
\* another kind and no capture is numbered past the last one taken.
THEOREM FlowTypes == Spec => []TypeOK
<1>1. FlowInv => TypeOK
  BY DEF FlowInv
<1>. QED  BY <1>1, FlowInvariance, PTL

\* The commands of commands.rs leave the session at rest, on every path.
THEOREM SessionRests == Spec => []RestsBetweenCommands
<1>1. FlowInv => RestsBetweenCommands
  BY DEF FlowInv
<1>. QED  BY <1>1, FlowInvariance, PTL

\* A session in Selecting has its overlay on screen, whatever commands,
\* close requests and failures came before.
THEOREM SelectionIsOnScreen == Spec => []NoStrandedSelection
<1>1. FlowInv => NoStrandedSelection
  BY DEF FlowInv
<1>. QED  BY <1>1, FlowInvariance, PTL

\* A session in Reopening holds the editor lock of some card, so that a
\* cancel_revision of that card can end it.
THEOREM EditingIsHeld == Spec => []EditingHoldsACard
<1>1. FlowInv => EditingHoldsACard
  BY DEF FlowInv
<1>. QED  BY <1>1, FlowInvariance, PTL

\* No step exchanges the retained capture while a selection is under way:
\* capture_native refuses, and no other command takes a capture.
THEOREM SelectionKeepsItsCapture == Spec => SelectionIsNotReplaced
<1>1. ASSUME [Next]_vars, session = "Selecting", session' = "Selecting"
      PROVE  lastCapture' = lastCapture
  <2>1. CASE UNCHANGED vars
    BY <2>1 DEF vars, backVars
  <2>2. ASSUME NEW intent, CaptureNative(intent) PROVE FALSE
    BY <1>1, <2>2 DEF CaptureNative, CaptureFails, CaptureRegion,
                      CaptureFullScreen, Grabs, IsBusy
  <2>6. CASE Capture
    BY <2>1, <2>2, <2>6
       DEF Capture, ForwardToExistingInstance, OnMenuEvent, OnTrayIconEvent
  <2>3. CASE OverlayHandlers \/ OverlayPage \/ OverlayUser
    BY <2>3 DEF OverlayHandlers, HandleSnapshot, HandleCancel, HandleCommit,
                OverlayPage, Subscribe, TakeCaptureReady, TakeAnswer,
                OverlayUser, DrawCrop, Commit, Escape, CloseOverlay, backVars
  <2>4. CASE MainHandlers
    BY <2>4 DEF MainHandlers, MainHandler, HandleOpen, HandleRevisionCommit,
                HandleRevisionCancel
  <2>5. CASE MainPage \/ MainUser
    BY <2>5 DEF MainPage, TakeMainEvent, TakeMainAnswer, MainUser, Edit, Leave,
                CloseMain, backVars
  <2>. QED  BY <1>1, <2>1, <2>3, <2>4, <2>5, <2>6 DEF Next
<1>. QED  BY <1>1, PTL DEF Spec, SelectionIsNotReplaced

-----------------------------------------------------------------------------
(* What the overlay page ends up showing.                                  *)

\* Where the members of T are in a queue.
Hits(q, T) == {i \in DOMAIN q : q[i] \in T}
Single(q, T) == \A i, j \in Hits(q, T) : i = j

SnapshotCalls   == {"snapshot"}
SnapshotAnswers == [op : {"snapshot"}, capture : Captures \cup {0}]
Asked == Hits(overlayCalls, SnapshotCalls) # {}
Told  == Hits(overlayAnswers, SnapshotAnswers) # {}

\* The page asks for a snapshot once, after it has begun to listen.  From
\* then on a selection under way is the last one announced; when nothing is
\* announced any more, it is on the stage, or the stage is empty and the
\* snapshot is still to come.
PageInv ==
  /\ Single(overlayCalls, SnapshotCalls) /\ Single(overlayAnswers, SnapshotAnswers)
  /\ Asked => ~Told
  /\ mount = "loading" => shown = 0 /\ overlayEvents = <<>> /\ ~Asked /\ ~Told
  /\ session = "Selecting" /\ mount = "subscribed" =>
       IF overlayEvents # <<>> THEN overlayEvents[Len(overlayEvents)] = lastCapture
       ELSE \/ shown = lastCapture
            \/ /\ shown = 0 /\ (Asked \/ Told)
               /\ \A i \in Hits(overlayAnswers, SnapshotAnswers) :
                    overlayAnswers[i].capture = lastCapture

\* Appending to a queue adds a hit only when the new item is one.
LEMMA AppendHits ==
  ASSUME NEW S, NEW q \in Seq(S), NEW x \in S, NEW T
  PROVE  /\ x \notin T => Hits(Append(q, x), T) = Hits(q, T)
         /\ x \in T => Hits(Append(q, x), T) = Hits(q, T) \cup {Len(q) + 1}
         /\ \A i \in Hits(q, T) : Append(q, x)[i] = q[i] /\ i # Len(q) + 1
         /\ Append(q, x)[Len(q) + 1] = x
<1>1. /\ DOMAIN q = 1..Len(q) /\ Len(q) \in Nat
      /\ DOMAIN Append(q, x) = 1..(Len(q) + 1)
      /\ \A i \in 1..Len(q) : Append(q, x)[i] = q[i]
      /\ Append(q, x)[Len(q) + 1] = x
  OBVIOUS
<1>. QED  BY <1>1 DEF Hits

\* What is left of a queue has the hits of the queue but the first item's.
LEMMA TailHits ==
  ASSUME NEW S, NEW q \in Seq(S), q # <<>>, NEW T
  PROVE  /\ \A i \in Hits(Tail(q), T) :
              i + 1 \in Hits(q, T) /\ Tail(q)[i] = q[i + 1] /\ i >= 1 /\ i \in Nat
         /\ \A j \in Hits(q, T) : j \in Nat /\ (j # 1 => j - 1 \in Hits(Tail(q), T))
         /\ (1 \in Hits(q, T)) = (Head(q) \in T)
         /\ q[1] = Head(q)
<1>1. /\ DOMAIN q = 1..Len(q) /\ Len(q) \in Nat /\ Len(q) >= 1
      /\ DOMAIN Tail(q) = 1..(Len(q) - 1)
      /\ \A i \in 1..(Len(q) - 1) : Tail(q)[i] = q[i + 1]
      /\ Head(q) = q[1]
  OBVIOUS
<1>. QED  BY <1>1 DEF Hits

\* The only hit of a queue is gone once it is taken from the front; any other
\* item leaves the hits what they are.
LEMMA TakeHit ==
  ASSUME NEW S, NEW q \in Seq(S), q # <<>>, NEW T, Single(q, T)
  PROVE  /\ Single(Tail(q), T)
         /\ Head(q) \in T => Hits(Tail(q), T) = {}
         /\ Head(q) \notin T => (Hits(Tail(q), T) = {} <=> Hits(q, T) = {})
<1>1. Single(Tail(q), T)
  <2>. SUFFICES ASSUME NEW i \in Hits(Tail(q), T), NEW j \in Hits(Tail(q), T)
                PROVE  i = j
    BY DEF Single
  <2>1. /\ i + 1 \in Hits(q, T) /\ j + 1 \in Hits(q, T)
        /\ i \in Nat /\ j \in Nat
    BY TailHits
  <2>2. i + 1 = j + 1
    BY <2>1 DEF Single
  <2>. QED  BY <2>1, <2>2
<1>2. ASSUME Head(q) \in T, NEW i \in Hits(Tail(q), T) PROVE FALSE
  <2>1. 1 \in Hits(q, T) /\ i + 1 \in Hits(q, T) /\ i >= 1 /\ i \in Nat
    BY <1>2, TailHits
  <2>2. 1 = i + 1
    BY <2>1 DEF Single
  <2>. QED  BY <2>1, <2>2
<1>3. ASSUME Head(q) \notin T, NEW j \in Hits(q, T)
      PROVE  j - 1 \in Hits(Tail(q), T)
  BY <1>3, TailHits
<1>4. ASSUME NEW i \in Hits(Tail(q), T) PROVE i + 1 \in Hits(q, T)
  BY TailHits
<1>. QED  BY <1>1, <1>2, <1>3, <1>4

\* Taking the first item leaves the last one last, or it was the last.
LEMMA TailKeepsLast ==
  ASSUME NEW S, NEW q \in Seq(S), q # <<>>
  PROVE  IF Tail(q) # <<>> THEN Tail(q)[Len(Tail(q))] = q[Len(q)]
                           ELSE Head(q) = q[Len(q)]
<1>1. /\ Len(q) \in Nat /\ Len(q) >= 1 /\ Head(q) = q[1]
      /\ Tail(q) \in Seq(S) /\ Len(Tail(q)) = Len(q) - 1
      /\ \A i \in 1..(Len(q) - 1) : Tail(q)[i] = q[i + 1]
  OBVIOUS
<1>2. CASE Len(q) = 1
  <2>1. Len(Tail(q)) = 0
    BY <1>1, <1>2
  <2>2. Tail(q) = <<>>
    BY <1>1, <2>1, EmptySeq
  <2>. QED  BY <1>1, <1>2, <2>2
<1>3. CASE Len(q) # 1
  <2>1. Len(Tail(q)) \in 1..(Len(q) - 1)
    BY <1>1, <1>3
  <2>2. Tail(q)[Len(Tail(q))] = q[Len(Tail(q)) + 1] /\ Len(Tail(q)) + 1 = Len(q)
    BY <1>1, <2>1
  <2>3. Len(Tail(q)) # 0 /\ Len(<<>>) = 0
    BY <1>1, <2>1
  <2>4. Tail(q) # <<>>
    BY Zenon, <2>3
  <2>. QED  BY <2>2, <2>4
<1>. QED  BY <1>2, <1>3

\* An empty queue has no hits.
LEMMA NoHits ==
  ASSUME NEW T
  PROVE  Hits(<<>>, T) = {} /\ Single(<<>>, T)
  BY DEF Hits, Single

\* The page agrees with a session that stays as it is or is no selection, as
\* long as its own state and its mail stay.
LEMMA PageFrame ==
  ASSUME PageInv, UNCHANGED <<mount, shown, overlayWire>>,
         session' = "Selecting" => UNCHANGED <<session, lastCapture>>
  PROVE  PageInv'
  BY DEF PageInv, overlayWire, Single, Asked, Told

LEMMA PageInit == Init => PageInv
  BY NoHits DEF Init, PageInv, Asked, Told

\* A new selection is announced to a page that listens; a page that does not
\* will ask.
LEMMA CaptureKeepsPage ==
  ASSUME FlowInv, PageInv, NEW intent, CaptureNative(intent)
  PROVE  PageInv'
<1>1. CASE CaptureFails
  BY <1>1, GrabFacts, PageFrame DEF CaptureFails, overlayVars
<1>2. CASE CaptureFullScreen
  BY <1>2, GrabFacts, PageFrame DEF CaptureFullScreen, overlayVars
<1>3. CASE CaptureRegion
  <2>1. UNCHANGED <<mount, shown, overlayCalls, overlayAnswers>>
    BY <1>3 DEF CaptureRegion, overlayVars
  <2>2. CASE UNCHANGED overlayEvents /\ session' # "Selecting"
    BY <2>1, <2>2, PageFrame DEF overlayWire
  <2>3. CASE UNCHANGED overlayEvents /\ mount = "loading"
    BY <2>1, <2>3 DEF PageInv, Single, Asked, Told
  <2>4. CASE overlayEvents' = Append(overlayEvents, taken + 1) /\ mount # "loading"
    <3>1. overlayEvents \in Seq(Captures) /\ taken + 1 \in Captures
      BY <1>3, BoundsAssumption
         DEF CaptureRegion, FlowInv, TypeOK, Grabs, Captures
    <3>2. overlayEvents' # <<>> /\ overlayEvents'[Len(overlayEvents')] = taken + 1
      BY <2>4, <3>1
    <3>. QED
      BY <1>3, <2>1, <2>4, <3>2
         DEF CaptureRegion, PageInv, Single, Asked, Told
  <2>. QED  BY <1>3, <2>2, <2>3, <2>4, GrabFacts DEF CaptureRegion
<1>. QED  BY <1>1, <1>2, <1>3 DEF CaptureNative

\* get_session_snapshot answers with the capture that is retained.
LEMMA SnapshotKeepsPage ==
  ASSUME FlowInv, PageInv, HandleSnapshot
  PROVE  PageInv'
<1>. DEFINE a == [op |-> "snapshot", capture |-> lastCapture]
<1>1. /\ overlayCalls \in Seq(OverlayCall) /\ overlayCalls # <<>>
      /\ overlayAnswers \in Seq(OverlayAnswer)
      /\ a \in SnapshotAnswers /\ a \in OverlayAnswer
  BY DEF HandleSnapshot, FlowInv, TypeOK, SnapshotAnswers, OverlayAnswer
<1>2. Hits(overlayCalls', SnapshotCalls) = {} /\ Asked
  <2>1. Head(overlayCalls) \in SnapshotCalls
    BY DEF HandleSnapshot, SnapshotCalls
  <2>2. 1 \in Hits(overlayCalls, SnapshotCalls)
    BY <1>1, <2>1, TailHits
  <2>. QED  BY <1>1, <2>1, <2>2, TakeHit DEF HandleSnapshot, PageInv, Asked
<1>3. Hits(overlayAnswers', SnapshotAnswers) = {Len(overlayAnswers) + 1}
  BY <1>1, <1>2, AppendHits DEF HandleSnapshot, Answers, PageInv, Told
<1>4. overlayAnswers'[Len(overlayAnswers) + 1] = a
  BY <1>1, AppendHits DEF HandleSnapshot, Answers
<1>. QED
  BY <1>2, <1>3, <1>4
     DEF HandleSnapshot, backVars, overlayVars, PageInv, Single, Asked, Told

\* Commit and cancel end a selection, and are answered with no snapshot.
LEMMA EndKeepsPage ==
  ASSUME FlowInv, PageInv, HandleCancel \/ HandleCommit
  PROVE  PageInv'
<1>1. /\ overlayCalls \in Seq(OverlayCall) /\ overlayCalls # <<>>
      /\ overlayAnswers \in Seq(OverlayAnswer)
  BY DEF HandleCancel, HandleCommit, FlowInv, TypeOK
<1>2. overlayCalls' = Tail(overlayCalls) /\ Head(overlayCalls) \notin SnapshotCalls
  BY DEF HandleCancel, HandleCommit, SnapshotCalls
<1>3. /\ Single(overlayCalls', SnapshotCalls) /\ (Asked' <=> Asked)
  BY <1>1, <1>2, TakeHit DEF PageInv, Asked
<1>4. \/ UNCHANGED overlayAnswers
      \/ \E op \in {"committed", "failed", "cancelled"} : Answers(op, 0)
  BY DEF HandleCancel, HandleCommit
<1>5. Hits(overlayAnswers', SnapshotAnswers) = Hits(overlayAnswers, SnapshotAnswers)
  <2>1. ASSUME NEW op \in {"committed", "failed", "cancelled"}, Answers(op, 0)
        PROVE  Hits(overlayAnswers', SnapshotAnswers)
                 = Hits(overlayAnswers, SnapshotAnswers)
    <3>. DEFINE b == [op |-> op, capture |-> 0]
    <3>1. b \in OverlayAnswer /\ b \notin SnapshotAnswers
      BY DEF OverlayAnswer, SnapshotAnswers
    <3>. QED  BY <1>1, <2>1, <3>1, AppendHits DEF Answers
  <2>. QED  BY <1>4, <2>1
<1>6. session' # "Selecting"
  BY SessionFacts
     DEF HandleCancel, HandleCommit, FlowInv, TypeOK, RestsBetweenCommands, Escapes
<1>. QED
  BY <1>3, <1>5, <1>6
     DEF HandleCancel, HandleCommit, overlayVars, PageInv, Single, Told

\* The page reads its mail: the event that is last, or the one snapshot.
LEMMA ReadingKeepsPage ==
  ASSUME FlowInv, PageInv, OverlayPage
  PROVE  PageInv'
<1>1. CASE Subscribe
  <2>1. overlayCalls \in Seq(OverlayCall) /\ "snapshot" \in OverlayCall
    BY DEF FlowInv, TypeOK, OverlayCall
  <2>2. Hits(overlayCalls', SnapshotCalls) = {Len(overlayCalls) + 1}
    BY <1>1, <2>1, AppendHits DEF Subscribe, SnapshotCalls, PageInv, Asked
  <2>. QED
    BY <1>1, <2>2 DEF Subscribe, backVars, PageInv, Single, Asked, Told
<1>2. CASE TakeCaptureReady
  <2>1. overlayEvents \in Seq(Captures) /\ overlayEvents # <<>>
    BY <1>2 DEF TakeCaptureReady, FlowInv, TypeOK
  <2>2. IF overlayEvents' # <<>>
          THEN overlayEvents'[Len(overlayEvents')] = overlayEvents[Len(overlayEvents)]
          ELSE shown' = overlayEvents[Len(overlayEvents)]
    <3>1. overlayEvents' = Tail(overlayEvents) /\ shown' = Head(overlayEvents)
      BY <1>2 DEF TakeCaptureReady, Load
    <3>. QED  BY <2>1, <3>1, TailKeepsLast
  <2>. QED
    BY <1>2, <2>1, <2>2
       DEF TakeCaptureReady, backVars, PageInv, Single, Asked, Told, FlowInv, TypeOK
<1>3. CASE TakeAnswer
  <2>. DEFINE a == Head(overlayAnswers)
  <2>1. overlayAnswers \in Seq(OverlayAnswer) /\ overlayAnswers # <<>>
    BY <1>3 DEF TakeAnswer, FlowInv, TypeOK
  <2>2. a \in OverlayAnswer /\ (a \in SnapshotAnswers <=> a.op = "snapshot")
    <3>1. a \in OverlayAnswer
      BY <2>1, QueueTypes
    <3>. QED  BY <3>1 DEF OverlayAnswer, SnapshotAnswers
  <2>3. Single(overlayAnswers', SnapshotAnswers)
    BY <1>3, <2>1, TakeHit DEF TakeAnswer, PageInv
  <2>4. UNCHANGED <<session, lastCapture, mount, overlayCalls, overlayEvents>>
    BY <1>3 DEF TakeAnswer, backVars
  <2>5. CASE a \in SnapshotAnswers
    <3>1. 1 \in Hits(overlayAnswers, SnapshotAnswers) /\ overlayAnswers[1] = a
      BY <2>1, <2>5, TailHits
    <3>2. Told /\ ~Asked /\ Hits(overlayAnswers', SnapshotAnswers) = {}
      BY <1>3, <2>1, <2>5, <3>1, TakeHit DEF TakeAnswer, PageInv, Told
    <3>3. shown' = IF shown = 0 THEN a.capture ELSE shown
      BY <1>3, <2>2, <2>5 DEF TakeAnswer, Load
    <3>. QED
      BY <2>3, <2>4, <3>1, <3>2, <3>3
         DEF PageInv, Asked, Told, FlowInv, SelectionHasCapture
  <2>6. CASE a \notin SnapshotAnswers
    <3>1. shown' = shown
      BY <1>3, <2>2, <2>6 DEF TakeAnswer
    <3>2. Told' <=> Told
      BY <1>3, <2>1, <2>6, TakeHit DEF TakeAnswer, PageInv, Told
    <3>3. \A i \in Hits(overlayAnswers', SnapshotAnswers) :
            /\ i + 1 \in Hits(overlayAnswers, SnapshotAnswers)
            /\ overlayAnswers'[i] = overlayAnswers[i + 1]
      BY <1>3, <2>1, TailHits DEF TakeAnswer
    <3>. QED
      BY <2>3, <2>4, <3>1, <3>2, <3>3 DEF PageInv, Asked
  <2>. QED  BY <2>5, <2>6
<1>. QED  BY <1>1, <1>2, <1>3 DEF OverlayPage

\* The user's calls are no snapshots.
LEMMA UserKeepsPage ==
  ASSUME FlowInv, PageInv, DrawCrop \/ Commit \/ Escape
  PROVE  PageInv'
<1>1. overlayCalls \in Seq(OverlayCall)
  BY DEF FlowInv, TypeOK
<1>2. \/ UNCHANGED overlayCalls
      \/ \E op \in {"commit", "cancel"} : overlayCalls' = Append(overlayCalls, op)
  BY DEF DrawCrop, Commit, Escape, overlayWire
<1>3. Hits(overlayCalls', SnapshotCalls) = Hits(overlayCalls, SnapshotCalls)
  <2>1. ASSUME NEW op \in {"commit", "cancel"}
        PROVE  Hits(Append(overlayCalls, op), SnapshotCalls)
                 = Hits(overlayCalls, SnapshotCalls)
    BY <1>1, AppendHits DEF OverlayCall, SnapshotCalls
  <2>2. CASE UNCHANGED overlayCalls
    BY <2>2
  <2>3. ASSUME NEW op \in {"commit", "cancel"}, overlayCalls' = Append(overlayCalls, op)
        PROVE  Hits(overlayCalls', SnapshotCalls) = Hits(overlayCalls, SnapshotCalls)
    BY <2>1, <2>3 DEF Hits
  <2>. QED  BY <1>2, <2>2, <2>3
<1>4. UNCHANGED <<session, lastCapture, mount, shown, overlayAnswers, overlayEvents>>
  BY DEF DrawCrop, Commit, Escape, overlayWire, backVars
<1>. QED  BY <1>3, <1>4 DEF PageInv, Single, Asked, Told

\* The editor's commands and the windows that close never begin a selection.
LEMMA OthersKeepPage ==
  ASSUME FlowInv, PageInv, MainHandlers \/ MainPage \/ MainUser \/ CloseOverlay
  PROVE  PageInv'
<1>1. CASE MainHandlers
  <2>1. session' = "Selecting" => session' = session
    BY <1>1, SessionFacts, RevisionFacts
       DEF MainHandlers, MainHandler, HandleOpen, HandleRevisionCommit,
           HandleRevisionCancel, IsBusy, FlowInv, TypeOK
  <2>. QED
    BY <1>1, <2>1, PageFrame
       DEF MainHandlers, MainHandler, HandleOpen, HandleRevisionCommit,
           HandleRevisionCancel, overlayVars
<1>2. CASE CloseOverlay
  BY <1>2, SessionFacts, PageFrame DEF CloseOverlay, overlayVars, FlowInv, TypeOK
<1>3. CASE CloseMain
  BY <1>3, SessionFacts, PageFrame DEF CloseMain, overlayVars, FlowInv, TypeOK
<1>4. CASE MainPage \/ (MainUser /\ ~CloseMain)
  BY <1>4, PageFrame
     DEF MainPage, TakeMainEvent, TakeMainAnswer, MainUser, Edit, Leave,
         overlayVars, backVars
<1>. QED  BY <1>1, <1>2, <1>3, <1>4

LEMMA PageStep == FlowInv /\ PageInv /\ [Next]_vars => PageInv'
<1>. SUFFICES ASSUME FlowInv, PageInv, [Next]_vars PROVE PageInv'
  OBVIOUS
<1>1. CASE UNCHANGED vars
  BY <1>1, PageFrame DEF vars, backVars, overlayVars
<1>2. CASE Capture
  BY <1>1, <1>2, CaptureKeepsPage
     DEF Capture, ForwardToExistingInstance, OnMenuEvent, OnTrayIconEvent
<1>3. CASE OverlayHandlers \/ OverlayPage \/ OverlayUser
  BY <1>3, SnapshotKeepsPage, EndKeepsPage, ReadingKeepsPage, UserKeepsPage,
     OthersKeepPage DEF OverlayHandlers, OverlayUser
<1>4. CASE MainHandlers \/ MainPage \/ MainUser
  BY <1>4, OthersKeepPage
<1>. QED  BY <1>1, <1>2, <1>3, <1>4 DEF Next

\* The overlay ends up with the capture under selection on its stage: once
\* OverlayApp.svelte has read its events and its snapshot, in whatever order
\* they came, and however often a capture was taken while the page loaded.
THEOREM PageShowsTheSelection == Spec => []OverlayConverges
<1>1. FlowInv /\ PageInv => OverlayConverges
  <2>. SUFFICES ASSUME PageInv, session = "Selecting", mount = "subscribed",
                       overlayEvents = <<>>, overlayAnswers = <<>>,
                       \A i \in DOMAIN overlayCalls : overlayCalls[i] # "snapshot"
                PROVE  shown = lastCapture
    BY DEF OverlayConverges
  <2>1. ~Asked /\ ~Told
    BY NoHits DEF Asked, Told, Hits, SnapshotCalls
  <2>. QED  BY <2>1 DEF PageInv
<1>2. Spec => []PageInv
  BY FlowInvariance, PageInit, PageStep, PTL DEF Spec
<1>. QED  BY <1>1, <1>2, FlowInvariance, PTL

-----------------------------------------------------------------------------
\* commit_revision is all or nothing on every path, whatever the page does
\* meanwhile: only its own handler answers a commit, and a page that disowns
\* it leaves session and lock alone.
THEOREM RevisionCommitsAreAtomic == Spec => RevisionCommitIsAtomic
<1>. DEFINE Atomic(r) == (session' = "Reopening") = (r.card \in locks')
<1>1. ASSUME [Next]_vars, NEW r \in mainCalls \ mainCalls',
             session = "Reopening", r.op = "commit", r.card \in locks
      PROVE  Atomic(r)
  <2>0. CASE UNCHANGED vars
    BY <1>1, <2>0 DEF vars, mainVars
  <2>1. CASE Capture
    BY <1>1, <2>0, <2>1
       DEF Capture, ForwardToExistingInstance, OnMenuEvent, OnTrayIconEvent,
           CaptureNative, CaptureFails, CaptureRegion, CaptureFullScreen, mainVars
  <2>2. CASE OverlayHandlers \/ OverlayPage \/ OverlayUser
    BY <1>1, <2>2
       DEF OverlayHandlers, HandleSnapshot, HandleCancel, HandleCommit,
           OverlayPage, Subscribe, TakeCaptureReady, TakeAnswer,
           OverlayUser, DrawCrop, Commit, Escape, CloseOverlay, mainVars
  <2>3. ASSUME NEW q \in mainCalls, MainHandler(q) PROVE Atomic(r)
    <3>1. r = q
      BY <1>1, <2>3 DEF MainHandler, HandleOpen, HandleRevisionCommit,
                        HandleRevisionCancel, Reply
    <3>2. HandleRevisionCommit(r)
      BY <1>1, <2>3, <3>1 DEF MainHandler, HandleOpen, HandleRevisionCancel
    <3>. QED  BY <1>1, <3>2, RevisionFacts DEF HandleRevisionCommit
  <2>4. CASE MainPage
    BY <1>1, <2>4 DEF MainPage, TakeMainEvent, TakeMainAnswer, backVars
  <2>5. CASE MainUser
    BY <1>1, <2>5 DEF MainUser, Edit, Leave, CloseMain
  <2>. QED  BY <1>1, <2>0, <2>1, <2>2, <2>3, <2>4, <2>5 DEF Next, MainHandlers
<1>2. [Next]_vars =>
        [\A r \in mainCalls \ mainCalls' :
           session = "Reopening" /\ r.op = "commit" /\ r.card \in locks =>
             (session' = "Reopening") = (r.card \in locks')]_vars
  BY <1>1
<1>. QED  BY <1>2, PTL DEF Spec, RevisionCommitIsAtomic
=============================================================================
