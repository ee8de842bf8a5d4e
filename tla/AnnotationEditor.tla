--------------------------- MODULE AnnotationEditor ---------------------------
(***************************************************************************)
(* Drawing on a capture and coming back to it: the annotation store of the *)
(* overlay and of the revision editor (src/lib/annotation/store.svelte.ts, *)
(* driven by KonvaStage.svelte and AnnotationToolbar.svelte), what the     *)
(* commit and revision commands keep of it (ipc/commands.rs,               *)
(* cache/store.rs), and the scene a card gives back (contracts             *)
(* revision.rs).                                                           *)
(*                                                                         *)
(* The pointer and the keyboard do not wait for each other: a key may come *)
(* in the middle of a drag.  The sessions of the two pages exclude each    *)
(* other (CaptureFlow), so one store stands for both.  A look is an        *)
(* annotation's geometry, style and z-order.  The annotations are a set:   *)
(* the store's array is in the order of the ids.  A framebuffer is the     *)
(* scenes painted over a bare crop.  Titles and notes are left out, and so *)
(* is update_revision, which the front end never calls.                    *)
(***************************************************************************)
EXTENDS Integers, Sequences, FiniteSets

CONSTANTS
  Looks,             \* what annotations can look like
  DefaultLook,       \* red, medium
  DrawingTools,      \* "badge" and the others
  NoAnnotation, NoTransform, NoSource,
  FilesFail,         \* whether a card's source or scene may be unreadable
  MaxId,             \* bound: ids the store hands out
  MaxHistory,        \* the store's 256 snapshots
  MaxCards           \* bound: cards

ASSUME LooksAssumption == DefaultLook \in Looks
ASSUME HistoryAssumption == MaxHistory \in Nat \ {0}
ASSUME BoundAssumption == MaxId \in Nat
ASSUME FilesAssumption == FilesFail \in BOOLEAN

VARIABLES
  at,                \* "closed", "stage" (no crop yet), "cropped" or "editor"
  annotations, draft, nextId, badgeCounter,
  tool, pen,         \* the active tool; the next annotation's look
  selection,         \* ids
  past, future,      \* history
  transform,         \* the gesture in flight
  opened,            \* the card in the editor
  shown,             \* the picture the editor draws over (RevisionContext)
  cards              \* the cache's entries, in the order of their commits

canvas   == <<annotations, tool, pen, selection>>
counters == <<nextId, badgeCounter>>
history  == <<past, future>>
place    == <<at, opened, shown, cards>>
vars == <<canvas, draft, counters, history, transform, place>>

Tools == {"select"} \cup DrawingTools
Annotation == [id : Nat \ {0}, look : Looks, number : Nat]
Snapshot == [annotations : SUBSET Annotation, tool : Tools, pen : Looks, selection : SUBSET Nat]

\* A framebuffer: the scenes flattened onto the pixels of the capture.  The
\* old entries are of a version that kept only their pictures.
Framebuffer == Seq(SUBSET Annotation)
Bare == <<>>
OldPicture == <<{}>>
FlattenAnnotations(framebuffer, scene) ==
  IF scene = {} THEN framebuffer ELSE Append(framebuffer, scene)
ASSUME SourceAssumption == NoSource \notin {Bare, OldPicture}

\* RevisionMetadata, with the entry's png and its source.png.
Card == [png : Framebuffer, source : Framebuffer \cup {NoSource},
         scene : SUBSET Annotation, counter : Nat \ {0}, tool : Tools, pen : Looks]
\* RevisionMetadata::empty, for the pixels of a capture.
Empty == [png |-> Bare, source |-> Bare, scene |-> {}, counter |-> 1,
          tool |-> "select", pen |-> DefaultLook]
OldCard == [Empty EXCEPT !.png = OldPicture, !.source = NoSource]

Fresh ==                                       \* defaultState
  /\ annotations' = {} /\ draft' = NoAnnotation /\ nextId' = 1 /\ badgeCounter' = 1
  /\ tool' = "select" /\ pen' = DefaultLook /\ selection' = {}
  /\ past' = <<>> /\ future' = <<>> /\ transform' = NoTransform

Init ==
  /\ at = "closed" /\ opened = OldCard /\ shown = OldPicture
  /\ cards \in {<<>>, <<OldCard>>}
  /\ annotations = {} /\ draft = NoAnnotation /\ nextId = 1 /\ badgeCounter = 1
  /\ tool = "select" /\ pen = DefaultLook /\ selection = {}
  /\ past = <<>> /\ future = <<>> /\ transform = NoTransform

--------------------------------------------------------------------------------
(* History.                                                                *)

SnapshotOf == [annotations |-> annotations, tool |-> tool, pen |-> pen, selection |-> selection]

\* pushHistory: the state before a change, at most MaxHistory of them; what
\* was undone is forgotten.
PushHistory ==
  /\ past' = IF Len(past) < MaxHistory THEN Append(past, SnapshotOf) ELSE Append(Tail(past), SnapshotOf)
  /\ future' = <<>>

RestoreSnapshot(s) ==
  annotations' = s.annotations /\ tool' = s.tool /\ pen' = s.pen /\ selection' = s.selection

Top(stack) == stack[Len(stack)]
Pop(stack) == SubSeq(stack, 1, Len(stack) - 1)

Undo ==
  /\ at # "closed" /\ past # <<>>
  /\ RestoreSnapshot(Top(past)) /\ draft' = NoAnnotation
  /\ past' = Pop(past) /\ future' = Append(future, SnapshotOf)
  /\ UNCHANGED <<counters, transform, place>>

Redo ==
  /\ at # "closed" /\ future # <<>>
  /\ RestoreSnapshot(Top(future)) /\ draft' = NoAnnotation
  /\ future' = Pop(future) /\ past' = Append(past, SnapshotOf)
  /\ UNCHANGED <<counters, transform, place>>

--------------------------------------------------------------------------------
(* Tools, drafts and selections.                                           *)

SetTool(t) ==
  /\ at # "closed" /\ t # tool
  /\ PushHistory
  /\ tool' = t
  /\ selection' = IF t = "select" THEN selection ELSE {}
  /\ UNCHANGED <<annotations, pen, draft, counters, transform, place>>

\* beginDraft, with the active tool, where no annotation is hit.  A text
\* draft still being typed gives way.
BeginDraft ==
  /\ at \in {"cropped", "editor"} /\ tool # "select" /\ nextId <= MaxId
  /\ draft' = [id |-> nextId, look |-> pen, number |-> IF tool = "badge" THEN badgeCounter ELSE 0]
  /\ nextId' = nextId + 1
  /\ badgeCounter' = IF tool = "badge" THEN badgeCounter + 1 ELSE badgeCounter
  /\ UNCHANGED <<canvas, history, transform, place>>

\* commitDraft, commitText.
CommitDraft ==
  /\ draft # NoAnnotation
  /\ PushHistory
  /\ annotations' = annotations \cup {draft} /\ draft' = NoAnnotation
  /\ UNCHANGED <<tool, pen, selection, counters, transform, place>>

\* Released too small, left empty, or given up with Escape.
CancelDraft ==
  /\ draft # NoAnnotation
  /\ draft' = NoAnnotation
  /\ UNCHANGED <<canvas, counters, history, transform, place>>

\* A click on an annotation; with a drawing tool it selects all the same.
SelectOnly(a) ==
  /\ at # "closed" /\ a \in annotations
  /\ IF tool = "select" THEN UNCHANGED <<tool, history>> ELSE tool' = "select" /\ PushHistory
  /\ selection' = {a.id}
  /\ UNCHANGED <<annotations, pen, draft, counters, transform, place>>

\* Shift: selectAdd, selectMarquee.
SelectMore(hit) ==
  /\ at # "closed" /\ tool = "select" /\ hit # {}
  /\ selection' = selection \cup {a.id : a \in hit}
  /\ UNCHANGED <<annotations, tool, pen, draft, counters, history, transform, place>>

SelectAll ==
  /\ at # "closed" /\ annotations # {}
  /\ PushHistory
  /\ selection' = selection \cup {a.id : a \in annotations}
  /\ UNCHANGED <<annotations, tool, pen, draft, counters, transform, place>>

ClearSelection ==
  /\ at # "closed" /\ selection # {}
  /\ selection' = {}
  /\ UNCHANGED <<annotations, tool, pen, draft, counters, history, transform, place>>

--------------------------------------------------------------------------------
(* Changes to what is selected.                                            *)

Selected == {a \in annotations : a.id \in selection}
Change(ids, f(_)) == {IF a.id \in ids THEN f(a) ELSE a : a \in annotations}

\* applyColorToSelection, applyStrokeToSelection: with nothing selected, the
\* next annotation's.
Restyle(look) ==
  /\ at # "closed"
  /\ PushHistory
  /\ IF Selected = {}
       THEN pen' = look /\ UNCHANGED annotations
       ELSE /\ annotations' = Change(selection, LAMBDA a : [a EXCEPT !.look = look])
            /\ UNCHANGED pen
  /\ UNCHANGED <<tool, selection, draft, counters, transform, place>>

DeleteSelection ==
  /\ at # "closed" /\ selection # {}
  /\ PushHistory
  /\ annotations' = annotations \ Selected /\ selection' = {}
  /\ UNCHANGED <<tool, pen, draft, counters, transform, place>>

\* raise, lower, bringToFront and sendToBackSelection: other z-orders.
Restack(look) ==
  /\ at # "closed" /\ Selected # {}
  /\ PushHistory
  /\ annotations' = Change(selection, LAMBDA a : [a EXCEPT !.look = look])
  /\ UNCHANGED <<tool, pen, selection, draft, counters, transform, place>>

\* beginTransform, on a handle of one annotation, and
\* beginTranslateSelection, on the body of a selected one.
BeginTransform(ids) ==
  /\ at # "closed" /\ tool = "select" /\ transform = NoTransform
  /\ ids = {a.id : a \in Selected} \/ \E a \in Selected : ids = {a.id}
  /\ ids # {}
  /\ PushHistory
  /\ transform' = [ids |-> ids, snapshot |-> SnapshotOf]
  /\ UNCHANGED <<canvas, draft, counters, place>>

\* updateTransform, updateTranslateSelection: whatever became of the canvas.
UpdateTransform(look) ==
  /\ transform # NoTransform
  /\ annotations' = Change(transform.ids, LAMBDA a : [a EXCEPT !.look = look])
  /\ UNCHANGED <<tool, pen, selection, draft, counters, history, transform, place>>

EndTransform ==
  /\ transform # NoTransform
  /\ transform' = NoTransform
  /\ UNCHANGED <<canvas, draft, counters, history, place>>

\* Escape: the gesture's own entry is taken off the history.
CancelTransform ==
  /\ transform # NoTransform
  /\ past' = IF past = <<>> THEN past ELSE Pop(past)
  /\ RestoreSnapshot(transform.snapshot)
  /\ transform' = NoTransform
  /\ UNCHANGED <<draft, counters, future, place>>

--------------------------------------------------------------------------------
(* The overlay.                                                            *)

\* A capture to select in; loadCapture starts from a fresh store.
StartCapture ==
  /\ at = "closed" /\ Len(cards) < MaxCards
  /\ at' = "stage" /\ Fresh
  /\ UNCHANGED <<opened, shown, cards>>

\* A crop is drawn with "edit before sharing".
DrawCrop ==
  /\ at = "stage"
  /\ at' = "cropped"
  /\ UNCHANGED <<canvas, draft, counters, history, transform, opened, shown, cards>>

\* The select tool is dragged over the bare image: the crop goes, and is drawn
\* again or not; what is on the canvas stays.
DragCropAnew ==
  /\ at = "cropped" /\ tool = "select" /\ transform = NoTransform
  /\ at' = "stage" /\ selection' = {}
  /\ UNCHANGED <<annotations, tool, pen, draft, counters, history, transform, opened, shown, cards>>

\* Escape, with nothing left to give up but the crop (clearForRecrop).  The
\* ids go on.
ClearForRecrop ==
  /\ at = "cropped" /\ transform = NoTransform /\ draft = NoAnnotation /\ selection = {}
  /\ at' = "stage"
  /\ annotations' = {} /\ badgeCounter' = 1 /\ past' = <<>> /\ future' = <<>>
  /\ UNCHANGED <<tool, pen, selection, draft, nextId, transform, opened, shown, cards>>

\* Seeded fault: the counter of a card starts at the largest number drawn.
NextNumberLast(scene, n) ==
  n = 1 \/ \E a \in scene : a.number = n

\* One more than the largest number drawn.
NextNumber(scene, n) ==
  /\ \A a \in scene : a.number < n
  /\ n = 1 \/ \E a \in scene : a.number = n - 1

\* commit_body: the picture, and next to it the bare crop and the scene.
CommitToShelf ==
  /\ at = "cropped" /\ Len(cards) < MaxCards
  /\ \E n \in 1..(MaxId + 1) :
       /\ NextNumber(annotations, n)
       /\ cards' = Append(cards, [Empty EXCEPT !.png = FlattenAnnotations(Bare, annotations),
                                               !.scene = annotations, !.counter = n])
  /\ at' = "closed" /\ Fresh
  /\ UNCHANGED <<opened, shown>>

\* Cancelled, copied only or not delivered: no card.  A commit that fails
\* leaves the store as it is.
LeaveOverlay ==
  /\ at \in {"stage", "cropped"}
  /\ at' = "closed"
  /\ Fresh \/ UNCHANGED <<canvas, draft, counters, history, transform>>
  /\ UNCHANGED <<opened, shown, cards>>

--------------------------------------------------------------------------------
(* The revision editor.                                                    *)

\* Seeded fault: a revision starts from the picture of its entry.
RevisionSourceFlattened(card) == card.png

\* revision_source, and the entry's picture where there is none.
RevisionSource(card) == IF card.source = NoSource THEN card.png ELSE card.source

\* sanitize: the ids a store never gives are dropped.
Sanitize(card) == [card EXCEPT !.scene = {a \in @ : a.id # 0}]

\* read_revision, and the empty scene for an entry that has no source.
Revision(card) == IF card.source = NoSource THEN Empty ELSE Sanitize(card)

\* What a look at a card's files finds.  A source that is not there, or a
\* scene that cannot be read, leaves the picture and the empty scene.
Readings(card) ==
  {card} \cup IF FilesFail THEN {[card EXCEPT !.source = NoSource]} ELSE {}

\* Seeded fault: the restored store counts its ids from the start.
NextIdFirst(scene, n) == n = 1

\* loadScene: ids go on after the largest.
NextId(scene, n) ==
  /\ \A a \in scene : a.id < n
  /\ n = 1 \/ \E a \in scene : a.id = n - 1

OpenRevision(card) ==
  /\ at = "closed" /\ Len(cards) < MaxCards
  /\ at' = "editor" /\ opened' = card
  /\ \E found \in Readings(card) :
       /\ shown' = RevisionSource(found)
       /\ annotations' = Revision(found).scene /\ badgeCounter' = Revision(found).counter
       /\ tool' = Revision(found).tool /\ pen' = Revision(found).pen
       /\ \E n \in 1..(MaxId + 1) : NextId(Revision(found).scene, n) /\ nextId' = n
  /\ draft' = NoAnnotation /\ selection' = {}
  /\ past' = <<>> /\ future' = <<>> /\ transform' = NoTransform
  /\ UNCHANGED cards

\* The scene painted over what a card has to paint over.
Revised(found) ==
  [png |-> FlattenAnnotations(RevisionSource(found), annotations),
   source |-> RevisionSource(found), scene |-> annotations,
   counter |-> badgeCounter, tool |-> tool, pen |-> pen]

\* commit_revision_inner, once the draft is done: the files are read again,
\* and the new entry keeps what the scene was painted over.
CommitRevision ==
  /\ at = "editor" /\ draft = NoAnnotation
  /\ \E found \in Readings(opened) : cards' = Append(cards, Revised(found))
  /\ at' = "closed" /\ Fresh
  /\ UNCHANGED <<opened, shown>>

CancelRevision ==
  /\ at = "editor"
  /\ at' = "closed" /\ Fresh
  /\ UNCHANGED <<opened, shown, cards>>

--------------------------------------------------------------------------------
Keys == \/ (\E t \in Tools : SetTool(t))
        \/ Undo \/ Redo \/ SelectAll \/ ClearSelection \/ DeleteSelection \/ CancelDraft \/ CancelTransform
        \/ ClearForRecrop \/ (\E look \in Looks : Restack(look))
Pointer == \/ BeginDraft \/ CommitDraft
           \/ (\E a \in annotations : SelectOnly(a))
           \/ (\E hit \in SUBSET annotations : SelectMore(hit))
           \/ (\E look \in Looks : Restyle(look) \/ UpdateTransform(look))
           \/ (\E ids \in SUBSET selection : BeginTransform(ids))
           \/ EndTransform \/ DragCropAnew
Sessions == \/ StartCapture \/ DrawCrop \/ CommitToShelf \/ LeaveOverlay
            \/ (\E i \in DOMAIN cards : OpenRevision(cards[i]))
            \/ CommitRevision \/ CancelRevision

Next == Keys \/ Pointer \/ Sessions
Spec == Init /\ [][Next]_vars

--------------------------------------------------------------------------------
TypeOK ==
  /\ at \in {"closed", "stage", "cropped", "editor"}
  /\ annotations \subseteq Annotation
  /\ draft \in Annotation \cup {NoAnnotation}
  /\ nextId \in Nat \ {0} /\ badgeCounter \in Nat \ {0}
  /\ tool \in Tools /\ pen \in Looks /\ selection \subseteq Nat
  /\ past \in Seq(Snapshot) /\ future \in Seq(Snapshot)
  /\ transform \in [ids : SUBSET Nat, snapshot : Snapshot] \cup {NoTransform}
  /\ opened \in Card /\ shown \in Framebuffer /\ cards \in Seq(Card)

\* No two annotations of a scene share an id, and no two badges a number.
Distinct(scene) ==
  \A a, b \in scene : a # b => a.id # b.id /\ (a.number = b.number => a.number = 0)

\* Whatever was undone, redone, deleted, cropped anew or reopened, an
\* annotation on the canvas or in a card can be told from the others by its
\* id, which orders the export, and a badge by its number (revision.rs: "the
\* first new badge after reopen does not collide with an existing one").
NumberingIsDistinct ==
  /\ Distinct(annotations \cup ({draft} \ {NoAnnotation}))
  /\ \A i \in DOMAIN cards : Distinct(cards[i].scene)

\* A card's picture shows its scene once, over pixels nobody has drawn on,
\* however many revisions lie between, as long as its files can be read: only
\* a card of an old version, whose marks cannot be told from its pixels, is
\* painted over (ADR-0012: "applies existing marks twice").
MarksAreAppliedOnce ==
  \A i \in DOMAIN cards :
    LET card == cards[i]
    IN  card.source # NoSource =>
          /\ card.source \in {Bare, OldPicture}
          /\ card.png = FlattenAnnotations(card.source, card.scene)

\* ADR-0012: "Missing source or unsupported/missing scene falls back to the
\* flattened image with an empty editable scene.  This preserves existing
\* visible marks": a revision paints its scene over the picture the editor
\* showed it on, neither over the marks of that scene nor over pixels that
\* have lost the marks that were seen.
RevisionsPaintWhatIsShown ==
  [][CommitRevision => Top(cards').png = FlattenAnnotations(shown, annotations)]_vars

\* store.svelte.ts: a gesture "already owns one history entry"; what is on
\* the canvas can be taken back.
Loaded == IF at = "editor" THEN {Revision(found).scene : found \in Readings(opened)} ELSE {{}}
ChangesAreUndoable ==
  at # "closed" /\ transform = NoTransform /\ past = <<>> => annotations \in Loaded
================================================================================
