------------------------ MODULE AnnotationEditorProofs -------------------------
(***************************************************************************)
(* What holds of the annotation editor for every set of looks and tools,   *)
(* any number of ids, and a history of any depth.                          *)
(*                                                                         *)
(* Ids and numbers are distinct because each new one is taken above all    *)
(* those that can come back: those on the canvas, in the history, in the   *)
(* snapshot of a gesture and, for a card, in its scene.  That, and not     *)
(* distinctness, is what is inductive.                                     *)
(***************************************************************************)
EXTENDS AnnotationEditor, SequenceTheorems, TLAPS

--------------------------------------------------------------------------------
\* A scene whose ids and numbers are its own, and below the counters.
Sound(scene, n, m) ==
  /\ scene \subseteq Annotation /\ Distinct(scene)
  /\ \A a \in scene : a.id < n /\ a.number < m

Kept(stack, n, m) == \A i \in DOMAIN stack : Sound(stack[i].annotations, n, m)

Drafted == {draft} \ {NoAnnotation}

\* A scene and the draft next to it, which is in no scene yet.
Apart(scene) == /\ Sound(scene \cup Drafted, nextId, badgeCounter)
                /\ scene \cap Drafted = {}

CanvasOK == /\ Apart(annotations)
            /\ Kept(past, nextId, badgeCounter)
            /\ Kept(future, nextId, badgeCounter)
            /\ transform # NoTransform => Apart(transform.snapshot.annotations)

\* A card's counter is above its numbers; its picture shows its scene once
\* over pixels nobody drew on, or is the only thing an old card has, unless
\* files could not be read.
Numbered(card) == Distinct(card.scene) /\ \A a \in card.scene : a.number < card.counter
PaintedOnce(card) ==
  IF card.source = NoSource THEN card.png = OldPicture
  ELSE /\ card.source \in {Bare, OldPicture}
       /\ card.png = FlattenAnnotations(card.source, card.scene)
Painted(card) == FilesFail \/ PaintedOnce(card)
CardsOK == /\ \A i \in DOMAIN cards : Numbered(cards[i]) /\ Painted(cards[i])
           /\ Numbered(opened) /\ Painted(opened)

EditorInv == TypeOK /\ CanvasOK /\ CardsOK

--------------------------------------------------------------------------------
(* Scenes.                                                                 *)

\* Part of a sound scene is sound.
LEMMA SoundPart ==
  ASSUME NEW S, NEW T, NEW n, NEW m, Sound(T, n, m), S \subseteq T
  PROVE  Sound(S, n, m)
BY DEF Sound, Distinct

\* A scene stays below counters that have grown.
LEMMA SoundBelow ==
  ASSUME NEW S, NEW n \in Nat, NEW m \in Nat, NEW p \in Nat, NEW q \in Nat,
         n <= p, m <= q, Sound(S, n, m)
  PROVE  Sound(S, p, q)
<1>1. \A a \in S : a.id \in Nat /\ a.number \in Nat
  BY DEF Sound, Annotation
<1> QED BY <1>1 DEF Sound

\* There is nothing to tell apart in an empty scene.
LEMMA SoundEmpty == \A n, m : Sound({}, n, m)
BY DEF Sound, Distinct

\* What is drawn takes the next id, and no number or the next one.
LEMMA SoundDrawn ==
  ASSUME NEW S, NEW n \in Nat \ {0}, NEW m \in Nat \ {0}, NEW l \in Looks, Sound(S, n, m),
         NEW k \in {0, m}, NEW q \in Nat, m <= q, k < q
  PROVE  Sound(S \cup {[id |-> n, look |-> l, number |-> k]}, n + 1, q)
<1> DEFINE d == [id |-> n, look |-> l, number |-> k]
<1>1. d \in Annotation BY DEF Annotation
<1>2. \A a \in S : a.id \in Nat /\ a.number \in Nat /\ a.id < n /\ a.number < m
  BY DEF Sound, Annotation
<1>3. d.id = n /\ d.number = k OBVIOUS
<1> HIDE DEF d
<1>4. Distinct(S \cup {d})
  <2> SUFFICES ASSUME NEW a \in S \cup {d}, NEW b \in S \cup {d}, a # b
               PROVE  a.id # b.id /\ (a.number = b.number => a.number = 0)
    BY DEF Distinct
  <2>1. CASE a \in S /\ b \in S BY <2>1 DEF Sound, Distinct
  <2>2. CASE a \in S /\ b = d BY <2>2, <1>2, <1>3
  <2>3. CASE a = d /\ b \in S BY <2>3, <1>2, <1>3
  <2> QED BY <2>1, <2>2, <2>3
<1>5. \A a \in S \cup {d} : a.id < n + 1 /\ a.number < q
  BY <1>2, <1>3
<1> QED BY <1>1, <1>4, <1>5 DEF Sound, d

\* Annotations with another look.
Relooked(S, ids, l) == {IF a.id \in ids THEN [a EXCEPT !.look = l] ELSE a : a \in S}

\* A change of looks leaves the ids and numbers of a scene as they are.
LEMMA SoundRelooked ==
  ASSUME NEW S, NEW D, NEW n, NEW m, NEW ids, NEW l \in Looks,
         Sound(S \cup D, n, m), S \cap D = {}
  PROVE  Sound(Relooked(S, ids, l) \cup D, n, m) /\ Relooked(S, ids, l) \cap D = {}
<1> DEFINE g(a) == IF a.id \in ids THEN [a EXCEPT !.look = l] ELSE a
<1>1. \A a \in S : g(a) \in Annotation /\ g(a).id = a.id /\ g(a).number = a.number
  BY DEF Sound, Annotation
<1>2. Relooked(S, ids, l) = {g(a) : a \in S}
  BY DEF Relooked
<1> HIDE DEF g
<1>3. \A a \in Relooked(S, ids, l) \cup D :
        \E b \in S \cup D : /\ a.id = b.id /\ a.number = b.number /\ a \in Annotation
                            /\ (b \in S /\ a = g(b)) \/ (b \in D /\ a = b)
  BY <1>1, <1>2 DEF Sound
<1>4. Distinct(Relooked(S, ids, l) \cup D)
  <2> SUFFICES ASSUME NEW a \in Relooked(S, ids, l) \cup D, NEW b \in Relooked(S, ids, l) \cup D,
                      a # b
               PROVE  a.id # b.id /\ (a.number = b.number => a.number = 0)
    BY DEF Distinct
  <2>1. PICK c \in S \cup D : /\ a.id = c.id /\ a.number = c.number
                              /\ (c \in S /\ a = g(c)) \/ (c \in D /\ a = c)
    BY <1>3
  <2>2. PICK e \in S \cup D : /\ b.id = e.id /\ b.number = e.number
                              /\ (e \in S /\ b = g(e)) \/ (e \in D /\ b = e)
    BY <1>3
  <2>3. CASE c # e
    BY <2>1, <2>2, <2>3 DEF Sound, Distinct
  <2>4. CASE c = e
    BY <2>1, <2>2, <2>4
  <2> QED BY <2>3, <2>4
<1>5. \A a \in Relooked(S, ids, l) \cup D : a \in Annotation /\ a.id < n /\ a.number < m
  BY <1>3 DEF Sound
<1>6. Relooked(S, ids, l) \cap D = {}
  <2> SUFFICES ASSUME NEW a \in Relooked(S, ids, l), a \in D PROVE FALSE
    OBVIOUS
  <2>1. PICK c \in S : a = g(c) BY <1>2
  <2>2. c.id = a.id /\ c.number = a.number BY <1>1, <2>1
  <2>3. c # a OBVIOUS
  <2> QED BY <2>2, <2>3 DEF Sound, Distinct
<1> QED BY <1>4, <1>5, <1>6 DEF Sound

--------------------------------------------------------------------------------
(* Histories.                                                              *)

\* What is kept stays kept when the counters grow.
LEMMA KeptBelow ==
  ASSUME NEW h, NEW n \in Nat, NEW m \in Nat, NEW p \in Nat, NEW q \in Nat,
         n <= p, m <= q, Kept(h, n, m)
  PROVE  Kept(h, p, q)
BY SoundBelow DEF Kept

\* One snapshot more.
LEMMA KeptAppend ==
  ASSUME NEW h \in Seq(Snapshot), NEW n, NEW m, NEW s \in Snapshot,
         Kept(h, n, m), Sound(s.annotations, n, m)
  PROVE  /\ Append(h, s) \in Seq(Snapshot)
         /\ Kept(Append(h, s), n, m)
<1>1. \A i \in DOMAIN Append(h, s) : Append(h, s)[i] = s \/ (i \in DOMAIN h /\ Append(h, s)[i] = h[i])
  OBVIOUS
<1> QED BY <1>1 DEF Kept

\* The oldest snapshot less.
LEMMA KeptTail ==
  ASSUME NEW h \in Seq(Snapshot), NEW n, NEW m, Kept(h, n, m), h # <<>>
  PROVE  Tail(h) \in Seq(Snapshot) /\ Kept(Tail(h), n, m)
<1>1. \A i \in DOMAIN Tail(h) : i + 1 \in DOMAIN h /\ Tail(h)[i] = h[i + 1]
  OBVIOUS
<1> QED BY <1>1 DEF Kept

\* The latest snapshot less.
LEMMA KeptPop ==
  ASSUME NEW h \in Seq(Snapshot), NEW n, NEW m, Kept(h, n, m), h # <<>>
  PROVE  /\ Pop(h) \in Seq(Snapshot) /\ Kept(Pop(h), n, m)
         /\ Top(h) \in Snapshot /\ Sound(Top(h).annotations, n, m)
<1>1. Len(h) \in DOMAIN h OBVIOUS
<1>2. Pop(h) \in Seq(Snapshot) /\ \A i \in DOMAIN Pop(h) : i \in DOMAIN h /\ Pop(h)[i] = h[i]
  BY DEF Pop
<1> QED BY <1>1, <1>2 DEF Kept, Top

\* The snapshot of a canvas is of the canvas.
LEMMA SnapshotKept ==
  ASSUME TypeOK, CanvasOK
  PROVE  /\ SnapshotOf \in Snapshot /\ SnapshotOf.annotations = annotations
         /\ Sound(SnapshotOf.annotations, nextId, badgeCounter)
<1>1. SnapshotOf \in Snapshot /\ SnapshotOf.annotations = annotations
  BY DEF TypeOK, Snapshot, SnapshotOf
<1> QED BY <1>1, SoundPart DEF CanvasOK, Apart

\* What a change leaves on the history is what was, and what was there.
LEMMA Pushed ==
  ASSUME TypeOK, CanvasOK, PushHistory
  PROVE  /\ past' \in Seq(Snapshot) /\ Kept(past', nextId, badgeCounter)
         /\ future' \in Seq(Snapshot) /\ Kept(future', nextId, badgeCounter)
<1>1. past \in Seq(Snapshot) /\ Kept(past, nextId, badgeCounter)
  BY DEF TypeOK, CanvasOK
<1>4. future' \in Seq(Snapshot) /\ Kept(future', nextId, badgeCounter)
  BY DEF PushHistory, Kept
<1>s. SnapshotOf \in Snapshot /\ Sound(SnapshotOf.annotations, nextId, badgeCounter)
  BY SnapshotKept
<1>2. CASE Len(past) < MaxHistory
  <2>1. /\ Append(past, SnapshotOf) \in Seq(Snapshot)
        /\ Kept(Append(past, SnapshotOf), nextId, badgeCounter)
    BY <1>1, <1>s, KeptAppend
  <2>2. past' = Append(past, SnapshotOf) BY <1>2 DEF PushHistory
  <2> QED BY <2>1, <2>2, <1>4
<1>3. CASE ~(Len(past) < MaxHistory)
  <2>1. past # <<>> BY <1>1, <1>3, HistoryAssumption
  <2>2. Tail(past) \in Seq(Snapshot) /\ Kept(Tail(past), nextId, badgeCounter)
    BY <1>1, <2>1, KeptTail
  <2>3. /\ Append(Tail(past), SnapshotOf) \in Seq(Snapshot)
        /\ Kept(Append(Tail(past), SnapshotOf), nextId, badgeCounter)
    BY <2>2, <1>s, KeptAppend
  <2>4. past' = Append(Tail(past), SnapshotOf) BY <1>3 DEF PushHistory
  <2> QED BY <2>3, <2>4, <1>4
<1> QED BY <1>2, <1>3

--------------------------------------------------------------------------------
(* The canvas.                                                             *)

LEMMA ChangeRelooks ==
  ASSUME NEW ids, NEW l
  PROVE  Change(ids, LAMBDA a : [a EXCEPT !.look = l]) = Relooked(annotations, ids, l)
BY DEF Change, Relooked

\* A store that starts anew is sound.
LEMMA FreshCanvas == ASSUME Fresh PROVE CanvasOK'
<1>1. /\ annotations' = {} /\ past' = <<>> /\ future' = <<>>
      /\ draft' = NoAnnotation /\ transform' = NoTransform
  BY DEF Fresh
<1> QED BY <1>1, SoundEmpty DEF CanvasOK, Apart, Drafted, Kept

\* A step that leaves the draft, the gesture and the counters alone, records
\* itself on the history, and changes the annotations at most in their looks
\* or by taking some away.
LEMMA RecordedCanvas ==
  ASSUME TypeOK, CanvasOK, PushHistory, UNCHANGED <<draft, counters, transform>>,
         \/ annotations' \subseteq annotations
         \/ \E ids : \E l \in Looks : annotations' = Relooked(annotations, ids, l)
  PROVE  CanvasOK'
<1>1. /\ nextId' = nextId /\ badgeCounter' = badgeCounter /\ Drafted' = Drafted
      /\ transform' = transform
  BY DEF counters, Drafted
<1>2. Kept(past, nextId, badgeCounter)' /\ Kept(future, nextId, badgeCounter)'
  BY <1>1, Pushed
<1>3. Apart(annotations)'
  <2>1. CASE annotations' \subseteq annotations
    <3>1. annotations' \cup Drafted \subseteq annotations \cup Drafted BY <2>1
    <3> QED BY <3>1, <2>1, <1>1, SoundPart DEF CanvasOK, Apart
  <2>2. CASE \E ids : \E l \in Looks : annotations' = Relooked(annotations, ids, l)
    <3>1. PICK ids : \E l \in Looks : annotations' = Relooked(annotations, ids, l) BY <2>2
    <3>2. PICK l \in Looks : annotations' = Relooked(annotations, ids, l) BY <3>1
    <3> QED BY <3>2, <1>1, SoundRelooked DEF CanvasOK, Apart
  <2> QED BY <2>1, <2>2
<1>4. transform' # NoTransform => Apart(transform.snapshot.annotations)'
  BY <1>1 DEF CanvasOK, Apart
<1> QED BY <1>2, <1>3, <1>4 DEF CanvasOK

\* A step that changes nothing the soundness of the canvas is about.
LEMMA SameCanvas ==
  ASSUME CanvasOK, UNCHANGED <<annotations, draft, counters, history, transform>>
  PROVE  CanvasOK'
<1>1. /\ nextId' = nextId /\ badgeCounter' = badgeCounter /\ Drafted' = Drafted
      /\ transform' = transform /\ past' = past /\ future' = future /\ annotations' = annotations
  BY DEF counters, Drafted, history
<1> QED BY <1>1 DEF CanvasOK, Apart, Kept

\* Taking back and doing again exchange snapshots that are all sound.
LEMMA UndoneCanvas == ASSUME TypeOK, CanvasOK, Undo PROVE CanvasOK'
<1>1. /\ past \in Seq(Snapshot) /\ future \in Seq(Snapshot) /\ past # <<>>
      /\ Kept(past, nextId, badgeCounter) /\ Kept(future, nextId, badgeCounter)
  BY DEF TypeOK, CanvasOK, Undo
<1>2. /\ nextId' = nextId /\ badgeCounter' = badgeCounter /\ Drafted' = {} /\ transform' = transform
      /\ annotations' = Top(past).annotations /\ past' = Pop(past)
      /\ future' = Append(future, SnapshotOf)
  BY DEF Undo, RestoreSnapshot, counters, Drafted
<1>3. /\ Kept(Pop(past), nextId, badgeCounter)
      /\ Sound(Top(past).annotations, nextId, badgeCounter)
  BY <1>1, KeptPop
<1>4. Kept(Append(future, SnapshotOf), nextId, badgeCounter)
  BY <1>1, SnapshotKept, KeptAppend
<1>5. transform # NoTransform => Sound(transform.snapshot.annotations, nextId, badgeCounter)
  BY SoundPart DEF CanvasOK, Apart
<1> QED BY <1>2, <1>3, <1>4, <1>5 DEF CanvasOK, Apart

LEMMA RedoneCanvas == ASSUME TypeOK, CanvasOK, Redo PROVE CanvasOK'
<1>1. /\ past \in Seq(Snapshot) /\ future \in Seq(Snapshot) /\ future # <<>>
      /\ Kept(past, nextId, badgeCounter) /\ Kept(future, nextId, badgeCounter)
  BY DEF TypeOK, CanvasOK, Redo
<1>2. /\ nextId' = nextId /\ badgeCounter' = badgeCounter /\ Drafted' = {} /\ transform' = transform
      /\ annotations' = Top(future).annotations /\ future' = Pop(future)
      /\ past' = Append(past, SnapshotOf)
  BY DEF Redo, RestoreSnapshot, counters, Drafted
<1>3. /\ Kept(Pop(future), nextId, badgeCounter)
      /\ Sound(Top(future).annotations, nextId, badgeCounter)
  BY <1>1, KeptPop
<1>4. Kept(Append(past, SnapshotOf), nextId, badgeCounter)
  BY <1>1, SnapshotKept, KeptAppend
<1>5. transform # NoTransform => Sound(transform.snapshot.annotations, nextId, badgeCounter)
  BY SoundPart DEF CanvasOK, Apart
<1> QED BY <1>2, <1>3, <1>4, <1>5 DEF CanvasOK, Apart

\* A draft takes an id and a number above everything that can come back.
LEMMA DraftedCanvas == ASSUME TypeOK, CanvasOK, BeginDraft PROVE CanvasOK'
<1>1. PICK k, q : /\ k = IF tool = "badge" THEN badgeCounter ELSE 0
                  /\ q = IF tool = "badge" THEN badgeCounter + 1 ELSE badgeCounter
  OBVIOUS
<1>2. /\ nextId \in Nat \ {0} /\ badgeCounter \in Nat \ {0} /\ pen \in Looks
      /\ k \in {0, badgeCounter} /\ q \in Nat /\ badgeCounter <= q /\ k < q
  BY <1>1 DEF TypeOK
<1>3. PICK d : d = [id |-> nextId, look |-> pen, number |-> k]
  OBVIOUS
<1>4. /\ draft' = d /\ nextId' = nextId + 1 /\ badgeCounter' = q /\ Drafted' \subseteq {d}
      /\ annotations' = annotations /\ transform' = transform
      /\ past' = past /\ future' = future
  BY <1>1, <1>3 DEF BeginDraft, canvas, history, Drafted
<1>5. ASSUME NEW S, Sound(S, nextId, badgeCounter)
      PROVE  Sound(S \cup Drafted', nextId + 1, q) /\ S \cap Drafted' = {}
  <2>1. Sound(S \cup {d}, nextId + 1, q)
    BY <1>2, <1>3, <1>5, SoundDrawn
  <2>2. d \notin S
    BY <1>2, <1>3, <1>5 DEF Sound
  <2>3. S \cup Drafted' \subseteq S \cup {d} BY <1>4
  <2> QED BY <2>1, <2>2, <2>3, <1>4, SoundPart
<1>6. Sound(annotations, nextId, badgeCounter)
  BY SoundPart DEF CanvasOK, Apart
<1>7. transform # NoTransform => Sound(transform.snapshot.annotations, nextId, badgeCounter)
  BY SoundPart DEF CanvasOK, Apart
<1>8. Kept(past, nextId + 1, q) /\ Kept(future, nextId + 1, q)
  BY <1>2, KeptBelow DEF CanvasOK
<1> QED BY <1>4, <1>5, <1>6, <1>7, <1>8 DEF CanvasOK, Apart

\* The draft goes to the canvas.
LEMMA CommittedCanvas == ASSUME TypeOK, CanvasOK, CommitDraft PROVE CanvasOK'
<1>1. /\ nextId' = nextId /\ badgeCounter' = badgeCounter /\ Drafted' = {} /\ transform' = transform
      /\ annotations' = annotations \cup Drafted
  BY DEF CommitDraft, counters, Drafted
<1>2. Kept(past, nextId, badgeCounter)' /\ Kept(future, nextId, badgeCounter)'
  BY <1>1, Pushed DEF CommitDraft
<1>3. transform # NoTransform => Sound(transform.snapshot.annotations, nextId, badgeCounter)
  BY SoundPart DEF CanvasOK, Apart
<1> QED BY <1>1, <1>2, <1>3 DEF CanvasOK, Apart

LEMMA CancelledCanvas == ASSUME CanvasOK, CancelDraft PROVE CanvasOK'
<1>1. /\ nextId' = nextId /\ badgeCounter' = badgeCounter /\ Drafted' = {} /\ transform' = transform
      /\ annotations' = annotations /\ past' = past /\ future' = future
  BY DEF CancelDraft, canvas, counters, history, Drafted
<1>2. /\ transform # NoTransform => Sound(transform.snapshot.annotations, nextId, badgeCounter)
      /\ Sound(annotations, nextId, badgeCounter)
  BY SoundPart DEF CanvasOK, Apart
<1> QED BY <1>1, <1>2 DEF CanvasOK, Apart

\* The snapshot of a gesture is of the canvas it starts from.
LEMMA BegunCanvas ==
  ASSUME TypeOK, CanvasOK, NEW ids, BeginTransform(ids)
  PROVE  CanvasOK'
<1>1. /\ nextId' = nextId /\ badgeCounter' = badgeCounter /\ Drafted' = Drafted
      /\ transform' = [ids |-> ids, snapshot |-> SnapshotOf] /\ annotations' = annotations
  BY DEF BeginTransform, canvas, counters, Drafted
<1>2. transform'.snapshot.annotations = annotations
  BY <1>1, SnapshotKept
<1>3. Kept(past, nextId, badgeCounter)' /\ Kept(future, nextId, badgeCounter)'
  BY <1>1, Pushed DEF BeginTransform
<1> QED BY <1>1, <1>2, <1>3 DEF CanvasOK, Apart

LEMMA MovedCanvas ==
  ASSUME CanvasOK, NEW look \in Looks, UpdateTransform(look)
  PROVE  CanvasOK'
<1>1. /\ nextId' = nextId /\ badgeCounter' = badgeCounter /\ Drafted' = Drafted
      /\ transform' = transform /\ past' = past /\ future' = future
      /\ annotations' = Relooked(annotations, transform.ids, look)
  BY ChangeRelooks DEF UpdateTransform, counters, history, Drafted
<1>2. Apart(annotations)'
  BY <1>1, SoundRelooked DEF CanvasOK, Apart
<1> QED BY <1>1, <1>2 DEF CanvasOK, Apart

LEMMA EndedCanvas ==
  ASSUME CanvasOK, EndTransform
  PROVE  CanvasOK'
<1>1. /\ nextId' = nextId /\ badgeCounter' = badgeCounter /\ Drafted' = Drafted
      /\ transform' = NoTransform /\ past' = past /\ future' = future
      /\ annotations' = annotations
  BY DEF EndTransform, canvas, counters, history, Drafted
<1> QED BY <1>1 DEF CanvasOK, Apart

LEMMA EscapedCanvas ==
  ASSUME TypeOK, CanvasOK, CancelTransform
  PROVE  CanvasOK'
<1>1. /\ nextId' = nextId /\ badgeCounter' = badgeCounter /\ Drafted' = Drafted
      /\ transform' = NoTransform /\ transform # NoTransform /\ future' = future
      /\ annotations' = transform.snapshot.annotations
      /\ past' = IF past = <<>> THEN past ELSE Pop(past)
  BY DEF CancelTransform, RestoreSnapshot, counters, Drafted
<1>2. Kept(past', nextId, badgeCounter)
  BY <1>1, KeptPop DEF CanvasOK, TypeOK
<1> QED BY <1>1, <1>2 DEF CanvasOK, Apart

LEMMA RecroppedCanvas == ASSUME CanvasOK, ClearForRecrop PROVE CanvasOK'
<1>1. /\ annotations' = {} /\ past' = <<>> /\ future' = <<>> /\ transform' = NoTransform
      /\ Drafted' = {}
  BY DEF ClearForRecrop, Drafted
<1> QED BY <1>1, SoundEmpty DEF CanvasOK, Apart, Kept

\* Whatever a look at a card's files finds has the card's scene or none.
LEMMA ReadNumbered ==
  ASSUME NEW card \in Card, Numbered(card), NEW found \in Readings(card)
  PROVE  found \in Card /\ Numbered(found)
<1>1. [card EXCEPT !.source = NoSource] \in Card BY DEF Card
<1>2. /\ [card EXCEPT !.source = NoSource].scene = card.scene
      /\ [card EXCEPT !.source = NoSource].counter = card.counter
  BY DEF Card
<1> QED BY <1>1, <1>2 DEF Readings, Numbered

\* A card that is opened again goes on above what it holds.
LEMMA OpenedCanvas ==
  ASSUME NEW card \in Card, Numbered(card), OpenRevision(card)
  PROVE  CanvasOK'
<1>0. PICK found \in Readings(card) :
        /\ annotations' = Revision(found).scene /\ badgeCounter' = Revision(found).counter
        /\ \E n \in 1..(MaxId + 1) : NextId(Revision(found).scene, n) /\ nextId' = n
  BY DEF OpenRevision
<1>f. found \in Card /\ Numbered(found) BY ReadNumbered
<1>1. PICK scene, m : scene = Revision(found).scene /\ m = Revision(found).counter
  OBVIOUS
<1>2. scene \subseteq Annotation /\ Distinct(scene) /\ \A a \in scene : a.number < m
  <2>1. CASE found.source = NoSource
    BY <2>1, <1>1 DEF Revision, Empty, Distinct
  <2>2. CASE found.source # NoSource
    <3>1. scene = {a \in found.scene : a.id # 0} /\ m = found.counter
      BY <2>2, <1>1, <1>f DEF Revision, Sanitize, Card
    <3> QED BY <3>1, <1>f DEF Numbered, Distinct, Card
  <2> QED BY <2>1, <2>2
<1>3. /\ annotations' = scene /\ badgeCounter' = m /\ Drafted' = {} /\ past' = <<>> /\ future' = <<>>
      /\ transform' = NoTransform /\ NextId(scene, nextId')
  BY <1>0, <1>1 DEF OpenRevision, Drafted
<1>4. \A a \in scene : a.id < nextId'
  BY <1>3 DEF NextId
<1> QED BY <1>2, <1>3, <1>4 DEF CanvasOK, Apart, Kept, Sound

LEMMA CanvasStep == ASSUME EditorInv, [Next]_vars PROVE CanvasOK'
<1> USE DEF EditorInv
<1>1. CASE UNCHANGED vars BY <1>1, SameCanvas DEF vars, canvas
<1>2. CASE \E t \in Tools : SetTool(t)
  BY <1>2, RecordedCanvas DEF SetTool
<1>3. CASE Undo BY <1>3, UndoneCanvas
<1>4. CASE Redo BY <1>4, RedoneCanvas
<1>5. CASE SelectAll BY <1>5, RecordedCanvas DEF SelectAll
<1>6. CASE ClearSelection BY <1>6, SameCanvas DEF ClearSelection
<1>7. CASE DeleteSelection
  <2>1. annotations' \subseteq annotations BY <1>7 DEF DeleteSelection
  <2> QED BY <1>7, <2>1, RecordedCanvas DEF DeleteSelection
<1>8. CASE CancelDraft BY <1>8, CancelledCanvas
<1>9. CASE CancelTransform BY <1>9, EscapedCanvas
<1>10. CASE ClearForRecrop BY <1>10, RecroppedCanvas
<1>11. CASE \E look \in Looks : Restack(look)
  <2>1. PICK look \in Looks : Restack(look) BY <1>11
  <2>2. annotations' = Relooked(annotations, selection, look) BY <2>1, ChangeRelooks DEF Restack
  <2> QED BY <2>1, <2>2, RecordedCanvas DEF Restack
<1>12. CASE BeginDraft BY <1>12, DraftedCanvas
<1>13. CASE CommitDraft BY <1>13, CommittedCanvas
<1>14. CASE \E a \in annotations : SelectOnly(a)
  <2>1. PICK a \in annotations : SelectOnly(a) BY <1>14
  <2>2. CASE tool = "select"
    BY <2>1, <2>2, SameCanvas DEF SelectOnly
  <2>3. CASE tool # "select"
    BY <2>1, <2>3, RecordedCanvas DEF SelectOnly
  <2> QED BY <2>2, <2>3
<1>15. CASE \E hit \in SUBSET annotations : SelectMore(hit)
  BY <1>15, SameCanvas DEF SelectMore
<1>16. CASE \E look \in Looks : Restyle(look)
  <2>1. PICK look \in Looks : Restyle(look) BY <1>16
  <2>2. annotations' = annotations \/ annotations' = Relooked(annotations, selection, look)
    BY <2>1, ChangeRelooks DEF Restyle
  <2> QED BY <2>1, <2>2, RecordedCanvas DEF Restyle
<1>17. CASE \E look \in Looks : UpdateTransform(look) BY <1>17, MovedCanvas
<1>18. CASE \E ids \in SUBSET selection : BeginTransform(ids) BY <1>18, BegunCanvas
<1>19. CASE EndTransform BY <1>19, EndedCanvas
<1>27. CASE DragCropAnew BY <1>27, SameCanvas DEF DragCropAnew
<1>20. CASE StartCapture BY <1>20, FreshCanvas DEF StartCapture
<1>21. CASE DrawCrop BY <1>21, SameCanvas DEF DrawCrop, canvas
<1>22. CASE CommitToShelf BY <1>22, FreshCanvas DEF CommitToShelf
<1>23. CASE LeaveOverlay
  BY <1>23, FreshCanvas, SameCanvas DEF LeaveOverlay, canvas
<1>24. CASE \E i \in DOMAIN cards : OpenRevision(cards[i])
  <2>1. PICK i \in DOMAIN cards : OpenRevision(cards[i]) BY <1>24
  <2>2. cards[i] \in Card /\ Numbered(cards[i]) BY DEF TypeOK, CardsOK
  <2> QED BY <2>1, <2>2, OpenedCanvas
<1>25. CASE CommitRevision BY <1>25, FreshCanvas DEF CommitRevision
<1>26. CASE CancelRevision BY <1>26, FreshCanvas DEF CancelRevision
<1> QED BY <1>1, <1>2, <1>3, <1>4, <1>5, <1>6, <1>7, <1>8, <1>9, <1>10, <1>11, <1>12, <1>13,
           <1>14, <1>15, <1>16, <1>17, <1>18, <1>19, <1>20, <1>21, <1>22, <1>23, <1>24, <1>25, <1>26, <1>27
        DEF Next, Keys, Pointer, Sessions

--------------------------------------------------------------------------------
(* The cards.                                                              *)

\* One card more.
LEMMA CardAdded ==
  ASSUME TypeOK, CardsOK, NEW card \in Card, Numbered(card), Painted(card),
         cards' = Append(cards, card), UNCHANGED opened
  PROVE  CardsOK' /\ cards' \in Seq(Card)
<1>1. cards \in Seq(Card) BY DEF TypeOK
<1>2. \A i \in DOMAIN Append(cards, card) :
        \/ Append(cards, card)[i] = card
        \/ i \in DOMAIN cards /\ Append(cards, card)[i] = cards[i]
  BY <1>1
<1>3. \A i \in DOMAIN cards' : Numbered(cards'[i]) /\ Painted(cards'[i])
  BY <1>2 DEF CardsOK
<1>4. \A i \in DOMAIN cards' : Numbered(cards[i])' /\ Painted(cards[i])'
  BY <1>3 DEF Numbered, Painted, PaintedOnce
<1>5. Numbered(opened)' /\ Painted(opened)'
  BY DEF CardsOK, Numbered, Painted, PaintedOnce
<1> QED BY <1>1, <1>4, <1>5 DEF CardsOK

LEMMA Flattened ==
  ASSUME NEW f \in Framebuffer, NEW scene \in SUBSET Annotation
  PROVE  FlattenAnnotations(f, scene) \in Framebuffer
BY DEF FlattenAnnotations, Framebuffer

\* A commit counts on from the largest number on the canvas, and keeps the
\* bare crop.
LEMMA CardCommitted ==
  ASSUME EditorInv, CommitToShelf
  PROVE  CardsOK' /\ cards' \in Seq(Card)
<1>1. PICK n \in 1..(MaxId + 1) :
        /\ NextNumber(annotations, n)
        /\ cards' = Append(cards, [Empty EXCEPT !.png = FlattenAnnotations(Bare, annotations),
                                                !.scene = annotations, !.counter = n])
  BY DEF CommitToShelf
<1>2. PICK card : card = [Empty EXCEPT !.png = FlattenAnnotations(Bare, annotations),
                                       !.scene = annotations, !.counter = n]
  OBVIOUS
<1>3. /\ card.png = FlattenAnnotations(Bare, annotations) /\ card.source = Bare
      /\ card.scene = annotations /\ card.counter = n
      /\ card = [png |-> card.png, source |-> Bare, scene |-> annotations, counter |-> n,
                 tool |-> "select", pen |-> DefaultLook]
  BY <1>2 DEF Empty
<1>4. card \in Card
  <2>b. Bare \in Framebuffer BY DEF Bare, Framebuffer
  <2>c. annotations \in SUBSET Annotation BY DEF EditorInv, TypeOK
  <2>1. card.png \in Framebuffer BY <1>3, <2>b, <2>c, Flattened
  <2>2. n \in Nat \ {0} BY BoundAssumption
  <2> QED BY <1>3, <2>b, <2>c, <2>1, <2>2, LooksAssumption DEF Card, Tools
<1>5. Numbered(card)
  BY <1>1, <1>3, SoundPart DEF Numbered, NextNumber, EditorInv, CanvasOK, Apart, Sound, Distinct
<1>6. Painted(card)
  BY <1>3, SourceAssumption DEF Painted, PaintedOnce
<1> QED BY <1>1, <1>2, <1>4, <1>5, <1>6, CardAdded DEF EditorInv, CommitToShelf

\* A revision counts on from where the editor is, and keeps the pixels it
\* painted over.
LEMMA CardRevised ==
  ASSUME EditorInv, CommitRevision
  PROVE  CardsOK' /\ cards' \in Seq(Card)
<1>1. PICK found \in Readings(opened) : cards' = Append(cards, Revised(found))
  BY DEF CommitRevision
<1>2. PICK source : source = RevisionSource(found)
  OBVIOUS
<1>3. PICK card : card = [png |-> FlattenAnnotations(source, annotations), source |-> source,
                          scene |-> annotations, counter |-> badgeCounter, tool |-> tool, pen |-> pen]
  OBVIOUS
<1>4. cards' = Append(cards, card) BY <1>1, <1>2, <1>3 DEF Revised
<1>5. opened \in Card /\ Painted(opened) /\ found \in Card
  BY ReadNumbered DEF EditorInv, TypeOK, CardsOK
<1>6. source \in Framebuffer
  BY <1>2, <1>5 DEF Card, RevisionSource
<1>7. card \in Card
  BY <1>3, <1>6, Flattened DEF EditorInv, TypeOK, Card
<1>8. Numbered(card)
  BY <1>3, SoundPart DEF Numbered, EditorInv, CanvasOK, Apart, Sound, Distinct
<1>9. Painted(card)
  <2>1. CASE FilesFail BY <2>1 DEF Painted
  <2>2. CASE ~FilesFail
    <3>1. found = opened /\ PaintedOnce(opened) BY <2>2, <1>5 DEF Readings, Painted
    <3>2. source \in {Bare, OldPicture}
      BY <3>1, <1>2 DEF PaintedOnce, RevisionSource
    <3> QED BY <3>2, <1>3, SourceAssumption DEF Painted, PaintedOnce
  <2> QED BY <2>1, <2>2
<1> QED BY <1>4, <1>7, <1>8, <1>9, CardAdded DEF EditorInv, CommitRevision

LEMMA CardsStep == ASSUME EditorInv, [Next]_vars PROVE CardsOK'
<1>1. CASE CommitToShelf BY <1>1, CardCommitted
<1>2. CASE CommitRevision BY <1>2, CardRevised
<1>3. CASE \E i \in DOMAIN cards : OpenRevision(cards[i])
  BY <1>3 DEF OpenRevision, EditorInv, CardsOK, Numbered, Painted, PaintedOnce
<1>4. CASE UNCHANGED <<opened, cards>>
  BY <1>4 DEF EditorInv, CardsOK, Numbered, Painted, PaintedOnce
<1>5. CASE UNCHANGED vars \/ Keys
  BY <1>4, <1>5 DEF vars, Keys, place, SetTool, Undo, Redo, SelectAll, ClearSelection,
                    DeleteSelection, CancelDraft, CancelTransform, ClearForRecrop, Restack
<1>6. CASE Pointer
  BY <1>4, <1>6 DEF Pointer, place, BeginDraft, CommitDraft, SelectOnly, SelectMore, Restyle,
                    UpdateTransform, BeginTransform, EndTransform, DragCropAnew
<1>7. CASE StartCapture \/ DrawCrop \/ LeaveOverlay \/ CancelRevision
  BY <1>4, <1>7 DEF StartCapture, DrawCrop, LeaveOverlay, CancelRevision
<1> QED BY <1>1, <1>2, <1>3, <1>5, <1>6, <1>7 DEF Next, Sessions

--------------------------------------------------------------------------------
(* Types.                                                                  *)

\* The canvas step has shown what the annotations are.
LEMMA AnnotationTypes == ASSUME CanvasOK' PROVE annotations' \subseteq Annotation
BY DEF CanvasOK, Apart, Sound

LEMMA FreshTypes ==
  ASSUME EditorInv, Fresh, at' \in {"closed", "stage"}, opened' \in Card, shown' \in Framebuffer, cards' \in Seq(Card)
  PROVE  TypeOK'
<1>1. /\ annotations' = {} /\ draft' = NoAnnotation /\ nextId' = 1 /\ badgeCounter' = 1
      /\ tool' \in Tools /\ pen' \in Looks /\ selection' = {}
      /\ transform' = NoTransform
  BY LooksAssumption DEF Fresh, Tools
<1>2. past' \in Seq(Snapshot) /\ future' \in Seq(Snapshot)
  BY DEF Fresh
<1> QED BY <1>1, <1>2 DEF TypeOK

\* A snapshot of the canvas restores a canvas.
LEMMA RestoredTypes ==
  ASSUME NEW s \in Snapshot, RestoreSnapshot(s)
  PROVE  tool' \in Tools /\ pen' \in Looks /\ selection' \subseteq Nat
BY DEF RestoreSnapshot, Snapshot

LEMMA IdsOfAnnotations ==
  ASSUME TypeOK, NEW S, S \subseteq annotations
  PROVE  {a.id : a \in S} \subseteq Nat
BY DEF TypeOK, Annotation

LEMMA KeysTypes == ASSUME EditorInv, CanvasOK', Keys PROVE TypeOK'
<1> USE DEF EditorInv
<1>a. annotations' \subseteq Annotation BY AnnotationTypes
<1>p. PushHistory => past' \in Seq(Snapshot) /\ future' \in Seq(Snapshot) BY Pushed
<1>s. SnapshotOf \in Snapshot BY SnapshotKept
<1> USE <1>a
<1>1. CASE \E t \in Tools : SetTool(t)
  BY <1>1, <1>p DEF SetTool, TypeOK, counters, place
<1>2. CASE Undo
  <2>1. past # <<>> /\ past \in Seq(Snapshot) /\ future \in Seq(Snapshot) BY <1>2 DEF Undo, TypeOK
  <2>2. past' \in Seq(Snapshot) /\ Top(past) \in Snapshot
    BY <1>2, <2>1, KeptPop DEF Undo, CanvasOK
  <2>3. future' \in Seq(Snapshot) BY <1>2, <2>1, <1>s DEF Undo
  <2>4. tool' \in Tools /\ pen' \in Looks /\ selection' \subseteq Nat
    BY <1>2, <2>2, RestoredTypes DEF Undo
  <2> QED BY <1>2, <2>2, <2>3, <2>4 DEF Undo, TypeOK, counters, place
<1>3. CASE Redo
  <2>1. future # <<>> /\ past \in Seq(Snapshot) /\ future \in Seq(Snapshot) BY <1>3 DEF Redo, TypeOK
  <2>2. future' \in Seq(Snapshot) /\ Top(future) \in Snapshot
    BY <1>3, <2>1, KeptPop DEF Redo, CanvasOK
  <2>3. past' \in Seq(Snapshot) BY <1>3, <2>1, <1>s DEF Redo
  <2>4. tool' \in Tools /\ pen' \in Looks /\ selection' \subseteq Nat
    BY <1>3, <2>2, RestoredTypes DEF Redo
  <2> QED BY <1>3, <2>2, <2>3, <2>4 DEF Redo, TypeOK, counters, place
<1>4. CASE SelectAll
  BY <1>4, <1>p, IdsOfAnnotations DEF SelectAll, TypeOK, counters, place
<1>5. CASE ClearSelection
  BY <1>5 DEF ClearSelection, TypeOK, counters, history, place
<1>6. CASE DeleteSelection
  BY <1>6, <1>p DEF DeleteSelection, TypeOK, counters, place
<1>7. CASE CancelDraft
  BY <1>7 DEF CancelDraft, TypeOK, canvas, counters, history, place
<1>8. CASE CancelTransform
  <2>1. transform.snapshot \in Snapshot BY <1>8 DEF CancelTransform, TypeOK
  <2>2. tool' \in Tools /\ pen' \in Looks /\ selection' \subseteq Nat
    BY <1>8, <2>1, RestoredTypes DEF CancelTransform
  <2>3. past' \in Seq(Snapshot)
    BY <1>8, KeptPop DEF CancelTransform, TypeOK, CanvasOK
  <2> QED BY <1>8, <2>2, <2>3 DEF CancelTransform, TypeOK, counters, place
<1>9. CASE ClearForRecrop
  <2>1. past' \in Seq(Snapshot) /\ future' \in Seq(Snapshot) /\ badgeCounter' \in Nat \ {0}
    BY <1>9 DEF ClearForRecrop
  <2> QED BY <1>9, <2>1 DEF ClearForRecrop, TypeOK
<1>10. CASE \E look \in Looks : Restack(look)
  BY <1>10, <1>p DEF Restack, TypeOK, counters, place
<1> QED BY <1>1, <1>2, <1>3, <1>4, <1>5, <1>6, <1>7, <1>8, <1>9, <1>10 DEF Keys

LEMMA PointerTypes == ASSUME EditorInv, CanvasOK', Pointer PROVE TypeOK'
<1> USE DEF EditorInv
<1>a. annotations' \subseteq Annotation BY AnnotationTypes
<1>p. PushHistory => past' \in Seq(Snapshot) /\ future' \in Seq(Snapshot) BY Pushed
<1>s. SnapshotOf \in Snapshot BY SnapshotKept
<1> USE <1>a
<1>1. CASE BeginDraft
  <2>1. draft' \in Annotation /\ nextId' \in Nat \ {0} /\ badgeCounter' \in Nat \ {0}
    BY <1>1 DEF BeginDraft, TypeOK, Annotation
  <2> QED BY <1>1, <2>1 DEF BeginDraft, TypeOK, canvas, history, place
<1>2. CASE CommitDraft
  BY <1>2, <1>p DEF CommitDraft, TypeOK, counters, place
<1>3. CASE \E a \in annotations : SelectOnly(a)
  <2>1. PICK a \in annotations : SelectOnly(a) BY <1>3
  <2>2. a.id \in Nat BY DEF TypeOK, Annotation
  <2>3. past' \in Seq(Snapshot) /\ future' \in Seq(Snapshot) /\ tool' \in Tools
    BY <2>1, <1>p DEF SelectOnly, history, TypeOK, Tools
  <2> QED BY <2>1, <2>2, <2>3 DEF SelectOnly, TypeOK, counters, place
<1>4. CASE \E hit \in SUBSET annotations : SelectMore(hit)
  BY <1>4, IdsOfAnnotations DEF SelectMore, TypeOK, counters, history, place
<1>5. CASE \E look \in Looks : Restyle(look)
  BY <1>5, <1>p DEF Restyle, TypeOK, counters, place
<1>6. CASE \E look \in Looks : UpdateTransform(look)
  BY <1>6 DEF UpdateTransform, TypeOK, counters, history, place
<1>7. CASE \E ids \in SUBSET selection : BeginTransform(ids)
  <2>1. PICK ids \in SUBSET selection : BeginTransform(ids) BY <1>7
  <2>2. transform' \in [ids : SUBSET Nat, snapshot : Snapshot]
    BY <2>1, <1>s DEF BeginTransform, TypeOK
  <2> QED BY <2>1, <2>2, <1>p DEF BeginTransform, TypeOK, canvas, counters, place
<1>8. CASE EndTransform
  BY <1>8 DEF EndTransform, TypeOK, canvas, counters, history, place
<1>9. CASE DragCropAnew
  BY <1>9 DEF DragCropAnew, TypeOK, counters, history
<1> QED BY <1>1, <1>2, <1>3, <1>4, <1>5, <1>6, <1>7, <1>8, <1>9 DEF Pointer

LEMMA SessionsTypes == ASSUME EditorInv, CanvasOK', Sessions PROVE TypeOK'
<1> USE DEF EditorInv
<1>o. opened \in Card /\ shown \in Framebuffer /\ cards \in Seq(Card) BY DEF TypeOK
<1>1. CASE StartCapture BY <1>1, <1>o, FreshTypes DEF StartCapture
<1>2. CASE DrawCrop BY <1>2 DEF DrawCrop, TypeOK, canvas, counters, history
<1>3. CASE CommitToShelf
  BY <1>3, <1>o, FreshTypes, CardCommitted DEF CommitToShelf
<1>4. CASE LeaveOverlay
  <2>1. CASE Fresh BY <1>4, <2>1, <1>o, FreshTypes DEF LeaveOverlay
  <2>2. CASE UNCHANGED <<canvas, draft, counters, history, transform>>
    BY <1>4, <2>2 DEF LeaveOverlay, TypeOK, canvas, counters, history
  <2> QED BY <1>4, <2>1, <2>2 DEF LeaveOverlay
<1>5. CASE \E i \in DOMAIN cards : OpenRevision(cards[i])
  <2>1. PICK i \in DOMAIN cards : OpenRevision(cards[i]) BY <1>5
  <2>2. PICK card \in Card : card = cards[i] BY <1>o
  <2>3. Numbered(card) BY <2>2 DEF CardsOK
  <2>4. PICK found \in Readings(card) :
          /\ shown' = RevisionSource(found)
          /\ badgeCounter' = Revision(found).counter
          /\ tool' = Revision(found).tool /\ pen' = Revision(found).pen
          /\ \E n \in 1..(MaxId + 1) : nextId' = n
    BY <2>1, <2>2 DEF OpenRevision
  <2>5. found \in Card BY <2>3, ReadNumbered
  <2>6. /\ Revision(found).counter \in Nat \ {0} /\ Revision(found).tool \in Tools
        /\ Revision(found).pen \in Looks
    BY <2>5, LooksAssumption DEF Revision, Sanitize, Empty, Card, Tools
  <2>7. shown' \in Framebuffer BY <2>4, <2>5 DEF RevisionSource, Card
  <2>8. nextId' \in Nat \ {0} BY <2>4, BoundAssumption
  <2>9. past' \in Seq(Snapshot) /\ future' \in Seq(Snapshot) BY <2>1 DEF OpenRevision
  <2>10. annotations' \subseteq Annotation BY AnnotationTypes
  <2> QED BY <1>o, <2>1, <2>2, <2>4, <2>6, <2>7, <2>8, <2>9, <2>10 DEF OpenRevision, TypeOK
<1>6. CASE CommitRevision
  BY <1>6, <1>o, FreshTypes, CardRevised DEF CommitRevision
<1>7. CASE CancelRevision BY <1>7, <1>o, FreshTypes DEF CancelRevision
<1> QED BY <1>1, <1>2, <1>3, <1>4, <1>5, <1>6, <1>7 DEF Sessions

LEMMA TypeStep == ASSUME EditorInv, [Next]_vars, CanvasOK' PROVE TypeOK'
<1>1. CASE UNCHANGED vars
  BY <1>1 DEF EditorInv, TypeOK, vars, canvas, counters, history, place
<1> QED BY <1>1, KeysTypes, PointerTypes, SessionsTypes DEF Next

--------------------------------------------------------------------------------
(* The theorems.                                                           *)

LEMMA EditorInit == Init => EditorInv
<1> SUFFICES ASSUME Init PROVE EditorInv OBVIOUS
<1>1. Bare \in Framebuffer /\ OldPicture \in Framebuffer
  BY DEF Bare, OldPicture, Framebuffer
<1>e. Empty \in Card /\ Empty.scene = {}
  BY <1>1, LooksAssumption DEF Empty, Card, Tools
<1>2. OldCard \in Card
  <2>1. PICK e \in Card : e = Empty BY <1>e
  <2>2. [e EXCEPT !.png = OldPicture, !.source = NoSource] \in Card
    BY <1>1 DEF Card
  <2> QED BY <2>1, <2>2 DEF OldCard
<1>3. Numbered(OldCard) /\ Painted(OldCard)
  <2>1. /\ OldCard.png = OldPicture /\ OldCard.source = NoSource /\ OldCard.scene = {}
    BY DEF OldCard, Empty
  <2> QED BY <2>1 DEF Numbered, Painted, PaintedOnce, Distinct
<1>4. cards \in Seq(Card) /\ \A i \in DOMAIN cards : cards[i] = OldCard
  <2>1. CASE cards = <<>> BY <2>1
  <2>2. CASE cards = <<OldCard>> BY <2>2, <1>2
  <2> QED BY <2>1, <2>2 DEF Init
<1>5. CardsOK
  BY <1>3, <1>4 DEF Init, CardsOK
<1>6. CanvasOK
  <2>1. /\ annotations = {} /\ past = <<>> /\ future = <<>> /\ Drafted = {}
        /\ transform = NoTransform
    BY DEF Init, Drafted
  <2> QED BY <2>1, SoundEmpty DEF CanvasOK, Apart, Kept
<1>7. past \in Seq(Snapshot) /\ future \in Seq(Snapshot)
  BY DEF Init
<1>8. TypeOK
  BY <1>1, <1>2, <1>4, <1>7, LooksAssumption DEF Init, TypeOK, Tools
<1> QED BY <1>5, <1>6, <1>8 DEF EditorInv

\* What comes back - undone, escaped or reopened - is below the counters,
\* and a card's picture is its scene over pixels nobody drew on, where files
\* can be read.
THEOREM EditorInvariance == Spec => []EditorInv
<1>1. EditorInv /\ [Next]_vars => EditorInv'
  BY CanvasStep, CardsStep, TypeStep DEF EditorInv
<1> QED BY EditorInit, <1>1, PTL DEF Spec

\* Type correctness: the histories and the cards hold canvases the store can
\* be in.
THEOREM EditorTypes == Spec => []TypeOK
<1>1. EditorInv => TypeOK BY DEF EditorInv
<1> QED BY EditorInvariance, <1>1, PTL

\* However an annotation was undone, redone, dragged, deleted or reopened,
\* no two on the canvas or in a card share an id, and no two badges a number.
THEOREM IdsAndNumbersAreDistinct == Spec => []NumberingIsDistinct
<1>1. EditorInv => NumberingIsDistinct
  BY DEF EditorInv, CanvasOK, CardsOK, Apart, Drafted, Sound, Numbered, NumberingIsDistinct
<1> QED BY EditorInvariance, <1>1, PTL

\* As long as a card's files can be read, a card shows each mark once, however
\* many revisions lie between.
THEOREM MarksAreNotPaintedTwice == ASSUME ~FilesFail PROVE Spec => []MarksAreAppliedOnce
<1>1. EditorInv => MarksAreAppliedOnce
  BY DEF EditorInv, CardsOK, Painted, PaintedOnce, MarksAreAppliedOnce
<1> QED BY EditorInvariance, <1>1, PTL
================================================================================
