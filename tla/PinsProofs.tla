------------------------------ MODULE PinsProofs -------------------------------
(***************************************************************************)
(* Proofs about Pins, for every set of captures, ids, layouts and places   *)
(* and every limit: the types, a zoom and an opacity staying within their  *)
(* bounds among them; that a pin keeps a window; and that the cache's      *)
(* guards are the open pins.                                               *)
(*                                                                         *)
(* The inductive invariant is that all three hold, that an id not given    *)
(* out yet has no pin, and that the pin whose window is being made is      *)
(* still there.                                                            *)
(***************************************************************************)
EXTENDS Pins, FiniteSetTheorems, TLAPS

--------------------------------------------------------------------------------
\* Geometry.
LEMMA MaxIntIsNat == MaxInt \in Nat \ {0}
BY MaxIntAssumption

LEMMA ClampIsWithin ==
  ASSUME NEW n \in Int, NEW low \in Int, NEW high \in Int, low <= high
  PROVE  ClampTo(n, low, high) \in low..high
BY DEF ClampTo, Larger, Smaller

LEMMA RoundDivIsInt ==
  ASSUME NEW n \in Int, NEW d \in Nat \ {0}
  PROVE  RoundDiv(n, d) \in Int
BY DEF RoundDiv

LEMMA SaturateIsInt32 ==
  ASSUME NEW n \in Int
  PROVE  Saturate(n) \in Int32
<1>1. MinInt \in Int /\ MaxInt \in Int /\ MinInt <= MaxInt
  BY MaxIntIsNat DEF MinInt
<1> QED BY <1>1, ClampIsWithin DEF Saturate, Int32

LEMMA WrapIsInt ==
  ASSUME NEW n \in Int
  PROVE  Wrap(n) \in Int
<1>1. 2 * MaxInt + 2 \in Nat \ {0} /\ n + MaxInt + 1 \in Int
  BY MaxIntIsNat
<1>2. (n + MaxInt + 1) % (2 * MaxInt + 2) \in Int
  BY <1>1
<1> QED BY <1>2, MaxIntIsNat DEF Wrap

\* Its extent is a pixel at least.
LEMMA ScaledIsExtent ==
  ASSUME NEW extent \in Int, NEW zoom \in Int
  PROVE  Scaled(extent, zoom) \in Nat \ {0}
<1>1. ClampZoom(zoom) \in Int
  BY ClampIsWithin DEF ClampZoom, MinZoom, MaxZoom
<1>2. RoundDiv(extent * ClampZoom(zoom), DefaultZoom) \in Int
  BY <1>1, RoundDivIsInt DEF DefaultZoom
<1> QED BY <1>2 DEF Scaled, Larger

LEMMA ZoomedAxisIsInt32 ==
  ASSUME NEW position \in Int32, NEW cursor \in Int32,
         NEW zoom \in MinZoom..MaxZoom, NEW new \in MinZoom..MaxZoom
  PROVE  ZoomedAxis(position, cursor, zoom, new) \in Int32
<1>1. zoom \in Nat \ {0} /\ new \in Int /\ position \in Int /\ cursor \in Int
  BY MaxIntIsNat DEF MinZoom, MaxZoom, Int32, MinInt
<1>2. position * zoom + cursor * (zoom - new) \in Int
  BY <1>1
<1>3. RoundDiv(position * zoom + cursor * (zoom - new), zoom) \in Int
  BY <1>1, <1>2, RoundDivIsInt
<1>4. ZoomedAxis(position, cursor, zoom, new) \in -MaxInt..MaxInt
  <2>1. -MaxInt \in Int /\ MaxInt \in Int /\ -MaxInt <= MaxInt
    BY MaxIntIsNat
  <2> QED BY <1>3, <2>1, ClampIsWithin DEF ZoomedAxis
<1> QED BY <1>4, MaxIntIsNat DEF Int32, MinInt

LEMMA AnchoredAxisIsInt32 ==
  ASSUME NEW position \in Int32, NEW extent \in Nat \ {0},
         NEW origin \in Int32, NEW end \in Int32
  PROVE  AnchoredAxis(position, extent, origin, end) \in Int32
<1>1. /\ position \in Int /\ origin \in Int /\ end \in Int
      /\ MinInt \in Int /\ MaxInt \in Int
  BY MaxIntIsNat DEF Int32, MinInt
<1>2. CASE extent >= Larger(end - origin, 0)
  BY <1>2 DEF AnchoredAxis
<1>3. CASE extent < Larger(end - origin, 0)
  <2>1. extent < end - origin
    BY <1>1, <1>3 DEF Larger
  <2>2. end - extent \in Int32
    BY <1>1, <2>1 DEF Int32
  <2> QED BY <2>2 DEF AnchoredAxis
<1> QED
  <2>1. Larger(end - origin, 0) \in Int
    BY <1>1 DEF Larger
  <2> QED BY <1>2, <1>3, <2>1

LEMMA ClampsAreWithin ==
  ASSUME NEW n \in Int
  PROVE  ClampZoom(n) \in MinZoom..MaxZoom /\ ClampOpacity(n) \in MinOpacity..MaxOpacity
<1>1. ClampTo(n, 4, 80) \in 4..80
  BY DEF ClampTo, Larger, Smaller
<1>2. ClampTo(n, 20, 100) \in 20..100
  BY DEF ClampTo, Larger, Smaller
<1> QED BY <1>1, <1>2 DEF ClampZoom, MinZoom, MaxZoom, ClampOpacity, MinOpacity, MaxOpacity

--------------------------------------------------------------------------------
\* What a command and a display change make of a view.
LEMMA CommandKeepsView ==
  ASSUME NEW v \in View, NEW command \in PinCommand
  PROVE  AfterCommand(v, command) \in View /\ AfterCommand(v, command).capture = v.capture
<1>1. v.zoom \in MinZoom..MaxZoom /\ v.position \in Point
  BY DEF View
<1>2. MinZoom..MaxZoom \subseteq Int /\ MinOpacity..MaxOpacity \subseteq Int
  OBVIOUS
<1>3. CASE command \in [kind : {"drag"}, delta : Drags]
  <2>1. command.kind = "drag" /\ command.delta \in Point
    BY <1>3, PointsAssumption
  <2>2. v.position.x + command.delta.x \in Int /\ v.position.y + command.delta.y \in Int
    BY <1>1, <2>1, MaxIntIsNat DEF Point, Int32, MinInt
  <2>3. [x |-> Saturate(v.position.x + command.delta.x),
         y |-> Saturate(v.position.y + command.delta.y)] \in Point
    BY <2>2, SaturateIsInt32 DEF Point
  <2>4. Dragged(v, command.delta) \in View /\ Dragged(v, command.delta).capture = v.capture
    BY <2>3 DEF Dragged, View
  <2> QED BY <2>1, <2>4 DEF AfterCommand
<1>4. CASE command \in [kind : {"zoom"}, cursor : Cursors, factor : Factors \cup {None}]
  <2>1. command.kind = "zoom" /\ command.cursor \in Point
    BY <1>4, PointsAssumption
  <2>2. CASE command.factor = None
    BY <2>1, <2>2 DEF AfterCommand
  <2>3. CASE command.factor # None
    <3> DEFINE factor == command.factor
               new == ClampZoom(Times(v.zoom, factor))
               at == CursorCenteredZoom(v.position, command.cursor, v.zoom, new)
    <3>1. factor.num \in Nat \ {0} /\ factor.den \in Nat \ {0}
      BY <1>4, <2>3, NumbersAssumption
    <3>2. v.zoom * factor.num \in Int
      BY <1>1, <3>1 DEF MinZoom, MaxZoom
    <3>3. Times(v.zoom, factor) \in Int
      BY <3>1, <3>2, RoundDivIsInt DEF Times
    <3>4. new \in MinZoom..MaxZoom
      BY <3>3, ClampsAreWithin
    <3>5. at \in Point
      BY <1>1, <2>1, <3>4, ZoomedAxisIsInt32 DEF CursorCenteredZoom, Point
    <3>6. Zoomed(v, command.cursor, factor) = [v EXCEPT !.position = at, !.zoom = new]
      BY DEF Zoomed, View
    <3> HIDE DEF new, at, factor
    <3>7. Zoomed(v, command.cursor, factor) \in View
            /\ Zoomed(v, command.cursor, factor).capture = v.capture
      BY <3>4, <3>5, <3>6 DEF View
    <3>8. AfterCommand(v, command) = Zoomed(v, command.cursor, factor)
      BY <2>1, <2>3 DEF AfterCommand, factor
    <3> QED BY <3>7, <3>8
  <2> QED BY <2>2, <2>3
<1>5. CASE command \in [kind : {"set_opacity"}, opacity : Opacities]
  <2>1. command.kind = "set_opacity" /\ command.opacity \in Int
    BY <1>5, NumbersAssumption
  <2>2. ClampOpacity(command.opacity) \in MinOpacity..MaxOpacity
    BY <2>1, ClampsAreWithin
  <2>3. Faded(v, command.opacity) \in View /\ Faded(v, command.opacity).capture = v.capture
    BY <2>2 DEF Faded, View
  <2> QED BY <2>1, <2>3 DEF AfterCommand
<1>6. CASE command \in [kind : {"reset"}]
  <2>1. DefaultZoom \in MinZoom..MaxZoom /\ DefaultOpacity \in MinOpacity..MaxOpacity
    BY DEF MinZoom, MaxZoom, DefaultZoom, MinOpacity, MaxOpacity, DefaultOpacity
  <2>2. ResetView(v) \in View /\ ResetView(v).capture = v.capture
    BY <2>1 DEF ResetView, View
  <2> QED BY <1>6, <2>2 DEF AfterCommand
<1> QED BY <1>3, <1>4, <1>5, <1>6 DEF PinCommand

LEMMA AnchorKeepsView ==
  ASSUME NEW v \in View, NEW l \in Layouts, l # {}
  PROVE  /\ Anchored(v, UnionWorkArea(l)) \in View
         /\ Anchored(v, UnionWorkArea(l)).capture = v.capture
<1> DEFINE area == UnionWorkArea(l)
           window == Shown(v)
<1>1. area \in [x : Int32, y : Int32, w : Nat, h : Nat]
  BY LayoutsAssumption
<1>2. v.position \in Point /\ v.zoom \in Int
  BY DEF View
<1>3. Scaled(Source.w, v.zoom) \in Nat \ {0} /\ Scaled(Source.h, v.zoom) \in Nat \ {0}
  <2>1. Source.w \in Int /\ Source.h \in Int
    BY NumbersAssumption, MaxIntIsNat
  <2> QED BY <1>2, <2>1, ScaledIsExtent
<1>4. /\ window.x = v.position.x /\ window.y = v.position.y
      /\ window.w \in Nat \ {0} /\ window.h \in Nat \ {0}
  BY <1>3 DEF Shown, Rect
<1> HIDE DEF area, window
<1>5. Right(area) \in Int32 /\ Bottom(area) \in Int32
  <2>1. area.x + Wrap(area.w) \in Int /\ area.y + Wrap(area.h) \in Int
    BY <1>1, WrapIsInt, MaxIntIsNat DEF Int32, MinInt
  <2> QED BY <2>1, SaturateIsInt32 DEF Right, Bottom
<1>6. Reanchor(window, area) \in Point
  <2>1. window.x \in Int32 /\ window.y \in Int32
    BY <1>2, <1>4 DEF Point
  <2>2. AnchoredAxis(window.x, window.w, area.x, Right(area)) \in Int32
    BY <1>1, <1>4, <1>5, <2>1, AnchoredAxisIsInt32
  <2>3. AnchoredAxis(window.y, window.h, area.y, Bottom(area)) \in Int32
    BY <1>1, <1>4, <1>5, <2>1, AnchoredAxisIsInt32
  <2> QED BY <2>1, <2>2, <2>3 DEF Reanchor, Point
<1>7. Anchored(v, area) = [v EXCEPT !.position = Reanchor(window, area)]
  BY DEF Anchored, window, View
<1> QED BY <1>6, <1>7 DEF View, area

--------------------------------------------------------------------------------
\* The inductive invariant.
FreshAreUnused == fresh \cap Open = {}
OpeningHasPin  == main.at = "window" => main.pin \in Open
RegistryFits   == /\ Cardinality(Open) \in 0..MaxPins
                  /\ main.at = "insert" => Cardinality(Open) < MaxPins
WatcherKnows   == watcher = "anchor" => known \in Layouts
PinsInv == /\ TypeOK /\ PinsCanBeClosed /\ GuardsMatchPins
           /\ FreshAreUnused /\ OpeningHasPin /\ RegistryFits /\ WatcherKnows

\* The control points of main, and what comes with each.
LEMMA MainFacts ==
  ASSUME TypeOK
  PROVE  /\ main.at \in {"idle", "acquire", "insert", "window", "sync"}
         /\ main.at = "idle" => main = AtRest
         /\ main.at \in {"acquire", "insert"} => main.view \in View
         /\ main.at \in {"window", "sync"} => main.pin \in PinIds /\ main.shows \in Shows
                                              /\ main \in [at : {"window", "sync"}, pin : PinIds, shows : Shows]
BY DEF TypeOK, AtRest

LEMMA OpenFacts ==
  ASSUME TypeOK
  PROVE  /\ Open \subseteq PinIds /\ IsFiniteSet(Open)
         /\ \A p \in Open : pins[p] \in View /\ pins[p].capture \in Captures
         /\ \A c : IsFiniteSet(PinsOf(c)) /\ Cardinality(PinsOf(c)) \in Nat
<1>1. Open \subseteq PinIds
  BY DEF Open
<1>2. \A p \in Open : pins[p] \in View /\ pins[p].capture \in Captures
  BY DEF Open, TypeOK, View
<1>3. ASSUME NEW c PROVE IsFiniteSet(PinsOf(c)) /\ Cardinality(PinsOf(c)) \in Nat
  <2>1. PinsOf(c) \subseteq PinIds
    BY <1>1 DEF PinsOf
  <2> QED BY <2>1, PinIdsAssumption, FS_Subset, FS_CardinalityType
<1> QED BY <1>1, <1>2, <1>3, PinIdsAssumption, FS_Subset

\* Guards match while pins keep their captures.
LEMMA GuardsKept ==
  ASSUME TypeOK, GuardsMatchPins, Open' = Open, UNCHANGED <<guards, live>>,
         \A p \in Open : pins'[p].capture = pins[p].capture,
         (main.at # "insert" /\ main'.at # "insert") \/ UNCHANGED main
  PROVE  GuardsMatchPins'
<1>1. \A c : PinsOf(c)' = PinsOf(c)
  BY DEF PinsOf
<1>2. \A c : Acquiring(c)' <=> Acquiring(c)
  BY DEF Acquiring
<1> QED BY <1>1, <1>2 DEF GuardsMatchPins

\* Nothing changes.
LEMMA StutterStep ==
  ASSUME PinsInv, UNCHANGED vars
  PROVE  PinsInv'
<1> USE DEF PinsInv
<1>1. UNCHANGED <<pins, windows, fresh, live, guards, main, layout, known, watcher, views>>
  BY DEF vars, pinVars, lockVars, watchVars
<1>2. Open' = Open
  BY <1>1 DEF Open
<1>3. TypeOK'
  BY <1>1 DEF TypeOK
<1>4. PinsCanBeClosed' /\ OpeningHasPin' /\ FreshAreUnused' /\ RegistryFits' /\ WatcherKnows'
  BY <1>1, <1>2 DEF PinsCanBeClosed, OpeningHasPin, FreshAreUnused, RegistryFits, WatcherKnows
<1>5. GuardsMatchPins'
  BY <1>1, <1>2, GuardsKept
<1> QED BY <1>3, <1>4, <1>5

\* What a window or a push shows may age, and stays what it is otherwise.
LEMMA AgedFacts ==
  ASSUME NEW shows \in Shows \cup {"none"}, NEW p
  PROVE  /\ Aged(shows, p) \in Shows \cup {"none"}
         /\ Aged(shows, p) = "none" <=> shows = "none"
BY DEF Aged, Shows

\* A pin that goes takes one guard of its capture with it, if the capture
\* still has an entry.
LEMMA RemoveStep ==
  ASSUME PinsInv, NEW p \in Open, Remove(p), UNCHANGED live, main.at # "insert",
         main'.at # "insert"
  PROVE  /\ Open' = Open \ {p}
         /\ \A q \in Open \ {p} : pins'[q] = pins[q]
         /\ pins' \in [PinIds -> View \cup {NoPin}]
         /\ guards' \in [Captures -> Nat]
         /\ GuardsMatchPins'
<1> USE DEF PinsInv
<1>0. PICK c \in Captures : c = pins[p].capture
  BY OpenFacts
<1>1. c \in Captures /\ p \in PinIds /\ pins[p] # NoPin
  BY OpenFacts DEF Open
<1>2. pins' = [pins EXCEPT ![p] = NoPin] /\ guards' = Released(c)
  BY <1>0 DEF Remove
<1>3. pins' \in [PinIds -> View \cup {NoPin}]
  BY <1>1, <1>2 DEF TypeOK
<1>4. Open' = Open \ {p} /\ \A q \in Open \ {p} : pins'[q] = pins[q]
  BY <1>1, <1>2 DEF Open, TypeOK
<1>5. guards' \in [Captures -> Nat]
  BY <1>1, <1>2 DEF Released, TypeOK
<1>6. \A d \in Captures : PinsOf(d)' = IF d = c THEN PinsOf(d) \ {p} ELSE PinsOf(d)
  BY <1>0, <1>4 DEF PinsOf
<1>7. Cardinality(PinsOf(c)') = Cardinality(PinsOf(c)) - 1 /\ Cardinality(PinsOf(c)) \in Nat
        /\ Cardinality(PinsOf(c)') \in Nat
  <2>1. p \in PinsOf(c) /\ IsFiniteSet(PinsOf(c))
    BY <1>0, OpenFacts DEF PinsOf
  <2>2. PinsOf(c)' = PinsOf(c) \ {p}
    BY <1>1, <1>6
  <2>3. IsFiniteSet(PinsOf(c) \ {p})
    BY <2>1, FS_Subset
  <2> QED BY <2>1, <2>2, <2>3, FS_RemoveElement, FS_CardinalityType
<1>8. ASSUME NEW d \in Captures
      PROVE  guards'[d] = IF d \notin live' THEN 0
                          ELSE Cardinality(PinsOf(d)') + (IF Acquiring(d)' THEN 1 ELSE 0)
  <2>1. ~Acquiring(d) /\ ~Acquiring(d)'
    BY DEF Acquiring
  <2>2. guards[d] = IF d \notin live THEN 0 ELSE Cardinality(PinsOf(d)) + 0
    BY <2>1 DEF GuardsMatchPins
  <2>3. Cardinality(PinsOf(d)) \in Nat
    BY OpenFacts
  <2>4. CASE d # c
    <3>1. guards'[d] = guards[d] /\ PinsOf(d)' = PinsOf(d)
      BY <1>1, <1>2, <1>6, <2>4 DEF Released, TypeOK
    <3> QED BY <2>1, <2>2, <3>1
  <2>5. CASE d = c
    <3>1. guards'[c] = IF c \in live /\ guards[c] > 0 THEN guards[c] - 1 ELSE guards[c]
      BY <1>1, <1>2 DEF Released, TypeOK
    <3> QED BY <1>1, <1>7, <2>1, <2>2, <2>3, <2>5, <3>1
  <2> QED BY <2>4, <2>5
<1>9. GuardsMatchPins'
  BY <1>8 DEF GuardsMatchPins
<1> QED BY <1>3, <1>4, <1>5, <1>9

\* A display change, or a reset, keeps the pins and ages what shows them.
LEMMA AgeStep ==
  ASSUME PinsInv, pins' \in [PinIds -> View \cup {NoPin}], Open' = Open,
         \A p \in Open : pins'[p].capture = pins[p].capture,
         Age(main), UNCHANGED <<fresh, lockVars, layout, known>>,
         watcher' \in {"poll", "list", watcher}
  PROVE  PinsInv'
<1> USE DEF PinsInv
<1>1. windows' \in [PinIds -> Shows \cup {"none"}]
        /\ \A p \in PinIds : windows'[p] = "none" <=> windows[p] = "none"
  BY AgedFacts DEF Age, TypeOK
<1>2. /\ DOMAIN views' \subseteq PinIds
      /\ \A p \in DOMAIN views' : views'[p] \in Shows
  <2>1. views' = [p \in DOMAIN views |-> Aged(views[p], p)]
    BY DEF Age
  <2>2. \A p \in DOMAIN views : Aged(views[p], p) \in Shows
    BY DEF TypeOK, Aged, Shows
  <2> QED BY <2>1, <2>2 DEF TypeOK
<1>3. /\ main'.at = main.at
      /\ main.at \in {"window", "sync"} =>
           main' \in [at : {"window", "sync"}, pin : PinIds, shows : Shows] /\ main'.pin = main.pin
      /\ main.at \notin {"window", "sync"} => main' = main
  <2>1. CASE main.at \in {"window", "sync"}
    <3>1. main \in [at : {"window", "sync"}, pin : PinIds, shows : Shows]
      BY <2>1, MainFacts
    <3>2. Aged(main.shows, main.pin) \in Shows
      BY <3>1 DEF Aged, Shows
    <3>3. main' = [main EXCEPT !.shows = Aged(main.shows, main.pin)]
      BY <2>1 DEF Age
    <3> QED BY <2>1, <3>1, <3>2, <3>3
  <2>2. CASE main.at \notin {"window", "sync"}
    BY <2>2 DEF Age
  <2> QED BY <2>1, <2>2
<1>4. TypeOK'
  <2>1. main' = AtRest \/ main' \in [at : {"acquire", "insert"}, view : View]
          \/ main' \in [at : {"window", "sync"}, pin : PinIds, shows : Shows]
    BY <1>3, MainFacts DEF TypeOK
  <2> QED BY <1>1, <1>2, <2>1 DEF TypeOK, lockVars
<1>5. PinsCanBeClosed' /\ OpeningHasPin'
  BY <1>1, <1>3, OpenFacts, MainFacts DEF PinsCanBeClosed, OpeningHasPin
<1>6. GuardsMatchPins'
  BY <1>3, GuardsKept DEF lockVars
<1>7. FreshAreUnused' /\ RegistryFits' /\ WatcherKnows'
  BY <1>3 DEF FreshAreUnused, RegistryFits, WatcherKnows
<1> QED BY <1>4, <1>5, <1>6, <1>7

LEMMA DisplayChangeStep ==
  ASSUME PinsInv, NEW l \in Layouts, HandleDisplayChange(l),
         UNCHANGED <<fresh, lockVars, layout, known>>,
         watcher' \in {"poll", "list", watcher}
  PROVE  PinsInv'
<1> USE DEF PinsInv
<1>1. pins' = [p \in PinIds |->
                IF p \in Open /\ l # {} THEN Anchored(pins[p], UnionWorkArea(l)) ELSE pins[p]]
  BY DEF HandleDisplayChange
<1>2. \A p \in PinIds : p \in Open => pins'[p] \in View /\ pins'[p].capture = pins[p].capture
  BY <1>1, OpenFacts, AnchorKeepsView
<1>3. \A p \in PinIds : p \notin Open => pins'[p] = pins[p] /\ pins'[p] = NoPin
  BY <1>1 DEF Open
<1>4. pins' \in [PinIds -> View \cup {NoPin}]
  BY <1>1, <1>2, <1>3
<1>5. Open' = Open
  BY <1>2, <1>3, SentinelAssumption DEF Open
<1> QED BY <1>2, <1>4, <1>5, AgeStep, OpenFacts DEF HandleDisplayChange

--------------------------------------------------------------------------------
\* The steps of an opening.
LEMMA StaggeredIsPoint ==
  ASSUME TypeOK, RegistryFits
  PROVE  Staggered \in Point
<1> DEFINE n == Cardinality(Open)
<1>1. n \in Nat /\ n <= MaxPins /\ MaxPins \in Nat /\ Stagger \in Nat
        /\ (MaxPins + 1) * Stagger <= MaxInt
  BY NumbersAssumption DEF RegistryFits
<1> HIDE DEF n
<1>2. (n + 1) * Stagger \in Nat /\ (n + 1) * Stagger <= (MaxPins + 1) * Stagger
  <2>1. PICK d \in Nat : MaxPins = n + d
    <3>1. MaxPins - n \in Nat /\ MaxPins = n + (MaxPins - n)
      BY <1>1
    <3> QED BY <3>1
  <2>2. (MaxPins + 1) * Stagger = (n + 1) * Stagger + d * Stagger
    BY <1>1, <2>1
  <2>3. d * Stagger \in Nat /\ (n + 1) * Stagger \in Nat
    BY <1>1, <2>1
  <2> QED BY <2>2, <2>3
<1>3. (n + 1) * Stagger \in Int32
  <2>1. (MaxPins + 1) * Stagger \in Nat
    BY <1>1
  <2> QED BY <1>1, <1>2, <2>1, MaxIntIsNat DEF Int32, MinInt
<1>4. Staggered = [x |-> (n + 1) * Stagger, y |-> (n + 1) * Stagger]
  BY DEF Staggered, n
<1> QED BY <1>3, <1>4 DEF Point

LEMMA OpenPinStep ==
  ASSUME PinsInv, NEW request \in OpenPinRequest, OpenPin(request)
  PROVE  PinsInv'
<1> USE DEF PinsInv
<1>1. PlacedAt(request.initialPosition) \in Point
  BY StaggeredIsPoint, PointsAssumption, SentinelAssumption DEF PlacedAt, OpenPinRequest
<1>2. main' \in [at : {"acquire", "insert"}, view : View] /\ main'.at = "acquire"
  <2>1. DefaultZoom \in MinZoom..MaxZoom /\ DefaultOpacity \in MinOpacity..MaxOpacity
    BY DEF MinZoom, MaxZoom, DefaultZoom, MinOpacity, MaxOpacity, DefaultOpacity
  <2>2. request.capture \in Captures
    BY DEF OpenPinRequest
  <2>3. main' = [at |-> "acquire",
                 view |-> [capture |-> request.capture,
                           position |-> PlacedAt(request.initialPosition),
                           zoom |-> DefaultZoom, opacity |-> DefaultOpacity]]
    BY DEF OpenPin
  <2> QED BY <1>1, <2>1, <2>2, <2>3 DEF View
<1>3. TypeOK'
  BY <1>2 DEF OpenPin, TypeOK, pinVars, lockVars, watchVars
<1>4. main.at = "idle" /\ Open' = Open
  BY DEF OpenPin, Idle, Open, pinVars
<1>5. PinsCanBeClosed' /\ OpeningHasPin' /\ FreshAreUnused' /\ RegistryFits' /\ WatcherKnows'
  BY <1>2, <1>4 DEF OpenPin, PinsCanBeClosed, OpeningHasPin, FreshAreUnused,
     RegistryFits, WatcherKnows, pinVars, watchVars
<1>6. GuardsMatchPins'
  BY <1>2, <1>4, GuardsKept DEF OpenPin, pinVars, lockVars
<1> QED BY <1>3, <1>5, <1>6

LEMMA AcquireStep ==
  ASSUME PinsInv, AcquireLock
  PROVE  PinsInv'
<1> USE DEF PinsInv
<1>0. main.view \in View /\ main \in [at : {"acquire", "insert"}, view : View]
  BY MainFacts DEF AcquireLock, TypeOK, AtRest
<1>1. PICK c \in Captures : c = main.view.capture
  BY <1>0 DEF View
<1>2. main' \in [at : {"acquire", "insert"}, view : View] /\ main'.at = "insert"
        /\ main'.view = main.view
  BY <1>0 DEF AcquireLock
<1>3. guards' = [guards EXCEPT ![c] = IF c \in live THEN @ + 1 ELSE @]
  BY <1>1 DEF AcquireLock, Acquired
<1>4. TypeOK'
  BY <1>2, <1>3 DEF AcquireLock, TypeOK, pinVars, watchVars
<1>5. Open' = Open /\ \A d : PinsOf(d)' = PinsOf(d)
  BY DEF AcquireLock, Open, PinsOf, pinVars
<1>6. PinsCanBeClosed' /\ OpeningHasPin' /\ FreshAreUnused' /\ RegistryFits' /\ WatcherKnows'
  BY <1>2, <1>5 DEF AcquireLock, PinsCanBeClosed, OpeningHasPin, FreshAreUnused,
     RegistryFits, WatcherKnows, pinVars, watchVars
<1>7. ASSUME NEW d \in Captures
      PROVE  guards'[d] = IF d \notin live' THEN 0
                          ELSE Cardinality(PinsOf(d)') + (IF Acquiring(d)' THEN 1 ELSE 0)
  <2>1. ~Acquiring(d) /\ (Acquiring(d)' <=> d = c)
    BY <1>1, <1>2 DEF Acquiring, AcquireLock
  <2>2. guards[d] = IF d \notin live THEN 0 ELSE Cardinality(PinsOf(d)) + 0
    BY <2>1 DEF GuardsMatchPins
  <2>3. Cardinality(PinsOf(d)) \in Nat /\ live' = live
    BY OpenFacts DEF AcquireLock
  <2>4. guards'[d] = IF d = c /\ d \in live THEN guards[d] + 1 ELSE guards[d]
    BY <1>3 DEF TypeOK
  <2> QED BY <1>5, <2>1, <2>2, <2>3, <2>4
<1> QED BY <1>4, <1>6, <1>7 DEF GuardsMatchPins

LEMMA InsertStep ==
  ASSUME PinsInv, Insert
  PROVE  PinsInv'
<1> USE DEF PinsInv
<1>0. main.view \in View /\ main.at = "insert"
  BY MainFacts DEF Insert
<1>1. PICK p \in fresh : /\ fresh' = fresh \ {p}
                         /\ pins' = [pins EXCEPT ![p] = main.view]
                         /\ main' = [at |-> "window", pin |-> p, shows |-> "current"]
  BY DEF Insert
<1>2. PICK c \in Captures : c = main.view.capture
  BY <1>0 DEF View
<1>3. p \in PinIds /\ p \notin Open /\ main.view # NoPin
  BY <1>0, <1>1, SentinelAssumption DEF TypeOK, FreshAreUnused
<1>4. TypeOK'
  BY <1>0, <1>1, <1>3 DEF Insert, TypeOK, lockVars, watchVars, Shows
<1>5. Open' = Open \cup {p} /\ \A q \in Open : pins'[q] = pins[q]
  BY <1>1, <1>3 DEF Open, TypeOK
<1>6. pins'[p] = main.view
  BY <1>1, <1>3 DEF TypeOK
<1>7. RegistryFits'
  <2>1. IsFiniteSet(Open) /\ Cardinality(Open) \in Nat /\ Cardinality(Open) < MaxPins
    BY <1>0, OpenFacts DEF RegistryFits
  <2>2. Cardinality(Open \cup {p}) = Cardinality(Open) + 1
    BY <1>3, <2>1, FS_AddElement
  <2> QED BY <1>1, <1>5, <2>1, <2>2, NumbersAssumption DEF RegistryFits
<1>8. PinsCanBeClosed' /\ OpeningHasPin' /\ FreshAreUnused' /\ WatcherKnows'
  BY <1>0, <1>1, <1>5 DEF Insert, PinsCanBeClosed, OpeningHasPin, FreshAreUnused,
     WatcherKnows, watchVars
<1>9. ASSUME NEW d \in Captures
      PROVE  guards'[d] = IF d \notin live' THEN 0
                          ELSE Cardinality(PinsOf(d)') + (IF Acquiring(d)' THEN 1 ELSE 0)
  <2>1. ~Acquiring(d)' /\ (Acquiring(d) <=> d = c) /\ UNCHANGED lockVars
    BY <1>0, <1>1, <1>2 DEF Acquiring, Insert
  <2>2. PinsOf(d)' = IF d = c THEN PinsOf(d) \cup {p} ELSE PinsOf(d)
    BY <1>2, <1>5, <1>6 DEF PinsOf
  <2>3. Cardinality(PinsOf(d)') = IF d = c THEN Cardinality(PinsOf(d)) + 1 ELSE Cardinality(PinsOf(d))
    <3>1. IsFiniteSet(PinsOf(d)) /\ p \notin PinsOf(d)
      BY <1>3, OpenFacts DEF PinsOf
    <3> QED BY <2>2, <3>1, FS_AddElement
  <2>4. Cardinality(PinsOf(d)) \in Nat
    BY OpenFacts
  <2> QED BY <2>1, <2>3, <2>4 DEF GuardsMatchPins, lockVars
<1> QED BY <1>4, <1>7, <1>8, <1>9 DEF GuardsMatchPins

\* A window is made, or asked to follow its pin.
LEMMA WindowStep ==
  ASSUME PinsInv, CreateWindow \/ SyncWindow
  PROVE  PinsInv'
<1> USE DEF PinsInv
<1>0. main.pin \in PinIds /\ main.shows \in Shows
  BY MainFacts DEF CreateWindow, SyncWindow
<1>1. /\ windows' \in [PinIds -> Shows \cup {"none"}]
      /\ \A p \in PinIds : windows[p] # "none" => windows'[p] # "none"
      /\ main.at = "window" => windows'[main.pin] # "none"
  <2>1. CASE CreateWindow
    BY <1>0, <2>1 DEF CreateWindow, TypeOK, Shows
  <2>2. CASE SyncWindow
    <3>1. PICK g \in Synced(main.pin, main.shows) : windows' = [windows EXCEPT ![main.pin] = g]
      BY <2>2 DEF SyncWindow
    <3>2. g \in Shows \cup {"none"} /\ (windows[main.pin] # "none" => g # "none")
      BY <1>0, <3>1 DEF Synced, TypeOK, Shows
    <3> QED BY <1>0, <2>2, <3>1, <3>2 DEF TypeOK, SyncWindow
  <2> QED BY <2>1, <2>2
<1>2. main' = AtRest /\ main'.at = "idle" /\ main.at # "insert"
        /\ UNCHANGED <<pins, fresh, lockVars, watchVars>>
  BY DEF CreateWindow, SyncWindow, AtRest
<1>3. Open' = Open
  BY <1>2 DEF Open
<1>4. TypeOK'
  BY <1>1, <1>2 DEF TypeOK, lockVars, watchVars
<1>5. PinsCanBeClosed' /\ OpeningHasPin' /\ FreshAreUnused' /\ RegistryFits' /\ WatcherKnows'
  BY <1>1, <1>2, <1>3, OpenFacts DEF PinsCanBeClosed, OpeningHasPin, FreshAreUnused,
     RegistryFits, WatcherKnows, watchVars
<1>6. GuardsMatchPins'
  BY <1>2, <1>3, GuardsKept DEF lockVars
<1> QED BY <1>4, <1>5, <1>6

LEMMA RefusedStep ==
  ASSUME PinsInv, OpenRefused
  PROVE  PinsInv'
<1> USE DEF PinsInv
<1>1. main' = AtRest /\ main'.at = "idle" /\ main.at = "acquire" /\ Open' = Open
  BY DEF OpenRefused, AtRest, Open, pinVars
<1>2. TypeOK'
  BY <1>1 DEF OpenRefused, TypeOK, pinVars, lockVars, watchVars
<1>3. PinsCanBeClosed' /\ OpeningHasPin' /\ FreshAreUnused' /\ RegistryFits' /\ WatcherKnows'
  BY <1>1 DEF OpenRefused, PinsCanBeClosed, OpeningHasPin, FreshAreUnused, RegistryFits,
     WatcherKnows, pinVars, watchVars
<1>4. GuardsMatchPins'
  BY <1>1, GuardsKept DEF OpenRefused, pinVars, lockVars
<1> QED BY <1>2, <1>3, <1>4

--------------------------------------------------------------------------------
\* The ways a pin goes.
LEMMA RemovedStep ==
  ASSUME PinsInv, NEW p \in Open, Remove(p), UNCHANGED <<fresh, live, watchVars>>,
         main.at # "insert", main' \in {main, AtRest},
         windows' \in [PinIds -> Shows \cup {"none"}],
         \A q \in Open \ {p} : windows'[q] # "none" \/ (main'.at = "window" /\ main'.pin = q),
         main'.at = "window" => main'.pin # p
  PROVE  PinsInv'
<1> USE DEF PinsInv
<1>0. main'.at # "insert" /\ (main'.at = "window" => main' = main)
  BY DEF AtRest
<1>1. /\ Open' = Open \ {p}
      /\ pins' \in [PinIds -> View \cup {NoPin}]
      /\ guards' \in [Captures -> Nat]
      /\ GuardsMatchPins'
  BY <1>0, RemoveStep
<1>2. TypeOK'
  BY <1>1 DEF TypeOK, watchVars
<1>3. PinsCanBeClosed' /\ FreshAreUnused' /\ WatcherKnows'
  BY <1>1 DEF PinsCanBeClosed, FreshAreUnused, WatcherKnows, watchVars
<1>4. OpeningHasPin'
  BY <1>0, <1>1 DEF OpeningHasPin
<1>5. RegistryFits'
  <2>1. IsFiniteSet(Open) /\ Cardinality(Open) \in 0..MaxPins
    BY OpenFacts DEF RegistryFits
  <2>2. Cardinality(Open \ {p}) = Cardinality(Open) - 1 /\ IsFiniteSet(Open \ {p})
    BY <2>1, FS_RemoveElement, FS_Subset
  <2>3. Cardinality(Open \ {p}) \in Nat
    BY <2>2, FS_CardinalityType
  <2> QED BY <1>0, <1>1, <2>1, <2>2, <2>3, NumbersAssumption DEF RegistryFits
<1> QED BY <1>1, <1>2, <1>3, <1>4, <1>5

LEMMA FailsStep ==
  ASSUME PinsInv, CreateWindowFails
  PROVE  PinsInv'
<1> USE DEF PinsInv
<1>1. PICK p \in PinIds : p = main.pin
  BY MainFacts DEF CreateWindowFails
<1>2. p \in Open /\ main.at = "window" /\ Remove(p) /\ main' = AtRest /\ main'.at = "idle"
        /\ UNCHANGED <<fresh, live, watchVars>>
  BY <1>1 DEF CreateWindowFails, OpeningHasPin, AtRest
<1>3. windows' \in {windows, [windows EXCEPT ![p] = "behind"]}
  BY <1>1 DEF CreateWindowFails
<1>4. windows' \in [PinIds -> Shows \cup {"none"}]
  BY <1>1, <1>3 DEF TypeOK, Shows
<1>5. \A q \in Open \ {p} : windows'[q] # "none"
  BY <1>1, <1>3, OpenFacts DEF PinsCanBeClosed, TypeOK
<1> QED BY <1>2, <1>4, <1>5, RemovedStep

LEMMA ClosedStep ==
  ASSUME PinsInv, NEW p \in PinIds, ClosePin(p) \/ WindowClosed(p)
  PROVE  PinsInv'
<1> USE DEF PinsInv
<1>0. main.at = "idle" /\ UNCHANGED <<fresh, live, main, watchVars>>
  BY DEF ClosePin, WindowClosed, Idle
<1>1. /\ windows' \in [PinIds -> Shows \cup {"none"}]
      /\ \A q \in Open \ {p} : windows'[q] # "none"
  BY <1>0, OpenFacts DEF ClosePin, WindowClosed, PinsCanBeClosed, TypeOK
<1>2. CASE p \in Open
  <2>1. Remove(p)
    BY <1>2 DEF ClosePin, WindowClosed
  <2> QED BY <1>0, <1>1, <1>2, <2>1, RemovedStep
<1>3. CASE p \notin Open
  <2>1. UNCHANGED <<pins, guards>>
    BY <1>3 DEF ClosePin, WindowClosed
  <2>2. Open' = Open
    BY <2>1 DEF Open
  <2>3. TypeOK'
    BY <1>0, <1>1, <2>1 DEF TypeOK, watchVars
  <2>4. PinsCanBeClosed' /\ OpeningHasPin' /\ FreshAreUnused' /\ RegistryFits' /\ WatcherKnows'
    BY <1>0, <1>1, <1>3, <2>2 DEF PinsCanBeClosed, OpeningHasPin, FreshAreUnused,
       RegistryFits, WatcherKnows, watchVars
  <2>5. GuardsMatchPins'
    BY <1>0, <2>1, <2>2, GuardsKept
  <2> QED BY <2>3, <2>4, <2>5
<1> QED BY <1>2, <1>3

--------------------------------------------------------------------------------
\* Commands on a pin.
LEMMA CommandStep ==
  ASSUME PinsInv, NEW p \in PinIds, NEW command \in PinCommand, ApplyPinCommand(p, command)
  PROVE  PinsInv'
<1> USE DEF PinsInv
<1>1. /\ p \in Open /\ main.at = "idle"
      /\ pins' = [pins EXCEPT ![p] = AfterCommand(pins[p], command)]
      /\ windows' = [windows EXCEPT ![p] = Aged(windows[p], p)]
      /\ views' = [q \in DOMAIN views |-> Aged(views[q], q)]
      /\ main' = [at |-> "sync", pin |-> p, shows |-> "current"]
      /\ UNCHANGED <<fresh, lockVars, layout, known, watcher>>
  BY DEF ApplyPinCommand, Idle
<1>2. AfterCommand(pins[p], command) \in View
        /\ AfterCommand(pins[p], command).capture = pins[p].capture
  BY <1>1, OpenFacts, CommandKeepsView
<1>3. Open' = Open /\ \A q \in Open : pins'[q].capture = pins[q].capture
  BY <1>1, <1>2, SentinelAssumption DEF Open, TypeOK
<1>4. /\ windows' \in [PinIds -> Shows \cup {"none"}]
      /\ \A q \in PinIds : windows'[q] = "none" <=> windows[q] = "none"
  <2>1. windows[p] \in Shows \cup {"none"}
    BY DEF TypeOK
  <2>2. Aged(windows[p], p) \in Shows \cup {"none"}
          /\ (Aged(windows[p], p) = "none" <=> windows[p] = "none")
    BY <2>1, AgedFacts
  <2> QED BY <1>1, <2>2 DEF TypeOK
<1>5. /\ DOMAIN views' \subseteq PinIds
      /\ \A q \in DOMAIN views' : views'[q] \in Shows
  <2>1. \A q \in DOMAIN views : Aged(views[q], q) \in Shows
    BY DEF TypeOK, Aged, Shows
  <2> QED BY <1>1, <2>1 DEF TypeOK
<1>6. pins' \in [PinIds -> View \cup {NoPin}]
  BY <1>1, <1>2 DEF TypeOK
<1>7. main' \in [at : {"window", "sync"}, pin : PinIds, shows : Shows] /\ main'.at = "sync"
  BY <1>1 DEF Shows
<1>8. TypeOK'
  BY <1>1, <1>4, <1>5, <1>6, <1>7 DEF TypeOK, lockVars
<1>9. PinsCanBeClosed' /\ OpeningHasPin' /\ FreshAreUnused' /\ RegistryFits' /\ WatcherKnows'
  BY <1>1, <1>3, <1>4, <1>7, OpenFacts DEF PinsCanBeClosed, OpeningHasPin, FreshAreUnused,
     RegistryFits, WatcherKnows
<1>10. GuardsMatchPins'
  BY <1>1, <1>3, <1>7, GuardsKept DEF lockVars
<1> QED BY <1>8, <1>9, <1>10

LEMMA ResetStep ==
  ASSUME PinsInv, NEW p \in Open, ResetPin(p)
  PROVE  PinsInv'
<1> USE DEF PinsInv
<1> DEFINE reset == AfterCommand(pins[p], [kind |-> "reset"])
<1>1. [kind |-> "reset"] \in PinCommand
  BY DEF PinCommand
<1>2. p \in PinIds /\ reset \in View /\ reset.capture = pins[p].capture
  BY <1>1, OpenFacts, CommandKeepsView
<1>3. pins' = [pins EXCEPT ![p] = reset]
  BY DEF ResetPin
<1> HIDE DEF reset
<1>4. /\ pins' \in [PinIds -> View \cup {NoPin}] /\ Open' = Open
      /\ \A q \in Open : pins'[q].capture = pins[q].capture
  BY <1>2, <1>3, SentinelAssumption DEF Open, TypeOK
<1> QED BY <1>4, AgeStep DEF ResetPin

LEMMA UserStep ==
  ASSUME PinsInv, User
  PROVE  PinsInv'
<1>1. ASSUME NEW p \in PinIds, NEW action \in PinAction, PerformPinAction(p, action)
      PROVE  PinsInv'
  <2>1. CASE UNCHANGED vars
    BY <2>1, StutterStep
  <2>2. CASE ResetPin(p)
    BY <1>1, <2>2, ResetStep DEF PerformPinAction
  <2>3. CASE ClosePin(p)
    BY <2>3, ClosedStep
  <2> QED BY <1>1, <2>1, <2>2, <2>3 DEF PerformPinAction
<1>2. ASSUME NotifyPinDisplayChange PROVE PinsInv'
  BY <1>2, DisplayChangeStep DEF NotifyPinDisplayChange
<1> QED BY <1>1, <1>2, OpenPinStep, ClosedStep, CommandStep DEF User

--------------------------------------------------------------------------------
\* The watcher, the cache and the system.
LEMMA BesideStep ==
  ASSUME PinsInv, UNCHANGED <<pins, fresh, guards, main>>,
         windows' \in [PinIds -> Shows \cup {"none"}],
         \A p \in PinIds : windows[p] # "none" => windows'[p] # "none",
         live' \subseteq live, \A c \in live \ live' : guards[c] = 0,
         layout' \in Layouts, known' \in Layouts \cup {None},
         watcher' \in {"poll", "anchor", "list", "push"},
         watcher' = "anchor" => known' \in Layouts,
         DOMAIN views' \subseteq PinIds, \A p \in DOMAIN views' : views'[p] \in Shows
  PROVE  PinsInv'
<1> USE DEF PinsInv
<1>1. Open' = Open /\ \A c : PinsOf(c)' = PinsOf(c) /\ (Acquiring(c)' <=> Acquiring(c))
  BY DEF Open, PinsOf, Acquiring
<1>2. TypeOK'
  BY DEF TypeOK
<1>3. PinsCanBeClosed' /\ OpeningHasPin' /\ FreshAreUnused' /\ RegistryFits' /\ WatcherKnows'
  BY <1>1, OpenFacts DEF PinsCanBeClosed, OpeningHasPin, FreshAreUnused, RegistryFits, WatcherKnows
<1>4. GuardsMatchPins'
  BY <1>1 DEF GuardsMatchPins, TypeOK
<1> QED BY <1>2, <1>3, <1>4

LEMMA WatcherStep ==
  ASSUME PinsInv, Watcher
  PROVE  PinsInv'
<1>0. TypeOK /\ WatcherKnows
  BY DEF PinsInv
<1>1. CASE Poll
  BY <1>0, <1>1, BesideStep DEF Poll, pinVars, lockVars, TypeOK
<1>2. CASE AnchorPins
  <2>1. known \in Layouts
    BY <1>0, <1>2 DEF AnchorPins, WatcherKnows
  <2> QED BY <1>2, <2>1, DisplayChangeStep DEF AnchorPins
<1>3. CASE ListPins
  <2>1. DOMAIN views' \subseteq PinIds /\ \A p \in DOMAIN views' : views'[p] \in Shows
    BY <1>3 DEF ListPins, Open, Shows
  <2> QED BY <1>0, <1>3, <2>1, BesideStep DEF ListPins, pinVars, lockVars, TypeOK
<1>4. CASE PushView
  <2>1. PICK p \in DOMAIN views :
          /\ \E g \in Synced(p, views[p]) : windows' = [windows EXCEPT ![p] = g]
          /\ views' = [q \in DOMAIN views \ {p} |-> views[q]]
    BY <1>4 DEF PushView
  <2>2. PICK g \in Synced(p, views[p]) : windows' = [windows EXCEPT ![p] = g]
    BY <2>1
  <2>3. p \in PinIds /\ views[p] \in Shows /\ g \in Shows \cup {"none"}
          /\ (windows[p] # "none" => g # "none")
    BY <1>0, <2>1, <2>2 DEF Synced, TypeOK, Shows
  <2>4. /\ windows' \in [PinIds -> Shows \cup {"none"}]
        /\ \A q \in PinIds : windows[q] # "none" => windows'[q] # "none"
    BY <1>0, <2>2, <2>3 DEF TypeOK
  <2>5. DOMAIN views' \subseteq PinIds /\ \A q \in DOMAIN views' : views'[q] \in Shows
    BY <1>0, <2>1 DEF TypeOK
  <2> QED BY <1>0, <1>4, <2>4, <2>5, BesideStep DEF PushView, lockVars, TypeOK
<1>5. CASE PollEnds
  BY <1>0, <1>5, BesideStep DEF PollEnds, pinVars, lockVars, TypeOK
<1> QED BY <1>1, <1>2, <1>3, <1>4, <1>5 DEF Watcher

--------------------------------------------------------------------------------
LEMMA PinsInit == Init => PinsInv
<1> SUFFICES ASSUME Init PROVE PinsInv
  OBVIOUS
<1>1. Open = {} /\ Cardinality({}) = 0
  BY FS_EmptySet DEF Init, Open
<1>2. main.at = "idle" /\ main = AtRest
  BY DEF Init, AtRest
<1>3. \A c : PinsOf(c) = {} /\ ~Acquiring(c)
  BY <1>1, <1>2 DEF PinsOf, Acquiring
<1>4. TypeOK
  BY <1>2 DEF Init, TypeOK
<1>5. PinsCanBeClosed /\ FreshAreUnused /\ OpeningHasPin /\ WatcherKnows
  BY <1>1, <1>2 DEF Init, PinsCanBeClosed, FreshAreUnused, OpeningHasPin, WatcherKnows
<1>6. RegistryFits
  BY <1>1, <1>2, NumbersAssumption DEF RegistryFits
<1>7. GuardsMatchPins
  <2>1. ASSUME NEW c \in Captures
        PROVE  guards[c] = IF c \notin live THEN 0
                           ELSE Cardinality(PinsOf(c)) + (IF Acquiring(c) THEN 1 ELSE 0)
    <3>1. guards[c] = 0 /\ Cardinality(PinsOf(c)) = 0 /\ ~Acquiring(c)
      BY <1>1, <1>3 DEF Init
    <3> QED BY <3>1
  <2> QED BY <2>1 DEF GuardsMatchPins
<1> QED BY <1>4, <1>5, <1>6, <1>7 DEF PinsInv

LEMMA PinsStep == PinsInv /\ [Next]_vars => PinsInv'
<1> SUFFICES ASSUME PinsInv, [Next]_vars PROVE PinsInv'
  OBVIOUS
<1>1. CASE UNCHANGED vars
  BY <1>1, StutterStep
<1>2. CASE Main
  BY <1>2, RefusedStep, AcquireStep, InsertStep, WindowStep, FailsStep DEF Main
<1>3. CASE LayoutChange
  BY <1>3, BesideStep DEF LayoutChange, pinVars, lockVars, PinsInv, TypeOK, WatcherKnows
<1>4. ASSUME NEW c \in Captures, Vanish(c) PROVE PinsInv'
  BY <1>4, BesideStep DEF Vanish, pinVars, watchVars, PinsInv, TypeOK, WatcherKnows
<1> QED BY <1>1, <1>2, <1>3, <1>4, UserStep, WatcherStep DEF Next

\* The state has its types: whatever is dragged, zoomed, faded, opened or
\* brought back, a position stays a pair of i32, a zoom and an opacity stay
\* within their bounds (pin.rs `clamp_zoom', `clamp_opacity', `reanchor').
THEOREM PinsTypeCorrect == Spec => []TypeOK
BY PinsInit, PinsStep, PTL DEF Spec, PinsInv

\* There is no pin without a window but the one being opened.
THEOREM PinsKeepTheirWindows == Spec => []PinsCanBeClosed
BY PinsInit, PinsStep, PTL DEF Spec, PinsInv

\* The cache holds exactly the guards of the open pins, however each was
\* opened and closed, and however evictions interleave.
THEOREM PinsHoldTheirGuards == Spec => []GuardsMatchPins
BY PinsInit, PinsStep, PTL DEF Spec, PinsInv

--------------------------------------------------------------------------------
(* A display change brings back what it should.                            *)

\* A sum that is an i32 is not wrapped.
LEMMA WrapKeeps ==
  ASSUME NEW n \in Int32
  PROVE  Wrap(n) = n
<1> DEFINE a == n + MaxInt + 1
           d == 2 * MaxInt + 2
<1>1. a \in Nat /\ d \in Nat \ {0} /\ a < d
  BY MaxIntIsNat DEF Int32, MinInt
<1> HIDE DEF a, d
<1>2. a % d = a
  BY <1>1
<1> QED BY <1>2, MaxIntIsNat DEF a, d, Wrap, Int32, MinInt

\* A number between the bounds is not saturated; one above them is the bound.
LEMMA SaturateKeeps ==
  ASSUME NEW n \in Int, MinInt <= n
  PROVE  Saturate(n) = IF n <= MaxInt THEN n ELSE MaxInt
BY MaxIntIsNat DEF Saturate, ClampTo, Larger, Smaller, MinInt

\* On each axis the new place overlaps the area, unless the old one was edge
\* to edge with it: also when the far edge of the window wraps around.
LEMMA AxisReaches ==
  ASSUME NEW position \in Int32, NEW extent \in 1..MaxInt,
         NEW origin \in Int32, NEW end \in Int32, origin < end,
         position # end, position # origin - extent,
         NEW new, new = AnchoredAxis(position, extent, origin, end)
  PROVE  /\ new \in Int32
         /\ Larger(origin, new) < Smaller(end, Saturate(new + Wrap(extent)))
<1>1. /\ position \in MinInt..MaxInt /\ origin \in MinInt..MaxInt
      /\ end \in MinInt..MaxInt /\ MinInt \in Int /\ MaxInt \in Int
      /\ extent \in Int /\ extent >= 1 /\ extent <= MaxInt
  BY MaxIntIsNat DEF Int32, MinInt
<1>2. Wrap(extent) = extent
  BY WrapKeeps, MaxIntIsNat DEF Int32, MinInt
<1>3. Larger(end - origin, 0) = end - origin
  BY <1>1 DEF Larger
<1>4. CASE extent >= end - origin \/ Wrap(position + Wrap(extent)) < origin
  <2>1. new = origin
    BY <1>3, <1>4 DEF AnchoredAxis
  <2>2. Saturate(origin + extent)
          = IF origin + extent <= MaxInt THEN origin + extent ELSE MaxInt
    BY <1>1, SaturateKeeps
  <2> QED BY <1>1, <1>2, <2>1, <2>2 DEF Larger, Smaller, Int32
<1>5. CASE /\ ~(extent >= end - origin) /\ ~(Wrap(position + Wrap(extent)) < origin)
           /\ position > end
  <2>1. new = end - extent
    BY <1>3, <1>5 DEF AnchoredAxis
  <2>2. Saturate(new + extent) = end
    BY <1>1, <1>5, <2>1, SaturateKeeps
  <2> QED BY <1>1, <1>2, <1>5, <2>1, <2>2 DEF Larger, Smaller, Int32
<1>6. CASE /\ ~(extent >= end - origin) /\ ~(Wrap(position + Wrap(extent)) < origin)
           /\ ~(position > end)
  <2>1. new = position /\ position < end
    BY <1>1, <1>3, <1>6 DEF AnchoredAxis
  <2>2. Saturate(position + extent)
          = IF position + extent <= MaxInt THEN position + extent ELSE MaxInt
    BY <1>1, SaturateKeeps
  <2>3. CASE position + extent <= MaxInt
    <3>1. Wrap(position + extent) = position + extent
      BY <1>1, <2>3, WrapKeeps DEF Int32
    <3>2. position + extent > origin
      BY <1>1, <1>2, <1>6, <3>1
    <3> QED BY <1>1, <1>2, <2>1, <2>2, <2>3, <3>2 DEF Larger, Smaller, Int32
  <2>4. CASE position + extent > MaxInt
    BY <1>1, <1>2, <2>1, <2>2, <2>4 DEF Larger, Smaller, Int32
  <2> QED BY <1>1, <2>3, <2>4
<1> QED BY <1>4, <1>5, <1>6

\* A view that is anchored is one the property allows.
LEMMA AnchorReaches ==
  ASSUME NEW v \in View, NEW l \in Layouts, l # {}
  PROVE  Reached(v, Anchored(v, UnionWorkArea(l)), UnionWorkArea(l))
<1> DEFINE area == UnionWorkArea(l)
           window == Shown(v)
           new == Anchored(v, area)
<1>1. /\ area \in [x : Int32, y : Int32, w : Nat, h : Nat]
      /\ area.w \in 1..MaxInt /\ area.x + area.w <= MaxInt
      /\ area.h \in 1..MaxInt /\ area.y + area.h <= MaxInt
  BY LayoutsAssumption, ExtentsAssumption
<1>2. v.position \in Point /\ v.zoom \in MinZoom..MaxZoom
  BY DEF View
<1>3. Scaled(Source.w, v.zoom) \in 1..MaxInt /\ Scaled(Source.h, v.zoom) \in 1..MaxInt
  <2>1. Source.w \in Int /\ Source.h \in Int /\ v.zoom \in Int
    BY <1>2, NumbersAssumption, MaxIntIsNat DEF MinZoom, MaxZoom
  <2>2. Scaled(Source.w, v.zoom) \in Nat \ {0} /\ Scaled(Source.h, v.zoom) \in Nat \ {0}
    BY <2>1, ScaledIsExtent
  <2> QED BY <1>2, <2>2, ExtentsAssumption, MaxIntIsNat
<1>4. /\ window.x = v.position.x /\ window.y = v.position.y
      /\ window.w \in 1..MaxInt /\ window.h \in 1..MaxInt
      /\ window.x \in Int32 /\ window.y \in Int32
  BY <1>2, <1>3 DEF Shown, Rect, Point
<1>5. /\ new = [v EXCEPT !.position = Reanchor(window, area)]
      /\ new.zoom = v.zoom /\ new.opacity = v.opacity
      /\ new.position = Reanchor(window, area)
  BY DEF Anchored, View
<1>6. Shown(new) = Rect(new.position.x, new.position.y, window.w, window.h)
  BY <1>5 DEF Shown, Rect
<1> HIDE DEF area, window, new
<1>7. CASE Touches(window, area)
  <2>1. Reanchor(window, area) = v.position
    BY <1>2, <1>4, <1>7 DEF Reanchor, Point
  <2>2. new = v
    BY <1>5, <2>1 DEF View
  <2> QED BY <1>5, <1>7, <2>2 DEF Reached, area, window, new
<1>8. CASE ~Touches(window, area) /\ ~EdgeToEdge(window, area)
  <2>1. /\ Right(area) \in Int32 /\ area.x < Right(area)
        /\ Bottom(area) \in Int32 /\ area.y < Bottom(area)
    <3>1. Wrap(area.w) = area.w /\ Wrap(area.h) = area.h
      BY <1>1, WrapKeeps, MaxIntIsNat DEF Int32, MinInt
    <3>2. /\ area.x \in MinInt..MaxInt /\ area.y \in MinInt..MaxInt
          /\ MinInt \in Int /\ MaxInt \in Int
      BY <1>1, MaxIntIsNat DEF Int32, MinInt
    <3>3. ASSUME NEW n \in MinInt..MaxInt, NEW e \in 1..MaxInt, n + e <= MaxInt
          PROVE  Saturate(n + e) \in Int32 /\ n < Saturate(n + e)
      BY <3>2, <3>3, SaturateKeeps DEF Int32
    <3>4. /\ Saturate(area.x + area.w) \in Int32 /\ area.x < Saturate(area.x + area.w)
          /\ Saturate(area.y + area.h) \in Int32 /\ area.y < Saturate(area.y + area.h)
      BY <1>1, <3>2, <3>3
    <3> QED BY <3>1, <3>4 DEF Right, Bottom
  <2> DEFINE x == AnchoredAxis(window.x, window.w, area.x, Right(area))
             y == AnchoredAxis(window.y, window.h, area.y, Bottom(area))
  <2>2. /\ window.x # Right(area) /\ window.x # area.x - window.w
        /\ window.y # Bottom(area) /\ window.y # area.y - window.h
    BY <1>8 DEF EdgeToEdge
  <2>3. Larger(area.x, x) < Smaller(Right(area), Saturate(x + Wrap(window.w)))
    BY <1>1, <1>4, <2>1, <2>2, AxisReaches
  <2>4. Larger(area.y, y) < Smaller(Bottom(area), Saturate(y + Wrap(window.h)))
    BY <1>1, <1>4, <2>1, <2>2, AxisReaches
  <2>5. new.position = [x |-> x, y |-> y]
    BY <1>5, <1>8 DEF Reanchor
  <2> HIDE DEF x, y
  <2>6. /\ Shown(new).x = x /\ Right(Shown(new)) = Saturate(x + Wrap(window.w))
        /\ Shown(new).y = y /\ Bottom(Shown(new)) = Saturate(y + Wrap(window.h))
    BY <1>6, <2>5 DEF Rect, Right, Bottom
  <2> DEFINE x0 == Larger(area.x, x)
             x1 == Smaller(Right(area), Saturate(x + Wrap(window.w)))
             y0 == Larger(area.y, y)
             y1 == Smaller(Bottom(area), Saturate(y + Wrap(window.h)))
  <2>7. x0 \in Int /\ x1 \in Int /\ y0 \in Int /\ y1 \in Int
    <3>1. x \in Int32 /\ y \in Int32
      BY <1>1, <1>4, <2>1, <2>2, AxisReaches DEF x, y
    <3>2. x + Wrap(window.w) \in Int /\ y + Wrap(window.h) \in Int
      BY <1>4, <3>1, WrapIsInt, MaxIntIsNat DEF Int32, MinInt
    <3>3. Saturate(x + Wrap(window.w)) \in Int32 /\ Saturate(y + Wrap(window.h)) \in Int32
      BY <3>2, SaturateIsInt32
    <3> QED BY <1>1, <2>1, <3>1, <3>3, MaxIntIsNat DEF Larger, Smaller, Int32, MinInt
  <2> HIDE DEF x0, x1, y0, y1
  <2>8. ~(x1 <= x0) /\ ~(y1 <= y0) /\ x1 - x0 # 0
    BY <2>3, <2>4, <2>7 DEF x0, x1, y0, y1
  <2>9. Intersect(area, Shown(new)) = Rect(x0, y0, x1 - x0, y1 - y0)
    BY <2>6, <2>8 DEF Intersect, x0, x1, y0, y1
  <2>10. Touches(Shown(new), area)
    BY <2>8, <2>9 DEF Touches, Empty, Rect
  <2> QED BY <1>5, <1>8, <2>10 DEF Reached, area, window, new
<1>9. CASE ~Touches(window, area) /\ EdgeToEdge(window, area)
  BY <1>5, <1>9 DEF Reached, area, window, new
<1> QED BY <1>7, <1>8, <1>9

\* The watcher's pass over the pins leaves those that can be reached where
\* they are and brings the others back (pin/registry.rs
\* `handle_display_change'), on any desktop and at any zoom.
THEOREM DisplayChangesReach == Spec => ReanchorReaches
<1>1. ASSUME PinsInv, AnchorPins, known # {}, NEW p \in Open
      PROVE  Reached(pins[p], pins'[p], UnionWorkArea(known))
  <2>1. known \in Layouts /\ p \in PinIds /\ pins[p] \in View
    BY <1>1, OpenFacts DEF PinsInv, WatcherKnows, AnchorPins
  <2>2. pins'[p] = Anchored(pins[p], UnionWorkArea(known))
    BY <1>1, <2>1 DEF AnchorPins, HandleDisplayChange
  <2> QED BY <1>1, <2>1, <2>2, AnchorReaches
<1>2. PinsInv /\ [Next]_vars =>
        [AnchorPins /\ known # {} =>
           \A p \in Open : Reached(pins[p], pins'[p], UnionWorkArea(known))]_vars
  BY <1>1
<1>3. Spec => []PinsInv
  BY PinsInit, PinsStep, PTL DEF Spec
<1> QED BY <1>2, <1>3, PTL DEF Spec, ReanchorReaches
================================================================================
