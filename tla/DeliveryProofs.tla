---------------------------- MODULE DeliveryProofs -----------------------------
(***************************************************************************)
(* What leaves the program: pictures, delivered by a commit or a save      *)
(* (CaptureEngine), and files and bitmaps, dragged out (DragSource).       *)
(*                                                                         *)
(* A picture, for every set of layouts, every number of monitors, captures *)
(* and annotations and every display scale.  EngineInv follows it from the *)
(* monitors to its delivery: what a grab under way has was some monitor's; *)
(* the frozen frame, if it is of the last capture, shows that capture's    *)
(* desktop; and so does what was cut from it, whenever its crop was drawn. *)
(* What composition and painting compute is proved by induction over the   *)
(* set of monitors or annotations they fold over.                          *)
(*                                                                         *)
(* A drag, at the end, for any number of objects, of drags within drags    *)
(* and of references the client takes.                                     *)
(***************************************************************************)
EXTENDS CaptureEngine, DragSource, FiniteSetTheorems, WellFoundedInduction, NaturalsInduction, TLAPS

\* The bounds of a monitor.
Screen == [x : Int32, y : Int32, w : 1..MaxInt, h : 1..MaxInt]

\* A part of a layout's desktop.
View(l, b) == Buffer(b, LAMBDA x, y : DesktopAt(l, b.x + x, b.y + y))

\* A picture of some extent that shows a part of some layout's desktop.
IsView(rgba, w, h) ==
  \E l \in Layouts : \E x, y \in Int :
    x >= MinInt /\ y >= MinInt /\ rgba = View(l, Rect(x, y, w, h))

\* A capture that was asked for: its layout, and the bounds it has there.
IsCapture(a) ==
  /\ a.of \in Layouts /\ Capturable(a.of, a.target)
  /\ a.bounds = BoundsOf(a.of, a.target)

\* What a grab under way has: of a region the grabs of monitors that had that
\* name in some layout, of one monitor the part of the primary one.
MonitorShot(id, shot) ==
  shot = Failed \/ \E m \in UNION Layouts : m.id = id /\ shot = Grab(m)
PrimaryShot(bounds, shot) ==
  shot = Failed \/ \E m \in UNION Layouts :
                     m.primary /\ shot = CopyRegion(Grab(m), m.bounds.w, LocalRegion(bounds, m))
GrabInv ==
  main.at = "grab" =>
    /\ DOMAIN main = {"at", "target", "of", "bounds", "shots"} /\ IsCapture(main)
    /\ IF main.target = "desktop"
         THEN \A id \in DOMAIN main.shots : MonitorShot(id, main.shots[id])
         ELSE \/ main.shots = <<>>
              \/ DOMAIN main.shots = {main.target} /\ PrimaryShot(main.bounds, main.shots[main.target])

\* What is selected in has been captured.
SessionInv ==
  taken \in Nat /\ (session = "selecting" \/ main.at = "reveal" => taken > 0)

\* The last capture, the frozen frame, and the places it shows.
FrameInv ==
  /\ taken > 0 => last.id = taken /\ IsCapture(last)
  /\ frozen # NoFrame =>
       /\ taken > 0 /\ frozen.id = taken /\ frozen.bounds = last.bounds
       /\ IsView(frozen.rgba, last.bounds.w, last.bounds.h)
       /\ OfWhatItShows(last) => frozen.rgba = View(last.of, last.bounds)

\* A crop of some capture, and one of a capture with these bounds.
IsRegion(crop) ==
  crop.x \in Int /\ crop.y \in Int /\ crop.w \in 1..MaxInt /\ crop.h \in 1..MaxInt
CropOf(crop, bounds) ==
  IsRegion(crop) /\ crop.x >= bounds.x /\ crop.y >= bounds.y

\* What the overlay holds or sent: drawn over the last capture or an older one.
CallInv(call) ==
  /\ call.drawn \in 1..taken /\ IsRegion(call.crop) /\ call.annotations \in Scenes
  /\ call.drawn = taken => CropOf(call.crop, last.bounds)
CallsInv ==
  /\ selection # NoCapture => CallInv(selection)
  /\ sent # NoCapture => CallInv(sent)
  /\ save.at = "sent" => CallInv(save.call)

\* A commit or a save under way: the capture its handler found.
PictureInv(t) ==
  /\ IsView(t.rgba, t.crop.w, t.crop.h)
  /\ OfWhatItShows(t.ask) => t.rgba = View(t.ask.of, CutAt(t.crop, t.ask.bounds))
TaskInv(t) ==
  t.at \in {"flatten", "clear", "deliver"} =>
    /\ DOMAIN t = {"at", "ask", "drawn", "crop", "annotations"}
                    \cup (IF t.at = "flatten" THEN {} ELSE {"rgba"})
    /\ t.ask.id \in 1..taken /\ IsCapture(t.ask) /\ IsRegion(t.crop)
    /\ t.ask.id = taken => t.ask = last
    /\ t.drawn = t.ask.id => CropOf(t.crop, t.ask.bounds)
    /\ t.annotations = <<>> \/ t.annotations \in Scenes
    /\ t.at # "flatten" /\ WholeCrop(t) => PictureInv(t)
    /\ t.at = "deliver" => WholeCrop(t)

\* Together.
LayoutInv == layout \in Layouts /\ cached \in Layouts \cup {NoLayout}

EngineInv ==
  LayoutInv /\ GrabInv /\ SessionInv /\ FrameInv /\ CallsInv /\ TaskInv(main) /\ TaskInv(save)

--------------------------------------------------------------------------------
\* Arithmetic of products, quotients and remainders.
LEMMA ProductMonotone ==
  ASSUME NEW a \in Nat, NEW b \in Nat, NEW c \in Nat, a <= b
  PROVE  a * c <= b * c
BY SMT

\* A quotient and a remainder give the dividend back,
LEMMA DivMod ==
  ASSUME NEW w \in Nat \ {0}, NEW i \in Nat
  PROVE  /\ i \div w \in Nat /\ i % w \in 0..(w - 1)
         /\ i = (i \div w) * w + (i % w)
BY SMT

\* and are the only ones that do.
LEMMA DivModUnique ==
  ASSUME NEW w \in Nat \ {0}, NEW x \in 0..(w - 1), NEW y \in Nat
  PROVE  (y * w + x) % w = x /\ (y * w + x) \div w = y
<1> DEFINE i == y * w + x
           q == i \div w
<1>1. i \in Nat
  OBVIOUS
<1>2. q \in Nat /\ i % w \in 0..(w - 1) /\ i = q * w + (i % w)
  BY <1>1, DivMod
<1> HIDE DEF q
<1>3. CASE q < y
  <2>1. (q + 1) * w <= y * w
    BY <1>2, <1>3, ProductMonotone
  <2>2. (q + 1) * w = q * w + w
    BY <1>2
  <2> QED BY <2>1, <2>2, <1>2
<1>4. CASE y < q
  <2>1. (y + 1) * w <= q * w
    BY <1>2, <1>4, ProductMonotone
  <2>2. (y + 1) * w = y * w + w
    OBVIOUS
  <2> QED BY <2>1, <2>2, <1>2
<1>5. CASE q = y
  BY <1>2, <1>5 DEF q
<1> QED BY <1>2, <1>3, <1>4, <1>5

\* The cells of a buffer, by their index and by their place.
LEMMA Cell ==
  ASSUME NEW w \in Nat \ {0}, NEW h \in Nat, NEW i \in 0..(w * h - 1)
  PROVE  i % w \in 0..(w - 1) /\ i \div w \in 0..(h - 1) /\ i = (i \div w) * w + (i % w)
<1>1. i \in Nat
  OBVIOUS
<1>2. i \div w \in Nat /\ i % w \in 0..(w - 1) /\ i = (i \div w) * w + (i % w)
  BY <1>1, DivMod
<1>3. CASE i \div w >= h
  <2>1. h * w <= (i \div w) * w
    BY <1>2, <1>3, ProductMonotone
  <2>2. h * w = w * h
    OBVIOUS
  <2> QED BY <2>1, <2>2, <1>2
<1> QED BY <1>2, <1>3

\* The index of a place of a buffer is in the buffer and gives the place back.
LEMMA CellIndex ==
  ASSUME NEW w \in Nat \ {0}, NEW h \in Nat, NEW x \in 0..(w - 1), NEW y \in 0..(h - 1)
  PROVE  /\ y * w + x \in 0..(w * h - 1)
         /\ (y * w + x) % w = x /\ (y * w + x) \div w = y
<1>1. (y + 1) * w <= h * w
  BY ProductMonotone
<1>2. (y + 1) * w = y * w + w /\ h * w = w * h
  OBVIOUS
<1>3. y * w \in Nat
  OBVIOUS
<1> QED BY <1>1, <1>2, <1>3, DivModUnique

\* An extent that fits is not changed by the conversion to i32.
LEMMA WrapFits ==
  ASSUME NEW n \in 0..MaxInt PROVE Wrap(n) = n
BY MaxIntAssumption DEF Wrap

\* A part of an extent, scaled and rounded, is at most the scaled extent.
LEMMA RoundDivBounds ==
  ASSUME NEW d \in Nat \ {0}, NEW k \in Nat, NEW n \in 0..d
  PROVE  RoundDiv(n * k, d) \in 0..k
<1> DEFINE a == 2 * (n * k) + d
           q == a \div (2 * d)
<1>1. n * k \in Nat /\ n * k <= d * k
  BY ProductMonotone
<1>2. a \in Nat /\ 2 * d \in Nat \ {0}
  BY <1>1
<1>3. q \in Nat /\ a % (2 * d) \in 0..(2 * d - 1) /\ a = q * (2 * d) + (a % (2 * d))
  BY <1>2, DivMod
<1>4. RoundDiv(n * k, d) = q
  BY <1>1 DEF RoundDiv
<1> HIDE DEF q
<1>5. CASE q > k
  <2>1. (k + 1) * (2 * d) <= q * (2 * d)
    BY <1>3, <1>5, ProductMonotone
  <2>2. (k + 1) * (2 * d) = 2 * (d * k) + 2 * d
    OBVIOUS
  <2>3. 2 * (n * k) + d < 2 * (d * k) + 2 * d
    BY <1>1
  <2> QED BY <1>3, <2>1, <2>2, <2>3
<1> QED BY <1>3, <1>4, <1>5

\* Induction over the subsets of a finite set, and over the numbers: what holds
\* of a set once it holds of its proper subsets holds of all.  They follow from
\* the well-foundedness of the two orders.
LEMMA SetInduction ==
  ASSUME NEW S, IsFiniteSet(S), NEW Good,
         \A T \in SUBSET S : (\A U \in SUBSET T : U # T => U \in Good) => T \in Good
  PROVE  \A T \in SUBSET S : T \in Good
<1> DEFINE Bad == {T \in SUBSET S : T \notin Good}
<1>1. SUFFICES ASSUME Bad # {} PROVE FALSE
  OBVIOUS
<1>2. Bad \subseteq FiniteSubsetsOf(S)
  BY FS_FiniteSubsetsOfFinite
<1>3. IsWellFoundedOn(StrictSubsetOrdering(S), FiniteSubsetsOf(S))
  BY FS_StrictSubsetOrderingWellFounded
<1> HIDE DEF Bad
<1>4. PICK T \in Bad : \A U \in Bad : ~(<<U, T>> \in StrictSubsetOrdering(S))
  BY <1>1, <1>2, <1>3, WFMin
<1>5. \A U \in SUBSET T : U # T => U \in Good
  BY <1>4 DEF StrictSubsetOrdering, Bad
<1> QED
  BY <1>4, <1>5 DEF Bad

\* Induction over the numbers, for membership in a set.
LEMMA NatSetInduction ==
  ASSUME NEW Good, 0 \in Good, \A n \in Nat : n \in Good => n + 1 \in Good
  PROVE  \A n \in Nat : n \in Good
<1> DEFINE Bad == {n \in Nat : n \notin Good}
<1>1. SUFFICES ASSUME Bad # {} PROVE FALSE
  OBVIOUS
<1>2. IsWellFoundedOn(OpToRel(<, Nat), Nat)
  BY NatLessThanWellFounded
<1> HIDE DEF Bad
<1>3. Bad \subseteq Nat
  BY DEF Bad
<1>4. PICK n \in Bad : \A m \in Bad : ~(<<m, n>> \in OpToRel(<, Nat))
  BY <1>1, <1>2, <1>3, WFMin
<1>5. \A m \in Bad : ~(m < n)
  BY <1>3, <1>4 DEF OpToRel
<1>6. n # 0 /\ n \in Nat
  BY <1>4 DEF Bad
<1>7. n - 1 \in Good
  BY <1>5, <1>6 DEF Bad
<1>8. n - 1 \in Nat /\ (n - 1) + 1 = n
  BY <1>6
<1>9. (n - 1) + 1 \in Good
  BY <1>7, <1>8
<1>10. n \in Good
  BY <1>8, <1>9
<1> QED
  BY <1>4, <1>10 DEF Bad

\* The greatest and the least of a finite set of integers.
LEMMA Extremes ==
  ASSUME NEW S \in SUBSET Int, IsFiniteSet(S), S # {}
  PROVE  /\ Max(S) \in S /\ \A n \in S : n <= Max(S)
         /\ Min(S) \in S /\ \A n \in S : Min(S) <= n
<1> DEFINE Good == {T \in SUBSET S : T # {} => /\ \E m \in T : \A n \in T : m >= n
                                             /\ \E m \in T : \A n \in T : m <= n}
<1>1. ASSUME NEW T \in SUBSET S, \A U \in SUBSET T : U # T => U \in Good
      PROVE  T \in Good
  <2>1. SUFFICES ASSUME NEW k \in T PROVE T \in Good
    OBVIOUS
  <2>2. T \ {k} \in Good
    BY <1>1, <2>1
  <2>3. CASE T \ {k} = {}
    <3>1. \A n \in T : n = k
      BY <2>3
    <3> QED BY <2>1, <3>1
  <2>4. CASE T \ {k} # {}
    <3>1. PICK a \in T \ {k} : \A n \in T \ {k} : a >= n
      BY <2>2, <2>4
    <3>2. PICK b \in T \ {k} : \A n \in T \ {k} : b <= n
      BY <2>2, <2>4
    <3>3. \E m \in T : \A n \in T : m >= n
      BY <3>1, <2>1
    <3>4. \E m \in T : \A n \in T : m <= n
      BY <3>2, <2>1
    <3> QED BY <3>3, <3>4
  <2> QED BY <2>3, <2>4
<1> HIDE DEF Good
<1>2. S \in Good
  BY <1>1, SetInduction
<1>3. \E m \in S : \A n \in S : m >= n
  BY <1>2 DEF Good
<1>4. \E m \in S : \A n \in S : m <= n
  BY <1>2 DEF Good
<1>5. Max(S) \in S /\ \A n \in S : Max(S) >= n
  BY <1>3 DEF Max
<1>6. Min(S) \in S /\ \A n \in S : Min(S) <= n
  BY <1>4 DEF Min
<1> QED BY <1>5, <1>6

--------------------------------------------------------------------------------
\* Layouts, and the desktop they make.

\* What LayoutsAssumption says of one layout: its far edges do not wrap around.
LEMMA LayoutFacts ==
  ASSUME NEW l \in Layouts
  PROVE  /\ l # {} /\ IsFiniteSet(l) /\ \E m \in l : m.primary
         /\ \A m \in l : /\ m.bounds \in Screen
                         /\ Right(m.bounds) = m.bounds.x + m.bounds.w
                         /\ Bottom(m.bounds) = m.bounds.y + m.bounds.h
                         /\ m.bounds.x + m.bounds.w <= MaxInt /\ m.bounds.y + m.bounds.h <= MaxInt
         /\ \A m, n \in l : /\ m.id = n.id => m = n
                            /\ m # n => Intersect(m.bounds, n.bounds) = Empty
                            /\ m.bounds.x + m.bounds.w <= MaxInt + n.bounds.x
                            /\ m.bounds.y + m.bounds.h <= MaxInt + n.bounds.y
<1>1. IsDesktop(l) /\ IsFiniteSet(l)
  BY LayoutsAssumption
<1>2. l # {} /\ \E m \in l : m.primary
  BY <1>1 DEF IsDesktop
<1>3. ASSUME NEW m \in l, NEW n \in l
      PROVE  /\ m.id = n.id => m = n
             /\ m # n => Intersect(m.bounds, n.bounds) = Empty
             /\ m.bounds.x + m.bounds.w <= MaxInt + Smaller(n.bounds.x, 0)
             /\ m.bounds.y + m.bounds.h <= MaxInt + Smaller(n.bounds.y, 0)
             /\ m.bounds \in Screen /\ n.bounds \in Screen
  BY <1>1 DEF IsDesktop, Screen
<1>4. ASSUME NEW m \in l, NEW n \in l
      PROVE  /\ m.bounds.x + m.bounds.w <= MaxInt /\ m.bounds.y + m.bounds.h <= MaxInt
             /\ m.bounds.x + m.bounds.w <= MaxInt + n.bounds.x
             /\ m.bounds.y + m.bounds.h <= MaxInt + n.bounds.y
  BY <1>3, MaxIntAssumption DEF Smaller, Screen, Int32, MinInt
<1>5. ASSUME NEW m \in l
      PROVE  /\ Right(m.bounds) = m.bounds.x + m.bounds.w
             /\ Bottom(m.bounds) = m.bounds.y + m.bounds.h
  <2>1. m.bounds \in Screen
    BY <1>3
  <2>2. Wrap(m.bounds.w) = m.bounds.w /\ Wrap(m.bounds.h) = m.bounds.h
    BY <2>1, WrapFits, MaxIntAssumption DEF Screen
  <2> QED BY <2>1, <2>2, <1>4, MaxIntAssumption
          DEF Right, Bottom, Saturate, ClampTo, Larger, Smaller, Screen, Int32, MinInt
<1> QED BY <1>1, <1>2, <1>3, <1>4, <1>5

\* The desktop of a layout has every monitor inside (virtual_bounds_from_layout).
LEMMA VirtualBoundsFacts ==
  ASSUME NEW l \in Layouts
  PROVE  /\ VirtualBounds(l) \in Screen
         /\ \A m \in l : /\ VirtualBounds(l).x <= m.bounds.x /\ VirtualBounds(l).y <= m.bounds.y
                         /\ m.bounds.x + m.bounds.w <= VirtualBounds(l).x + VirtualBounds(l).w
                         /\ m.bounds.y + m.bounds.h <= VirtualBounds(l).y + VirtualBounds(l).h
<1> DEFINE R  == {m.bounds : m \in l}
           X  == {b.x : b \in R}
           Y  == {b.y : b \in R}
           X1 == {Right(b) : b \in R}
           Y1 == {Bottom(b) : b \in R}
<1>1. IsFiniteSet(R) /\ R # {}
  <2>1. [m \in l |-> m.bounds] \in Surjection(l, R)
    BY DEF Surjection
  <2>2. IsFiniteSet(l) /\ l # {}
    BY LayoutFacts
  <2> QED BY <2>1, <2>2, FS_Surjection
<1>2. \A b \in R : /\ b \in Screen
                   /\ Right(b) = b.x + b.w /\ Bottom(b) = b.y + b.h
  BY LayoutFacts
<1>3. \A a, b \in R : /\ a.x + a.w <= MaxInt + b.x /\ a.y + a.h <= MaxInt + b.y
  BY LayoutFacts
<1> HIDE DEF R
<1>4. /\ IsFiniteSet(X) /\ IsFiniteSet(Y) /\ IsFiniteSet(X1) /\ IsFiniteSet(Y1)
      /\ X # {} /\ Y # {} /\ X1 # {} /\ Y1 # {}
      /\ X \subseteq Int /\ Y \subseteq Int /\ X1 \subseteq Int /\ Y1 \subseteq Int
  <2>1. IsFiniteSet(X) /\ IsFiniteSet(Y) /\ IsFiniteSet(X1) /\ IsFiniteSet(Y1)
    <3>1. [b \in R |-> b.x] \in Surjection(R, X) /\ [b \in R |-> b.y] \in Surjection(R, Y)
      BY DEF Surjection
    <3>2. [b \in R |-> Right(b)] \in Surjection(R, X1) /\ [b \in R |-> Bottom(b)] \in Surjection(R, Y1)
      BY DEF Surjection
    <3> QED BY <1>1, <3>1, <3>2, FS_Surjection
  <2>2. X \subseteq Int /\ Y \subseteq Int /\ X1 \subseteq Int /\ Y1 \subseteq Int
    BY <1>2, MaxIntAssumption DEF Screen, Int32, MinInt
  <2> QED BY <2>1, <2>2, <1>1
<1>5. /\ Min(X) \in X /\ \A n \in X : Min(X) <= n
      /\ Min(Y) \in Y /\ \A n \in Y : Min(Y) <= n
      /\ Max(X1) \in X1 /\ \A n \in X1 : n <= Max(X1)
      /\ Max(Y1) \in Y1 /\ \A n \in Y1 : n <= Max(Y1)
  BY <1>4, Extremes
<1>6. VirtualBounds(l) = Rect(Min(X), Min(Y), Larger(Max(X1) - Min(X), 0), Larger(Max(Y1) - Min(Y), 0))
  BY DEF VirtualBounds, Box, R
<1>7. PICK a \in R : Min(X) = a.x
  BY <1>5
<1>8. PICK b \in R : Min(Y) = b.y
  BY <1>5
<1>9. PICK c \in R : Max(X1) = c.x + c.w
  BY <1>5, <1>2
<1>10. PICK d \in R : Max(Y1) = d.y + d.h
  BY <1>5, <1>2
<1>11. \A r \in R : a.x <= r.x /\ b.y <= r.y /\ r.x + r.w <= c.x + c.w /\ r.y + r.h <= d.y + d.h
  BY <1>2, <1>5, <1>7, <1>8, <1>9, <1>10
<1>12. VirtualBounds(l) = Rect(a.x, b.y, c.x + c.w - a.x, d.y + d.h - b.y)
       /\ c.x + c.w - a.x \in 1..MaxInt /\ d.y + d.h - b.y \in 1..MaxInt
  BY <1>2, <1>3, <1>6, <1>7, <1>8, <1>9, <1>10, <1>11, MaxIntAssumption DEF Larger, Screen, Int32, MinInt
<1>13. VirtualBounds(l) \in Screen
  BY <1>2, <1>12 DEF Rect, Screen
<1>14. ASSUME NEW m \in l
       PROVE  /\ VirtualBounds(l).x <= m.bounds.x /\ VirtualBounds(l).y <= m.bounds.y
              /\ m.bounds.x + m.bounds.w <= VirtualBounds(l).x + VirtualBounds(l).w
              /\ m.bounds.y + m.bounds.h <= VirtualBounds(l).y + VirtualBounds(l).h
  <2>1. m.bounds \in R
    BY DEF R
  <2>2. a \in Screen /\ b \in Screen /\ c \in Screen /\ d \in Screen
    BY <1>2
  <2> QED BY <2>1, <2>2, <1>11, <1>12, MaxIntAssumption DEF Rect, Screen, Int32, MinInt
<1> QED BY <1>13, <1>14

\* The bounds of a capture are a screen's.
LEMMA CaptureBounds ==
  ASSUME NEW l \in Layouts, NEW t, Capturable(l, t)
  PROVE  /\ BoundsOf(l, t) \in Screen
         /\ t # "desktop" => The(l, t) \in l /\ The(l, t).id = t /\ BoundsOf(l, t) = The(l, t).bounds
BY LayoutFacts, VirtualBoundsFacts DEF BoundsOf, Capturable, The, Has

NoPixels(bounds) == Buffer(bounds, LAMBDA x, y : Uncovered)
BlitLast(f, s, bounds, shots) ==
  \E m \in s : f[s] = BlitRgba(f[s \ {m}], bounds,
                              MonitorToCaptureBuffer(m.bounds, bounds, bounds), shots[m.id])

\* A desktop is put together monitor by monitor.
LEMMA CompositeSteps ==
  ASSUME NEW l, IsFiniteSet(l), NEW bounds, NEW shots
  PROVE  \E f : /\ f[l] = Composite(l, bounds, shots)
                /\ f[{}] = NoPixels(bounds) /\ \A s \in SUBSET l : s # {} => BlitLast(f, s, bounds, shots)
<1> DEFINE Step(m, dst) == BlitRgba(dst, bounds, MonitorToCaptureBuffer(m.bounds, bounds, bounds), shots[m.id])
           base == Buffer(bounds, LAMBDA x, y : Uncovered)
           Pick(s) == CHOOSE m \in s : TRUE
           Small(n) == {s \in SUBSET l : Cardinality(s) <= n}
           IsFold(f, S) == f = [s \in S |-> IF s = {} THEN base ELSE Step(Pick(s), f[s \ {Pick(s)}])]
           iter == CHOOSE f : IsFold(f, SUBSET l)
           Good == {n \in Nat : \E f : IsFold(f, Small(n))}
<1>1. Composite(l, bounds, shots) = iter[l]
  BY DEF Composite, FoldSet, MapThenFoldSet
<1> HIDE DEF Step, base
<1>2. \A s \in SUBSET l : /\ IsFiniteSet(s) /\ Cardinality(s) \in Nat /\ (Cardinality(s) = 0 <=> s = {})
                          /\ Cardinality(s) <= Cardinality(l) /\ (s # {} => Pick(s) \in s)
                          /\ s # {} => Cardinality(s \ {Pick(s)}) = Cardinality(s) - 1
  <2> SUFFICES ASSUME NEW s \in SUBSET l
               PROVE  /\ IsFiniteSet(s) /\ Cardinality(s) \in Nat /\ (Cardinality(s) = 0 <=> s = {})
                      /\ Cardinality(s) <= Cardinality(l) /\ (s # {} => Pick(s) \in s)
                      /\ s # {} => Cardinality(s \ {Pick(s)}) = Cardinality(s) - 1
    OBVIOUS
  <2>1. IsFiniteSet(s) /\ Cardinality(s) <= Cardinality(l)
    BY FS_Subset
  <2>2. Cardinality(s) \in Nat /\ (Cardinality(s) = 0 <=> s = {})
    BY <2>1, FS_CardinalityType, FS_EmptySet
  <2>3. s # {} => Pick(s) \in s
    OBVIOUS
  <2> HIDE DEF Pick
  <2>4. s # {} => Cardinality(s \ {Pick(s)}) = Cardinality(s) - 1
    BY <2>1, <2>3, FS_RemoveElement
  <2> QED BY <2>1, <2>2, <2>3, <2>4
<1> HIDE DEF Pick
<1>3. 0 \in Good
  <2>1. ASSUME NEW s \in Small(0) PROVE s = {}
    <3>1. Cardinality(s) \in Nat /\ Cardinality(s) <= 0 /\ (Cardinality(s) = 0 <=> s = {})
      BY <1>2
    <3> QED BY <3>1
  <2> DEFINE g == [s \in Small(0) |-> base]
  <2>2. \A s \in Small(0) : g[s] = IF s = {} THEN base ELSE Step(Pick(s), g[s \ {Pick(s)}])
    BY <2>1
  <2>3. g = [s \in Small(0) |-> g[s]]
    OBVIOUS
  <2> HIDE DEF g, Small
  <2>4. IsFold(g, Small(0))
    BY <2>2, <2>3
  <2> QED BY <2>4
<1>4. ASSUME NEW n \in Nat, n \in Good PROVE n + 1 \in Good
  <2>1. PICK f : IsFold(f, Small(n))
    BY <1>4
  <2> DEFINE g == [s \in Small(n + 1) |-> IF s = {} THEN base ELSE Step(Pick(s), f[s \ {Pick(s)}])]
  <2>2. \A s \in Small(n) : s \in Small(n + 1) /\ g[s] = f[s]
    <3>1. ASSUME NEW s \in Small(n) PROVE s \in Small(n + 1)
      <4>1. s \in SUBSET l /\ Cardinality(s) \in Nat /\ Cardinality(s) <= n
        BY <1>2
      <4> QED BY <4>1
    <3> HIDE DEF Small
    <3>2. ASSUME NEW s \in Small(n)
          PROVE  f[s] = IF s = {} THEN base ELSE Step(Pick(s), f[s \ {Pick(s)}])
      BY <2>1, Zenon
    <3> QED BY <3>1, <3>2
  <2>3. \A s \in Small(n + 1) : s # {} => s \ {Pick(s)} \in Small(n)
    BY <1>2
  <2>4. \A s \in Small(n + 1) : g[s] = IF s = {} THEN base ELSE Step(Pick(s), g[s \ {Pick(s)}])
    <3> SUFFICES ASSUME NEW s \in Small(n + 1), s # {}
                 PROVE  g[s] = Step(Pick(s), g[s \ {Pick(s)}])
      OBVIOUS
    <3> HIDE DEF Small
    <3>1. g[s \ {Pick(s)}] = f[s \ {Pick(s)}]
      BY <2>2, <2>3
    <3>2. g[s] = Step(Pick(s), f[s \ {Pick(s)}])
      OBVIOUS
    <3> QED BY <3>1, <3>2
  <2>5. g = [s \in Small(n + 1) |-> g[s]]
    OBVIOUS
  <2> HIDE DEF g, Small
  <2>6. IsFold(g, Small(n + 1))
    BY <2>4, <2>5
  <2>7. n + 1 \in Nat
    OBVIOUS
  <2> QED BY <2>6, <2>7
<1> HIDE DEF Good
<1>5. Cardinality(l) \in Good
  <2>1. \A n \in Nat : n \in Good
    BY <1>3, <1>4, NatSetInduction
  <2> QED BY <2>1, <1>2
<1>6. Small(Cardinality(l)) = SUBSET l
  BY <1>2
<1>7. \E f : IsFold(f, SUBSET l)
  BY <1>5, <1>6 DEF Good
<1>8. IsFold(iter, SUBSET l)
  BY <1>7
<1> HIDE DEF iter
<1>9. iter[{}] = base
  BY <1>8
<1>10. ASSUME NEW s \in SUBSET l, s # {}
       PROVE  Pick(s) \in s /\ iter[s] = Step(Pick(s), iter[s \ {Pick(s)}])
  BY <1>2, <1>8, <1>10
<1>11. ASSUME NEW s \in SUBSET l, s # {}
       PROVE  BlitLast(iter, s, bounds, shots)
  BY <1>10, <1>11 DEF BlitLast, Step
<1>12. iter[{}] = NoPixels(bounds)
  BY <1>9 DEF base, NoPixels
<1>13. WITNESS iter
<1> QED BY <1>1, <1>11, <1>12

Inside(b, x, y) == x \in b.x..(b.x + b.w - 1) /\ y \in b.y..(b.y + b.h - 1)

\* The pixel of a screen at a place.
LEMMA PlaceInside ==
  ASSUME NEW l \in Layouts, NEW m \in l, NEW x \in Int, NEW y \in Int, x >= MinInt, y >= MinInt
  PROVE  ~IsEmpty(Intersect(m.bounds, Rect(x, y, 1, 1))) <=> Inside(m.bounds, x, y)
<1> DEFINE b == m.bounds
           p == Rect(x, y, 1, 1)
<1>1. b \in Screen /\ Right(b) = b.x + b.w /\ Bottom(b) = b.y + b.h
      /\ b.x + b.w <= MaxInt /\ b.y + b.h <= MaxInt
  BY LayoutFacts
<1>2. Wrap(1) = 1
  BY WrapFits, MaxIntAssumption
<1>3. Right(p) = Smaller(x + 1, MaxInt) /\ Bottom(p) = Smaller(y + 1, MaxInt) /\ p.x = x /\ p.y = y
  BY <1>2, MaxIntAssumption DEF Right, Bottom, Rect, Saturate, ClampTo, Larger, Smaller, MinInt
<1> HIDE DEF b, p
<1> QED BY <1>1, <1>3, MaxIntAssumption DEF Intersect, IsEmpty, Empty, Rect, Larger, Smaller, Inside, Screen, Int32, MinInt, b, p

\* A place is on one screen.
LEMMA OneScreen ==
  ASSUME NEW l \in Layouts, NEW m \in l, NEW n \in l, NEW x \in Int, NEW y \in Int,
         Inside(m.bounds, x, y), Inside(n.bounds, x, y)
  PROVE  m = n
<1> DEFINE a == m.bounds
           b == n.bounds
<1>1. a \in Screen /\ b \in Screen /\ Right(a) = a.x + a.w /\ Bottom(a) = a.y + a.h
      /\ Right(b) = b.x + b.w /\ Bottom(b) = b.y + b.h
  BY LayoutFacts
<1>2. m # n => Intersect(a, b) = Empty
  BY LayoutFacts
<1> HIDE DEF a, b
<1>3. Intersect(a, b).w # 0
  BY <1>1, MaxIntAssumption DEF Intersect, Rect, Larger, Smaller, Inside, Screen, Int32, MinInt, a, b
<1> QED BY <1>2, <1>3 DEF Empty, Rect

Pixel(m, x, y) == [pixel |-> <<m.id, x - m.bounds.x, y - m.bounds.y>>]

\* The pixel of a desktop at a place is the one screen's, or nothing.
LEMMA DesktopPixel ==
  ASSUME NEW l \in Layouts, NEW x \in Int, NEW y \in Int, x >= MinInt, y >= MinInt
  PROVE  /\ \A m \in l : Inside(m.bounds, x, y) => DesktopAt(l, x, y) = Pixel(m, x, y)
         /\ (\A m \in l : ~Inside(m.bounds, x, y)) => DesktopAt(l, x, y) = Uncovered
<1>1. \A m \in l : ~IsEmpty(Intersect(m.bounds, Rect(x, y, 1, 1))) <=> Inside(m.bounds, x, y)
  BY PlaceInside
<1>3. ASSUME NEW m \in l, Inside(m.bounds, x, y)
      PROVE  DesktopAt(l, x, y) = Pixel(m, x, y)
  <2> DEFINE n == CHOOSE n \in l : ~IsEmpty(Intersect(n.bounds, Rect(x, y, 1, 1)))
  <2>1. n \in l /\ Inside(n.bounds, x, y)
    BY <1>1, <1>3
  <2>2. n = m
    BY <2>1, <1>3, OneScreen
  <2>3. DesktopAt(l, x, y) = [pixel |-> <<n.id, x - n.bounds.x, y - n.bounds.y>>]
    BY <1>1, <1>3 DEF DesktopAt
  <2> QED BY <2>2, <2>3 DEF Pixel
<1>4. (\A m \in l : ~Inside(m.bounds, x, y)) => DesktopAt(l, x, y) = Uncovered
  BY <1>1 DEF DesktopAt
<1> QED BY <1>3, <1>4

\* The offset of a monitor in its desktop is exact.
LEMMA MonitorOffset ==
  ASSUME NEW l \in Layouts, NEW m \in l
  PROVE  MonitorToCaptureBuffer(m.bounds, VirtualBounds(l), VirtualBounds(l))
           = Rect(m.bounds.x - VirtualBounds(l).x, m.bounds.y - VirtualBounds(l).y, m.bounds.w, m.bounds.h)
<1> DEFINE v == VirtualBounds(l)
           b == m.bounds
           a == Rect(b.x - v.x, b.y - v.y, b.w, b.h)
           e == Rect(0, 0, v.w, v.h)
<1>1. /\ v \in Screen /\ b \in Screen /\ v.x <= b.x /\ v.y <= b.y
      /\ b.x + b.w <= v.x + v.w /\ b.y + b.h <= v.y + v.h
  BY LayoutFacts, VirtualBoundsFacts
<1> HIDE DEF v, b
<1>2. Wrap(b.w) = b.w /\ Wrap(b.h) = b.h /\ Wrap(v.w) = v.w /\ Wrap(v.h) = v.h
  BY <1>1, WrapFits, MaxIntAssumption DEF Screen
<1>3. /\ Right(a) = b.x - v.x + b.w /\ Bottom(a) = b.y - v.y + b.h
      /\ Right(e) = v.w /\ Bottom(e) = v.h
  BY <1>1, <1>2, MaxIntAssumption DEF Right, Bottom, Rect, Saturate, ClampTo, Larger, Smaller, Screen, Int32, MinInt
<1>4. ClampedTo(a, e) = a
  BY <1>1, <1>3, MaxIntAssumption DEF ClampedTo, Rect, Larger, Smaller, Screen, Int32, MinInt
<1> QED BY <1>4 DEF MonitorToCaptureBuffer, v, b

\* The parts of a monitor's bounds.
LEMMA ScreenTyped ==
  ASSUME NEW b \in Screen
  PROVE  b.x \in Int /\ b.y \in Int /\ b.w \in Nat \ {0} /\ b.h \in Nat \ {0}
BY MaxIntAssumption DEF Screen, Int32, MinInt

\* A cell of a buffer is a place of the bounds it is the buffer of.
LEMMA CellPlace ==
  ASSUME NEW b \in Screen, NEW i \in 0..(b.w * b.h - 1)
  PROVE  /\ i % b.w \in Int /\ i \div b.w \in Int
         /\ b.x + (i % b.w) \in Int /\ b.y + (i \div b.w) \in Int
         /\ b.x + (i % b.w) >= MinInt /\ b.y + (i \div b.w) >= MinInt
<1>1. b.w \in Nat \ {0} /\ b.h \in Nat
  BY ScreenTyped
<1>2. i % b.w \in 0..(b.w - 1) /\ i \div b.w \in 0..(b.h - 1)
  BY <1>1, Cell
<1>3. \A x \in 0..(b.w - 1), y \in 0..(b.h - 1) :
        /\ x \in Int /\ y \in Int /\ b.x + x \in Int /\ b.y + y \in Int
        /\ b.x + x >= MinInt /\ b.y + y >= MinInt
  BY <1>1, MaxIntAssumption DEF Screen, Int32, MinInt
<1> QED BY <1>2, <1>3

\* A pixel of a monitor's grab.
LEMMA GrabPixel ==
  ASSUME NEW m, m.bounds \in Screen, NEW x \in 0..(m.bounds.w - 1), NEW y \in 0..(m.bounds.h - 1)
  PROVE  Grab(m)[y * m.bounds.w + x] = [pixel |-> <<m.id, x, y>>]
<1> DEFINE w == m.bounds.w
           h == m.bounds.h
<1>1. w \in Nat \ {0} /\ h \in Nat
  BY ScreenTyped
<1>2. Grab(m) = [j \in 0..(w * h - 1) |-> [pixel |-> <<m.id, j % w, j \div w>>]]
  BY DEF Grab, Buffer, Area, Size
<1>3. x \in 0..(w - 1) /\ y \in 0..(h - 1)
  OBVIOUS
<1> HIDE DEF w, h
<1>4. y * w + x \in 0..(w * h - 1) /\ (y * w + x) % w = x /\ (y * w + x) \div w = y
  BY <1>1, <1>3, CellIndex
<1>5. Grab(m)[y * w + x] = [pixel |-> <<m.id, x, y>>]
  BY <1>2, <1>4
<1> QED BY <1>5 DEF w

\* A place of a desktop inside a monitor, counted from the monitor's corner.
LEMMA PlaceFromCorner ==
  ASSUME NEW b \in Screen, NEW c \in Screen, NEW u \in Int, NEW v \in Int,
         NEW x, x = b.x + u, NEW y, y = b.y + v
  PROVE  /\ Inside(c, x, y) <=> u - (c.x - b.x) \in 0..(c.w - 1) /\ v - (c.y - b.y) \in 0..(c.h - 1)
         /\ u - (c.x - b.x) = x - c.x /\ v - (c.y - b.y) = y - c.y
BY ScreenTyped DEF Inside

\* What one monitor puts into its desktop.
Shown(m, b, dst) == BlitRgba(dst, b, MonitorToCaptureBuffer(m.bounds, b, b), Grab(m))

\* A blit puts the monitor's pixels in their place and leaves the others
\* (blit_rgba).
LEMMA BlitMonitor ==
  ASSUME NEW l \in Layouts, NEW m \in l, NEW b, b = VirtualBounds(l), NEW dst, NEW i \in DOMAIN dst,
         NEW after, after = Shown(m, b, dst),
         i % b.w \in Int, i \div b.w \in Int,
         NEW x, x = b.x + (i % b.w), NEW y, y = b.y + (i \div b.w)
  PROVE  /\ DOMAIN after = DOMAIN dst
         /\ Inside(m.bounds, x, y) => after[i] = Pixel(m, x, y)
         /\ ~Inside(m.bounds, x, y) => after[i] = dst[i]
<1> DEFINE c == m.bounds
           u == (i % b.w) - (c.x - b.x)
           v == (i \div b.w) - (c.y - b.y)
<1>1. b \in Screen /\ c \in Screen
  BY LayoutFacts, VirtualBoundsFacts
<1>2. MonitorToCaptureBuffer(c, b, b) = Rect(c.x - b.x, c.y - b.y, c.w, c.h)
  BY MonitorOffset
<1>3. /\ DOMAIN after = DOMAIN dst
      /\ after[i] = IF u \in 0..(c.w - 1) /\ v \in 0..(c.h - 1) THEN Grab(m)[v * c.w + u] ELSE dst[i]
  BY <1>2 DEF Shown, BlitRgba, Rect
<1>4. /\ Inside(c, x, y) <=> u \in 0..(c.w - 1) /\ v \in 0..(c.h - 1)
      /\ u = x - c.x /\ v = y - c.y
  BY <1>1, PlaceFromCorner
<1> HIDE DEF u, v
<1>5. ASSUME u \in 0..(c.w - 1), v \in 0..(c.h - 1)
      PROVE  Grab(m)[v * c.w + u] = Pixel(m, x, y)
  BY <1>1, <1>4, <1>5, GrabPixel DEF Pixel
<1> QED BY <1>3, <1>4, <1>5

\* Composition is exact: from what each monitor of a layout shows,
\* composite_virtual_desktop makes that layout's desktop, pixel by pixel, for
\* every number of monitors, however they are placed around the origin and in
\* whatever order they are blitted.
THEOREM CompositeIsDesktop ==
  ASSUME NEW l \in Layouts, NEW shots, \A m \in l : shots[m.id] = Grab(m), NEW b, b = VirtualBounds(l)
  PROVE  Composite(l, b, shots) = View(l, b)
<1> DEFINE I    == 0..(b.w * b.h - 1)
           X(i) == b.x + (i % b.w)
           Y(i) == b.y + (i \div b.w)
<1>1. b \in Screen /\ IsFiniteSet(l)
  BY LayoutFacts, VirtualBoundsFacts
<1>2. \A i \in I : X(i) \in Int /\ Y(i) \in Int /\ X(i) >= MinInt /\ Y(i) >= MinInt
  BY <1>1, CellPlace
<1>3. PICK f : /\ f[l] = Composite(l, b, shots)
               /\ f[{}] = NoPixels(b) /\ \A s \in SUBSET l : s # {} => BlitLast(f, s, b, shots)
  BY <1>1, CompositeSteps
<1> DEFINE Shows(s, dst) ==
             \A i \in I : /\ \A m \in s : Inside(m.bounds, X(i), Y(i)) => dst[i] = Pixel(m, X(i), Y(i))
                          /\ (\A m \in s : ~Inside(m.bounds, X(i), Y(i))) => dst[i] = Uncovered
           Good == {s \in SUBSET l : DOMAIN f[s] = I /\ f[s] = [i \in I |-> f[s][i]] /\ Shows(s, f[s])}
<1>4. ASSUME NEW s \in SUBSET l, \A u \in SUBSET s : u # s => u \in Good
      PROVE  s \in Good
  <2>1. CASE s = {}
    <3>1. f[s] = [i \in I |-> Uncovered]
      BY <1>3, <2>1 DEF NoPixels, Buffer, Area
    <3> QED BY <2>1, <3>1
  <2>2. CASE s # {}
    <3>1. PICK m \in s : f[s] = Shown(m, b, f[s \ {m}])
      BY <1>3, <2>2 DEF BlitLast, Shown
    <3>2. s \ {m} \in Good
      BY <1>4, <3>1
    <3>3. DOMAIN f[s \ {m}] = I /\ Shows(s \ {m}, f[s \ {m}])
      BY <3>2
    <3> HIDE DEF Good
    <3>4. ASSUME NEW i \in I
          PROVE  /\ DOMAIN f[s] = I
                 /\ Inside(m.bounds, X(i), Y(i)) => f[s][i] = Pixel(m, X(i), Y(i))
                 /\ ~Inside(m.bounds, X(i), Y(i)) => f[s][i] = f[s \ {m}][i]
      <4>1. i % b.w \in Int /\ i \div b.w \in Int /\ i \in DOMAIN f[s \ {m}] /\ m \in l
        BY <1>1, <3>3, CellPlace
      <4>2. X(i) = b.x + (i % b.w) /\ Y(i) = b.y + (i \div b.w)
        OBVIOUS
      <4> HIDE DEF X, Y, Shows
      <4>3. \A x, y : x = b.x + (i % b.w) /\ y = b.y + (i \div b.w) =>
              /\ DOMAIN f[s] = DOMAIN f[s \ {m}]
              /\ Inside(m.bounds, x, y) => f[s][i] = Pixel(m, x, y)
              /\ ~Inside(m.bounds, x, y) => f[s][i] = f[s \ {m}][i]
        BY <3>1, <4>1, BlitMonitor
      <4> QED BY <3>3, <4>2, <4>3
    <3>5. DOMAIN f[s] = I /\ f[s] = [i \in I |-> f[s][i]]
      BY <3>1, <3>3 DEF Shown, BlitRgba
    <3>6. ASSUME NEW i \in I, NEW n \in s, Inside(n.bounds, X(i), Y(i))
          PROVE  f[s][i] = Pixel(n, X(i), Y(i))
      <4>1. CASE n = m
        BY <3>4, <3>6, <4>1
      <4>2. CASE n # m
        <5>1. X(i) \in Int /\ Y(i) \in Int
          BY <1>2
        <5>2. ~Inside(m.bounds, X(i), Y(i))
          BY <3>6, <4>2, <5>1, OneScreen
        <5>3. f[s \ {m}][i] = Pixel(n, X(i), Y(i))
          BY <3>3, <3>6, <4>2
        <5> QED BY <3>4, <5>2, <5>3
      <4> QED BY <4>1, <4>2
    <3>7. ASSUME NEW i \in I, \A n \in s : ~Inside(n.bounds, X(i), Y(i))
          PROVE  f[s][i] = Uncovered
      <4>1. f[s \ {m}][i] = Uncovered
        BY <3>3, <3>7
      <4> QED BY <3>4, <3>7, <4>1
    <3>8. Shows(s, f[s])
      BY <3>6, <3>7
    <3> QED BY <3>5, <3>8 DEF Good
  <2> QED BY <2>1, <2>2
<1> HIDE DEF Good
<1>5. l \in Good
  BY <1>1, <1>4, SetInduction
<1>6. f[l] = [i \in I |-> f[l][i]] /\ Shows(l, f[l])
  BY <1>5 DEF Good
<1>7. ASSUME NEW i \in I
      PROVE  f[l][i] = DesktopAt(l, X(i), Y(i))
  <2>1. CASE \E m \in l : Inside(m.bounds, X(i), Y(i))
    BY <1>2, <1>6, <2>1, DesktopPixel
  <2>2. CASE \A m \in l : ~Inside(m.bounds, X(i), Y(i))
    BY <1>2, <1>6, <2>2, DesktopPixel
  <2> QED BY <2>1, <2>2
<1>8. f[l] = [i \in I |-> DesktopAt(l, X(i), Y(i))]
  BY <1>6, <1>7
<1> QED BY <1>3, <1>8 DEF View, Buffer, Area

--------------------------------------------------------------------------------
\* Regions of a buffer.

\* Two extents no larger than two others, of the same area, are those.
LEMMA ProductExact ==
  ASSUME NEW a \in Nat, NEW b \in Nat, NEW c \in Nat \ {0}, NEW d \in Nat \ {0},
         a <= c, b <= d, a * b = c * d
  PROVE  a = c /\ b = d
<1>1. a * b <= c * b /\ c * b <= c * d
  <2>1. a * b <= c * b /\ b * c <= d * c
    BY ProductMonotone
  <2> QED BY <2>1
<1>2. CASE a < c
  <2>1. (a + 1) * d <= c * d
    BY <1>2, ProductMonotone
  <2>2. a * b <= a * d
    <3>1. b * a <= d * a
      BY ProductMonotone
    <3> QED BY <3>1
  <2>3. (a + 1) * d = a * d + d
    OBVIOUS
  <2>4. a * d \in Nat /\ a * b \in Nat /\ c * d \in Nat
    OBVIOUS
  <2> QED BY <2>1, <2>2, <2>3, <2>4
<1>3. CASE b < d
  <2>1. (b + 1) * c <= d * c
    BY <1>3, ProductMonotone
  <2>2. (b + 1) * c = c * b + c /\ d * c = c * d
    OBVIOUS
  <2>3. c * b \in Nat /\ a * b \in Nat /\ c * d \in Nat
    OBVIOUS
  <2> QED BY <1>1, <2>1, <2>2, <2>3
<1> QED BY <1>2, <1>3

\* A cell of a part of a buffer is a cell of the buffer.
IsPlace(i, x, y, w, h) ==
  /\ i \in 0..(w * h - 1) /\ x \in 0..(w - 1) /\ y \in 0..(h - 1)
  /\ i = y * w + x /\ i % w = x /\ i \div w = y
PartIndex(x, y, w, c, r) == (y + r) * w + x + c

\* The cell of a region of a buffer, in the buffer (copy_region).
LEMMA PartCell ==
  ASSUME NEW w \in Nat \ {0}, NEW h \in Nat, NEW x \in Nat, NEW y \in Nat, NEW u \in Nat, NEW v \in Nat,
         x + u <= w, y + v <= h, NEW i, NEW c, NEW r, IsPlace(i, c, r, u, v)
  PROVE  IsPlace(PartIndex(x, y, w, c, r), x + c, y + r, w, h)
<1> DEFINE p == x + c
           q == y + r
<1>1. c \in 0..(u - 1) /\ r \in 0..(v - 1)
  BY DEF IsPlace
<1>2. p \in 0..(w - 1) /\ q \in 0..(h - 1) /\ c \in Int /\ r \in Int
  BY <1>1
<1> HIDE DEF p, q
<1>3. q * w \in Int
  BY <1>2
<1>4. PartIndex(x, y, w, c, r) = q * w + p
  BY <1>2, <1>3 DEF PartIndex, p, q
<1>5. q * w + p \in 0..(w * h - 1) /\ (q * w + p) % w = p /\ (q * w + p) \div w = q
  BY <1>2, CellIndex
<1>6. IsPlace(PartIndex(x, y, w, c, r), p, q, w, h)
  BY <1>2, <1>4, <1>5 DEF IsPlace
<1> QED BY <1>6 DEF p, q

\* The place of a cell.
LEMMA PlaceOf ==
  ASSUME NEW w \in Nat \ {0}, NEW h \in Nat, NEW i \in 0..(w * h - 1)
  PROVE  IsPlace(i, i % w, i \div w, w, h)
BY Cell DEF IsPlace

\* How many pixels a buffer has.
LEMMA CellsOf ==
  ASSUME NEW w \in Nat, NEW h \in Nat
  PROVE  Cardinality(0..(w * h - 1)) = w * h
<1>1. w * h \in Nat
  OBVIOUS
<1> DEFINE n == w * h
<1>2. n - 1 \in Int /\ Cardinality(0..(n - 1)) = IF 0 > n - 1 THEN 0 ELSE n - 1 - 0 + 1
  BY <1>1, FS_Interval
<1> HIDE DEF n
<1>3. Cardinality(0..(n - 1)) = n
  BY <1>1, <1>2 DEF n
<1> QED BY <1>3 DEF n

\* A grab as large as the monitor it was for is that monitor's.
LEMMA GrabOfItsSize ==
  ASSUME NEW l \in Layouts, NEW m \in l, NEW shot, MonitorShot(m.id, shot), Sized(shot, m.bounds)
  PROVE  shot = Grab(m)
<1>1. PICK n \in UNION Layouts : n.id = m.id /\ shot = Grab(n)
  BY DEF MonitorShot, Sized
<1>2. m.bounds \in Screen /\ n.bounds \in Screen
  BY LayoutFacts
<1>3. Steady(n, m)
  BY LayoutsAssumption
<1> DEFINE w == n.bounds.w
           h == n.bounds.h
<1>4. w \in Nat \ {0} /\ h \in Nat \ {0} /\ m.bounds.w \in Nat \ {0} /\ m.bounds.h \in Nat \ {0}
  BY <1>2, ScreenTyped
<1>5. DOMAIN shot = 0..(w * h - 1)
  BY <1>1 DEF Grab, Buffer, Area, Size
<1>6. w * h = m.bounds.w * m.bounds.h
  BY <1>4, <1>5, CellsOf DEF Sized, Area
<1>7. w = m.bounds.w
  BY <1>1, <1>3, <1>6 DEF Steady, Area
<1>8. h = m.bounds.h
  <2> HIDE DEF w, h
  <2>1. \A a \in Nat \ {0} : \A b, c \in Nat \ {0} : a * b = a * c => b = c
    <3> SUFFICES ASSUME NEW a \in Nat \ {0}, NEW b \in Nat \ {0}, NEW c \in Nat \ {0}, a * b = a * c
                 PROVE  b = c
      OBVIOUS
    <3>1. CASE b <= c
      BY <3>1, ProductExact
    <3>2. CASE c <= b
      BY <3>2, ProductExact
    <3> QED BY <3>1, <3>2
  <2> QED BY <1>4, <1>6, <1>7, <2>1
<1>9. /\ Grab(n) = [i \in 0..(w * h - 1) |-> [pixel |-> <<n.id, i % w, i \div w>>]]
      /\ Grab(m) = [i \in 0..(m.bounds.w * m.bounds.h - 1) |->
                      [pixel |-> <<m.id, i % m.bounds.w, i \div m.bounds.w>>]]
  BY DEF Grab, Buffer, Area, Size
<1> HIDE DEF w, h
<1> QED BY <1>1, <1>7, <1>8, <1>9

\* The cells of a view.
LEMMA ViewCells ==
  ASSUME NEW l, NEW b
  PROVE  View(l, b) = [i \in 0..(b.w * b.h - 1) |-> DesktopAt(l, b.x + (i % b.w), b.y + (i \div b.w))]
BY DEF View, Buffer, Area

\* A region's frame shows the desktop.
LEMMA FreezeRegion ==
  ASSUME main.at = "grab", GrabInv, main.target = "desktop", Shot, ShotsWhole
  PROVE  Composite(main.of, main.bounds, main.shots) = View(main.of, main.bounds)
<1>1. main.of \in Layouts /\ main.bounds = VirtualBounds(main.of)
  BY DEF GrabInv, IsCapture, BoundsOf
<1>2. ASSUME NEW m \in main.of PROVE main.shots[m.id] = Grab(m)
  <2>1. MonitorShot(m.id, main.shots[m.id])
    BY DEF GrabInv, Shot
  <2>2. Sized(main.shots[m.id], m.bounds)
    BY DEF ShotsWhole
  <2> QED BY <1>1, <2>1, <2>2, GrabOfItsSize
<1> QED BY <1>1, <1>2, CompositeIsDesktop

\* What a region of a monitor's grab holds.
PartOf(m, x, y, w, h) ==
  [i \in 0..(w * h - 1) |-> [pixel |-> <<m.id, x + (i % w), y + (i \div w)>>]]

\* A grab of the primary monitor as large as it should be is a part of it.
LEMMA PrimaryPart ==
  ASSUME NEW b \in Screen, NEW n \in UNION Layouts, NEW shot,
         shot = CopyRegion(Grab(n), n.bounds.w, LocalRegion(b, n)), Sized(shot, b)
  PROVE  \E x, y \in Nat : /\ x = LocalRegion(b, n).x /\ y = LocalRegion(b, n).y
                           /\ x + b.w <= n.bounds.w /\ y + b.h <= n.bounds.h
                           /\ shot = PartOf(n, x, y, b.w, b.h)
<1> DEFINE c == n.bounds
           r == LocalRegion(b, n)
           u == r.w
           v == r.h
<1>1. c \in Screen
  BY LayoutFacts
<1>2. /\ b.x \in Int /\ b.y \in Int /\ b.w \in Nat \ {0} /\ b.h \in Nat \ {0}
      /\ c.x \in Int /\ c.y \in Int /\ c.w \in Nat \ {0} /\ c.h \in Nat \ {0}
  BY <1>1, ScreenTyped
<1>3. /\ r.x \in Nat /\ r.y \in Nat /\ u \in Nat /\ v \in Nat /\ u <= b.w /\ v <= b.h
      /\ u > 0 => r.x + u <= c.w
      /\ v > 0 => r.y + v <= c.h
  <2> HIDE DEF c
  <2>1. r = Rect(Larger(b.x - c.x, 0), Larger(b.y - c.y, 0),
                 Smaller(b.w, Larger(c.w - Larger(b.x - c.x, 0), 0)),
                 Smaller(b.h, Larger(c.h - Larger(b.y - c.y, 0), 0)))
    BY DEF LocalRegion, c
  <2> QED BY <1>2, <2>1 DEF Rect, Larger, Smaller
<1>4. shot = [i \in 0..(u * v - 1) |-> Grab(n)[PartIndex(r.x, r.y, c.w, i % u, i \div u)]]
  BY DEF CopyRegion, Buffer, Area, PartIndex
<1> HIDE DEF c, r
<1>5. u = b.w /\ v = b.h
  <2>1. DOMAIN shot = 0..(u * v - 1)
    BY <1>4
  <2>2. u * v = b.w * b.h
    BY <1>3, <2>1, CellsOf DEF Sized, Area
  <2> QED BY <1>2, <1>3, <2>2, ProductExact
<1>6. r.x + b.w <= c.w /\ r.y + b.h <= c.h
  BY <1>2, <1>3, <1>5
<1>7. ASSUME NEW i \in 0..(b.w * b.h - 1)
      PROVE  shot[i] = [pixel |-> <<n.id, r.x + (i % b.w), r.y + (i \div b.w)>>]
  <2> DEFINE x == i % b.w
             y == i \div b.w
             j == PartIndex(r.x, r.y, c.w, x, y)
  <2>1. IsPlace(i, x, y, b.w, b.h)
    BY <1>2, PlaceOf
  <2>2. shot[i] = Grab(n)[j]
    BY <1>4, <1>5
  <2> HIDE DEF x, y
  <2>3. IsPlace(j, r.x + x, r.y + y, c.w, c.h)
    BY <1>2, <1>3, <1>6, <2>1, PartCell
  <2>4. Grab(n) = [k \in 0..(c.w * c.h - 1) |-> [pixel |-> <<n.id, k % c.w, k \div c.w>>]]
    BY DEF Grab, Buffer, Area, Size, c
  <2> HIDE DEF j
  <2>5. shot[i] = [pixel |-> <<n.id, r.x + x, r.y + y>>]
    BY <2>2, <2>3, <2>4 DEF IsPlace
  <2> QED BY <2>5 DEF x, y
<1>8. shot = PartOf(n, r.x, r.y, b.w, b.h)
  BY <1>4, <1>5, <1>7 DEF PartOf
<1> QED BY <1>3, <1>6, <1>8 DEF r, c

\* A part of a monitor is a view of every desktop with that monitor.
LEMMA PartIsView ==
  ASSUME NEW l \in Layouts, NEW m \in l, NEW x \in Nat, NEW y \in Nat,
         NEW w \in Nat \ {0}, NEW h \in Nat \ {0}, x + w <= m.bounds.w, y + h <= m.bounds.h,
         NEW b, b = Rect(m.bounds.x + x, m.bounds.y + y, w, h)
  PROVE  PartOf(m, x, y, w, h) = View(l, b)
<1> DEFINE c == m.bounds
<1>0. b.x = c.x + x /\ b.y = c.y + y /\ b.w = w /\ b.h = h
  BY DEF Rect
<1>1. c \in Screen
  BY LayoutFacts
<1>2. c.x \in Int /\ c.y \in Int /\ c.x >= MinInt /\ c.y >= MinInt /\ c.w \in Nat /\ c.h \in Nat
  BY <1>1, MaxIntAssumption DEF Screen, Int32, MinInt
<1> HIDE DEF c
<1>3. ASSUME NEW i \in 0..(w * h - 1)
      PROVE  DesktopAt(l, b.x + (i % w), b.y + (i \div w)) = [pixel |-> <<m.id, x + (i % w), y + (i \div w)>>]
  <2> DEFINE p == i % w
             q == i \div w
  <2>1. p \in 0..(w - 1) /\ q \in 0..(h - 1)
    BY Cell
  <2> HIDE DEF p, q
  <2>2. /\ b.x + p \in Int /\ b.y + q \in Int /\ b.x + p >= MinInt /\ b.y + q >= MinInt
        /\ (b.x + p) - c.x = x + p /\ (b.y + q) - c.y = y + q
        /\ x + p >= 0 /\ x + p < c.w /\ y + q >= 0 /\ y + q < c.h
    BY <1>0, <1>2, <2>1, MaxIntAssumption DEF MinInt, c
  <2>3. Inside(c, b.x + p, b.y + q)
    BY <1>2, <2>1, <2>2 DEF Inside
  <2>4. DesktopAt(l, b.x + p, b.y + q) = Pixel(m, b.x + p, b.y + q)
    BY <2>2, <2>3, DesktopPixel DEF c
  <2>5. Pixel(m, b.x + p, b.y + q) = [pixel |-> <<m.id, x + p, y + q>>]
    BY <2>2 DEF Pixel, c
  <2> QED BY <2>4, <2>5 DEF p, q
<1> QED BY <1>0, <1>3, ViewCells DEF PartOf

\* A full-screen capture's frame shows a part of a desktop; of the primary
\* monitor it shows that monitor.
LEMMA FreezePrimary ==
  ASSUME main.at = "grab", GrabInv, main.target # "desktop", Shot, ShotsWhole
  PROVE  /\ IsView(main.shots[main.target], main.bounds.w, main.bounds.h)
         /\ The(main.of, main.target).primary
              => main.shots[main.target] = View(main.of, main.bounds)
<1> DEFINE m    == The(main.of, main.target)
           b    == main.bounds
           shot == main.shots[main.target]
<1>1. /\ main.of \in Layouts /\ m \in main.of /\ b = m.bounds /\ b \in Screen
  BY CaptureBounds DEF GrabInv, IsCapture
<1>2. Sized(shot, b) /\ PrimaryShot(b, shot)
  BY DEF GrabInv, Shot, ShotsWhole
<1>3. PICK n \in UNION Layouts : n.primary /\ shot = CopyRegion(Grab(n), n.bounds.w, LocalRegion(b, n))
  BY <1>2 DEF PrimaryShot, Sized
<1> DEFINE c == n.bounds
<1> HIDE DEF m, b, shot
<1>4. /\ b.x \in Int /\ b.y \in Int /\ b.w \in Nat \ {0} /\ b.h \in Nat \ {0}
      /\ c.x \in Int /\ c.y \in Int /\ c.w \in Nat \ {0} /\ c.h \in Nat \ {0}
      /\ c \in Screen
  BY <1>1, LayoutFacts, ScreenTyped
<1>5. PICK x, y \in Nat : /\ x = LocalRegion(b, n).x /\ y = LocalRegion(b, n).y
                         /\ x + b.w <= c.w /\ y + b.h <= c.h
                         /\ shot = PartOf(n, x, y, b.w, b.h)
  BY <1>1, <1>2, <1>3, PrimaryPart
<1>6. IsView(shot, b.w, b.h)
  <2>1. PICK l \in Layouts : n \in l
    OBVIOUS
  <2>2. c.x + x \in Int /\ c.y + y \in Int /\ c.x + x >= MinInt /\ c.y + y >= MinInt
    BY <1>4, MaxIntAssumption DEF Screen, Int32, MinInt
  <2>3. PartOf(n, x, y, b.w, b.h) = View(l, Rect(c.x + x, c.y + y, b.w, b.h))
    BY <1>4, <1>5, <2>1, PartIsView
  <2> HIDE DEF c
  <2> QED BY <1>5, <2>2, <2>3 DEF IsView
<1>7. ASSUME m.primary PROVE shot = View(main.of, b)
  <2>1. n.id = m.id /\ c.x = b.x /\ c.y = b.y
    <3>1. Steady(n, m)
      BY <1>1, LayoutsAssumption
    <3> QED BY <1>1, <1>3, <1>7, <3>1 DEF Steady
  <2>2. x = 0 /\ y = 0
    <3>1. LocalRegion(b, n).x = Larger(b.x - c.x, 0) /\ LocalRegion(b, n).y = Larger(b.y - c.y, 0)
      BY DEF LocalRegion, Rect
    <3> QED BY <1>4, <1>5, <2>1, <3>1 DEF Larger
  <2>3. shot = PartOf(m, 0, 0, b.w, b.h)
    BY <1>5, <2>1, <2>2 DEF PartOf
  <2> DEFINE z == 0
             d == Rect(m.bounds.x + z, m.bounds.y + z, b.w, b.h)
  <2>4. z \in Nat /\ z = 0 /\ z + b.w <= m.bounds.w /\ z + b.h <= m.bounds.h
    BY <1>1, <1>4
  <2>5. d.x = b.x /\ d.y = b.y /\ d.w = b.w /\ d.h = b.h
    BY <1>1, <1>4 DEF Rect
  <2> HIDE DEF z
  <2>6. PartOf(m, z, z, b.w, b.h) = View(main.of, d)
    BY <1>1, <1>4, <2>4, PartIsView
  <2> HIDE DEF d
  <2>7. View(main.of, d) = View(main.of, b)
    BY <2>5 DEF View, Buffer, Area
  <2> QED BY <2>3, <2>4, <2>6, <2>7
<1> QED BY <1>6, <1>7 DEF m, b, shot

\* The crop of a frame.
LEMMA CropExact ==
  ASSUME NEW b \in Screen, NEW crop, IsRegion(crop), NEW r, r = CropInBuffer(crop, b)
  PROVE  /\ r.x \in Nat /\ r.y \in Nat /\ r.w \in Nat /\ r.h \in Nat
         /\ r.w <= crop.w /\ r.h <= crop.h
         /\ r.w > 0 => r.x + r.w <= b.w /\ b.x + r.x = Larger(crop.x, b.x)
         /\ r.h > 0 => r.y + r.h <= b.h /\ b.y + r.y = Larger(crop.y, b.y)
<1> DEFINE p == PhysicalToCaptureBuffer(crop, b)
           e == Rect(0, 0, b.w, b.h)
<1>1. /\ b.x \in Int /\ b.y \in Int /\ b.w \in 1..MaxInt /\ b.h \in 1..MaxInt
  BY ScreenTyped DEF Screen
<1>2. crop.x \in Int /\ crop.y \in Int /\ crop.w \in 1..MaxInt /\ crop.h \in 1..MaxInt
  BY DEF IsRegion
<1>3. /\ p.x = Larger(Saturate(crop.x - b.x), 0) /\ p.y = Larger(Saturate(crop.y - b.y), 0)
      /\ p.w = crop.w /\ p.h = crop.h
      /\ e.x = 0 /\ e.y = 0 /\ e.w = b.w /\ e.h = b.h
  BY DEF PhysicalToCaptureBuffer, Rect
<1>4. Wrap(crop.w) = crop.w /\ Wrap(crop.h) = crop.h /\ Wrap(b.w) = b.w /\ Wrap(b.h) = b.h
  BY <1>1, <1>2, WrapFits, MaxIntAssumption
<1>5. r = ClampedTo(p, e)
  BY DEF CropInBuffer, ClampToCaptureBuffer
<1> HIDE DEF p, e
<1>6. /\ p.x \in 0..MaxInt /\ (p.x < MaxInt => b.x + p.x = Larger(crop.x, b.x))
      /\ p.y \in 0..MaxInt /\ (p.y < MaxInt => b.y + p.y = Larger(crop.y, b.y))
  <2>1. ASSUME NEW n \in Int, NEW o \in Int
        PROVE  LET z == Larger(Saturate(n - o), 0)
               IN  z \in 0..MaxInt /\ (z < MaxInt => o + z = Larger(n, o))
    BY MaxIntAssumption DEF Saturate, ClampTo, Larger, Smaller, MinInt
  <2> QED BY <1>1, <1>2, <1>3, <2>1
<1>7. Right(e) = b.w /\ Bottom(e) = b.h
  BY <1>1, <1>3, <1>4, MaxIntAssumption DEF Right, Bottom, Saturate, ClampTo, Larger, Smaller, MinInt
<1>8. Smaller(Right(p), b.w) = Smaller(p.x + p.w, b.w) /\ Smaller(Bottom(p), b.h) = Smaller(p.y + p.h, b.h)
  BY <1>1, <1>2, <1>3, <1>4, <1>6, MaxIntAssumption DEF Right, Bottom, Saturate, ClampTo, Larger, Smaller, MinInt
<1>9. r = Rect(p.x, p.y, Larger(Smaller(p.x + p.w, b.w) - p.x, 0), Larger(Smaller(p.y + p.h, b.h) - p.y, 0))
  BY <1>1, <1>2, <1>3, <1>5, <1>6, <1>7, <1>8 DEF ClampedTo, Larger
<1>10. /\ r.x = p.x /\ r.y = p.y
       /\ r.w = Larger(Smaller(p.x + p.w, b.w) - p.x, 0) /\ r.h = Larger(Smaller(p.y + p.h, b.h) - p.y, 0)
  BY <1>9 DEF Rect
<1>11. r.w \in Nat /\ r.w <= crop.w /\ (r.w > 0 => p.x + r.w <= b.w /\ p.x < MaxInt)
  <2>1. /\ p.x \in 0..MaxInt /\ p.w \in 1..MaxInt /\ b.w \in 1..MaxInt /\ p.w = crop.w
        /\ r.w = Larger(Smaller(p.x + p.w, b.w) - p.x, 0)
    BY <1>1, <1>2, <1>3, <1>6, <1>10
  <2> QED BY <2>1, MaxIntAssumption DEF Larger, Smaller
<1>12. r.h \in Nat /\ r.h <= crop.h /\ (r.h > 0 => p.y + r.h <= b.h /\ p.y < MaxInt)
  <2>1. /\ p.y \in 0..MaxInt /\ p.h \in 1..MaxInt /\ b.h \in 1..MaxInt /\ p.h = crop.h
        /\ r.h = Larger(Smaller(p.y + p.h, b.h) - p.y, 0)
    BY <1>1, <1>2, <1>3, <1>6, <1>10
  <2> QED BY <2>1, MaxIntAssumption DEF Larger, Smaller
<1>13. r.x \in 0..MaxInt /\ r.y \in 0..MaxInt /\ r.x = p.x /\ r.y = p.y
  BY <1>6, <1>10
<1> QED BY <1>6, <1>11, <1>12, <1>13, MaxIntAssumption

\* A crop of a view that is whole is a view.
LEMMA WholeCropShows ==
  ASSUME NEW l, NEW b \in Screen, NEW crop, IsRegion(crop), NEW r, r = CropInBuffer(crop, b),
         NEW f, f.x \in Int, f.y \in Int, f.w = b.w, f.h = b.h,
         NEW rgba, rgba = CopyRegion(View(l, f), b.w, r),
         Cardinality(DOMAIN rgba) = Area(crop)
  PROVE  /\ r.x \in Nat /\ r.y \in Nat
         /\ b.x + r.x = Larger(crop.x, b.x) /\ b.y + r.y = Larger(crop.y, b.y)
         /\ rgba = View(l, Rect(f.x + r.x, f.y + r.y, crop.w, crop.h))
<1>1. /\ b.x \in Int /\ b.y \in Int /\ b.w \in Nat \ {0} /\ b.h \in Nat \ {0}
  BY ScreenTyped
<1>2. crop.x \in Int /\ crop.y \in Int /\ crop.w \in Nat \ {0} /\ crop.h \in Nat \ {0}
  BY MaxIntAssumption DEF IsRegion
<1>3. /\ r.x \in Nat /\ r.y \in Nat /\ r.w \in Nat /\ r.h \in Nat
      /\ r.w <= crop.w /\ r.h <= crop.h
      /\ r.w > 0 => r.x + r.w <= b.w /\ b.x + r.x = Larger(crop.x, b.x)
      /\ r.h > 0 => r.y + r.h <= b.h /\ b.y + r.y = Larger(crop.y, b.y)
  BY CropExact
<1>4. rgba = [i \in 0..(r.w * r.h - 1) |-> View(l, f)[PartIndex(r.x, r.y, b.w, i % r.w, i \div r.w)]]
  BY DEF CopyRegion, Buffer, Area, PartIndex
<1>5. r.w = crop.w /\ r.h = crop.h
  <2>1. DOMAIN rgba = 0..(r.w * r.h - 1)
    BY <1>4
  <2>2. r.w * r.h = crop.w * crop.h
    BY <1>3, <2>1, CellsOf DEF Area
  <2> QED BY <1>2, <1>3, <2>2, ProductExact
<1>6. /\ r.x + r.w <= b.w /\ r.y + r.h <= b.h
      /\ b.x + r.x = Larger(crop.x, b.x) /\ b.y + r.y = Larger(crop.y, b.y)
  BY <1>2, <1>3, <1>5
<1> DEFINE v == Rect(f.x + r.x, f.y + r.y, crop.w, crop.h)
<1>7. v.x = f.x + r.x /\ v.y = f.y + r.y /\ v.w = crop.w /\ v.h = crop.h
  BY DEF Rect
<1> HIDE DEF v
<1>8. ASSUME NEW i \in 0..(crop.w * crop.h - 1)
      PROVE  rgba[i] = DesktopAt(l, v.x + (i % crop.w), v.y + (i \div crop.w))
  <2> DEFINE c == i % crop.w
             d == i \div crop.w
             j == PartIndex(r.x, r.y, b.w, c, d)
  <2>1. rgba[i] = View(l, f)[j]
    BY <1>4, <1>5
  <2>2. IsPlace(i, c, d, r.w, r.h)
    BY <1>2, <1>5, PlaceOf
  <2> HIDE DEF c, d
  <2>3. IsPlace(j, r.x + c, r.y + d, b.w, b.h)
    BY <1>1, <1>3, <1>6, <2>2, PartCell
  <2>4. c \in Int /\ d \in Int
    BY <1>3, <2>2 DEF IsPlace
  <2> HIDE DEF j
  <2>5. View(l, f) = [k \in 0..(b.w * b.h - 1) |-> DesktopAt(l, f.x + (k % b.w), f.y + (k \div b.w))]
    BY ViewCells
  <2>6. View(l, f)[j] = DesktopAt(l, f.x + (r.x + c), f.y + (r.y + d))
    BY <2>3, <2>5 DEF IsPlace
  <2>7. f.x + (r.x + c) = v.x + c /\ f.y + (r.y + d) = v.y + d
    BY <1>3, <1>7, <2>4
  <2> QED BY <2>1, <2>6, <2>7 DEF c, d
<1>9. rgba = [i \in 0..(crop.w * crop.h - 1) |-> DesktopAt(l, v.x + (i % crop.w), v.y + (i \div crop.w))]
  BY <1>4, <1>5, <1>8
<1>10. rgba = View(l, v)
  BY <1>7, <1>9, ViewCells
<1> QED BY <1>3, <1>6, <1>10 DEF v

\* What the overlay may select is inside the bounds.
LEMMA SelectionsFit ==
  ASSUME NEW b \in Screen, NEW s \in Selections(b)
  PROVE  CropOf(s, b)
<1>1. /\ b.x \in Int /\ b.y \in Int /\ b.w \in Nat \ {0} /\ b.h \in Nat \ {0}
  BY ScreenTyped
<1> DEFINE stage == Stage(b)
<1>2. PICK r \in Drags(stage) : s = PhysicalSelection(r, b)
  BY DEF Selections
<1>3. s.w >= MinSelection /\ s.h >= MinSelection
  BY DEF Selections
<1>4. stage.w \in Int /\ stage.h \in Int
  <2>1. \A n \in Nat : RoundDiv(n * 100, ScalePercent) \in Int
    <3> SUFFICES ASSUME NEW n \in Nat PROVE RoundDiv(n * 100, ScalePercent) \in Int
      OBVIOUS
    <3> DEFINE a == 2 * (n * 100) + ScalePercent
               d == 2 * ScalePercent
    <3>1. a \in Nat /\ d \in Nat \ {0} /\ n * 100 >= 0
      BY ScalesAssumption
    <3>2. a \div d \in Nat
      BY <3>1, DivMod
    <3> QED BY <3>1, <3>2 DEF RoundDiv
  <2> QED BY <1>1, <2>1 DEF Stage, Size
<1> HIDE DEF stage
<1>5. /\ r.x \in 0..stage.w /\ r.y \in 0..stage.h /\ r.w \in 1..stage.w /\ r.h \in 1..stage.h
  BY DEF Drags
<1>6. stage.w \in Nat \ {0} /\ stage.h \in Nat \ {0}
  BY <1>4, <1>5
<1>7. /\ StageToPhysical(r.x, b.w, stage.w) \in 0..b.w /\ StageToPhysical(r.y, b.h, stage.h) \in 0..b.h
      /\ StageToPhysical(r.w, b.w, stage.w) \in 0..b.w /\ StageToPhysical(r.h, b.h, stage.h) \in 0..b.h
  BY <1>1, <1>5, <1>6, RoundDivBounds DEF StageToPhysical
<1>8. s = Rect(b.x + StageToPhysical(r.x, b.w, stage.w), b.y + StageToPhysical(r.y, b.h, stage.h),
               StageToPhysical(r.w, b.w, stage.w), StageToPhysical(r.h, b.h, stage.h))
  BY <1>2 DEF PhysicalSelection, stage
<1> HIDE DEF stage
<1>9. b.w <= MaxInt /\ b.h <= MaxInt
  BY DEF Screen
<1> QED BY <1>1, <1>3, <1>7, <1>8, <1>9, ScalesAssumption, MaxIntAssumption DEF CropOf, IsRegion, Rect

--------------------------------------------------------------------------------
\* What leaves the commands and the capture alone.
LEMMA EngineKept ==
  ASSUME EngineInv, LayoutInv', UNCHANGED <<main, save, sessionVars>>, frozen' = frozen \/ frozen' = NoFrame
  PROVE  EngineInv'
<1> USE DEF sessionVars
<1>1. GrabInv'
  BY DEF EngineInv, GrabInv
<1>2. SessionInv'
  BY DEF EngineInv, SessionInv
<1>3. FrameInv'
  BY DEF EngineInv, FrameInv
<1>4. CallsInv'
  BY DEF EngineInv, CallsInv, CallInv
<1>5. TaskInv(main)' /\ TaskInv(save)'
  BY DEF EngineInv, TaskInv, PictureInv
<1> QED BY <1>1, <1>2, <1>3, <1>4, <1>5 DEF EngineInv

\* Each step of the watcher keeps the invariant,
LEMMA InvalidateLayoutStep == ASSUME EngineInv, InvalidateLayout PROVE EngineInv'
<1>1. LayoutInv'
  BY DEF EngineInv, LayoutInv, InvalidateLayout
<1> QED BY <1>1, EngineKept DEF InvalidateLayout

\* the poll's query,
LEMMA QueryLayoutStep == ASSUME EngineInv, QueryLayout PROVE EngineInv'
<1>1. LayoutInv'
  BY DEF EngineInv, LayoutInv, QueryLayout, MonitorLayout
<1> QED BY <1>1, EngineKept DEF QueryLayout

\* and a change of the monitors.
LEMMA LayoutChangeStep == ASSUME EngineInv, LayoutChange PROVE EngineInv'
<1>1. LayoutInv'
  BY DEF EngineInv, LayoutInv, LayoutChange, engineVars
<1> QED BY <1>1, EngineKept DEF LayoutChange, engineVars

\* A command that has no picture in hand.
LEMMA NoTask ==
  ASSUME EngineInv, LayoutInv', GrabInv', SessionInv', main'.at \notin {"flatten", "clear", "deliver"},
         UNCHANGED <<frozen, save, last, sent, taken>>,
         selection' = selection \/ selection' = NoCapture
  PROVE  EngineInv'
<1>1. FrameInv'
  BY DEF EngineInv, FrameInv
<1>2. CallsInv'
  BY DEF EngineInv, CallsInv, CallInv
<1>3. TaskInv(main)' /\ TaskInv(save)'
  BY DEF EngineInv, TaskInv, PictureInv
<1> QED BY <1>1, <1>2, <1>3 DEF EngineInv

\* Each step of a capture keeps the invariant: a region is asked for,
LEMMA RequestRegionStep == ASSUME EngineInv, RequestRegion PROVE EngineInv'
<1>1. main' = [at |-> "layout", target |-> "desktop"] /\ main.at = "idle"
  BY DEF RequestRegion, Idle
<1>2. LayoutInv' /\ GrabInv' /\ SessionInv'
  BY <1>1 DEF RequestRegion, EngineInv, LayoutInv, GrabInv, SessionInv, engineVars
<1> QED BY <1>1, <1>2, NoTask DEF RequestRegion, engineVars

\* a monitor is,
LEMMA RequestFullScreenStep == ASSUME EngineInv, RequestFullScreen PROVE EngineInv'
<1>1. PICK l \in Layouts : MonitorLayout(l) /\ \E m \in l : main' = [at |-> "layout", target |-> m.id]
  BY DEF RequestFullScreen
<1>2. main'.at = "layout"
  BY <1>1
<1>3. LayoutInv' /\ GrabInv' /\ SessionInv'
  BY <1>1, <1>2 DEF RequestFullScreen, EngineInv, LayoutInv, GrabInv, SessionInv, MonitorLayout
<1> QED BY <1>2, <1>3, NoTask DEF RequestFullScreen

\* the layout is there,
LEMMA TakeLayoutStep == ASSUME EngineInv, TakeLayout PROVE EngineInv'
<1>1. PICK l \in Layouts : /\ MonitorLayout(l) /\ Capturable(l, main.target)
                           /\ main' = [at |-> "grab", target |-> main.target, of |-> l,
                                       bounds |-> BoundsOf(l, main.target), shots |-> <<>>]
  BY DEF TakeLayout
<1>2. LayoutInv' /\ SessionInv'
  BY <1>1 DEF TakeLayout, EngineInv, LayoutInv, SessionInv, MonitorLayout, sessionVars
<1>3. GrabInv'
  BY <1>1 DEF GrabInv, IsCapture
<1> QED BY <1>1, <1>2, <1>3, NoTask DEF TakeLayout, sessionVars

\* or not;
LEMMA LayoutRefusedStep == ASSUME EngineInv, LayoutRefused PROVE EngineInv'
<1>1. main' = [at |-> "idle"]
  BY DEF LayoutRefused, Idle
<1>2. LayoutInv' /\ GrabInv' /\ SessionInv'
  BY <1>1 DEF LayoutRefused, EngineInv, LayoutInv, GrabInv, SessionInv, MonitorLayout, sessionVars
<1> QED BY <1>1, <1>2, NoTask DEF LayoutRefused, sessionVars

\* a monitor has been grabbed, as it is now,
LEMMA ShootMonitorStep ==
  ASSUME EngineInv, NEW m \in UNION Layouts, ShootMonitor(m) PROVE EngineInv'
<1>1. PICK shot : /\ shot = Failed \/ (Has(layout, m.id) /\ shot = Grab(The(layout, m.id)))
                  /\ main' = [main EXCEPT !.shots = With(main.shots, m.id, shot)]
  BY DEF ShootMonitor
<1>2. /\ main.at = "grab" /\ main.target = "desktop" /\ GrabInv
      /\ DOMAIN main = {"at", "target", "of", "bounds", "shots"}
  BY DEF ShootMonitor, EngineInv, GrabInv
<1>3. /\ main'.at = "grab" /\ main'.target = "desktop" /\ main'.of = main.of /\ main'.bounds = main.bounds
      /\ DOMAIN main' = DOMAIN main /\ main'.shots = With(main.shots, m.id, shot)
  BY <1>1, <1>2
<1>4. MonitorShot(m.id, shot)
  <2>1. ASSUME Has(layout, m.id) PROVE The(layout, m.id) \in UNION Layouts /\ The(layout, m.id).id = m.id
    BY <2>1 DEF Has, The, EngineInv, LayoutInv
  <2> QED BY <1>1, <2>1 DEF MonitorShot
<1>5. \A id \in DOMAIN main'.shots : MonitorShot(id, main'.shots[id])
  BY <1>2, <1>3, <1>4 DEF GrabInv, With
<1>6. IsCapture(main')
  BY <1>2, <1>3 DEF GrabInv, IsCapture
<1>7. GrabInv'
  BY <1>2, <1>3, <1>5, <1>6 DEF GrabInv
<1>8. LayoutInv' /\ SessionInv'
  BY <1>2, <1>3 DEF ShootMonitor, EngineInv, LayoutInv, SessionInv, engineVars, sessionVars
<1> QED BY <1>3, <1>7, <1>8, NoTask DEF ShootMonitor, engineVars, sessionVars

\* or the primary one has;
LEMMA ShootPrimaryStep == ASSUME EngineInv, ShootPrimary PROVE EngineInv'
<1> DEFINE m == PrimaryOf(layout)
<1>1. PICK shot : /\ shot = Failed \/ shot = CopyRegion(Grab(m), m.bounds.w, LocalRegion(main.bounds, m))
                  /\ main' = [main EXCEPT !.shots = With(main.shots, main.target, shot)]
  BY DEF ShootPrimary
<1>2. /\ main.at = "grab" /\ main.target # "desktop" /\ GrabInv
      /\ DOMAIN main = {"at", "target", "of", "bounds", "shots"}
  BY DEF ShootPrimary, EngineInv, GrabInv
<1>3. /\ main'.at = "grab" /\ main'.target = main.target /\ main'.of = main.of /\ main'.bounds = main.bounds
      /\ DOMAIN main' = DOMAIN main /\ main'.shots = With(main.shots, main.target, shot)
  BY <1>1, <1>2
<1>4. PrimaryShot(main.bounds, shot)
  <2>1. m \in UNION Layouts /\ m.primary
    BY LayoutFacts DEF PrimaryOf, EngineInv, LayoutInv
  <2> QED BY <1>1, <2>1 DEF PrimaryShot
<1>5. DOMAIN main'.shots = {main.target} /\ main'.shots[main.target] = shot
  <2>1. main.shots = <<>>
    BY DEF ShootPrimary
  <2> QED BY <1>3, <2>1 DEF With
<1>6. IsCapture(main')
  BY <1>2, <1>3 DEF GrabInv, IsCapture
<1>7. GrabInv'
  BY <1>2, <1>3, <1>4, <1>5, <1>6 DEF GrabInv
<1>8. LayoutInv' /\ SessionInv'
  BY <1>2, <1>3 DEF ShootPrimary, EngineInv, LayoutInv, SessionInv, engineVars, sessionVars
<1> QED BY <1>3, <1>7, <1>8, NoTask DEF ShootPrimary, engineVars, sessionVars

\* a grab failed;
LEMMA CaptureFailsStep == ASSUME EngineInv, CaptureFails PROVE EngineInv'
<1>1. main' = [at |-> "idle"]
  BY DEF CaptureFails, Idle
<1>2. LayoutInv' /\ GrabInv' /\ SessionInv'
  BY <1>1 DEF CaptureFails, EngineInv, LayoutInv, GrabInv, SessionInv, engineVars, sessionVars
<1> QED BY <1>1, <1>2, NoTask DEF CaptureFails, engineVars, sessionVars

\* the overlay is shown.
LEMMA RevealStep == ASSUME EngineInv, Reveal PROVE EngineInv'
<1>1. main' = [at |-> "idle"] /\ main.at = "reveal"
  BY DEF Reveal, Idle
<1>2. LayoutInv' /\ GrabInv' /\ SessionInv'
  BY <1>1 DEF Reveal, EngineInv, LayoutInv, GrabInv, SessionInv, MonitorLayout
<1> QED BY <1>1, <1>2, NoTask DEF Reveal

\* The frame is put together: from here on the invariant says what it shows.
LEMMA FreezeFrameStep == ASSUME EngineInv, FreezeFrame PROVE EngineInv'
<1> DEFINE rgba == IF main.target = "desktop" THEN Composite(main.of, main.bounds, main.shots)
                                              ELSE main.shots[main.target]
<1>1. /\ main.at = "grab" /\ GrabInv /\ IsCapture(main) /\ taken \in Nat /\ main.bounds \in Screen
  BY CaptureBounds DEF FreezeFrame, EngineInv, GrabInv, SessionInv, IsCapture
<1>2. /\ frozen' = [id |-> taken + 1, bounds |-> main.bounds, rgba |-> rgba]
      /\ last' = [id |-> taken + 1, bounds |-> main.bounds, target |-> main.target, of |-> main.of]
      /\ taken' = taken + 1 /\ session' = "ready"
      /\ save' = save /\ selection' = selection /\ sent' = sent
  BY DEF FreezeFrame, Frame, Resolution
<1>3. /\ IsView(rgba, main.bounds.w, main.bounds.h)
      /\ main.target = "desktop" \/ The(main.of, main.target).primary => rgba = View(main.of, main.bounds)
  <2>1. CASE main.target = "desktop"
    <3>1. rgba = View(main.of, main.bounds) /\ main.of \in Layouts
      BY <1>1, <2>1, FreezeRegion DEF FreezeFrame, IsCapture
    <3> HIDE DEF rgba
    <3>2. rgba = View(main.of, Rect(main.bounds.x, main.bounds.y, main.bounds.w, main.bounds.h))
      BY <3>1 DEF View, Buffer, Area, Rect
    <3>3. main.bounds.x \in Int /\ main.bounds.y \in Int /\ main.bounds.x >= MinInt /\ main.bounds.y >= MinInt
      BY <1>1, MaxIntAssumption DEF Screen, Int32, MinInt
    <3> QED BY <3>1, <3>2, <3>3 DEF IsView
  <2>2. CASE main.target # "desktop"
    BY <1>1, <2>2, FreezePrimary DEF FreezeFrame
  <2> QED BY <2>1, <2>2
<1> HIDE DEF rgba
<1>4. IsCapture(last')
  BY <1>1, <1>2 DEF IsCapture
<1>5. FrameInv'
  <2>1. OfWhatItShows(last') => rgba = View(last'.of, last'.bounds)
    BY <1>2, <1>3 DEF OfWhatItShows
  <2> QED BY <1>1, <1>2, <1>3, <1>4, <2>1 DEF FrameInv
<1>6. CallsInv'
  <2>1. \A call : CallInv(call) => CallInv(call)'
    <3> SUFFICES ASSUME NEW call, CallInv(call) PROVE CallInv(call)'
      OBVIOUS
    <3>1. call.drawn \in 1..(taken + 1) /\ call.drawn # taken + 1
      BY <1>1 DEF CallInv
    <3> QED BY <1>2, <3>1 DEF CallInv
  <2> QED BY <1>2, <2>1 DEF EngineInv, CallsInv
<1>7. TaskInv(save)'
  <2>1. save.at \in {"flatten", "clear", "deliver"} => save.ask.id # taken + 1 /\ save.ask.id \in 1..(taken + 1)
    BY <1>1 DEF EngineInv, TaskInv
  <2> QED BY <1>1, <1>2, <2>1 DEF EngineInv, TaskInv, PictureInv
<1>8. LayoutInv'
  BY DEF FreezeFrame, EngineInv, LayoutInv
<1>9. GrabInv' /\ SessionInv' /\ TaskInv(main)'
  <2>1. CASE main.target = "desktop"
    <3>1. main' = [at |-> "reveal"]
      BY <2>1 DEF FreezeFrame
    <3> QED BY <1>1, <1>2, <3>1 DEF GrabInv, SessionInv, TaskInv
  <2>2. CASE main.target # "desktop"
    <3>1. main' = [at |-> "flatten", ask |-> last', drawn |-> taken + 1, crop |-> main.bounds, annotations |-> <<>>]
      BY <2>2, <1>2 DEF FreezeFrame, Resolution
    <3>2. CropOf(main.bounds, main.bounds)
      BY <1>1, ScreenTyped DEF CropOf, IsRegion, Screen
    <3>3. TaskInv(main)'
      BY <1>1, <1>2, <1>4, <3>1, <3>2 DEF TaskInv, CropOf
    <3>4. GrabInv' /\ SessionInv'
      BY <1>1, <1>2, <3>1 DEF GrabInv, SessionInv
    <3> QED BY <3>3, <3>4
  <2> QED BY <2>1, <2>2
<1> QED BY <1>5, <1>6, <1>7, <1>8, <1>9 DEF EngineInv

\* A selection is inside the capture it was drawn over.
LEMMA SelectStep == ASSUME EngineInv, Select PROVE EngineInv'
<1>1. PICK crop \in Selections(last.bounds), scene \in Scenes :
        selection' = [drawn |-> last.id, crop |-> crop, annotations |-> scene]
  BY DEF Select
<1>2. taken \in Nat /\ taken > 0 /\ last.id = taken /\ last.bounds \in Screen
  BY CaptureBounds DEF Select, EngineInv, SessionInv, FrameInv, IsCapture
<1>3. CropOf(crop, last.bounds)
  BY <1>2, SelectionsFit
<1>4. CallInv(selection')
  BY <1>1, <1>2, <1>3 DEF CallInv, CropOf
<1>5. CallsInv'
  BY <1>4 DEF Select, EngineInv, CallsInv, CallInv
<1>6. LayoutInv' /\ GrabInv' /\ FrameInv' /\ SessionInv'
  BY DEF Select, EngineInv, LayoutInv, GrabInv, FrameInv, SessionInv, engineVars
<1>7. TaskInv(main)' /\ TaskInv(save)'
  BY DEF Select, EngineInv, TaskInv, PictureInv
<1> QED BY <1>5, <1>6, <1>7 DEF EngineInv

\* A commit is sent.
LEMMA RequestCommitStep == ASSUME EngineInv, RequestCommit PROVE EngineInv'
<1>1. CallsInv'
  BY DEF RequestCommit, EngineInv, CallsInv, CallInv
<1>2. LayoutInv' /\ GrabInv' /\ FrameInv' /\ SessionInv'
  BY DEF RequestCommit, EngineInv, LayoutInv, GrabInv, FrameInv, SessionInv, engineVars
<1>3. TaskInv(main)' /\ TaskInv(save)'
  BY DEF RequestCommit, EngineInv, TaskInv, PictureInv
<1> QED BY <1>1, <1>2, <1>3 DEF EngineInv

\* A handler takes up a call of the overlay, drawn over the last capture or not.
LEMMA AskedTask ==
  ASSUME EngineInv, NEW call, CallInv(call)
  PROVE  TaskInv(Asked(call)) /\ Asked(call).at = "flatten"
<1>1. taken \in Nat /\ call.drawn \in 1..taken /\ last.id = taken /\ IsCapture(last)
  BY DEF EngineInv, SessionInv, FrameInv, CallInv
<1> QED BY <1>1 DEF CallInv, TaskInv, Asked

\* The commit's does,
LEMMA BeginCommitStep == ASSUME EngineInv, BeginCommit PROVE EngineInv'
<1>1. TaskInv(Asked(sent)) /\ Asked(sent).at = "flatten"
  BY AskedTask DEF BeginCommit, EngineInv, CallsInv
<1>2. main' = Asked(sent) /\ main.at = "idle" /\ UNCHANGED <<taken, last>>
  BY DEF BeginCommit, Idle
<1>3. TaskInv(main)'
  BY <1>1, <1>2 DEF TaskInv
<1>4. LayoutInv' /\ GrabInv' /\ FrameInv' /\ SessionInv' /\ CallsInv'
  BY <1>1, <1>2 DEF BeginCommit, EngineInv, LayoutInv, GrabInv, FrameInv, SessionInv, CallsInv, CallInv, engineVars
<1>5. TaskInv(save)'
  BY DEF BeginCommit, EngineInv, TaskInv, PictureInv
<1> QED BY <1>3, <1>4, <1>5 DEF EngineInv

\* What is cut from the frame, if it is whole, is what the desktop showed.
LEMMA CutTask ==
  ASSUME EngineInv, NEW t, TaskInv(t), t.at = "flatten", Croppable(t), NEW c, c = Cut(t), WholeCrop(c)
  PROVE  PictureInv(c)
<1> DEFINE b == t.ask.bounds
           r == CropInBuffer(t.crop, b)
<1>1. /\ frozen # NoFrame /\ frozen.id = t.ask.id
  BY DEF Croppable, FrameOf
<1>2. /\ t.ask = last /\ frozen.bounds = b /\ IsView(frozen.rgba, b.w, b.h)
      /\ OfWhatItShows(t.ask) => frozen.rgba = View(t.ask.of, b)
  BY <1>1 DEF EngineInv, FrameInv, TaskInv
<1>3. b \in Screen /\ IsRegion(t.crop)
  BY CaptureBounds DEF TaskInv, IsCapture
<1>4. c.rgba = CopyRegion(frozen.rgba, b.w, r) /\ c.crop = t.crop /\ c.ask = t.ask
  BY <1>2 DEF Cut
<1>5. Cardinality(DOMAIN c.rgba) = Area(t.crop)
  BY <1>4 DEF WholeCrop
<1> HIDE DEF b, r
<1>6. IsView(c.rgba, t.crop.w, t.crop.h)
  <2>1. PICK l \in Layouts, x \in Int, y \in Int :
          x >= MinInt /\ y >= MinInt /\ frozen.rgba = View(l, Rect(x, y, b.w, b.h))
    BY <1>2 DEF IsView
  <2> DEFINE f == Rect(x, y, b.w, b.h)
  <2>2. f.x = x /\ f.y = y /\ f.w = b.w /\ f.h = b.h
    BY DEF Rect
  <2>3. c.rgba = CopyRegion(View(l, f), b.w, r)
    BY <1>4, <2>1
  <2> HIDE DEF f
  <2>4. /\ r.x \in Nat /\ r.y \in Nat
        /\ c.rgba = View(l, Rect(f.x + r.x, f.y + r.y, t.crop.w, t.crop.h))
    BY <1>3, <1>5, <2>1, <2>2, <2>3, WholeCropShows DEF r
  <2>5. x + r.x \in Int /\ y + r.y \in Int /\ x + r.x >= MinInt /\ y + r.y >= MinInt
    BY <2>1, <2>4, MaxIntAssumption DEF MinInt
  <2> QED BY <2>1, <2>2, <2>4, <2>5 DEF IsView
<1>7. ASSUME OfWhatItShows(t.ask) PROVE c.rgba = View(t.ask.of, CutAt(t.crop, b))
  <2>1. b.x \in Int /\ b.y \in Int
    BY <1>3, ScreenTyped
  <2>2. c.rgba = CopyRegion(View(t.ask.of, b), b.w, r)
    BY <1>2, <1>4, <1>7
  <2>3. /\ b.x + r.x = Larger(t.crop.x, b.x) /\ b.y + r.y = Larger(t.crop.y, b.y)
        /\ c.rgba = View(t.ask.of, Rect(b.x + r.x, b.y + r.y, t.crop.w, t.crop.h))
    BY <1>3, <1>5, <2>1, <2>2, WholeCropShows DEF r
  <2> QED BY <2>3 DEF CutAt
<1> QED BY <1>4, <1>6, <1>7 DEF PictureInv, b

\* The crop of a frame is a task that may go on.
LEMMA CutKept ==
  ASSUME EngineInv, NEW t, TaskInv(t), t.at = "flatten", Croppable(t)
  PROVE  TaskInv(Cut(t)) /\ Cut(t).at = "clear"
<1> DEFINE c == Cut(t)
<1>1. /\ c.at = "clear" /\ DOMAIN c = {"at", "ask", "drawn", "crop", "annotations", "rgba"}
      /\ c.ask = t.ask /\ c.drawn = t.drawn /\ c.crop = t.crop /\ c.annotations = t.annotations
  BY DEF Cut
<1>2. WholeCrop(c) => PictureInv(c)
  BY CutTask
<1> HIDE DEF c
<1>3. TaskInv(c)
  BY <1>1, <1>2 DEF TaskInv
<1> QED BY <1>1, <1>3 DEF c

\* Steps of a commit that leave the capture and the session alone.
LEMMA CommitOnly ==
  ASSUME EngineInv, main.at \in {"flatten", "clear", "deliver"}, main'.at \in {"clear", "deliver", "finish"},
         TaskInv(main)', frozen' = frozen \/ frozen' = NoFrame, UNCHANGED <<layout, cached, save, sessionVars>>
  PROVE  EngineInv'
<1>1. LayoutInv' /\ GrabInv' /\ FrameInv' /\ SessionInv' /\ CallsInv'
  BY DEF EngineInv, LayoutInv, GrabInv, FrameInv, SessionInv, CallsInv, CallInv, sessionVars
<1>2. TaskInv(save)'
  BY DEF EngineInv, TaskInv, PictureInv, sessionVars
<1> QED BY <1>1, <1>2 DEF EngineInv

\* Steps of a save leave the capture, the session and the commit alone.
LEMMA SaveOnly ==
  ASSUME EngineInv, TaskInv(save)', save'.at = "sent" => CallInv(save'.call),
         frozen' = frozen \/ frozen' = NoFrame,
         UNCHANGED <<layout, cached, main, sessionVars>>
  PROVE  EngineInv'
<1>1. LayoutInv' /\ GrabInv' /\ FrameInv' /\ SessionInv' /\ CallsInv'
  BY DEF EngineInv, LayoutInv, GrabInv, FrameInv, SessionInv, CallsInv, CallInv, sessionVars
<1>2. TaskInv(main)'
  BY DEF EngineInv, TaskInv, PictureInv, sessionVars
<1> QED BY <1>1, <1>2 DEF EngineInv

\* Each step of a commit keeps the invariant: the crop,
LEMMA FlattenForCommitStep == ASSUME EngineInv, FlattenForCommit PROVE EngineInv'
<1>1. TaskInv(Cut(main)) /\ Cut(main).at = "clear" /\ main' = Cut(main) /\ UNCHANGED <<taken, last>>
  BY CutKept DEF FlattenForCommit, EngineInv, sessionVars
<1>2. TaskInv(main)'
  BY <1>1 DEF TaskInv, PictureInv
<1> QED BY <1>1, <1>2, CommitOnly DEF FlattenForCommit, engineVars

\* A task goes from one step to the next.
LEMMA Delivered ==
  ASSUME NEW t, TaskInv(t), t.at = "clear", WholeCrop(t)
  PROVE  TaskInv([t EXCEPT !.at = "deliver"]) /\ [t EXCEPT !.at = "deliver"].at = "deliver"
<1> DEFINE d == [t EXCEPT !.at = "deliver"]
<1>1. DOMAIN t = {"at", "ask", "drawn", "crop", "annotations", "rgba"} /\ PictureInv(t)
  BY DEF TaskInv
<1>2. /\ d.at = "deliver" /\ DOMAIN d = DOMAIN t /\ d.ask = t.ask /\ d.drawn = t.drawn
      /\ d.crop = t.crop /\ d.annotations = t.annotations /\ d.rgba = t.rgba
  BY <1>1
<1> HIDE DEF d
<1>3. WholeCrop(d) /\ PictureInv(d)
  BY <1>1, <1>2 DEF WholeCrop, PictureInv
<1>4. TaskInv(d)
  BY <1>1, <1>2, <1>3 DEF TaskInv
<1> QED BY <1>2, <1>4 DEF d

\* the frame given up,
LEMMA ClearForCommitStep == ASSUME EngineInv, ClearForCommit PROVE EngineInv'
<1>1. main.at = "clear" /\ TaskInv(main) /\ UNCHANGED <<taken, last>>
  BY DEF ClearForCommit, EngineInv, sessionVars
<1>2. CASE WholeCrop(main)
  <2>1. main' = [main EXCEPT !.at = "deliver"]
    BY <1>2 DEF ClearForCommit
  <2>2. TaskInv([main EXCEPT !.at = "deliver"]) /\ main'.at = "deliver"
    BY <1>1, <1>2, <2>1, Delivered
  <2>3. TaskInv(main)'
    BY <1>1, <2>1, <2>2 DEF TaskInv, PictureInv
  <2> QED BY <1>1, <2>2, <2>3, CommitOnly DEF ClearForCommit
<1>3. CASE ~WholeCrop(main)
  <2>1. main'.at = "finish"
    BY <1>3 DEF ClearForCommit
  <2> QED BY <1>1, <2>1, CommitOnly DEF ClearForCommit, TaskInv
<1> QED BY <1>2, <1>3

\* the refusal,
LEMMA CommitRefusedStep == ASSUME EngineInv, CommitRefused PROVE EngineInv'
<1>1. main.at = "flatten" /\ main'.at = "finish"
  BY DEF CommitRefused
<1> QED BY <1>1, CommitOnly DEF CommitRefused, TaskInv, engineVars

\* the delivery,
LEMMA DeliverStep == ASSUME EngineInv, Deliver PROVE EngineInv'
<1>1. main.at = "deliver" /\ main'.at = "finish"
  BY DEF Deliver
<1> QED BY <1>1, CommitOnly DEF Deliver, TaskInv, engineVars

\* the end of the session,
LEMMA FinishCommitStep == ASSUME EngineInv, FinishCommit PROVE EngineInv'
<1>1. main'.at = "idle" /\ session' \in {"idle", session} /\ selection' = NoCapture
  BY DEF FinishCommit, Idle
<1>2. LayoutInv' /\ GrabInv' /\ SessionInv'
  BY <1>1 DEF FinishCommit, EngineInv, LayoutInv, GrabInv, SessionInv, engineVars
<1> QED BY <1>1, <1>2, NoTask DEF FinishCommit, engineVars

\* and a cancelled selection.
LEMMA RequestCancelStep == ASSUME EngineInv, RequestCancel PROVE EngineInv'
<1>1. main'.at = "idle" /\ session' = "idle" /\ selection' = NoCapture
  BY DEF RequestCancel, Idle
<1>2. LayoutInv' /\ GrabInv' /\ SessionInv'
  BY <1>1 DEF RequestCancel, EngineInv, LayoutInv, GrabInv, SessionInv, engineVars
<1> QED BY <1>1, <1>2, NoTask DEF RequestCancel, engineVars

\* Each step of a save keeps the invariant: the call,
LEMMA RequestSaveStep == ASSUME EngineInv, RequestSave PROVE EngineInv'
<1>1. save' = [at |-> "sent", call |-> selection] /\ CallInv(selection)
  BY DEF RequestSave, EngineInv, CallsInv
<1>2. TaskInv(save)'
  BY <1>1 DEF TaskInv
<1> QED BY <1>1, <1>2, SaveOnly DEF RequestSave, engineVars

\* its handler,
LEMMA BeginSaveStep == ASSUME EngineInv, BeginSave PROVE EngineInv'
<1>1. TaskInv(Asked(save.call)) /\ Asked(save.call).at = "flatten"
  BY AskedTask DEF BeginSave, EngineInv, CallsInv
<1>2. save' = Asked(save.call) /\ UNCHANGED <<taken, last>>
  BY DEF BeginSave, sessionVars
<1>3. TaskInv(save)'
  BY <1>1, <1>2 DEF TaskInv
<1> QED BY <1>1, <1>2, <1>3, SaveOnly DEF BeginSave, engineVars

\* the crop,
LEMMA FlattenForSaveStep == ASSUME EngineInv, FlattenForSave PROVE EngineInv'
<1>1. save.at = "flatten" /\ TaskInv(save) /\ UNCHANGED <<taken, last>>
  BY DEF FlattenForSave, EngineInv, sessionVars
<1>2. CASE Croppable(save)
  <2>1. TaskInv(Cut(save)) /\ Cut(save).at = "clear" /\ save' = Cut(save)
    BY <1>1, <1>2, CutKept DEF FlattenForSave
  <2>2. TaskInv(save)'
    BY <1>1, <2>1 DEF TaskInv, PictureInv
  <2>3. save'.at # "sent"
    BY <2>1
  <2> QED BY <2>2, <2>3, SaveOnly DEF FlattenForSave, engineVars
<1>3. CASE ~Croppable(save)
  <2>1. save'.at = "idle"
    BY <1>3 DEF FlattenForSave, Idle
  <2> QED BY <2>1, SaveOnly DEF FlattenForSave, TaskInv, engineVars
<1> QED BY <1>2, <1>3

\* the frame given up,
LEMMA ClearForSaveStep == ASSUME EngineInv, ClearForSave PROVE EngineInv'
<1>1. save.at = "clear" /\ TaskInv(save) /\ UNCHANGED <<taken, last>>
  BY DEF ClearForSave, EngineInv, sessionVars
<1>2. CASE WholeCrop(save)
  <2>1. save' = [save EXCEPT !.at = "deliver"]
    BY <1>2 DEF ClearForSave
  <2>2. TaskInv([save EXCEPT !.at = "deliver"]) /\ [save EXCEPT !.at = "deliver"].at = "deliver"
    BY <1>1, <1>2, Delivered
  <2>3. TaskInv(save)'
    BY <1>1, <2>1, <2>2 DEF TaskInv, PictureInv
  <2>4. save'.at # "sent"
    BY <1>1, <2>1, <2>2
  <2> QED BY <2>3, <2>4, SaveOnly DEF ClearForSave
<1>3. CASE ~WholeCrop(save)
  <2>1. save'.at = "idle"
    BY <1>3 DEF ClearForSave, Idle
  <2> QED BY <2>1, SaveOnly DEF ClearForSave, TaskInv
<1> QED BY <1>2, <1>3

\* and the end.
LEMMA FinishSaveStep == ASSUME EngineInv, FinishSave PROVE EngineInv'
<1>1. save'.at = "idle"
  BY DEF FinishSave, Idle
<1> QED BY <1>1, SaveOnly DEF FinishSave, TaskInv, engineVars

\* EngineInv is invariant.
LEMMA EngineInvHolds == EngineSpec => []EngineInv
<1>1. EngineInit => EngineInv
  BY DEF EngineInit, EngineInv, Idle, LayoutInv, GrabInv, SessionInv, FrameInv, CallsInv, TaskInv
<1>2. ASSUME EngineInv, [EngineNext]_captureVars PROVE EngineInv'
  <2>1. CASE Capture
    BY <1>2, <2>1, RequestRegionStep, RequestFullScreenStep, TakeLayoutStep, LayoutRefusedStep,
       ShootMonitorStep, ShootPrimaryStep, FreezeFrameStep, CaptureFailsStep, RevealStep DEF Capture
  <2>2. CASE Commit
    BY <1>2, <2>2, SelectStep, RequestCommitStep, BeginCommitStep, RequestCancelStep,
       FlattenForCommitStep, ClearForCommitStep, CommitRefusedStep, DeliverStep, FinishCommitStep DEF Commit
  <2>3. CASE Save
    BY <1>2, <2>3, RequestSaveStep, BeginSaveStep, FlattenForSaveStep, ClearForSaveStep, FinishSaveStep DEF Save
  <2>4. CASE Watcher
    BY <1>2, <2>4, InvalidateLayoutStep, QueryLayoutStep DEF Watcher
  <2>5. CASE LayoutChange
    BY <1>2, <2>5, LayoutChangeStep
  <2>6. CASE UNCHANGED captureVars
    <3>1. LayoutInv'
      BY <1>2, <2>6 DEF captureVars, engineVars, EngineInv, LayoutInv
    <3> QED BY <1>2, <2>6, <3>1, EngineKept DEF captureVars, engineVars
  <2> QED BY <1>2, <2>1, <2>2, <2>3, <2>4, <2>5, <2>6 DEF EngineNext
<1> QED BY <1>1, <1>2, PTL DEF EngineSpec

\* What a commit or a save delivers shows, pixel by pixel, the desktop of one
\* capture, the one its handler found: in its place what was drawn over it, and
\* from its corner on what was drawn over an older one; whatever became of the
\* monitors meanwhile and whatever captures, saves and polls ran beside it
\* (capture.rs, platform.rs).
THEOREM PicturesAreTheDesktop == EngineSpec => []PictureIsDesktop
<1>1. ASSUME EngineInv, NEW t \in Leaving, OfWhatItShows(t.ask)
      PROVE  t.rgba = Truth(IF t.drawn = t.ask.id THEN t.crop ELSE CutAt(t.crop, t.ask.bounds), t.ask.of)
  <2>1. TaskInv(t) /\ t.at = "deliver"
    BY <1>1 DEF EngineInv, Leaving
  <2>2. t.rgba = View(t.ask.of, CutAt(t.crop, t.ask.bounds))
    BY <1>1, <2>1 DEF TaskInv, PictureInv
  <2>3. \A crop : Truth(crop, t.ask.of) = View(t.ask.of, crop)
    BY DEF Truth, View
  <2>4. ASSUME t.drawn = t.ask.id
        PROVE  View(t.ask.of, CutAt(t.crop, t.ask.bounds)) = View(t.ask.of, t.crop)
    <3>1. CropOf(t.crop, t.ask.bounds) /\ t.ask.bounds \in Screen
      BY <2>1, <2>4, CaptureBounds DEF TaskInv, IsCapture
    <3>2. CutAt(t.crop, t.ask.bounds) = Rect(t.crop.x, t.crop.y, t.crop.w, t.crop.h)
      BY <3>1, ScreenTyped DEF CutAt, CropOf, IsRegion, Larger
    <3>3. \A l, b : View(l, Rect(b.x, b.y, b.w, b.h)) = View(l, b)
      BY DEF View, Buffer, Area, Rect
    <3> QED BY <3>2, <3>3
  <2> QED BY <2>2, <2>3, <2>4
<1>2. EngineInv => PictureIsDesktop
  BY <1>1 DEF PictureIsDesktop
<1> QED BY <1>2, EngineInvHolds, PTL

--------------------------------------------------------------------------------
\* Annotations have a topmost one.
LEMMA TopmostIs ==
  ASSUME NEW annotations, NEW s, IsFiniteSet(s), s # {}, s \subseteq Nat,
         \A n \in s : annotations[n].z \in Int /\ annotations[n].id \in Nat
  PROVE  Topmost(annotations, s) \in s
<1> DEFINE Good == {u \in SUBSET s : u # {} => \E n \in u : \A m \in u : Below(annotations, m, n)}
<1>1. ASSUME NEW m \in s, NEW n \in s PROVE Below(annotations, m, n) \/ Below(annotations, n, m)
  <2> DEFINE a == annotations[m]
             b == annotations[n]
  <2>1. a.z \in Int /\ b.z \in Int /\ a.id \in Nat /\ b.id \in Nat /\ m \in Nat /\ n \in Nat
    OBVIOUS
  <2> HIDE DEF a, b
  <2>2. \/ a.z < b.z \/ (a.z = b.z /\ (a.id < b.id \/ (a.id = b.id /\ m <= n)))
        \/ b.z < a.z \/ (b.z = a.z /\ (b.id < a.id \/ (b.id = a.id /\ n <= m)))
    BY <2>1
  <2> QED BY <2>2 DEF Below, a, b
<1>2. ASSUME NEW k \in s, NEW m \in s, NEW n \in s, Below(annotations, k, m), Below(annotations, m, n)
      PROVE  Below(annotations, k, n)
  <2> DEFINE a == annotations[k]
             b == annotations[m]
             c == annotations[n]
  <2>1. /\ a.z \in Int /\ b.z \in Int /\ c.z \in Int /\ a.id \in Nat /\ b.id \in Nat /\ c.id \in Nat
        /\ k \in Nat /\ m \in Nat /\ n \in Nat
    OBVIOUS
  <2>2. /\ a.z < b.z \/ (a.z = b.z /\ (a.id < b.id \/ (a.id = b.id /\ k <= m)))
        /\ b.z < c.z \/ (b.z = c.z /\ (b.id < c.id \/ (b.id = c.id /\ m <= n)))
    BY <1>2 DEF Below
  <2> HIDE DEF a, b, c
  <2>3. a.z < c.z \/ (a.z = c.z /\ (a.id < c.id \/ (a.id = c.id /\ k <= n)))
    BY <2>1, <2>2
  <2> QED BY <2>3 DEF Below, a, c
<1>3. ASSUME NEW u \in SUBSET s, \A v \in SUBSET u : v # u => v \in Good
      PROVE  u \in Good
  <2>1. SUFFICES ASSUME NEW k \in u PROVE u \in Good
    OBVIOUS
  <2>2. u \ {k} \in Good
    BY <1>3, <2>1
  <2>3. CASE u \ {k} = {}
    BY <1>1, <2>1, <2>3
  <2>4. CASE u \ {k} # {}
    <3>1. PICK n \in u \ {k} : \A m \in u \ {k} : Below(annotations, m, n)
      BY <2>2, <2>4
    <3>2. CASE Below(annotations, k, n)
      BY <3>1, <3>2
    <3>3. CASE Below(annotations, n, k)
      <4>1. \A m \in u : Below(annotations, m, k)
        BY <1>1, <1>2, <2>1, <3>1, <3>3
      <4> QED BY <2>1, <4>1
    <3> QED BY <1>1, <2>1, <3>1, <3>2, <3>3
  <2> QED BY <2>3, <2>4
<1> HIDE DEF Good
<1>4. s \in Good
  BY <1>3, SetInduction
<1> QED BY <1>4 DEF Topmost, Good

\* Next to a pixel of a picture of more than one pixel there is another one.
Beside(x, y, u, v, w, h) ==
  u \in 0..(w - 1) /\ v \in 0..(h - 1) /\ u \in (x - 1)..(x + 1) /\ v \in (y - 1)..(y + 1) /\ (u # x \/ v # y)

\* There is one.
LEMMA Neighbour ==
  ASSUME NEW w \in Nat \ {0}, NEW h \in Nat \ {0}, w * h > 1, NEW x \in 0..(w - 1), NEW y \in 0..(h - 1)
  PROVE  \E u, v : Beside(x, y, u, v, w, h)
<1>1. w > 1 \/ h > 1
  <2>1. w = 1 /\ h = 1 => w * h = 1
    OBVIOUS
  <2> QED BY <2>1
<1>2. CASE w > 1
  <2>1. Beside(x, y, x + 1, y, w, h) \/ Beside(x, y, x - 1, y, w, h)
    BY <1>2 DEF Beside
  <2> QED BY <2>1
<1>3. CASE h > 1
  <2>1. Beside(x, y, x, y + 1, w, h) \/ Beside(x, y, x, y - 1, w, h)
    BY <1>3 DEF Beside
  <2> QED BY <2>1
<1> QED BY <1>1, <1>2, <1>3

\* Two places of a desktop do not show one pixel.
LEMMA PixelsDiffer ==
  ASSUME NEW l \in Layouts, NEW x \in Int, NEW y \in Int, NEW u \in Int, NEW v \in Int,
         x >= MinInt, y >= MinInt, u >= MinInt, v >= MinInt, u # x \/ v # y,
         DesktopAt(l, x, y) # Uncovered
  PROVE  DesktopAt(l, u, v) # DesktopAt(l, x, y)
<1>1. PICK m \in l : DesktopAt(l, x, y) = Pixel(m, x, y)
  BY DesktopPixel
<1>2. CASE \A n \in l : ~Inside(n.bounds, u, v)
  <2>1. DesktopAt(l, u, v) = Uncovered
    BY <1>2, DesktopPixel
  <2> QED BY <2>1
<1>3. CASE \E n \in l : Inside(n.bounds, u, v)
  <2>1. PICK n \in l : Inside(n.bounds, u, v)
    BY <1>3
  <2>2. DesktopAt(l, u, v) = Pixel(n, u, v)
    BY <2>1, DesktopPixel
  <2>3. m.bounds \in Screen /\ (n.id = m.id => n = m)
    BY LayoutFacts, LayoutsAssumption DEF IsDesktop
  <2>4. m.bounds.x \in Int /\ m.bounds.y \in Int
    BY <2>3, ScreenTyped
  <2>5. Pixel(m, x, y) = Pixel(n, u, v) => m.id = n.id /\ x - m.bounds.x = u - n.bounds.x /\ y - m.bounds.y = v - n.bounds.y
    BY DEF Pixel
  <2> QED BY <1>1, <2>2, <2>3, <2>4, <2>5
<1> QED BY <1>2, <1>3

\* A picture of more than one pixel of the extent of a crop, at a place of a
\* desktop.
IsAt(at, crop) ==
  /\ at.x \in Int /\ at.y \in Int /\ at.x >= MinInt /\ at.y >= MinInt
  /\ at.w = crop.w /\ at.h = crop.h
  /\ crop.w \in Nat \ {0} /\ crop.h \in Nat \ {0} /\ crop.w * crop.h > 1

Cells(crop) == 0..(crop.w * crop.h - 1)

\* The pixel of a view at a place.
LEMMA ViewAt ==
  ASSUME NEW l, NEW at, NEW crop, at.w = crop.w, at.h = crop.h, NEW src, src = View(l, at), NEW i, NEW x, NEW y, IsPlace(i, x, y, crop.w, crop.h)
  PROVE  i \in DOMAIN src /\ DOMAIN src = Cells(crop) /\ src[i] = DesktopAt(l, at.x + x, at.y + y)
<1>1. src = [j \in Cells(crop) |-> DesktopAt(l, at.x + (j % crop.w), at.y + (j \div crop.w))]
  BY ViewCells DEF Cells
<1>2. i \in Cells(crop) /\ i % crop.w = x /\ i \div crop.w = y
  BY DEF IsPlace, Cells
<1> QED BY <1>1, <1>2

\* The place of a cell next to another.
LEMMA PlaceAt ==
  ASSUME NEW w \in Nat \ {0}, NEW h \in Nat, NEW x \in 0..(w - 1), NEW y \in 0..(h - 1)
  PROVE  IsPlace(y * w + x, x, y, w, h)
BY CellIndex DEF IsPlace

\* A kernel around a pixel of the desktop has other pixels too.
LEMMA KernelMixes ==
  ASSUME NEW l \in Layouts, NEW at, NEW crop, IsAt(at, crop), NEW src, src = View(l, at), NEW r \in Nat \ {0},
         NEW i, NEW x, NEW y, IsPlace(i, x, y, crop.w, crop.h), src[i] # Uncovered
  PROVE  Under(src, crop, Kernel(x, y, r)) # {src[i]}
<1> DEFINE w == crop.w
           h == crop.h
<1>1. /\ w \in Nat \ {0} /\ h \in Nat \ {0} /\ w * h > 1
      /\ at.x \in Int /\ at.y \in Int /\ at.x >= MinInt /\ at.y >= MinInt
  BY DEF IsAt
<1>2. x \in 0..(w - 1) /\ y \in 0..(h - 1)
  BY DEF IsPlace
<1>3. PICK u, v : Beside(x, y, u, v, w, h)
  BY <1>1, <1>2, Neighbour
<1>4. u \in 0..(w - 1) /\ v \in 0..(h - 1) /\ (u # x \/ v # y)
  BY <1>3 DEF Beside
<1>5. PICK j : IsPlace(j, u, v, w, h)
  BY <1>1, <1>4, PlaceAt
<1>6. j \in DOMAIN src /\ src[j] = DesktopAt(l, at.x + u, at.y + v)
      /\ src[i] = DesktopAt(l, at.x + x, at.y + y)
  BY <1>5, ViewAt DEF IsAt
<1>7. src[j] # src[i]
  <2>1. /\ at.x + x \in Int /\ at.y + y \in Int /\ at.x + u \in Int /\ at.y + v \in Int
        /\ at.x + x >= MinInt /\ at.y + y >= MinInt /\ at.x + u >= MinInt /\ at.y + v >= MinInt
        /\ (at.x + u # at.x + x \/ at.y + v # at.y + y)
    BY <1>1, <1>2, <1>4, MaxIntAssumption DEF MinInt
  <2> QED BY <1>6, <2>1, PixelsDiffer
<1>8. <<j % w, j \div w>> \in BoxInk(Kernel(x, y, r))
  <2>1. j % w = u /\ j \div w = v
    BY <1>5 DEF IsPlace
  <2>2. u \in (x - r)..(x - r + (2 * r + 1) - 1) /\ v \in (y - r)..(y - r + (2 * r + 1) - 1)
    BY <1>1, <1>2, <1>3 DEF Beside
  <2> QED BY <2>1, <2>2 DEF BoxInk, Kernel, Rect
<1>9. src[j] \in Under(src, crop, Kernel(x, y, r))
  BY <1>6, <1>8 DEF Under
<1> QED BY <1>7, <1>9

\* What a cell shows once an annotation is painted over it.
Mixed(v, src, crop, i) == \E r \in Nat \ {0} : v = [mean |-> Under(src, crop, Kernel(i % crop.w, i \div crop.w, r))]
Inked(v) == \/ \E p : v = [paint |-> p]
            \/ \E p : v = [plate |-> p]
            \/ \E p, q : v = [contrast |-> p, tint |-> q]

\* What an annotation does to the cells of a picture.
Over(after, dst, src, crop) ==
  /\ DOMAIN after = DOMAIN dst
  /\ \A i \in DOMAIN dst : after[i] = dst[i] \/ Inked(after[i]) \/ Mixed(after[i], src, crop, i)

\* A plot paints over, or leaves (plot_pixel).
LEMMA PlotIsOver ==
  ASSUME NEW dst, NEW src, NEW crop, NEW ink, NEW color, Inked(color)
  PROVE  Over(Plot(dst, crop, ink, color), dst, src, crop)
BY DEF Plot, Over

\* Painting over twice is painting over.
LEMMA OverOver ==
  ASSUME NEW a, NEW b, NEW c, NEW src, NEW crop, Over(b, a, src, crop), Over(c, b, src, crop)
  PROVE  Over(c, a, src, crop)
BY DEF Over

\* Every kind of annotation paints over, or leaves (paint_annotation).
LEMMA PaintIsOver ==
  ASSUME NEW src, NEW dst, NEW crop, NEW a, IsAnnotation(a), a.kind = "blur" => a.radius > 0
  PROVE  Over(PaintAnnotation(src, dst, crop, a), dst, src, crop)
<1>1. \A p, q : Inked([paint |-> p]) /\ Inked([plate |-> p]) /\ Inked(TintGlyph(p, q))
  BY DEF Inked, TintGlyph
<1>2. CASE a.kind = "arrow"
  BY <1>1, <1>2, PlotIsOver DEF PaintAnnotation
<1>3. CASE a.kind = "rectangle"
  BY <1>1, <1>3, PlotIsOver DEF PaintAnnotation
<1>4. CASE a.kind = "badge"
  <2> DEFINE d == Plot(dst, crop, Disc(a, a.radius), [paint |-> Rgba(a.color)])
             e == Plot(d, crop, Ring(a), [paint |-> PaintColor(26, 26, 26)])
             f == Plot(e, crop, DigitInk(a.center, a.number), [paint |-> DigitColorForLuminance(Rgba(a.color))])
  <2>1. Over(d, dst, src, crop) /\ Over(e, d, src, crop) /\ Over(f, e, src, crop)
    BY <1>1, PlotIsOver
  <2>2. PaintAnnotation(src, dst, crop, a) = f
    BY <1>4 DEF PaintAnnotation, PaintBadge
  <2> HIDE DEF d, e, f
  <2>3. Over(f, dst, src, crop)
    BY <2>1, OverOver
  <2> QED BY <2>2, <2>3
<1>5. CASE a.kind = "text"
  <2>1. PaintAnnotation(src, dst, crop, a) = PaintText(src, dst, crop, a)
    BY <1>5 DEF PaintAnnotation
  <2>2. CASE Smaller(a.box.w, a.box.h) <= 2 * TextPadding(a.stroke)
    BY <2>1, <2>2 DEF PaintText, Over
  <2>3. CASE ~(Smaller(a.box.w, a.box.h) <= 2 * TextPadding(a.stroke))
    <3> DEFINE base == Under(src, crop, a.box)
               d == Plot(dst, crop, BoxInk(a.box), [plate |-> base])
               e == Plot(d, crop, TextInk(a), TintGlyph(base, Rgba(a.color)))
    <3>1. Over(d, dst, src, crop) /\ Over(e, d, src, crop)
      BY <1>1, PlotIsOver
    <3>2. PaintText(src, dst, crop, a) = e
      BY <2>3 DEF PaintText
    <3> HIDE DEF d, e
    <3>3. Over(e, dst, src, crop)
      BY <3>1, OverOver
    <3> QED BY <2>1, <3>2, <3>3
  <2> QED BY <2>2, <2>3
<1>6. CASE a.kind = "blur"
  <2>1. a.radius \in Nat \ {0}
    BY <1>6 DEF IsAnnotation, AnnotationGeometry
  <2>2. PaintAnnotation(src, dst, crop, a) = PaintBlur(src, dst, crop, a)
    BY <1>6 DEF PaintAnnotation
  <2>3. Over(PaintBlur(src, dst, crop, a), dst, src, crop)
    BY <2>1 DEF PaintBlur, Over, Mixed
  <2> QED BY <2>2, <2>3
<1> QED BY <1>2, <1>3, <1>4, <1>5, <1>6 DEF IsAnnotation, AnnotationGeometry

PaintLast(f, s, src, size, annotations) ==
  \E n \in s : f[s] = PaintAnnotation(src, f[s \ {n}], size, annotations[n])

\* Annotations are painted one over the other.
LEMMA PaintSteps ==
  ASSUME NEW annotations, IsFiniteSet(DOMAIN annotations), DOMAIN annotations \subseteq Nat,
         \A n \in DOMAIN annotations : annotations[n].z \in Int /\ annotations[n].id \in Nat,
         NEW src, NEW size
  PROVE  \E f : /\ f[DOMAIN annotations] = FlattenAnnotations(src, size, annotations) /\ f[{}] = src
                /\ \A s \in SUBSET DOMAIN annotations : s # {} => PaintLast(f, s, src, size, annotations)
<1> DEFINE d == DOMAIN annotations
           Step(n, dst) == PaintAnnotation(src, dst, size, annotations[n])
           base == src
           Pick(s) == Topmost(annotations, s)
           Small(n) == {s \in SUBSET d : Cardinality(s) <= n}
           IsFold(f, S) == f = [s \in S |-> IF s = {} THEN base ELSE Step(Pick(s), f[s \ {Pick(s)}])]
           iter == CHOOSE f : IsFold(f, SUBSET d)
           Good == {n \in Nat : \E f : IsFold(f, Small(n))}
<1>1. FlattenAnnotations(src, size, annotations) = iter[d]
  BY DEF FlattenAnnotations, MapThenFoldSet
<1> HIDE DEF Step, base, d
<1>0. IsFiniteSet(d) /\ d \subseteq Nat /\ \A n \in d : annotations[n].z \in Int /\ annotations[n].id \in Nat
  BY DEF d
<1>2. \A s \in SUBSET d : /\ IsFiniteSet(s) /\ Cardinality(s) \in Nat /\ (Cardinality(s) = 0 <=> s = {})
                          /\ Cardinality(s) <= Cardinality(d) /\ (s # {} => Pick(s) \in s)
                          /\ s # {} => Cardinality(s \ {Pick(s)}) = Cardinality(s) - 1
  <2> SUFFICES ASSUME NEW s \in SUBSET d
               PROVE  /\ IsFiniteSet(s) /\ Cardinality(s) \in Nat /\ (Cardinality(s) = 0 <=> s = {})
                      /\ Cardinality(s) <= Cardinality(d) /\ (s # {} => Pick(s) \in s)
                      /\ s # {} => Cardinality(s \ {Pick(s)}) = Cardinality(s) - 1
    OBVIOUS
  <2>1. IsFiniteSet(s) /\ Cardinality(s) <= Cardinality(d)
    BY <1>0, FS_Subset
  <2>2. Cardinality(s) \in Nat /\ (Cardinality(s) = 0 <=> s = {})
    BY <2>1, FS_CardinalityType, FS_EmptySet
  <2>3. s # {} => Pick(s) \in s
    BY <1>0, <2>1, TopmostIs
  <2> HIDE DEF Pick
  <2>4. s # {} => Cardinality(s \ {Pick(s)}) = Cardinality(s) - 1
    BY <2>1, <2>3, FS_RemoveElement
  <2> QED BY <2>1, <2>2, <2>3, <2>4
<1> HIDE DEF Pick
<1>3. 0 \in Good
  <2>1. ASSUME NEW s \in Small(0) PROVE s = {}
    <3>1. Cardinality(s) \in Nat /\ Cardinality(s) <= 0 /\ (Cardinality(s) = 0 <=> s = {})
      BY <1>2
    <3> QED BY <3>1
  <2> DEFINE g == [s \in Small(0) |-> base]
  <2>2. \A s \in Small(0) : g[s] = IF s = {} THEN base ELSE Step(Pick(s), g[s \ {Pick(s)}])
    BY <2>1
  <2>3. g = [s \in Small(0) |-> g[s]]
    OBVIOUS
  <2> HIDE DEF g, Small
  <2>4. IsFold(g, Small(0))
    BY <2>2, <2>3
  <2> QED BY <2>4
<1>4. ASSUME NEW n \in Nat, n \in Good PROVE n + 1 \in Good
  <2>1. PICK f : IsFold(f, Small(n))
    BY <1>4
  <2> DEFINE g == [s \in Small(n + 1) |-> IF s = {} THEN base ELSE Step(Pick(s), f[s \ {Pick(s)}])]
  <2>2. \A s \in Small(n) : s \in Small(n + 1) /\ g[s] = f[s]
    <3>1. ASSUME NEW s \in Small(n) PROVE s \in Small(n + 1)
      <4>1. s \in SUBSET d /\ Cardinality(s) \in Nat /\ Cardinality(s) <= n
        BY <1>2
      <4> QED BY <4>1
    <3> HIDE DEF Small
    <3>2. ASSUME NEW s \in Small(n)
          PROVE  f[s] = IF s = {} THEN base ELSE Step(Pick(s), f[s \ {Pick(s)}])
      BY <2>1, Zenon
    <3> QED BY <3>1, <3>2
  <2>3. \A s \in Small(n + 1) : s # {} => s \ {Pick(s)} \in Small(n)
    BY <1>2
  <2>4. \A s \in Small(n + 1) : g[s] = IF s = {} THEN base ELSE Step(Pick(s), g[s \ {Pick(s)}])
    <3> SUFFICES ASSUME NEW s \in Small(n + 1), s # {}
                 PROVE  g[s] = Step(Pick(s), g[s \ {Pick(s)}])
      OBVIOUS
    <3> HIDE DEF Small
    <3>1. g[s \ {Pick(s)}] = f[s \ {Pick(s)}]
      BY <2>2, <2>3
    <3>2. g[s] = Step(Pick(s), f[s \ {Pick(s)}])
      OBVIOUS
    <3> QED BY <3>1, <3>2
  <2>5. g = [s \in Small(n + 1) |-> g[s]]
    OBVIOUS
  <2> HIDE DEF g, Small
  <2>6. IsFold(g, Small(n + 1))
    BY <2>4, <2>5
  <2>7. n + 1 \in Nat
    OBVIOUS
  <2> QED BY <2>6, <2>7
<1> HIDE DEF Good
<1>5. Cardinality(d) \in Good
  <2>1. \A n \in Nat : n \in Good
    BY <1>3, <1>4, NatSetInduction
  <2> QED BY <2>1, <1>2
<1>6. Small(Cardinality(d)) = SUBSET d
  BY <1>2
<1>7. \E f : IsFold(f, SUBSET d)
  BY <1>5, <1>6 DEF Good
<1>8. IsFold(iter, SUBSET d)
  BY <1>7
<1> HIDE DEF iter
<1>9. iter[{}] = base
  BY <1>8
<1>10. ASSUME NEW s \in SUBSET d, s # {}
       PROVE  Pick(s) \in s /\ iter[s] = Step(Pick(s), iter[s \ {Pick(s)}])
  BY <1>2, <1>8, <1>10
<1>11. ASSUME NEW s \in SUBSET d, s # {}
       PROVE  PaintLast(iter, s, src, size, annotations)
  BY <1>10, <1>11 DEF PaintLast, Step
<1>12. iter[{}] = src
  BY <1>9 DEF base
<1>13. WITNESS iter
<1> QED BY <1>1, <1>11, <1>12 DEF d

\* What shows nothing of a pixel does not after an annotation is painted over
\* it; and a blur leaves nothing of one to be read.
LEMMA StaysHidden ==
  ASSUME NEW l \in Layouts, NEW at, NEW crop, IsAt(at, crop), NEW src, src = View(l, at),
         NEW dst, DOMAIN dst = Cells(crop), NEW after, Over(after, dst, src, crop), NEW i \in Cells(crop),
         ~Readable(dst[i], src[i])
  PROVE  ~Readable(after[i], src[i])
<1>1. SUFFICES ASSUME src[i] # Uncovered, after[i] # dst[i] PROVE ~Readable(after[i], src[i])
  BY DEF Readable
<1>2. i \in 0..(crop.w * crop.h - 1)
  BY DEF Cells
<1>3. IsPlace(i, i % crop.w, i \div crop.w, crop.w, crop.h)
  BY <1>2, PlaceOf DEF IsAt
<1>4. src[i] = DesktopAt(l, at.x + (i % crop.w), at.y + (i \div crop.w))
  BY <1>2, ViewCells DEF IsAt
<1>5. \E p : src[i] = [pixel |-> p]
  BY <1>4 DEF DesktopAt, Uncovered
<1>6. CASE Inked(after[i])
  <2>1. "pixel" \notin DOMAIN after[i] /\ "mean" \notin DOMAIN after[i]
    <3>1. \A p : DOMAIN [paint |-> p] = {"paint"} /\ DOMAIN [plate |-> p] = {"plate"}
      OBVIOUS
    <3>2. \A p, q : DOMAIN [contrast |-> p, tint |-> q] = {"contrast", "tint"}
      OBVIOUS
    <3>3. DOMAIN after[i] \in {{"paint"}, {"plate"}, {"contrast", "tint"}}
      BY <1>6, <3>1, <3>2 DEF Inked
    <3> QED BY <3>3
  <2>2. \A p : "pixel" \in DOMAIN [pixel |-> p] /\ "mean" \in DOMAIN [mean |-> p]
    OBVIOUS
  <2>3. after[i] # src[i]
    BY <1>5, <2>1, <2>2
  <2>4. after[i] # [mean |-> {src[i]}]
    BY <2>1, <2>2
  <2> QED BY <2>3, <2>4 DEF Readable
<1>7. CASE Mixed(after[i], src, crop, i)
  <2>1. PICK r \in Nat \ {0} : after[i] = [mean |-> Under(src, crop, Kernel(i % crop.w, i \div crop.w, r))]
    BY <1>7 DEF Mixed
  <2>2. Under(src, crop, Kernel(i % crop.w, i \div crop.w, r)) # {src[i]}
    BY <1>1, <1>3, KernelMixes
  <2> QED BY <1>5, <2>1, <2>2 DEF Readable
<1> QED BY <1>1, <1>6, <1>7 DEF Over

\* A blur leaves nothing of a pixel to be read (paint_blur).
LEMMA BlurHides ==
  ASSUME NEW l \in Layouts, NEW at, NEW crop, IsAt(at, crop), NEW src, src = View(l, at),
         NEW dst, DOMAIN dst = Cells(crop), NEW a, a.kind = "blur", a.radius \in Nat \ {0},
         NEW i \in Cells(crop), <<i % crop.w, i \div crop.w>> \in BoxInk(a.box)
  PROVE  ~Readable(PaintAnnotation(src, dst, crop, a)[i], src[i])
<1>1. SUFFICES ASSUME src[i] # Uncovered PROVE ~Readable(PaintAnnotation(src, dst, crop, a)[i], src[i])
  BY DEF Readable
<1>2. i \in 0..(crop.w * crop.h - 1)
  BY DEF Cells
<1>3. IsPlace(i, i % crop.w, i \div crop.w, crop.w, crop.h)
  BY <1>2, PlaceOf DEF IsAt
<1>4. src[i] = DesktopAt(l, at.x + (i % crop.w), at.y + (i \div crop.w))
  BY <1>2, ViewCells DEF IsAt
<1>5. \E p : src[i] = [pixel |-> p]
  BY <1>4 DEF DesktopAt, Uncovered
<1>6. PaintAnnotation(src, dst, crop, a)[i] = [mean |-> Under(src, crop, Kernel(i % crop.w, i \div crop.w, a.radius))]
  BY DEF PaintAnnotation, PaintBlur
<1>7. Under(src, crop, Kernel(i % crop.w, i \div crop.w, a.radius)) # {src[i]}
  BY <1>1, <1>3, KernelMixes
<1> QED BY <1>5, <1>6, <1>7 DEF Readable

\* A scene: ScenesAssumption's, or none.
IsScene(annotations) ==
  /\ DOMAIN annotations \subseteq Nat /\ IsFiniteSet(DOMAIN annotations)
  /\ \A n \in DOMAIN annotations : /\ IsAnnotation(annotations[n])
                                   /\ annotations[n].kind = "blur" => annotations[n].radius > 0

Hides(dst, annotations, s, src, crop) ==
  /\ DOMAIN dst = Cells(crop)
  /\ \A n \in s : \A i \in Cells(crop) :
       annotations[n].kind = "blur" /\ <<i % crop.w, i \div crop.w>> \in BoxInk(annotations[n].box)
         => ~Readable(dst[i], src[i])

\* Below a blur nothing of a picture can be read, whatever is painted before,
\* over or after it and in whatever order (annotation.rs `flatten_annotations').
THEOREM FlattenHides ==
  ASSUME NEW l \in Layouts, NEW at, NEW crop, IsAt(at, crop), NEW src, src = View(l, at),
         NEW annotations, IsScene(annotations)
  PROVE  Hides(FlattenAnnotations(src, crop, annotations), annotations, DOMAIN annotations, src, crop)
<1> DEFINE d == DOMAIN annotations
<1>1. IsFiniteSet(d) /\ d \subseteq Nat /\ \A n \in d : annotations[n].z \in Int /\ annotations[n].id \in Nat
  BY DEF IsScene, IsAnnotation
<1>2. PICK f : /\ f[d] = FlattenAnnotations(src, crop, annotations) /\ f[{}] = src
               /\ \A s \in SUBSET d : s # {} => PaintLast(f, s, src, crop, annotations)
  BY <1>1, PaintSteps
<1> DEFINE Good == {s \in SUBSET d : Hides(f[s], annotations, s, src, crop)}
<1>3. ASSUME NEW s \in SUBSET d, \A u \in SUBSET s : u # s => u \in Good
      PROVE  s \in Good
  <2>1. CASE s = {}
    <3>1. DOMAIN src = Cells(crop)
      BY ViewCells DEF Cells, IsAt
    <3> QED BY <1>2, <2>1, <3>1 DEF Hides
  <2>2. CASE s # {}
    <3>1. PICK k \in s : f[s] = PaintAnnotation(src, f[s \ {k}], crop, annotations[k])
      BY <1>2, <2>2 DEF PaintLast
    <3>2. s \ {k} \in Good
      BY <1>3, <3>1
    <3> DEFINE dst == f[s \ {k}]
               a   == annotations[k]
    <3>3. DOMAIN dst = Cells(crop) /\ Hides(dst, annotations, s \ {k}, src, crop)
      BY <3>2 DEF Hides
    <3>4. IsAnnotation(a) /\ (a.kind = "blur" => a.radius > 0) /\ f[s] = PaintAnnotation(src, dst, crop, a)
      BY <3>1 DEF IsScene
    <3>5. a.kind = "blur" => a.radius \in Nat \ {0}
      BY <3>4 DEF IsAnnotation, AnnotationGeometry
    <3> HIDE DEF dst, a, Good
    <3>6. Over(f[s], dst, src, crop)
      BY <3>4, PaintIsOver
    <3>7. ASSUME NEW n \in s, NEW i \in Cells(crop), annotations[n].kind = "blur",
                 <<i % crop.w, i \div crop.w>> \in BoxInk(annotations[n].box)
          PROVE  ~Readable(f[s][i], src[i])
      <4>1. CASE n = k
        <5>1. a.kind = "blur" /\ <<i % crop.w, i \div crop.w>> \in BoxInk(a.box)
          BY <3>7, <4>1 DEF a
        <5> QED BY <3>3, <3>4, <3>5, <5>1, BlurHides
      <4>2. CASE n # k
        <5>1. ~Readable(dst[i], src[i])
          BY <3>3, <3>7, <4>2 DEF Hides
        <5> QED BY <3>3, <3>6, <5>1, StaysHidden
      <4> QED BY <4>1, <4>2
    <3>8. DOMAIN f[s] = Cells(crop)
      BY <3>3, <3>6 DEF Over
    <3>9. Hides(f[s], annotations, s, src, crop)
      BY <3>7, <3>8 DEF Hides
    <3> QED BY <3>9 DEF Good
  <2> QED BY <2>1, <2>2
<1> HIDE DEF Good
<1>4. d \in Good
  BY <1>1, <1>3, SetInduction
<1> QED BY <1>2, <1>4 DEF Good

\* In no picture a commit or a save delivers can a pixel of the capture be read
\* below a blur (annotation.rs `paint_blur').
THEOREM RedactionsHold == EngineSpec => []RedactionHolds
<1>1. EngineInv => RedactionHolds
  <2> SUFFICES ASSUME EngineInv, NEW t \in Leaving, Area(t.crop) > 1, NEW n \in Blurs(t),
                      NEW i \in DOMAIN Picture(t),
                      <<i % t.crop.w, i \div t.crop.w>> \in BoxInk(t.annotations[n].box)
               PROVE  ~Readable(Picture(t)[i], t.rgba[i])
    BY DEF RedactionHolds
  <2>1. t.at = "deliver" /\ TaskInv(t)
    BY DEF Leaving, EngineInv
  <2>2. n \in DOMAIN t.annotations /\ t.annotations[n].kind = "blur"
    BY DEF Blurs
  <2>3. t.annotations \in Scenes
    BY <2>1, <2>2 DEF TaskInv
  <2>4. IsView(t.rgba, t.crop.w, t.crop.h) /\ IsRegion(t.crop)
    BY <2>1 DEF TaskInv, PictureInv
  <2>5. PICK l \in Layouts, x \in Int, y \in Int :
          x >= MinInt /\ y >= MinInt /\ t.rgba = View(l, Rect(x, y, t.crop.w, t.crop.h))
    BY <2>4 DEF IsView
  <2> DEFINE at == Rect(x, y, t.crop.w, t.crop.h)
  <2>6. IsAt(at, t.crop)
    BY <2>4, <2>5, MaxIntAssumption DEF IsAt, IsRegion, Rect, Area, MinInt
  <2>7. t.rgba = View(l, at)
    BY <2>5
  <2> HIDE DEF at
  <2>8. IsScene(t.annotations)
    BY <2>3, ScenesAssumption DEF IsScene
  <2>9. Hides(Picture(t), t.annotations, DOMAIN t.annotations, t.rgba, t.crop)
    BY <2>6, <2>7, <2>8, FlattenHides DEF Picture
  <2> QED BY <2>2, <2>9 DEF Hides
<1> QED BY <1>1, EngineInvHolds, PTL

--------------------------------------------------------------------------------
\* The objects of a drag, and the drags whose loop is on.
Looping == {n \in DOMAIN loops : loops[n].at = "loop"}
Pair(n) == {loops[n].data, loops[n].source}

\* The app has one reference to each object of a drag under way, and none to
\* any other; no object is of two drags.
AppInv ==
  /\ \A n \in Looping : /\ loops[n].data # loops[n].source
                        /\ loops[n].data \in Addresses /\ loops[n].source \in Addresses
                        /\ held["app"][loops[n].data] = 1 /\ held["app"][loops[n].source] = 1
  /\ \A a \in Addresses : held["app"][a] # 0 => \E n \in Looping : a \in Pair(n)
  /\ \A n, m \in Looping : n # m => Pair(n) \cap Pair(m) = {}
  /\ \A n \in DOMAIN loops \ Looping : loops[n].data = "none" /\ loops[n].source = "none"

CountInv ==
  \A a \in Addresses : IF a \in DOMAIN objects THEN objects[a].refs = Refs(a) /\ Refs(a) > 0
                                               ELSE Refs(a) = 0

IInv == TypeOK /\ AppInv /\ CountInv

\* What may be called is alive.
LEMMA CallableIsAlive ==
  ASSUME IInv, NEW a \in Addresses, MayCall(a)
  PROVE  a \in DOMAIN objects
<1>1. CASE held["client"][a] > 0
  BY <1>1 DEF IInv, CountInv, TypeOK, Refs, Holders
<1>2. CASE Lent(a)
  <2>1. PICK n \in DOMAIN loops : a \in Pair(n)
    BY <1>2 DEF Lent, Pair
  <2>2. n \in Looping
    BY <2>1, AddressesAssumption DEF IInv, AppInv, Pair
  <2>3. held["app"][a] = 1
    BY <2>1, <2>2 DEF IInv, AppInv, Pair
  <2> QED BY <2>3 DEF IInv, CountInv, TypeOK, Refs, Holders
<1> QED BY <1>1, <1>2 DEF MayCall

\* The inductive invariant says what the property says.
LEMMA InvImpliesRefsAreHeld == IInv => RefsAreHeld
<1> SUFFICES ASSUME IInv PROVE RefsAreHeld OBVIOUS
<1>1. \A a \in Addresses : IF a \in DOMAIN objects THEN objects[a].refs = Refs(a) /\ Refs(a) > 0
                                                   ELSE Refs(a) = 0
  BY DEF IInv, CountInv
<1>2. ASSUME NEW n \in DOMAIN loops, loops[n].at = "loop"
      PROVE  {loops[n].data, loops[n].source} \subseteq DOMAIN objects
  <2>1. n \in Looping /\ Lent(loops[n].data) /\ Lent(loops[n].source)
    BY <1>2 DEF Looping, Lent
  <2>2. loops[n].data \in Addresses /\ loops[n].source \in Addresses
    BY <2>1 DEF IInv, AppInv
  <2> QED BY <2>1, <2>2, CallableIsAlive DEF MayCall
<1> QED BY <1>1, <1>2 DEF RefsAreHeld

\* A step of the client that leaves the loops and the app's references alone
\* leaves AppInv.
LEMMA AppInvKept ==
  ASSUME AppInv, loops' = loops, held'["app"] = held["app"]
  PROVE  AppInv'
BY DEF AppInv, Looping, Pair

\* One more reference of the client to an object alive.
LEMMA CountedStep ==
  ASSUME IInv, NEW a \in Addresses, a \in DOMAIN objects,
         objects' = Counted(a), held' = Take("client", a), loops' = loops
  PROVE  IInv'
<1> USE DEF Holders
<1>1. /\ DOMAIN objects' = DOMAIN objects
      /\ \A b \in DOMAIN objects : objects'[b] = IF b = a THEN [objects[a] EXCEPT !.refs = @ + 1] ELSE objects[b]
  BY DEF Counted
<1>2. /\ held' \in [Holders -> [Addresses -> Nat]] /\ held'["app"] = held["app"]
      /\ \A b \in Addresses : held'["client"][b] = IF b = a THEN held["client"][a] + 1 ELSE held["client"][b]
  BY DEF IInv, TypeOK, Take
<1>3. objects[a] \in Object
  BY DEF IInv, TypeOK
<1>4. objects'[a] \in Object
      /\ objects'[a].refs = objects[a].refs + 1
  BY <1>1, <1>3 DEF Object
<1>5. TypeOK'
  BY <1>1, <1>2, <1>4 DEF IInv, TypeOK
<1>6. AppInv'
  BY <1>2, AppInvKept DEF IInv
<1>7. ASSUME NEW b \in Addresses
      PROVE  IF b \in DOMAIN objects' THEN objects'[b].refs = Refs(b)' /\ Refs(b)' > 0 ELSE Refs(b)' = 0
  <2>1. held["app"][b] \in Nat /\ held["client"][b] \in Nat
    BY DEF IInv, TypeOK
  <2>2. IF b \in DOMAIN objects THEN objects[b].refs = Refs(b) /\ Refs(b) > 0 ELSE Refs(b) = 0
    BY DEF IInv, CountInv
  <2>3. Refs(b)' = IF b = a THEN Refs(b) + 1 ELSE Refs(b)
    BY <1>2, <2>1 DEF Refs
  <2> QED BY <1>1, <1>4, <2>1, <2>2, <2>3 DEF Refs
<1>8. CountInv'
  BY <1>7 DEF CountInv
<1> QED BY <1>5, <1>6, <1>8 DEF IInv

\* A reference of the client is given back.
LEMMA ReleaseStep ==
  ASSUME IInv, NEW a \in Addresses, Release(a)
  PROVE  IInv'
<1> USE DEF Holders
<1>1. /\ held["client"][a] \in Nat /\ held["client"][a] > 0 /\ held["app"][a] \in Nat
      /\ loops' = loops
  BY DEF IInv, TypeOK, Release
<1>2. a \in DOMAIN objects /\ objects[a] \in Object /\ objects[a].refs = Refs(a)
  BY <1>1 DEF IInv, TypeOK, CountInv, Refs, Object
<1>3. /\ held' \in [Holders -> [Addresses -> Nat]] /\ held'["app"] = held["app"]
      /\ \A b \in Addresses : held'["client"][b] = IF b = a THEN held["client"][a] - 1 ELSE held["client"][b]
  BY <1>1 DEF IInv, TypeOK, Give, Release
<1>4. AppInv'
  BY <1>1, <1>3, AppInvKept DEF IInv
<1>5. ASSUME NEW b \in Addresses
      PROVE  /\ held["app"][b] \in Nat /\ held["client"][b] \in Nat
             /\ IF b \in DOMAIN objects THEN objects[b].refs = Refs(b) /\ Refs(b) > 0 ELSE Refs(b) = 0
             /\ Refs(b)' = IF b = a THEN Refs(b) - 1 ELSE Refs(b)
  BY <1>3 DEF IInv, TypeOK, CountInv, Refs
<1>6. CASE objects[a].refs = 1
  <2>1. /\ DOMAIN objects' = DOMAIN objects \ {a}
        /\ \A b \in DOMAIN objects \ {a} : objects'[b] = objects[b]
    BY <1>6 DEF Release, Released
  <2>2. TypeOK'
    BY <2>1, <1>1, <1>3 DEF IInv, TypeOK
  <2>3. CountInv'
    BY <2>1, <1>2, <1>5, <1>6 DEF CountInv, Refs
  <2> QED BY <2>2, <2>3, <1>4 DEF IInv
<1>7. CASE objects[a].refs # 1
  <2>1. /\ DOMAIN objects' = DOMAIN objects
        /\ \A b \in DOMAIN objects : objects'[b] = IF b = a THEN [objects[a] EXCEPT !.refs = @ - 1] ELSE objects[b]
    BY <1>7 DEF Release, Released
  <2>2. objects'[a] \in Object /\ objects'[a].refs = objects[a].refs - 1
    BY <2>1, <1>2, <1>7 DEF Object
  <2>3. TypeOK'
    BY <2>1, <2>2, <1>1, <1>3 DEF IInv, TypeOK, Object
  <2>4. CountInv'
    BY <2>1, <2>2, <1>2, <1>5, <1>7 DEF CountInv, Refs, Object
  <2> QED BY <2>3, <2>4, <1>4 DEF IInv
<1> QED BY <1>6, <1>7

\* The client gets an object of its own.
LEMMA MadeStep ==
  ASSUME IInv, NEW e \in Free, NEW o \in Object, o.refs = 1,
         objects' = Put(e, o), held' = Take("client", e), loops' = loops
  PROVE  IInv'
<1> USE DEF Holders
<1>1. e \in Addresses /\ e \notin DOMAIN objects
  BY DEF Free
<1>2. /\ DOMAIN objects' = DOMAIN objects \cup {e}
      /\ \A b \in DOMAIN objects \cup {e} : objects'[b] = IF b = e THEN o ELSE objects[b]
  BY DEF Put
<1>3. /\ held' \in [Holders -> [Addresses -> Nat]] /\ held'["app"] = held["app"]
      /\ \A b \in Addresses : held'["client"][b] = IF b = e THEN held["client"][e] + 1 ELSE held["client"][b]
  BY <1>1 DEF IInv, TypeOK, Take
<1>4. TypeOK'
  BY <1>1, <1>2, <1>3 DEF IInv, TypeOK, Object
<1>5. AppInv'
  BY <1>3, AppInvKept DEF IInv
<1>6. ASSUME NEW b \in Addresses
      PROVE  /\ held["app"][b] \in Nat /\ held["client"][b] \in Nat
             /\ IF b \in DOMAIN objects THEN objects[b].refs = Refs(b) /\ Refs(b) > 0 ELSE Refs(b) = 0
             /\ Refs(b)' = IF b = e THEN Refs(b) + 1 ELSE Refs(b)
  BY <1>3 DEF IInv, TypeOK, CountInv, Refs
<1>7. CountInv'
  BY <1>1, <1>2, <1>6 DEF CountInv, Refs
<1> QED BY <1>4, <1>5, <1>7 DEF IInv

\* An enumerator moves, its count as it was.
LEMMA MovedStep ==
  ASSUME IInv, NEW a \in DOMAIN objects, NEW c \in 0..4,
         objects' = [objects EXCEPT ![a].cursor = c], UNCHANGED <<held, loops>>
  PROVE  IInv'
<1>1. objects[a] \in Object
  BY DEF IInv, TypeOK, Object
<1>2. /\ DOMAIN objects' = DOMAIN objects
      /\ \A b \in DOMAIN objects : objects'[b] = IF b = a THEN [objects[a] EXCEPT !.cursor = c] ELSE objects[b]
  OBVIOUS
<1>3. objects'[a] \in Object /\ objects'[a].refs = objects[a].refs
  BY <1>1, <1>2 DEF Object
<1>4. TypeOK'
  BY <1>2, <1>3 DEF IInv, TypeOK, Object
<1>5. AppInv'
  BY AppInvKept DEF IInv
<1>6. CountInv'
  BY <1>2, <1>3 DEF IInv, CountInv, Refs
<1> QED BY <1>4, <1>5, <1>6 DEF IInv

Loop == [at : {"ole", "loop"}, data : Addresses \cup {"none"}, source : Addresses \cup {"none"}]

\* A drag begins.
LEMMA StartStep ==
  ASSUME IInv, StartDrag
  PROVE  IInv'
<1>1. loops \in Seq(Loop) /\ UNCHANGED <<objects, held>>
  BY DEF IInv, TypeOK, Loop, StartDrag
<1>2. [at |-> "ole", data |-> "none", source |-> "none"] \in Loop
  BY DEF Loop
<1>3. /\ loops' \in Seq(Loop) /\ Len(loops') = Len(loops) + 1
      /\ \A n \in DOMAIN loops : n \in DOMAIN loops' /\ loops'[n] = loops[n]
      /\ loops'[Len(loops) + 1] = [at |-> "ole", data |-> "none", source |-> "none"]
      /\ DOMAIN loops' = DOMAIN loops \cup {Len(loops) + 1}
  BY <1>1, <1>2 DEF StartDrag
<1>4. Looping' = Looping /\ \A n \in DOMAIN loops : Pair(n)' = Pair(n)
  BY <1>1, <1>3 DEF Looping, Pair
<1>5. AppInv'
  <2>1. Looping \subseteq DOMAIN loops
    BY DEF Looping
  <2>2. \A n \in Looping : loops'[n] = loops[n] /\ Pair(n)' = Pair(n)
    BY <2>1, <1>3, <1>4
  <2>3. \A n \in DOMAIN loops' \ Looping' : loops'[n].data = "none" /\ loops'[n].source = "none"
    BY <1>3, <1>4 DEF IInv, AppInv
  <2> QED BY <1>1, <1>4, <2>1, <2>2, <2>3 DEF IInv, AppInv
<1>6. TypeOK' /\ CountInv'
  BY <1>1, <1>3 DEF IInv, TypeOK, CountInv, Refs, Loop
<1> QED BY <1>5, <1>6 DEF IInv

\* The innermost drag goes: what is left of the loops.
LEMMA Popped ==
  ASSUME TypeOK, Top > 0, loops' = SubSeq(loops, 1, Top - 1)
  PROVE  /\ loops' \in Seq(Loop) /\ Top \in DOMAIN loops
         /\ DOMAIN loops' = DOMAIN loops \ {Top}
         /\ \A n \in DOMAIN loops' : loops'[n] = loops[n] /\ Pair(n)' = Pair(n)
         /\ Looping' = Looping \ {Top}
<1>1. loops \in Seq(Loop) /\ Top \in Nat /\ DOMAIN loops = 1..Top
  BY DEF TypeOK, Top, Loop
<1>2. /\ loops' \in Seq(Loop) /\ DOMAIN loops' = 1..(Top - 1)
      /\ \A n \in 1..(Top - 1) : loops'[n] = loops[n]
  BY <1>1
<1>3. DOMAIN loops' = DOMAIN loops \ {Top}
  BY <1>1, <1>2
<1> QED BY <1>1, <1>2, <1>3 DEF Looping, Pair

LEMMA RefusedStep ==
  ASSUME IInv, DragRefused
  PROVE  IInv'
<1>1. TypeOK /\ Top > 0 /\ loops[Top].at = "ole" /\ loops' = SubSeq(loops, 1, Top - 1)
      /\ UNCHANGED <<objects, held>>
  BY DEF IInv, DragRefused, In
<1>2. /\ loops' \in Seq(Loop) /\ Top \in DOMAIN loops
      /\ DOMAIN loops' = DOMAIN loops \ {Top}
      /\ \A n \in DOMAIN loops' : loops'[n] = loops[n] /\ Pair(n)' = Pair(n)
      /\ Looping' = Looping \ {Top}
  BY <1>1, Popped
<1>3. Top \notin Looping
  BY <1>1 DEF Looping
<1>4. Looping' = Looping /\ Looping \subseteq DOMAIN loops'
  BY <1>2, <1>3 DEF Looping
<1>5. AppInv'
  BY <1>1, <1>2, <1>4 DEF IInv, AppInv
<1>6. TypeOK' /\ CountInv'
  BY <1>1, <1>2 DEF IInv, TypeOK, CountInv, Refs, Loop
<1> QED BY <1>5, <1>6 DEF IInv

\* The two objects of a drag, each with its one reference of the app.
LEMMA EnterStep ==
  ASSUME IInv, EnterLoop
  PROVE  IInv'
<1> USE DEF Holders
<1>1. Top > 0 /\ loops[Top].at = "ole" /\ loops \in Seq(Loop) /\ Top \in DOMAIN loops
  BY DEF EnterLoop, In, IInv, TypeOK, Loop, Top
<1>2. PICK d \in Free, s \in Free, request \in Requests :
        /\ d # s
        /\ objects' = [b \in DOMAIN objects \cup {d, s} |->
                         IF b \in DOMAIN objects THEN objects[b]
                         ELSE IF b = d THEN [New("data") EXCEPT !.state = request] ELSE New("source")]
        /\ held' = [held EXCEPT !["app"][d] = @ + 1, !["app"][s] = @ + 1]
        /\ loops' = [loops EXCEPT ![Top] = [at |-> "loop", data |-> d, source |-> s]]
  BY DEF EnterLoop
<1>3. d \in Addresses /\ s \in Addresses /\ d \notin DOMAIN objects /\ s \notin DOMAIN objects
  BY DEF Free
<1>4. /\ DOMAIN objects' = DOMAIN objects \cup {d, s}
      /\ objects'[d] = [New("data") EXCEPT !.state = request] /\ objects'[s] = New("source")
      /\ \A b \in DOMAIN objects : objects'[b] = objects[b]
  BY <1>2, <1>3
<1>5. held["app"] \in [Addresses -> Nat] /\ held["client"] \in [Addresses -> Nat]
  BY DEF IInv, TypeOK
<1>6. /\ held' \in [Holders -> [Addresses -> Nat]] /\ held'["client"] = held["client"]
      /\ \A b \in Addresses : held'["app"][b] = IF b \in {d, s} THEN held["app"][b] + 1 ELSE held["app"][b]
  <2>1. held' = [held EXCEPT !["app"][d] = @ + 1, !["app"][s] = @ + 1] /\ d # s
    BY <1>2
  <2> QED BY <2>1, <1>3, <1>5 DEF IInv, TypeOK
<1>t. PICK t \in DOMAIN loops : t = Top
  BY <1>1
<1>7. /\ loops' \in Seq(Loop) /\ DOMAIN loops' = DOMAIN loops
      /\ loops'[t] = [at |-> "loop", data |-> d, source |-> s]
      /\ \A n \in DOMAIN loops \ {t} : loops'[n] = loops[n] /\ Pair(n)' = Pair(n)
  BY <1>1, <1>2, <1>3, <1>t DEF Loop, Pair
<1>8. Looping' = Looping \cup {t} /\ t \notin Looping /\ Pair(t)' = {d, s}
  BY <1>1, <1>t, <1>7 DEF Looping, Pair
<1>9. \A a \in {d, s} : held["app"][a] = 0 /\ held["client"][a] = 0 /\ held'["app"][a] = 1
  BY <1>3, <1>5, <1>6 DEF IInv, CountInv, Refs
<1>10. \A n \in Looping : d \notin Pair(n) /\ s \notin Pair(n)
  BY <1>9 DEF IInv, AppInv, Pair
<1>11. TypeOK'
  <2>1. [New("data") EXCEPT !.state = request] \in Object /\ New("source") \in Object
    BY DEF New, Object
  <2> QED BY <2>1, <1>3, <1>4, <1>6, <1>7 DEF IInv, TypeOK, Loop
<1>d. d # s
  BY <1>2
<1>12. AppInv'
  <2>1. ASSUME NEW n \in Looping'
        PROVE  /\ loops'[n].data # loops'[n].source
               /\ loops'[n].data \in Addresses /\ loops'[n].source \in Addresses
               /\ held'["app"][loops'[n].data] = 1 /\ held'["app"][loops'[n].source] = 1
    <3>1. CASE n = t
      BY <3>1, <1>d, <1>3, <1>7, <1>9
    <3>2. CASE n # t
      <4>1. n \in Looping /\ loops'[n] = loops[n]
        BY <3>2, <1>7, <1>8 DEF Looping
      <4>2. loops[n].data \notin {d, s} /\ loops[n].source \notin {d, s}
        BY <4>1, <1>10 DEF Pair
      <4> QED BY <4>1, <4>2, <1>6 DEF IInv, AppInv
    <3> QED BY <3>1, <3>2
  <2>2. ASSUME NEW a \in Addresses, held'["app"][a] # 0
        PROVE  \E n \in Looping' : a \in Pair(n)'
    <3>1. CASE a \in {d, s}
      BY <3>1, <1>8
    <3>2. CASE a \notin {d, s}
      <4>1. PICK n \in Looping : a \in Pair(n)
        BY <2>2, <3>2, <1>6 DEF IInv, AppInv
      <4>2. n \in Looping' /\ Pair(n)' = Pair(n)
        BY <1>7, <1>8 DEF Looping
      <4> QED BY <4>1, <4>2
    <3> QED BY <3>1, <3>2
  <2>3. ASSUME NEW n \in Looping', NEW m \in Looping', n # m
        PROVE  Pair(n)' \cap Pair(m)' = {}
    <3>1. \A k \in Looping : Pair(k)' = Pair(k)
      BY <1>7, <1>8 DEF Looping
    <3> QED BY <3>1, <2>3, <1>8, <1>10 DEF IInv, AppInv
  <2>4. \A n \in DOMAIN loops' \ Looping' : loops'[n].data = "none" /\ loops'[n].source = "none"
    BY <1>7, <1>8 DEF IInv, AppInv
  <2> QED BY <2>1, <2>2, <2>3, <2>4 DEF AppInv
<1>13. ASSUME NEW b \in Addresses
       PROVE  IF b \in DOMAIN objects' THEN objects'[b].refs = Refs(b)' /\ Refs(b)' > 0 ELSE Refs(b)' = 0
  <2>1. CASE b \in {d, s}
    BY <2>1, <1>3, <1>4, <1>6, <1>9 DEF Refs, New
  <2>2. CASE b \notin {d, s}
    BY <2>2, <1>4, <1>6 DEF IInv, CountInv, Refs
  <2> QED BY <2>1, <2>2
<1> QED BY <1>11, <1>12, <1>13 DEF IInv, CountInv

\* One reference to an object alive is given back.
LEMMA ReleasedOnce ==
  ASSUME NEW objs, NEW a \in DOMAIN objs, objs[a] \in Object
  PROVE  LET after == Released(objs, a)
         IN  /\ DOMAIN after = IF objs[a].refs = 1 THEN DOMAIN objs \ {a} ELSE DOMAIN objs
             /\ \A b \in DOMAIN objs \ {a} : b \in DOMAIN after /\ after[b] = objs[b]
             /\ objs[a].refs # 1 => after[a] \in Object /\ after[a].refs = objs[a].refs - 1
<1>1. CASE objs[a].refs = 1
  BY <1>1 DEF Released
<1>2. CASE objs[a].refs # 1
  <2>1. Released(objs, a) = [objs EXCEPT ![a].refs = @ - 1]
    BY <1>2 DEF Released
  <2>2. [objs[a] EXCEPT !.refs = @ - 1] \in Object /\ [objs[a] EXCEPT !.refs = @ - 1].refs = objs[a].refs - 1
    BY <1>2 DEF Object
  <2> QED BY <2>1, <2>2, <1>2
<1> QED BY <1>1, <1>2

\* The innermost drag ends, and the app gives its two references back.
LEMMA EndStep ==
  ASSUME IInv, EndDrag
  PROVE  IInv'
<1> USE DEF Holders
<1>1. /\ TypeOK /\ Top > 0 /\ loops[Top].at = "loop" /\ loops' = SubSeq(loops, 1, Top - 1)
  BY DEF IInv, EndDrag, In
<1>2. /\ loops' \in Seq(Loop) /\ Top \in DOMAIN loops
      /\ DOMAIN loops' = DOMAIN loops \ {Top}
      /\ \A n \in DOMAIN loops' : loops'[n] = loops[n] /\ Pair(n)' = Pair(n)
      /\ Looping' = Looping \ {Top}
  BY <1>1, Popped
<1>3. PICK d, s : d = loops[Top].data /\ s = loops[Top].source
  OBVIOUS
<1>4. PICK t \in DOMAIN loops : t = Top
  BY <1>2
<1>5. /\ t \in Looping /\ Pair(t) = {d, s} /\ d # s /\ d \in Addresses /\ s \in Addresses
      /\ held["app"][d] = 1 /\ held["app"][s] = 1
  BY <1>1, <1>3, <1>4 DEF IInv, AppInv, Looping, Pair
<1>6. objects' = LetGo(d, s) /\ held' = [held EXCEPT !["app"][d] = @ - 1, !["app"][s] = @ - 1]
  BY <1>3 DEF EndDrag
<1>7. ASSUME NEW b \in Addresses
      PROVE  /\ held["app"][b] \in Nat /\ held["client"][b] \in Nat
             /\ IF b \in DOMAIN objects THEN objects[b].refs = Refs(b) /\ Refs(b) > 0 ELSE Refs(b) = 0
             /\ b \in DOMAIN objects => objects[b] \in Object
  BY DEF IInv, TypeOK, CountInv, Object
<1>8. /\ held' \in [Holders -> [Addresses -> Nat]] /\ held'["client"] = held["client"]
      /\ \A b \in Addresses : held'["app"][b] = IF b \in {d, s} THEN 0 ELSE held["app"][b]
  BY <1>5, <1>6 DEF IInv, TypeOK
<1>9. ASSUME NEW b \in Addresses
      PROVE  Refs(b)' = IF b \in {d, s} THEN Refs(b) - 1 ELSE Refs(b)
  BY <1>5, <1>7, <1>8 DEF Refs
<1>10. d \in DOMAIN objects /\ s \in DOMAIN objects
  BY <1>5, <1>7 DEF Refs
<1>11. PICK mid : mid = Released(objects, d)
  OBVIOUS
<1>12. /\ DOMAIN mid = IF objects[d].refs = 1 THEN DOMAIN objects \ {d} ELSE DOMAIN objects
       /\ \A b \in DOMAIN objects \ {d} : b \in DOMAIN mid /\ mid[b] = objects[b]
       /\ objects[d].refs # 1 => mid[d] \in Object /\ mid[d].refs = objects[d].refs - 1
  BY <1>5, <1>7, <1>10, <1>11, ReleasedOnce
<1>13. s \in DOMAIN mid /\ mid[s] = objects[s] /\ mid[s] \in Object
  BY <1>5, <1>7, <1>10, <1>12
<1>14. objects' = Released(mid, s)
  BY <1>6, <1>11 DEF LetGo
<1>15. /\ DOMAIN objects' = IF mid[s].refs = 1 THEN DOMAIN mid \ {s} ELSE DOMAIN mid
       /\ \A b \in DOMAIN mid \ {s} : b \in DOMAIN objects' /\ objects'[b] = mid[b]
       /\ mid[s].refs # 1 => objects'[s] \in Object /\ objects'[s].refs = mid[s].refs - 1
  BY <1>13, <1>14, ReleasedOnce
<1>16. ASSUME NEW b \in Addresses
       PROVE  /\ IF b \in DOMAIN objects' THEN objects'[b].refs = Refs(b)' /\ Refs(b)' > 0 ELSE Refs(b)' = 0
              /\ b \in DOMAIN objects' => objects'[b] \in Object
  <2>1. CASE b = d
    <3>1. Refs(d)' = objects[d].refs - 1 /\ objects[d].refs \in Nat \ {0}
      BY <2>1, <1>5, <1>7, <1>9, <1>10 DEF Object
    <3>2. d \in DOMAIN objects' <=> objects[d].refs # 1
      BY <1>5, <1>10, <1>12, <1>15
    <3>3. d \in DOMAIN objects' => objects'[d] = mid[d]
      BY <3>2, <1>5, <1>10, <1>12, <1>15
    <3> QED BY <2>1, <3>1, <3>2, <3>3, <1>12
  <2>2. CASE b = s
    <3>1. Refs(s)' = objects[s].refs - 1 /\ objects[s].refs \in Nat \ {0}
      BY <2>2, <1>5, <1>7, <1>9, <1>10 DEF Object
    <3>2. s \in DOMAIN objects' <=> objects[s].refs # 1
      BY <1>13, <1>15
    <3> QED BY <2>2, <3>1, <3>2, <1>13, <1>15
  <2>3. CASE b \notin {d, s}
    <3>1. /\ b \in DOMAIN objects' <=> b \in DOMAIN objects
          /\ b \in DOMAIN objects => objects'[b] = objects[b]
      BY <2>3, <1>12, <1>15
    <3> QED BY <2>3, <3>1, <1>7, <1>9
  <2> QED BY <2>1, <2>2, <2>3
<1>17. DOMAIN objects' \subseteq Addresses
  BY <1>12, <1>15 DEF IInv, TypeOK
<1>18. TypeOK'
  BY <1>2, <1>8, <1>16, <1>17 DEF TypeOK, Object, Loop
<1>19. AppInv'
  <2>1. \A n \in Looping' : n \in Looping /\ n # t /\ n \in DOMAIN loops' /\ loops'[n] = loops[n] /\ Pair(n)' = Pair(n)
    BY <1>2, <1>4 DEF Looping
  <2>2. ASSUME NEW n \in Looping'
        PROVE  /\ loops'[n].data # loops'[n].source
               /\ loops'[n].data \in Addresses /\ loops'[n].source \in Addresses
               /\ held'["app"][loops'[n].data] = 1 /\ held'["app"][loops'[n].source] = 1
    <3>1. Pair(n) \cap Pair(t) = {}
      BY <2>1, <1>5 DEF IInv, AppInv
    <3>2. loops[n].data \notin {d, s} /\ loops[n].source \notin {d, s}
      BY <3>1, <1>5 DEF Pair
    <3> QED BY <2>1, <3>2, <1>8 DEF IInv, AppInv
  <2>3. ASSUME NEW a \in Addresses, held'["app"][a] # 0
        PROVE  \E n \in Looping' : a \in Pair(n)'
    <3>1. a \notin {d, s} /\ held["app"][a] # 0
      BY <2>3, <1>8
    <3>2. PICK n \in Looping : a \in Pair(n)
      BY <3>1 DEF IInv, AppInv
    <3>3. n # t
      BY <3>1, <3>2, <1>5
    <3> QED BY <3>2, <3>3, <2>1, <1>2, <1>4
  <2>4. \A n, m \in Looping' : n # m => Pair(n)' \cap Pair(m)' = {}
    BY <2>1 DEF IInv, AppInv
  <2>5. \A n \in DOMAIN loops' \ Looping' : loops'[n].data = "none" /\ loops'[n].source = "none"
    BY <1>2 DEF IInv, AppInv
  <2> QED BY <2>2, <2>3, <2>4, <2>5 DEF AppInv
<1> QED BY <1>16, <1>18, <1>19 DEF IInv, CountInv

\* A call of the client.
LEMMA CallStep ==
  ASSUME IInv, NEW a \in Addresses, Call(a)
  PROVE  IInv'
<1>1. CASE QueryInterface(a)
  BY <1>1, CallableIsAlive, CountedStep DEF QueryInterface
<1>2. CASE AddRef(a)
  BY <1>2, CallableIsAlive, CountedStep DEF AddRef
<1>3. CASE Release(a)
  BY <1>3, ReleaseStep
<1>4. ASSUME NEW f \in learned, GetData(a, f) \/ QueryGetData(a, f) PROVE IInv'
  BY <1>4 DEF GetData, QueryGetData, IInv, TypeOK, AppInv, CountInv, Looping, Pair, Refs
<1>5. CASE EnumFormatEtc(a)
  <2>1. New("formats") \in Object /\ New("formats").refs = 1
    BY DEF New, Object
  <2> QED BY <1>5, <2>1, MadeStep DEF EnumFormatEtc
<1>6. ASSUME NEW n \in 1..2, NextFormats(a, n) \/ SkipFormats(a, n) PROVE IInv'
  <2>1. a \in DOMAIN objects
    BY <1>6, CallableIsAlive DEF NextFormats, SkipFormats, Enumerator
  <2>2. Cursor(a, n) \in 0..4
    BY <2>1 DEF Cursor, IInv, TypeOK, Object, OfferedFormats
  <2> QED BY <1>6, <2>1, <2>2, MovedStep DEF NextFormats, SkipFormats
<1>7. CASE ResetFormats(a)
  <2>1. a \in DOMAIN objects
    BY <1>7, CallableIsAlive DEF ResetFormats, Enumerator
  <2>2. 0 \in 0..4 /\ objects' = [objects EXCEPT ![a].cursor = 0] /\ UNCHANGED <<held, loops>>
    BY <1>7 DEF ResetFormats
  <2> QED BY <2>1, <2>2, MovedStep
<1>8. CASE CloneFormats(a)
  <2>1. a \in DOMAIN objects /\ objects[a].cursor \in 0..4
    BY <1>8, CallableIsAlive DEF CloneFormats, Enumerator, IInv, TypeOK, Object
  <2>2. /\ [New("formats") EXCEPT !.cursor = objects[a].cursor] \in Object
        /\ [New("formats") EXCEPT !.cursor = objects[a].cursor].refs = 1
    BY <2>1 DEF New, Object
  <2> QED BY <1>8, <2>2, MadeStep DEF CloneFormats
<1> QED BY <1>1, <1>2, <1>3, <1>4, <1>5, <1>6, <1>7, <1>8 DEF Call

LEMMA InvInit == Init => IInv
BY DEF Init, IInv, TypeOK, AppInv, CountInv, Looping, Pair, Refs, Holders

LEMMA InvStep == IInv /\ [Next]_vars => IInv'
<1> SUFFICES ASSUME IInv, [Next]_vars PROVE IInv' OBVIOUS
<1>1. CASE UNCHANGED vars
  BY <1>1 DEF vars, IInv, TypeOK, AppInv, CountInv, Looping, Pair, Refs
<1>2. ASSUME NEW a \in Addresses, Call(a) PROVE IInv'
  BY <1>2, CallStep
<1> QED BY <1>1, <1>2, StartStep, RefusedStep, EnterStep, EndStep DEF Next

\* The state has its types, in every behaviour.
THEOREM DragTypeCorrect == Spec => []TypeOK
BY InvInit, InvStep, PTL DEF Spec, IInv

\* Every count of the COM objects is that of the references there are: no
\* call of a client reaches freed memory, nothing is freed twice, and nothing
\* is kept when its last user has gone (drag.rs `run_drag', the vtables).
THEOREM ReferencesAreCounted == Spec => []RefsAreHeld
BY InvInit, InvStep, InvImpliesRefsAreHeld, PTL DEF Spec

-----------------------------------------------------------------------------
\* What a drag reports is a DragResult: a failure has its label, a target its
\* effect (drag.rs `run_drag').
LEMMA ResultIsResult ==
  ASSUME NEW hr, NEW effect \in SUBSET {"copy", "move"}
  PROVE  Result(hr, effect) \in DragResult
<1> DEFINE outcome == Outcome(hr, effect)
<1>1. outcome \in DragOutcome
  BY DEF Outcome, DragOutcome
<1>2. TargetEffect(effect, outcome) \in DragTargetEffect
  <2> HIDE DEF outcome
  <2>1. CASE "copy" \in effect
    BY <2>1 DEF TargetEffect, DragTargetEffect
  <2>2. CASE "copy" \notin effect /\ "move" \in effect
    BY <2>2 DEF TargetEffect, DragTargetEffect
  <2>3. CASE effect = {} /\ outcome = "rejected"
    BY <2>3 DEF TargetEffect, DragTargetEffect
  <2>4. CASE effect = {} /\ outcome # "rejected"
    BY <2>4 DEF TargetEffect, DragTargetEffect
  <2> QED BY <2>1, <2>2, <2>3, <2>4
<1>3. FailureKind(hr) \in {"invalid_payload", "internal"}
  BY DEF FailureKind
<1>4. DismissCard(outcome) \in BOOLEAN
  BY DEF DismissCard
<1>5. (IF outcome = "failed" THEN FailureKind(hr) ELSE "none") \in {"none", "invalid_payload", "internal"}
  BY <1>3
<1>6. Result(hr, effect) = [outcome |-> outcome, dismiss |-> DismissCard(outcome),
                            effect  |-> TargetEffect(effect, outcome),
                            failure |-> IF outcome = "failed" THEN FailureKind(hr) ELSE "none"]
  BY DEF Result
<1> HIDE DEF outcome
<1> QED BY <1>1, <1>2, <1>4, <1>5, <1>6 DEF DragResult

THEOREM ReportsAreResults == Spec => []Reported
<1>1. Init => Reported
  BY DEF Init, Reported
<1>2. Reported /\ [Next]_vars => Reported'
  <2> SUFFICES ASSUME Reported, [Next]_vars, report' # report PROVE Reported'
    BY DEF Reported
  <2>1. EndDrag
    BY DEF Next, vars, Call, StartDrag, DragRefused, EnterLoop, QueryInterface, AddRef,
           Release, GetData, QueryGetData, EnumFormatEtc, NextFormats, SkipFormats,
           ResetFormats, CloneFormats
  <2>2. PICK escape \in BOOLEAN, buttons \in SUBSET {"left", "right"},
             effect \in SUBSET {"copy", "move"} :
          \E hr : report' = Result(hr, effect)
    BY <2>1 DEF EndDrag
  <2> QED BY <2>2, ResultIsResult DEF Reported
<1> QED BY <1>1, <1>2, PTL DEF Spec

-----------------------------------------------------------------------------
\* A consistent request is rendered whole.
LEMMA ConsistentIsWhole ==
  ASSUME NEW request \in DragRequest, Consistent(request)
  PROVE  PayloadIsWhole(request)
<1> DEFINE w == request.width
           h == request.height
<1>1. w \in Nat /\ h \in Nat /\ request.path \in Nat /\ h > 0 /\ request.pixels = w * h * 4
  BY DEF DragRequest, Consistent
<1>2. -(-h) = h /\ -h < 0
  BY <1>1
<1> QED BY <1>1, <1>2 DEF PayloadIsWhole, EncodeHdrop, EncodeDibV5, EncodeUnicodeText

\* The inductive invariant: a data object renders a request that was found
\* consistent; a format is learned after the system was asked for its number,
\* which does not change.
ObjectsAreWhole ==
  \A a \in DOMAIN objects : objects[a].kind = "data" =>
    objects[a].state \in Requests /\ Consistent(objects[a].state)
LearnedIsOffered ==
  learned # {} => registered # "unset" /\ learned \subseteq {OfferedFormats[n] : n \in 1..4}

LEMMA WholeStep ==
  ASSUME IInv, ObjectsAreWhole, [Next]_vars
  PROVE  ObjectsAreWhole'
<1> DEFINE Kept(b) == b \in DOMAIN objects /\ objects'[b].kind = objects[b].kind
                                           /\ objects'[b].state = objects[b].state
<1>0. \A a \in DOMAIN objects : objects[a] \in Object
  BY DEF IInv, TypeOK
<1>1. SUFFICES ASSUME NEW b \in DOMAIN objects'
               PROVE  Kept(b) \/ objects'[b].kind = "formats" \/ objects'[b].kind = "source"
                        \/ (objects'[b].state \in Requests /\ Consistent(objects'[b].state))
  BY DEF ObjectsAreWhole
<1>2. CASE UNCHANGED objects
  BY <1>1, <1>2
<1>3. ASSUME NEW a \in Addresses, objects' = Counted(a) PROVE Kept(b)
  BY <1>0, <1>1, <1>3 DEF Counted, Object
<1>4. ASSUME NEW a, objects' = Released(objects, a) PROVE Kept(b)
  BY <1>0, <1>1, <1>4 DEF Released, Object
<1>5. ASSUME NEW a, NEW n, objects' = [objects EXCEPT ![a].cursor = n] PROVE Kept(b)
  BY <1>0, <1>1, <1>5 DEF Object
<1>6. ASSUME NEW e, NEW o, o.kind = "formats", objects' = Put(e, o)
      PROVE Kept(b) \/ objects'[b].kind = "formats"
  BY <1>0, <1>1, <1>6 DEF Put
<1>7. CASE EnterLoop
  <2>1. PICK d, s \in Free, request \in Requests :
          /\ d # s /\ Consistent(request)
          /\ objects' = [c \in DOMAIN objects \cup {d, s} |->
                           IF c \in DOMAIN objects THEN objects[c]
                           ELSE IF c = d THEN [New("data") EXCEPT !.state = request] ELSE New("source")]
    BY <1>7 DEF EnterLoop
  <2> QED BY <1>1, <2>1 DEF New
<1>8. CASE EndDrag
  <2>1. PICK d, s : objects' = Released(Released(objects, d), s)
    BY <1>8 DEF EndDrag, LetGo
  <2> DEFINE mid == Released(objects, d)
  <2>2. \A c \in DOMAIN mid : /\ c \in DOMAIN objects
                              /\ mid[c].kind = objects[c].kind /\ mid[c].state = objects[c].state
                              /\ mid[c] = [kind |-> mid[c].kind, refs |-> mid[c].refs,
                                           cursor |-> mid[c].cursor, state |-> mid[c].state]
    BY <1>0 DEF Released, Object
  <2>3. objects' = Released(mid, s)
    BY <2>1
  <2> HIDE DEF mid
  <2>4. b \in DOMAIN mid /\ objects'[b].kind = mid[b].kind /\ objects'[b].state = mid[b].state
    BY <1>1, <2>2, <2>3 DEF Released
  <2> QED BY <2>2, <2>4
<1>9. CASE StartDrag \/ DragRefused
  BY <1>2, <1>9 DEF StartDrag, DragRefused
<1>10. ASSUME NEW a \in Addresses, Call(a)
       PROVE Kept(b) \/ objects'[b].kind = "formats"
  <2>1. CASE QueryInterface(a) \/ AddRef(a)
    BY <2>1, <1>3 DEF QueryInterface, AddRef
  <2>2. CASE Release(a)
    BY <2>2, <1>4 DEF Release
  <2>3. CASE \E f \in learned : GetData(a, f) \/ QueryGetData(a, f)
    BY <2>3, <1>1 DEF GetData, QueryGetData
  <2>4. CASE EnumFormatEtc(a)
    <3>1. New("formats").kind = "formats"
      BY DEF New
    <3> QED BY <2>4, <3>1, <1>6 DEF EnumFormatEtc
  <2>5. CASE \E n \in 1..2 : NextFormats(a, n) \/ SkipFormats(a, n)
    BY <2>5, <1>5 DEF NextFormats, SkipFormats
  <2>6. CASE ResetFormats(a)
    BY <2>6, <1>5 DEF ResetFormats
  <2>7. CASE CloneFormats(a)
    <3>1. [New("formats") EXCEPT !.cursor = objects[a].cursor].kind = "formats"
      BY DEF New
    <3> QED BY <2>7, <3>1, <1>6 DEF CloneFormats
  <2> QED BY <1>10, <2>1, <2>2, <2>3, <2>4, <2>5, <2>6, <2>7 DEF Call
<1>11. CASE UNCHANGED vars
  BY <1>2, <1>11 DEF vars
<1> QED BY <1>7, <1>8, <1>9, <1>10, <1>11 DEF Next

LEMMA RegisterOnce ==
  ASSUME RegisterPng
  PROVE  registered' # "unset" /\ (registered # "unset" => registered' = registered)
BY FormatsAssumption DEF RegisterPng

LEMMA LearnedStep ==
  ASSUME IInv, LearnedIsOffered, [Next]_vars
  PROVE  LearnedIsOffered'
<1>1. CASE UNCHANGED <<learned, registered>>
  BY <1>1 DEF LearnedIsOffered, OfferedFormats
<1>2. ASSUME RegisterPng, learned' = learned PROVE LearnedIsOffered'
  <2>1. CASE learned = {}
    BY <1>2, <2>1 DEF LearnedIsOffered
  <2>2. CASE learned # {}
    <3>1. registered' = registered
      BY <1>2, <2>2, RegisterOnce DEF LearnedIsOffered
    <3> QED BY <1>1, <1>2, <3>1
  <2> QED BY <2>1, <2>2
<1>3. ASSUME NEW a \in Addresses, NEW n \in 1..2, NextFormats(a, n) PROVE LearnedIsOffered'
  <2>1. a \in DOMAIN objects /\ RegisterPng
        /\ learned' = {OfferedFormats'[m] : m \in (objects[a].cursor + 1)..Cursor(a, n)}
    BY <1>3, CallableIsAlive DEF NextFormats, Enumerator
  <2>2. objects[a].cursor \in 0..4 /\ Cursor(a, n) \in 0..4
    BY <2>1 DEF Cursor, IInv, TypeOK, Object, OfferedFormats
  <2>3. (objects[a].cursor + 1)..Cursor(a, n) \subseteq 1..4
    BY <2>2
  <2>4. registered' # "unset"
    BY <2>1, RegisterOnce
  <2> QED BY <2>1, <2>3, <2>4 DEF LearnedIsOffered
<1>4. ASSUME NEW a \in Addresses, Call(a) PROVE LearnedIsOffered'
  <2>1. CASE QueryInterface(a) \/ AddRef(a) \/ Release(a) \/ EnumFormatEtc(a)
               \/ ResetFormats(a) \/ CloneFormats(a)
    BY <1>1, <2>1 DEF QueryInterface, AddRef, Release, EnumFormatEtc, ResetFormats, CloneFormats
  <2>2. CASE \E f \in learned : GetData(a, f) \/ QueryGetData(a, f)
    BY <1>2, <2>2 DEF GetData, QueryGetData
  <2>3. ASSUME NEW n \in 1..2, SkipFormats(a, n) PROVE LearnedIsOffered'
    BY <1>2, <2>3 DEF SkipFormats
  <2> QED BY <1>3, <1>4, <2>1, <2>2, <2>3 DEF Call
<1>5. CASE StartDrag \/ DragRefused \/ EnterLoop \/ EndDrag \/ UNCHANGED vars
  BY <1>1, <1>5 DEF StartDrag, DragRefused, EnterLoop, EndDrag, vars
<1> QED BY <1>4, <1>5 DEF Next

LEMMA OfferedIsSupported ==
  ASSUME NEW n \in 1..4, OfferedFormats[n].code # NoFormat
  PROVE  SupportedFormat(OfferedFormats[n])
<1>1. n = 1 \/ n = 2 \/ n = 3 \/ n = 4
  OBVIOUS
<1> QED BY <1>1 DEF OfferedFormats, Format, SupportedFormat, Classified

\* What an enumerator offers is rendered when asked for, and rendered whole
\* (drag.rs `offered_formats', `classify', `supported_format', the encoders).
THEOREM RendersWhatItOffers == Spec => []RenderedAsOffered
<1>1. Init => ObjectsAreWhole /\ LearnedIsOffered
  BY DEF Init, ObjectsAreWhole, LearnedIsOffered
<1>2. IInv /\ ObjectsAreWhole /\ LearnedIsOffered => RenderedAsOffered
  <2> SUFFICES ASSUME IInv, ObjectsAreWhole, LearnedIsOffered PROVE RenderedAsOffered
    OBVIOUS
  <2>1. ASSUME NEW f \in learned, f.code # NoFormat PROVE SupportedFormat(f)
    <3>1. PICK n \in 1..4 : f = OfferedFormats[n]
      BY <2>1 DEF LearnedIsOffered
    <3> QED BY <2>1, <3>1, OfferedIsSupported
  <2>2. ASSUME NEW a \in DOMAIN objects, objects[a].kind = "data"
        PROVE  PayloadIsWhole(objects[a].state)
    BY <2>2, ConsistentIsWhole, RequestsAssumption DEF ObjectsAreWhole
  <2> QED BY <2>1, <2>2 DEF RenderedAsOffered
<1> QED BY <1>1, <1>2, InvInit, InvStep, WholeStep, LearnedStep, PTL DEF Spec
================================================================================
