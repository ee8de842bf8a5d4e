------------------------------- MODULE Geometry --------------------------------
(***************************************************************************)
(* The physical-pixel geometry of the contracts crate: rectangles of the   *)
(* virtual desktop (coordinate.rs), monitor layouts (monitor.rs) and the   *)
(* view model of a pin (pin.rs).  A rectangle is a record of its origin    *)
(* and its extent, half-open to the right and below.  Integers are the     *)
(* code's i32, on a width that is a parameter; a zoom, an f32 in the code, *)
(* is a whole number of twentieths.                                        *)
(***************************************************************************)
EXTENDS Integers, FiniteSetsExt

CONSTANT MaxInt                         \* i32::MAX
ASSUME MaxIntAssumption == MaxInt \in Nat \ {0}

MinInt == -MaxInt - 1
Int32  == MinInt .. MaxInt

Larger(a, b)  == IF a >= b THEN a ELSE b
Smaller(a, b) == IF a <= b THEN a ELSE b
ClampTo(n, low, high) == Larger(low, Smaller(n, high))

\* Rounding of n / d, d > 0, to the nearest integer: halves go away from zero.
RoundDiv(n, d) == IF n >= 0 THEN (2 * n + d) \div (2 * d)
                            ELSE -((d - 2 * n) \div (2 * d))

\* What i32::saturating_add and a two's complement sum make of a result.
Saturate(n) == ClampTo(n, MinInt, MaxInt)
Wrap(n)     == ((n + MaxInt + 1) % (2 * MaxInt + 2)) - MaxInt - 1

Point == [x : Int32, y : Int32]
Rect(x, y, w, h) == [x |-> x, y |-> y, w |-> w, h |-> h]
Empty == Rect(0, 0, 0, 0)

Right(b)  == Saturate(b.x + Wrap(b.w))
Bottom(b) == Saturate(b.y + Wrap(b.h))
IsEmpty(b) == b.w = 0 \/ b.h = 0

\* The part of a rectangle inside an extent; degenerate when there is none.
ClampedTo(b, extent) ==
  LET x == Larger(b.x, extent.x)
      y == Larger(b.y, extent.y)
  IN  Rect(x, y, Larger(Smaller(Right(b), Right(extent)) - x, 0),
                 Larger(Smaller(Bottom(b), Bottom(extent)) - y, 0))

Intersect(a, b) ==
  LET x0 == Larger(a.x, b.x)
      y0 == Larger(a.y, b.y)
      x1 == Smaller(Right(a), Right(b))
      y1 == Smaller(Bottom(a), Bottom(b))
  IN  IF x1 <= x0 \/ y1 <= y0 THEN Empty ELSE Rect(x0, y0, x1 - x0, y1 - y0)

\* The bounding box of a non-empty set of rectangles.
Box(rects) ==
  LET x == Min({b.x : b \in rects})
      y == Min({b.y : b \in rects})
  IN  Rect(x, y, Larger(Max({Right(b) : b \in rects}) - x, 0),
                 Larger(Max({Bottom(b) : b \in rects}) - y, 0))

\* A monitor is [bounds, work, scale]; a layout is a set of monitors.
VirtualBounds(layout) == Box({m.bounds : m \in layout})
UnionWorkArea(layout) == Box({m.work : m \in layout})

--------------------------------------------------------------------------------
\* From the desktop to a framebuffer whose top-left is at `origin'
\* (coordinate.rs `transform').  A selection keeps its extent when its
\* origin is clamped.
PhysicalToCaptureBuffer(b, origin) ==
  Rect(Larger(Saturate(b.x - origin.x), 0), Larger(Saturate(b.y - origin.y), 0), b.w, b.h)
ClampToCaptureBuffer(crop, size) == ClampedTo(crop, Rect(0, 0, size.w, size.h))
MonitorToCaptureBuffer(bounds, origin, size) ==
  ClampedTo(Rect(bounds.x - origin.x, bounds.y - origin.y, bounds.w, bounds.h),
            Rect(0, 0, size.w, size.h))

\* An extent of a stage of `stage' CSS pixels over `physical' pixels.
StageToPhysical(n, physical, stage) == RoundDiv(n * physical, stage)

--------------------------------------------------------------------------------
MinZoom == 4
MaxZoom == 80
DefaultZoom    == 20
MinOpacity     == 20                    \* per cent
MaxOpacity     == 100
DefaultOpacity == 100

ClampZoom(z)    == ClampTo(z, MinZoom, MaxZoom)
ClampOpacity(o) == ClampTo(o, MinOpacity, MaxOpacity)

Scaled(extent, zoom) == Larger(RoundDiv(extent * ClampZoom(zoom), DefaultZoom), 1)

\* The top-left that keeps the pixel at `cursor' under it when the zoom
\* goes from `zoom' to `new'.
ZoomedAxis(position, cursor, zoom, new) ==
  ClampTo(RoundDiv(position * zoom + cursor * (zoom - new), zoom), -MaxInt, MaxInt)

CursorCenteredZoom(position, cursor, zoom, new) ==
  [x |-> ZoomedAxis(position.x, cursor.x, zoom, new),
   y |-> ZoomedAxis(position.y, cursor.y, zoom, new)]

\* Mutant: the window's extent is forgotten past the far edge.
AnchoredAxisPast(position, extent, origin, end) ==
  IF extent >= Larger(end - origin, 0) \/ Wrap(position + Wrap(extent)) < origin
    THEN origin
  ELSE Smaller(position, end)

AnchoredAxis(position, extent, origin, end) ==
  IF extent >= Larger(end - origin, 0) \/ Wrap(position + Wrap(extent)) < origin
    THEN origin
  ELSE IF position > end THEN end - extent
  ELSE position

Touches(window, area) == Intersect(area, window) # Empty

Reanchor(window, area) ==
  IF Touches(window, area) THEN [x |-> window.x, y |-> window.y]
  ELSE [x |-> AnchoredAxis(window.x, window.w, area.x, Right(area)),
        y |-> AnchoredAxis(window.y, window.h, area.y, Bottom(area))]
================================================================================
