-------------------------------- MODULE PinsMC ---------------------------------
EXTENDS Pins

At(x, y) == [x |-> x, y |-> y]
Monitor(b, w) == [bounds |-> b, work |-> w]
\* Two monitors side by side, the left one with a taskbar below; the left one
\* comes and goes.
Left  == Monitor(Rect(0, 0, 4, 4), Rect(0, 0, 4, 3))
Primary == Monitor(Rect(4, 0, 4, 4), Rect(4, 0, 4, 4))
MCLayouts == {{Left, Primary}, {Primary}}
MCSource  == [w |-> 2, h |-> 1]
\* A drag, and a place, past the right of both monitors.
MCDrags   == {At(8, 0)}
MCPositions == {At(9, 0)}
MCFactors == {[num |-> 2, den |-> 1]}
MCCursors == {At(1, 0)}
================================================================================
