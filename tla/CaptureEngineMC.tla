---------------------------- MODULE CaptureEngineMC ----------------------------
EXTENDS CaptureEngine

Monitor(id, main_, b) == [id |-> id, primary |-> main_, bounds |-> b]
\* A primary monitor with a smaller one to its left, at a negative origin,
\* then to its right; neither desktop is a full rectangle.
Primary == Monitor("m1", TRUE, Rect(0, 0, 2, 2))
MCLayouts == {{Primary, Monitor("m2", FALSE, Rect(-1, 1, 1, 1))},
              {Primary, Monitor("m2", FALSE, Rect(2, 0, 1, 1))}}

At(x, y) == [x |-> x, y |-> y]
MCScenes == {<<Blur(3, Rect(0, 0, 2, 2), 1, 1), Rectangle(2, Rect(0, 1, 3, 3), "red", "thin", 0),
               NumberedBadge(1, At(1, 0), 1, 12, "blue", "thin", 1)>>,
             <<Text(2, Rect(1, -2, 10, 12), <<<<<<"A">>, <<"A", "A">>>>>>, "white", "thin", 0),
               Arrow(1, At(0, 0), At(-4, 2), "green", "thin", 0)>>}
MCFont == "A" :> <<14, 17, 17, 31, 17, 17, 17>>
================================================================================
