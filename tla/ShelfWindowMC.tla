---------------------------- MODULE ShelfWindowMC -----------------------------
EXTENDS ShelfWindow

Screen(id, main_, b, work, scale) ==
  [id |-> id, primary |-> main_, bounds |-> b, work |-> work, scale |-> scale]
\* A primary monitor with room for one card and the control, and a scaled one
\* to its left with room for two, that comes and goes.
Primary == Screen("m1", TRUE, Rect(0, 0, 800, 500), Rect(0, 0, 800, 460), 100)
Left    == Screen("m2", FALSE, Rect(-900, 0, 900, 800), Rect(-900, 40, 900, 760), 150)
MCLayouts  == {{Primary, Left}, {Primary}}
MCRequests == {[corner |-> "top_left", target |-> "cursor", margin |-> 1000, visible |-> 0]}
MCCursors  == {[x |-> -1, y |-> 0]}
================================================================================
