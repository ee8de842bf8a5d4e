--------------------------- MODULE CaptureCacheMC ---------------------------
(* CaptureCache for TLC: shelf ids are interchangeable.                     *)
EXTENDS CaptureCache, TLC

ShelfSymmetry == Permutations(Shelves)
=============================================================================
