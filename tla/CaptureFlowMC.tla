---------------------------- MODULE CaptureFlowMC ----------------------------
(* CaptureFlow for TLC: the cards are interchangeable; a plain             *)
(* second launch, and one that captures.                                   *)
EXTENDS CaptureFlow, TLC

MCArgvs == {<<"pixelgrab">>, <<"pixelgrab", "--debug", "--capture", "--settings">>}

CardSymmetry == Permutations(Cards)
=============================================================================
