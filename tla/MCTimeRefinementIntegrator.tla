---------------------- MODULE MCTimeRefinementIntegrator ----------------------
(***************************************************************************)
(* Four levels.  The second may have to take smaller steps than the        *)
(* refinement ratio asks for, so that the third is regridded in the middle *)
(* of its sequence.                                                        *)
(***************************************************************************)
EXTENDS TimeRefinementIntegrator

FinerDts(l) == IF l = 1 THEN {84, 162} ELSE {54}

MCDts == [l \in Levels |-> IF l = 0 THEN {324} ELSE FinerDts(l)]

=============================================================================
