------------------------------- MODULE MCConvoys -------------------------------
(* Model-checking instance of Convoys: stops 1 to 3, and schedules that share one *)
EXTENDS Convoys, TLC

MCSchedules == {{}, {1, 2}, {2, 3}}
MCSymmetry == Permutations(Convoys) \cup Permutations(Lines)
=============================================================================
