------------------------------ MODULE MCCrossing ------------------------------
(* Model-checking instance of Crossing over a road with two tracks: all      *)
(* trains use the same track, the cars pass both                             *)
EXTENDS Crossing

CONSTANTS c1, c2, c3, t1, t2, t3

MCCars == {c1, c2, c3}
MCTrains == {t1, t2, t3}

SameTrack == [t \in MCTrains |-> 2]
=============================================================================
