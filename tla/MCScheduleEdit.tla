----------------------------- MODULE MCScheduleEdit -----------------------------
(* Model-checking instance of ScheduleEdit: four stops, and a depot that is no stop *)
EXTENDS ScheduleEdit

MCRoute == <<"a", "b", "c", "e">>
=============================================================================
