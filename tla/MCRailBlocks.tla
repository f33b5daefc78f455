------------------------------ MODULE MCRailBlocks ------------------------------
(* Model-checking instance of RailBlocks: a single line between two stations, *)
(* a depot behind one of the platforms                                       *)
(*                                                                           *)
(*  a1 - a2 \       / c1 - c2                                                *)
(*            m1 - m2                                                        *)
(*        d /       \ e1                                                     *)
EXTENDS RailBlocks

CONSTANTS t1, t2

MCTrains == {t1, t2}
Line == <<"m1", "m2">>
West == {<<"a1", "a2">>, <<"d">>}
East == {<<"c1", "c2">>, <<"e1">>}
MCTiles == {"a1", "a2", "d", "m1", "m2", "c1", "c2", "e1"}
Through == {w \o Line \o e : w \in West, e \in East}
MCPaths == Through \cup {Reverse(p) : p \in Through}
MCLength == (t1 :> 1 @@ t2 :> 0)
MCHome == (t1 :> "d" @@ t2 :> "d")
MCGoals == (t1 :> {"a1", "c2"} @@ t2 :> {"d", "e1"})
Signalled(f) == [x \in MCTiles |-> IF x \in DOMAIN f THEN f[x] ELSE "none"]
MCPlans == {Signalled(("a2" :> "pre") @@ ("m2" :> "normal") @@
                      ("c1" :> "priority") @@ ("e1" :> "pre"))}
(* A signal at the end of a platform is seen on the way out *)
MCUnseen == {<<"a2", "m1">>, <<"c1", "m2">>, <<"e1", "m2">>}
ASSUME MCWellSignalled == WellSignalled
=============================================================================
