----------------------------- MODULE MCHaltRouting -----------------------------
(***************************************************************************)
(* Four stations in a row, a to d, and one, e, that is yet to be built.    *)
(* The lines meet at b and c; the middle one may be changed.               *)
(***************************************************************************)
EXTENDS HaltRouting

CONSTANTS a, b, c, d, e, middle, east, fixed, moving, last

InARow == <<a, b, c, d>>
Places3 == {middle, east}
Near3 == middle :> {c, e} @@ east :> {d}
Detour == fixed :> {<<a, b>>} @@ moving :> {<<b, e, c>>, <<a, c>>} @@ last :> {<<c, d>>}
(* The last line may leave the last station *)
CutOff == fixed :> {<<a, b>>} @@ moving :> {<<b, c>>} @@ last :> {<<c, d>>, <<c, b>>}
AGame(schedules, room, events) == [schedules |-> schedules, room |-> room, events |-> events]

(* Stations and schedules change around one packet, or schedules around two; stops become public *)
(* and games are loaded                                                                         *)
Games == {AGame(Detour, 1, {"build", "change"}), AGame(Detour, 1, {"remove", "change"}),
          AGame(CutOff, 2, {"change"}), AGame(CutOff, 1, {"public", "load"})}
TwoPackets == {AGame(CutOff, 2, {"change"})}
Removals == {AGame(Detour, 1, {"remove"})}
Buildings == {AGame(Detour, 1, {"build"})}
PublicStops == {AGame(Detour, 0, {"public"})}
Resumed == {AGame(Detour, 2, {"change", "stale"})}
================================================================================
