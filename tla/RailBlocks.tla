------------------------------- MODULE RailBlocks -------------------------------
(***************************************************************************)
(* Trains, block reservation and signals (vehicle/rail_vehicle.cc, with    *)
(* the parts of vehicle/vehicle.cc and simconvoi.cc that move a train).    *)
(* A train lies on the tiles of its route from that of its last vehicle to *)
(* that of its first; each of them holds a vehicle.  step() routes a train *)
(* and starts a waiting one, sync_step() moves it.  Route indices count    *)
(* from 0, as in the code.                                                 *)
(***************************************************************************)
EXTENDS Integers, FiniteSets, Sequences, SequencesExt

CONSTANTS
  Trains, Tiles,
  Length,      \* how many tiles the last vehicle of a train is behind the first
  Home,        \* the depot a train starts from
  Depots,      \* the tiles with a depot
  Halts,       \* the tiles with a stop
  Paths,       \* what the route search can find
  Goals,       \* the tiles that a train's schedule may send it to
  Plans,       \* the ways the line may be signalled: a kind of signal for each tile
  Unseen,      \* <<tile, previous tile>>: a two-way signal that is passed from behind
  Crossings,   \* the tiles with a level crossing
  MaxEvents,   \* bound: how often a train is rerouted, a signal taken away, the game saved
  Troubles,    \* which of "interrupt", "noRoute", "leaving", "turnOff", "sent" happen
  Nobody

Kinds == {"none", "normal", "pre", "priority"}
INVALID_INDEX == 1000 \* larger than any index of a route

ASSUME RailAssumption ==
  /\ Depots \subseteq Tiles /\ Halts \subseteq Tiles /\ Crossings \subseteq Tiles
  /\ Length \in [Trains -> Nat] /\ Home \in [Trains -> Depots]
  /\ Goals \in [Trains -> SUBSET Tiles]
  /\ Plans \subseteq [Tiles -> Kinds]
  /\ IsFiniteSet(Trains) /\ Nobody \notin Trains
  /\ MaxEvents \in Nat
  /\ \A p \in Paths :
       /\ p \in Seq(Tiles) /\ Len(p) > 1 /\ IsInjective(p)
       /\ \A t \in Trains : Length[t] + Len(p) < INVALID_INDEX

VARIABLES
  state,      \* convoi_t::state; within drive_to "SEARCHING" a route, then "PLACED" on it
  route,      \* convoi_t::route
  ri,         \* route_index of the first vehicle: the tile it goes to next
  bi,         \* route_index of the last vehicle
  out,        \* steps_driven >= 0: not all vehicles have left the depot
  nextStop,   \* next_stop_index
  nextRes,    \* next_reservation_index
  resv,       \* schiene_t::reserved of a tile
  signal,     \* the signal that stands on a tile
  events      \* counts what the bound is for

vars == <<state, route, ri, bi, out, nextStop, nextRes, resv, signal, events>>

States == {"INITIAL", "ROUTING_1", "SEARCHING", "PLACED", "NO_ROUTE", "CAN_START", "LEAVING_DEPOT",
           "DRIVING", "WAITING_FOR_CLEARANCE", "LOADING"}

At(r, i) == r[i + 1]
Count(r) == Len(r)
Pos(t) == At(route[t], ri[t] - 1)
Under(t) == IF state[t] = "INITIAL" THEN {} ELSE {At(route[t], i) : i \in (bi[t] - 1)..(ri[t] - 1)}

TypeOK ==
  /\ state \in [Trains -> States]
  /\ \A t \in Trains :
       /\ route[t] \in Seq(Tiles) /\ Count(route[t]) > 0
       /\ 1 <= bi[t] /\ bi[t] <= ri[t] /\ ri[t] <= Count(route[t]) /\ ri[t] - bi[t] <= Length[t]
  /\ out \in [Trains -> BOOLEAN]
  /\ nextStop \in [Trains -> 0..(INVALID_INDEX + 1)]
  /\ nextRes \in [Trains -> 0..INVALID_INDEX]
  /\ resv \in [Tiles -> Trains \cup {Nobody}]
  /\ signal \in [Tiles -> Kinds]
  /\ events \in 0..MaxEvents

Init ==
  /\ state = [t \in Trains |-> "INITIAL"]
  /\ route = [t \in Trains |-> <<Home[t]>>]
  /\ ri = [t \in Trains |-> 1] /\ bi = [t \in Trains |-> 1]
  /\ out = [t \in Trains |-> FALSE]
  /\ nextStop = [t \in Trains |-> 0] /\ nextRes = [t \in Trains |-> 0]
  /\ resv = [x \in Tiles |-> Nobody]
  /\ signal \in Plans
  /\ events = 0

-----------------------------------------------------------------------------
(* Reservation of a block.  What a call does to the train's own variables is *)
(* a record g: the owner of each tile, next_stop_index, next_reservation_index *)

Grant(t) == [resv |-> resv, stop |-> nextStop[t], res |-> nextRes[t]]

CanReserve(g, t, x) == g.resv[x] \in {t, Nobody}
Freed(g, t, X) == [g EXCEPT !.resv = [x \in Tiles |-> IF x \in X /\ g.resv[x] = t THEN Nobody ELSE @[x]]]
Taken(g, t, X) == [g EXCEPT !.resv = [x \in Tiles |-> IF x \in X THEN t ELSE @[x]]]
TilesOf(r, from, to) == {At(r, i) : i \in from..to}

FirstIndex(I) == IF I = {} THEN INVALID_INDEX ELSE CHOOSE i \in I : \A j \in I : i <= j
Lesser(a, b) == IF a < b THEN a ELSE b

(* The block of a reservation that starts at index start, with count 0 *)
From(t, r, start) == IF At(r, start) = Pos(t) THEN start + 1 ELSE start
SignalsAhead(t, r, start) ==
  {i \in From(t, r, start)..(Count(r) - 2) :
     /\ signal[At(r, i)] # "none"
     /\ ~(i > From(t, r, start) /\ <<At(r, i), At(r, i - 1)>> \in Unseen)}
NextSignal(t, r, start) == FirstIndex(SignalsAhead(t, r, start))
BlockEndShort(t, r, start) == \* mutant: the tile of the signal is not in the block
  Lesser(NextSignal(t, r, start) - 1, Count(r) - 1)
BlockEnd(t, r, start) == Lesser(NextSignal(t, r, start), Count(r) - 1)
NextCrossing(t, r, start) ==
  FirstIndex({i \in From(t, r, start)..BlockEnd(t, r, start) : At(r, i) \in Crossings})
NextObstacle(t, r, start) == Lesser(NextSignal(t, r, start), NextCrossing(t, r, start))

BlockFree(g, t, r, start) ==
  /\ start < Count(r)
  /\ \A x \in TilesOf(r, From(t, r, start), BlockEnd(t, r, start)) : CanReserve(g, t, x)

(* block_reserver(r, start, .., 0, true, false) *)
Reserved(g, t, r, start) ==
  IF start >= Count(r) THEN [g EXCEPT !.res = Count(r) - 1]
  ELSE LET from == From(t, r, start)
           to == BlockEnd(t, r, start)
           taken == FirstIndex({i \in from..to : ~CanReserve(g, t, At(r, i))})
       IN  IF taken = INVALID_INDEX
           THEN [Taken(g, t, TilesOf(r, from, to)) EXCEPT !.res = to + 1]
           ELSE [Freed(g, t, TilesOf(r, from, taken)) EXCEPT !.res = from]

(* block_reserver(r, start, .., false, force): without force only the first run *)
Unreserved(g, t, r, start, force) ==
  IF start >= Count(r) THEN [g EXCEPT !.res = Count(r) - 1]
  ELSE LET own == FirstIndex({i \in start..(Count(r) - 1) : g.resv[At(r, i)] = t})
           end == FirstIndex({i \in own..(Count(r) - 1) : g.resv[At(r, i)] # t})
           to == IF force THEN Count(r) - 1 ELSE Lesser(end, Count(r)) - 1
       IN  [Freed(g, t, TilesOf(r, start, to)) EXCEPT !.res = start]

(* set_next_stop_index: a train brakes one tile before the end in a stop *)
StopAt(g, r, n) ==
  [g EXCEPT !.stop = IF n = INVALID_INDEX /\ At(r, Count(r) - 1) \in Halts
                     THEN Count(r) - 1 ELSE n + 1]

-----------------------------------------------------------------------------
(* Signals: is a train let past the one at index n, and what has it got then *)

Answer(ok, g) == [ok |-> ok, g |-> g]

(* is_pre_signal_clear and is_priority_signal_clear of the signal at index n, *)
(* given what the signal after answers, with the block between them reserved  *)
Grants == [resv : [Tiles -> Trains \cup {Nobody}], stop : Nat, res : Nat]
Aspect(t, n, g, on) ==
  LET r == route[t]
      after == NextSignal(t, r, n + 1)
      last == after = INVALID_INDEX \/ At(r, after) = At(r, Count(r) - 1)
      stop == NextObstacle(t, r, n + 1)
  IN  IF ~BlockFree(g, t, r, n + 1) THEN Answer(FALSE, Reserved(g, t, r, n + 1))
      ELSE IF signal[At(r, n)] = "normal" \/ last
      THEN Answer(TRUE, StopAt(Reserved(g, t, r, n + 1), r, stop))
      ELSE IF on.ok THEN Answer(TRUE, StopAt(on.g, r, stop))
      ELSE IF signal[At(r, n)] = "priority" THEN Answer(FALSE, StopAt(on.g, r, stop))
      ELSE Answer(FALSE, Unreserved(on.g, t, r, n + 1, FALSE))

(* is_signal_clear: the signals of a cascade ask the one after                *)
SignalClear(t, g0, n0) ==
  LET r == route[t]
      clear[n \in 0..(Count(r) - 1)] ==
        [g \in Grants |-> Aspect(t, n, g, clear[NextSignal(t, r, n + 1)][Reserved(g, t, r, n + 1)])]
  IN  clear[n0][g0]

(* can_enter_tile.  open: the crossing lets the train pass; at_border: it has *)
(* not been left at the start of a tile                                      *)
ObstacleClear(t, g, open) ==
  LET r == route[t]
      n == g.stop - 1
      x == At(r, n)
      held == Reserved(g, t, r, g.stop)
      passed == IF n = Count(r) - 1 THEN StopAt(g, r, INVALID_INDEX)
                ELSE StopAt(held, r, NextObstacle(t, r, g.stop))
      answer == SignalClear(t, g, n)
  IN  IF x \in Crossings /\ ~open THEN Answer(g.stop > ri[t] + 1, g)
      ELSE IF signal[x] # "none"
      THEN Answer(answer.ok \/ answer.g.stop > ri[t], answer.g)
      ELSE IF x \in Crossings /\ n # Count(r) - 1 /\ ~BlockFree(g, t, r, g.stop)
      THEN Answer(FALSE, held)
      ELSE Answer(TRUE, IF x \in Crossings THEN passed ELSE g)

TileClear(t, g, open) ==
  LET r == route[t]
      held == Reserved(g, t, r, ri[t])
  IN  IF ~CanReserve(g, t, At(r, Lesser(ri[t], Count(r) - 1))) THEN Answer(FALSE, g)
      ELSE IF g.stop = 0 \/ g.stop > Count(r) THEN Answer(TRUE, g)
      ELSE IF g.stop < ri[t]
      THEN IF BlockFree(g, t, r, ri[t])
           THEN Answer(TRUE, StopAt(held, r, NextObstacle(t, r, ri[t])))
           ELSE Answer(FALSE, held)
      ELSE IF g.stop - 1 <= ri[t] + 3 THEN ObstacleClear(t, g, open)
      ELSE Answer(TRUE, g)

StartClear(t, g, open, at_border) ==
  LET r == route[t]
      held == Reserved(g, t, r, ri[t] - 1)
      here == StopAt(g, r, ri[t] - 1)
  IN  IF signal[Pos(t)] = "none" /\ Pos(t) \notin Crossings
      THEN IF BlockFree(g, t, r, ri[t] - 1)
           THEN Answer(TRUE, StopAt(held, r, NextObstacle(t, r, ri[t] - 1)))
           ELSE Answer(FALSE, held)
      ELSE IF ~at_border THEN Answer(TRUE, here)
      ELSE TileClear(t, here, open)

(* hop_check and step(): in says what the crossing and the place in the tile are *)
Inputs == [open : IF Crossings = {} THEN {TRUE} ELSE BOOLEAN, at_border : BOOLEAN]
Enter(t, g, in) ==
  IF state[t] \in {"CAN_START", "PLACED"} THEN StartClear(t, g, in.open, in.at_border)
  ELSE TileClear(t, g, in.open)

Keep(t, g) ==
  /\ resv' = g.resv
  /\ nextStop' = [nextStop EXCEPT ![t] = g.stop]
  /\ nextRes' = [nextRes EXCEPT ![t] = g.res]
-----------------------------------------------------------------------------
(* step(): route search and the start of a train *)

(* A step of one train is over before that of another, but for a sync_step   *)
(* that interrupt_check runs while a route is searched                       *)
Idle == \A t \in Trains : state[t] \notin {"SEARCHING", "PLACED"}
SyncStep ==
  /\ \A t \in Trains : state[t] # "PLACED"
  /\ Idle \/ "interrupt" \in Troubles

(* convoi_t::start, called for a train in a depot *)
Start(t) ==
  /\ Idle /\ state[t] = "INITIAL"
  /\ state' = [state EXCEPT ![t] = "ROUTING_1"]
  /\ UNCHANGED <<route, ri, bi, out, nextStop, nextRes, resv, signal, events>>

(* calc_route gives up what the train has reserved, even under its vehicles   *)
Released(t) ==
  [IF ri[t] < Count(route[t]) THEN Unreserved(Grant(t), t, route[t], bi[t], TRUE) ELSE Grant(t)
   EXCEPT !.res = 0]

(* drive_to searches a route *)
BeginSearchHeld(t) == \* mutant: what is reserved ahead is not given up
  /\ Idle /\ state[t] \in {"ROUTING_1", "NO_ROUTE"}
  /\ state' = [state EXCEPT ![t] = "SEARCHING"]
  /\ UNCHANGED <<route, ri, bi, out, nextStop, nextRes, resv, signal, events>>
BeginSearch(t) ==
  /\ Idle /\ state[t] \in {"ROUTING_1", "NO_ROUTE"}
  /\ state' = [state EXCEPT ![t] = "SEARCHING"]
  /\ Keep(t, Released(t))
  /\ UNCHANGED <<route, ri, bi, out, signal, events>>

(* ... in vain *)
NoRoute(t) ==
  /\ state[t] = "SEARCHING"
  /\ "noRoute" \in Troubles \/ ri[t] = Count(route[t])
  /\ state' = [state EXCEPT ![t] = "NO_ROUTE"]
  /\ UNCHANGED <<route, ri, bi, out, nextStop, nextRes, resv, signal, events>>

(* The routes from where the first vehicle is to where the schedule may lead *)
Roads == UNION {{SubSeq(p, i, Len(p)) : i \in 1..(Len(p) - 1)} : p \in Paths}
Routes(t) == {r \in Roads : r[1] = Pos(t) /\ Last(r) \in Goals[t]}

(* vorfahren puts the vehicles on the new route: in a depot on its first tile, *)
(* of which the reservation is lifted, whosesoever it is                     *)
PlaceInDepot(t, r) ==
  /\ state[t] = "SEARCHING" /\ r \in Routes(t) /\ Pos(t) \in Depots
  /\ route' = [route EXCEPT ![t] = r]
  /\ ri' = [ri EXCEPT ![t] = 1] /\ bi' = [bi EXCEPT ![t] = 1]
  /\ out' = [out EXCEPT ![t] = TRUE]
  /\ state' = [state EXCEPT ![t] = "CAN_START"]
  /\ resv' = [x \in Tiles |-> IF x = Pos(t) THEN t ELSE IF x \in Under(t) THEN Nobody ELSE resv[x]]
  /\ UNCHANGED <<nextStop, nextRes, signal, events>>

(* can_go_alte_richtung: a train that goes on stays, and the tiles behind its *)
(* first vehicle are put before the route                                    *)
Turns(t, r) == \E i \in 1..(Count(r) - 1) : At(r, i) \in Under(t)
PlaceAheadStale(t, r) == \* mutant: the index in the old route is kept
  /\ state[t] = "SEARCHING" /\ r \in Routes(t) /\ Pos(t) \notin Depots
  /\ ~out[t] /\ ~Turns(t, r)
  /\ route' = [route EXCEPT ![t] = SubSeq(route[t], bi[t], ri[t] - 1) \o r]
  /\ state' = [state EXCEPT ![t] = "PLACED"]
  /\ UNCHANGED <<ri, bi, out, nextStop, nextRes, resv, signal, events>>
PlaceAhead(t, r) ==
  /\ state[t] = "SEARCHING" /\ r \in Routes(t) /\ Pos(t) \notin Depots
  /\ ~out[t] /\ ~Turns(t, r)
  /\ route' = [route EXCEPT ![t] = SubSeq(route[t], bi[t], ri[t] - 1) \o r]
  /\ ri' = [ri EXCEPT ![t] = ri[t] - bi[t] + 1] /\ bi' = [bi EXCEPT ![t] = 1]
  /\ state' = [state EXCEPT ![t] = "PLACED"]
  /\ UNCHANGED <<out, nextStop, nextRes, resv, signal, events>>

(* move_to: one that turns, or has not left its depot, is set on the start of *)
(* the route and driven on by its length, without a look at the reservations, *)
(* as far as the route goes                                                  *)
PlaceAnew(t, r) ==
  LET lag == IF out[t] THEN Length[t] ELSE ri[t] - bi[t]
      on == TilesOf(r, 0, Lesser(lag, Count(r) - 1))
  IN  /\ state[t] = "SEARCHING" /\ r \in Routes(t) /\ Pos(t) \notin Depots
      /\ out[t] \/ Turns(t, r)
      /\ \/ on \subseteq Under(t) /\ lag < Count(r)
         \/ "turnOff" \in Troubles
         \/ out[t] /\ "leaving" \in Troubles
      /\ route' = [route EXCEPT ![t] = r]
      /\ ri' = [ri EXCEPT ![t] = Lesser(lag + 1, Count(r))] /\ bi' = [bi EXCEPT ![t] = 1]
      /\ out' = [out EXCEPT ![t] = FALSE]
      /\ resv' = [x \in Tiles |-> IF x \in Under(t) THEN Nobody ELSE resv[x]]
      /\ state' = [state EXCEPT ![t] = IF lag < Count(r) THEN "PLACED"
                                       ELSE IF Last(r) \in Halts THEN "LOADING" ELSE "ROUTING_1"]
      /\ UNCHANGED <<nextStop, nextRes, signal, events>>

(* ... and asks for the way ahead; then the tiles under the train are reserved *)
ReserveHead(t, g) == \* mutant: only the tile of the first vehicle
  IF CanReserve(g, t, Pos(t)) THEN Taken(g, t, {Pos(t)}) ELSE g
ReserveUnder(t, g) == Taken(g, t, {x \in Under(t) : CanReserve(g, t, x)})
Depart(t, in) ==
  LET a == Enter(t, Grant(t), in)
  IN  /\ state[t] = "PLACED"
      /\ state' = [state EXCEPT ![t] = IF a.ok THEN "DRIVING" ELSE "CAN_START"]
      /\ Keep(t, ReserveUnder(t, a.g))
      /\ UNCHANGED <<route, ri, bi, out, signal, events>>

(* step() of a waiting train; one that has not moved out of its depot does not *)
(* keep the depot's tile                                                     *)
TryStart(t, in) ==
  LET a == Enter(t, Grant(t), in)
      inDepot == state[t] = "CAN_START" /\ out[t] /\ ri[t] = 1
  IN  /\ Idle /\ state[t] \in {"CAN_START", "WAITING_FOR_CLEARANCE"}
      /\ state' = [state EXCEPT ![t] = IF a.ok THEN IF out[t] THEN "LEAVING_DEPOT" ELSE "DRIVING" ELSE @]
      /\ Keep(t, IF ~a.ok /\ inDepot THEN [a.g EXCEPT !.resv[Pos(t)] = Nobody] ELSE a.g)
      /\ UNCHANGED <<route, ri, bi, out, signal, events>>

(* laden: a train leaves the stop *)
Loaded(t) ==
  /\ Idle /\ state[t] = "LOADING"
  /\ state' = [state EXCEPT ![t] = "ROUTING_1"]
  /\ UNCHANGED <<route, ri, bi, out, nextStop, nextRes, resv, signal, events>>

-----------------------------------------------------------------------------
(* sync_step(): a train moves *)

Moving(t) == SyncStep /\ state[t] \in {"DRIVING", "LEAVING_DEPOT"}

(* hop of the first vehicle, after hop_check; of both ends if they are one *)
HopHead(t, in) ==
  LET a == Enter(t, Grant(t), in)
      new == At(route[t], ri[t])
      left == IF Length[t] = 0 THEN [a.g EXCEPT !.resv[Pos(t)] = Nobody] ELSE a.g
  IN  /\ Moving(t) /\ ri[t] < Count(route[t])
      /\ Length[t] = 0 \/ ri[t] - bi[t] < Length[t]
      /\ a.ok
      /\ Keep(t, IF CanReserve(left, t, new) THEN Taken(left, t, {new}) ELSE left)
      /\ ri' = [ri EXCEPT ![t] = @ + 1]
      /\ bi' = [bi EXCEPT ![t] = IF Length[t] = 0 THEN @ + 1 ELSE @]
      /\ UNCHANGED <<state, route, out, signal, events>>

(* warten_bis_weg_frei *)
Wait(t, in) ==
  LET a == Enter(t, Grant(t), in)
  IN  /\ Moving(t) /\ ri[t] < Count(route[t]) /\ ~a.ok
      /\ state' = [state EXCEPT ![t] = "WAITING_FOR_CLEARANCE"]
      /\ Keep(t, a.g)
      /\ UNCHANGED <<route, ri, bi, out, signal, events>>

(* hop of the last vehicle, leave_tile lifts the reservation, whosesoever *)
HopTail(t) ==
  /\ Moving(t) /\ Length[t] > 0 /\ ri[t] - bi[t] = Length[t]
  /\ resv' = [resv EXCEPT ![At(route[t], bi[t] - 1)] = Nobody]
  /\ bi' = [bi EXCEPT ![t] = @ + 1]
  /\ UNCHANGED <<state, route, ri, out, nextStop, nextRes, signal, events>>

(* All vehicles have left the depot *)
AllOut(t) ==
  /\ Moving(t) /\ state[t] = "LEAVING_DEPOT" /\ ri[t] - bi[t] = Length[t] /\ ri[t] > 1
  /\ state' = [state EXCEPT ![t] = "DRIVING"]
  /\ out' = [out EXCEPT ![t] = FALSE]
  /\ UNCHANGED <<route, ri, bi, nextStop, nextRes, resv, signal, events>>

(* ziel_erreicht; betrete_depot gives up the rest of the route and each tile *)
Arrive(t) ==
  LET g == Unreserved(Grant(t), t, route[t], bi[t], TRUE)
      inDepot == Pos(t) \in Depots
  IN  /\ Moving(t) /\ ri[t] = Count(route[t])
      /\ state' = [state EXCEPT ![t] = IF inDepot THEN "INITIAL"
                                       ELSE IF Pos(t) \in Halts THEN "LOADING" ELSE "ROUTING_1"]
      /\ Keep(t, IF inDepot
                 THEN [g EXCEPT !.resv = [x \in Tiles |-> IF x \in Under(t) THEN Nobody ELSE @[x]]]
                 ELSE Grant(t))
      /\ route' = [route EXCEPT ![t] = IF inDepot THEN <<Pos(t)>> ELSE @]
      /\ ri' = [ri EXCEPT ![t] = IF inDepot THEN 1 ELSE @]
      /\ bi' = [bi EXCEPT ![t] = IF inDepot THEN 1 ELSE @]
      /\ out' = [out EXCEPT ![t] = IF inDepot THEN FALSE ELSE @]
      /\ UNCHANGED <<signal, events>>

(* suche_neue_route: the way ahead has changed; or the schedule has.  A train *)
(* its player sends to a depot searches the way at once; it goes on if there  *)
(* is none                                                                   *)
Reroute(t) ==
  \E sent \in {FALSE, "sent" \in Troubles} :
    /\ SyncStep /\ events < MaxEvents
    /\ \/ state[t] \in {"DRIVING", "LEAVING_DEPOT", "WAITING_FOR_CLEARANCE", "CAN_START"}
       \/ sent /\ Idle /\ state[t] = "LOADING"
    /\ ~out[t] \/ "leaving" \in Troubles
    /\ \/ state' = [state EXCEPT ![t] = "ROUTING_1"]
       \/ sent /\ UNCHANGED state
    /\ Keep(t, IF sent THEN Released(t) ELSE Grant(t))
    /\ events' = events + 1
    /\ UNCHANGED <<route, ri, bi, out, signal>>

(* The player takes a signal away *)
RemoveSignal(x) ==
  /\ Idle /\ events < MaxEvents /\ signal[x] # "none"
  /\ signal' = [signal EXCEPT ![x] = "none"]
  /\ events' = events + 1
  /\ UNCHANGED <<state, route, ri, bi, out, nextStop, nextRes, resv>>

(* The world is saved and loaded again, as for every client that joins: no    *)
(* reservation is in the file.  Train after train reserves what is under its *)
(* vehicles, and what reserve_route makes of next_reservation_index          *)
Claim(t) ==
  Under(t) \cup
  IF state[t] \in {"DRIVING", "LEAVING_DEPOT", "WAITING_FOR_CLEARANCE", "CAN_START"}
  THEN TilesOf(route[t], bi[t], Lesser(nextRes[t], Count(route[t])) - 1) ELSE {}
Reclaimed(order) ==
  [x \in Tiles |->
     LET claims == {i \in DOMAIN order : x \in Claim(order[i])}
     IN  IF claims = {} THEN Nobody ELSE order[FirstIndex(claims)]]
(* rail_vehicle_t::set_convoi: a train on its way for which nothing was       *)
(* reserved gets the next block                                              *)
Renewed(g, t) ==
  LET r == route[t]
      here == [g EXCEPT !.stop[t] = ri[t]]
      own == Reserved([resv |-> g.resv, stop |-> ri[t], res |-> 0], t, r, ri[t] - 1)
      ahead == IF BlockFree(own, t, r, ri[t] - 1) THEN StopAt(own, r, NextObstacle(t, r, ri[t] - 1)) ELSE own
  IN  IF state[t] = "INITIAL" \/ g.res[t] # 0 THEN g
      ELSE IF state[t] \notin {"DRIVING", "LEAVING_DEPOT"} \/ ri[t] = Count(r) THEN here
      ELSE [resv |-> ahead.resv, stop |-> [here.stop EXCEPT ![t] = ahead.stop],
            res |-> [g.res EXCEPT ![t] = ahead.res]]
SaveAndLoad(order) ==
  LET loaded[i \in 0..Len(order)] ==
        IF i = 0 THEN [resv |-> Reclaimed(order), stop |-> nextStop, res |-> nextRes]
        ELSE Renewed(loaded[i - 1], order[i])
      g == loaded[Len(order)]
  IN  /\ Idle /\ events < MaxEvents
      /\ resv' = g.resv /\ nextStop' = g.stop /\ nextRes' = g.res
      /\ events' = events + 1
      /\ UNCHANGED <<state, route, ri, bi, out, signal>>

Next ==
  \/ \E t \in Trains :
       \/ Start(t) \/ BeginSearch(t) \/ NoRoute(t) \/ Loaded(t)
       \/ HopTail(t) \/ AllOut(t) \/ Arrive(t) \/ Reroute(t)
       \/ \E r \in Routes(t) : PlaceInDepot(t, r) \/ PlaceAhead(t, r) \/ PlaceAnew(t, r)
       \/ \E in \in Inputs : Depart(t, in) \/ TryStart(t, in) \/ HopHead(t, in) \/ Wait(t, in)
  \/ \E x \in Tiles : RemoveSignal(x)
  \/ \E order \in SetToSeqs(Trains) : SaveAndLoad(order)

Spec == Init /\ [][Next]_vars

-----------------------------------------------------------------------------
(* Properties *)

(* Outside drive_to, every tile under a train is reserved for it: a train     *)
(* that was rerouted, has turned, leaves or reaches a stop is seen by others *)
OccupiedIsReserved ==
  \A t \in Trains : state[t] \notin {"INITIAL", "SEARCHING", "PLACED"} =>
    \A x \in Under(t) \ Depots : resv[x] = t

(* "vehicles proceed only if Track ahead [...] is not occupied by another     *)
(* vehicle" (text/en/railtools.txt): no tile but a depot's is under two trains *)
Exclusive ==
  \A t, u \in Trains : t # u => Under(t) \cap Under(u) \subseteq Depots

(* Both: no train runs into another, and none can                            *)
NoCollision == OccupiedIsReserved /\ Exclusive

(* A train that moves holds the way to its next stop, or to the end: no other *)
(* can come between, no signal is passed without the block behind it         *)
WayIsReserved ==
  \A t \in Trains : state[t] = "DRIVING" /\ ri[t] <= nextStop[t] =>
    \A x \in TilesOf(route[t], ri[t], Lesser(nextStop[t] - 1, Count(route[t]) - 1)) \ Depots :
      resv[x] = t

(* The line is signalled so that the two above can hold: no pre-signal comes  *)
(* before a priority one on a way, and no way ends on a crossing with a signal *)
WellSignalled ==
  \A plan \in Plans, p \in Paths :
    /\ \A i, j \in DOMAIN p :
         i < j /\ plan[p[i]] = "pre" /\ plan[p[j]] = "priority"
         => j > i + 1 /\ <<p[j], p[j - 1]>> \in Unseen
    /\ Last(p) \in Crossings => plan[Last(p)] = "none"

(* No tile stays reserved that the train has left or given up: each is under  *)
(* the train or on its way                                                   *)
NoStrayReservation ==
  \A x \in Tiles : resv[x] # Nobody =>
    LET t == resv[x]
    IN  \/ x \in Under(t)
        \/ \E i \in ri[t]..(Count(route[t]) - 1) : At(route[t], i) = x
=============================================================================
