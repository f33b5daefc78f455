------------------------------- MODULE Crossing -------------------------------
(***************************************************************************)
(* A level crossing (crossing_logic_t) between a road (way1) and one or    *)
(* more parallel tracks (way2), which has priority.  Crossings that lie    *)
(* side by side along the road share one logic.                            *)
(* Sources: dataobj/crossing_logic.cc, obj/crossing.cc, and the vehicles   *)
(* that call it: simroadtraffic.cc, vehicle_base.cc, rail_vehicle.cc.      *)
(*                                                                         *)
(* A car asks and enters in one hop.  A train asks up to three tiles ahead *)
(* (rail_vehicle_t::can_enter_tile) and once it may pass does not ask      *)
(* again.  A convoy counts as one vehicle: its vehicles follow each other  *)
(* without a gap, so the crossing's lists hold one of them as long as the  *)
(* convoy is on the crossing.                                              *)
(***************************************************************************)
EXTENDS Naturals

CONSTANTS
  Cars,       \* vehicles of way1
  Trains,     \* convoys of way2
  NoVehicle,  \* NULL
  Tracks,     \* the number of crossing tiles along the road
  Track,      \* the tile on which a train crosses
  MayRebuild  \* a crossing beside this one may be built or removed even when a
              \* train has permission

ASSUME CrossingAssumption ==
  /\ Cars \cap Trains = {}
  /\ NoVehicle \notin Trains
  /\ Tracks \in Nat \ {0}
  /\ Track \in [Trains -> 1..Tracks]
  /\ MayRebuild \in BOOLEAN

VARIABLES
  state,         \* crossing_state_t
  request_close, \* "the last vehicle that requested a closing"
  on_way1,       \* the list of cars
  on_way2,       \* the list of trains
  tile,          \* where a car is: a tile of the crossing, or 0
  train          \* what a train has: nothing, its block, permission, or the tile

crossingVars == <<state, request_close, on_way1, on_way2, tile, train>>

CrossingTypeOK ==
  /\ state \in {"open", "request", "closed"}
  /\ request_close \in Trains \cup {NoVehicle}
  /\ on_way1 \in SUBSET Cars
  /\ on_way2 \in SUBSET Trains
  /\ tile \in [Cars -> 0..Tracks]
  /\ train \in [Trains -> {"away", "reserved", "granted", "on"}]

CrossingInit ==
  /\ state = "open" /\ request_close = NoVehicle
  /\ on_way1 = {} /\ on_way2 = {}
  /\ tile = [c \in Cars |-> 0]
  /\ train = [t \in Trains |-> "away"]

-----------------------------------------------------------------------------
(* Operations of crossing_logic_t *)

(* request_crossing of a vehicle of way1 changes nothing *)
MayCross(c) == (on_way2 = {} /\ state = "open") \/ c \in on_way1

(* add_to_crossing of a vehicle of way1 *)
AddCar(c) == on_way1' = on_way1 \cup {c}

(* release_crossing of a vehicle of way1 *)
ReleaseCar(c) ==
  /\ on_way1' = on_way1 \ {c}
  /\ state' = IF state = "request" /\ on_way1 \subseteq {c} THEN "closed" ELSE state

(* request_crossing of a vehicle of way2 *)
RequestOnly(t) == \* mutant: the crossing does not prepare to close
  /\ on_way1 = {}
  /\ request_close' = t /\ state' = "closed"
  /\ train' = [train EXCEPT ![t] = "granted"]
RequestCrossing(t) ==
  \/ /\ on_way1 # {}
     /\ state' = "request"
     /\ UNCHANGED <<request_close, train>>
  \/ /\ on_way1 = {}
     /\ request_close' = t /\ state' = "closed"
     /\ train' = [train EXCEPT ![t] = "granted"]

(* add_to_crossing of a vehicle of way2 *)
AddTrain(t) ==
  /\ on_way2' = on_way2 \cup {t}
  /\ request_close' = IF request_close = t THEN NoVehicle ELSE request_close
  /\ state' = "closed"

(* release_crossing of a vehicle of way2 *)
ReleaseTrain(t) ==
  /\ on_way2' = on_way2 \ {t}
  /\ request_close' = IF request_close = t THEN NoVehicle ELSE request_close
  /\ state' = IF on_way2 \subseteq {t} /\ request_close \in {t, NoVehicle}
              THEN "open" ELSE state

-----------------------------------------------------------------------------
(* Cars *)

(* A car comes from the road to the first tile *)
CarEnter(c) ==
  /\ tile[c] = 0 /\ MayCross(c)
  /\ tile' = [tile EXCEPT ![c] = 1]
  /\ AddCar(c)
  /\ UNCHANGED <<state, request_close, on_way2, train>>

(* Between two tiles of the crossing a car is released and added again *)
CarAdvancePast(c) == \* mutant: the tile behind the crossing counts as one of it
  /\ tile[c] \in 1..Tracks /\ MayCross(c)
  /\ tile' = [tile EXCEPT ![c] = tile[c] + 1]
  /\ on_way1' = on_way1 \cup {c}
  /\ state' = IF state = "request" /\ on_way1 \subseteq {c} THEN "closed" ELSE state
  /\ UNCHANGED <<request_close, on_way2, train>>
CarAdvance(c) ==
  /\ tile[c] \in 1..(Tracks - 1) /\ MayCross(c)
  /\ tile' = [tile EXCEPT ![c] = tile[c] + 1]
  /\ on_way1' = on_way1 \cup {c}
  /\ state' = IF state = "request" /\ on_way1 \subseteq {c} THEN "closed" ELSE state
  /\ UNCHANGED <<request_close, on_way2, train>>

CarLeave(c) ==
  /\ tile[c] = Tracks
  /\ tile' = [tile EXCEPT ![c] = 0]
  /\ ReleaseCar(c)
  /\ UNCHANGED <<request_close, on_way2, train>>

-----------------------------------------------------------------------------
(* Trains *)

(* block_reserver: the train reserves the block with the crossing's tile     *)
ReserveBlock(t) ==
  /\ train[t] = "away"
  /\ \A u \in Trains : Track[u] = Track[t] => train[u] = "away"
  /\ train' = [train EXCEPT ![t] = "reserved"]
  /\ UNCHANGED <<state, request_close, on_way1, on_way2, tile>>

(* The crossing comes near: can_enter_tile asks, again and again until the   *)
(* train may pass                                                            *)
TrainRequest(t) ==
  /\ train[t] = "reserved"
  /\ RequestCrossing(t)
  /\ UNCHANGED <<on_way1, on_way2, tile>>

TrainEnter(t) ==
  /\ train[t] = "granted"
  /\ train' = [train EXCEPT ![t] = "on"]
  /\ AddTrain(t)
  /\ UNCHANGED <<on_way1, tile>>

(* leave_tile: the last vehicle frees the tile *)
TrainLeave(t) ==
  /\ train[t] = "on"
  /\ train' = [train EXCEPT ![t] = "away"]
  /\ ReleaseTrain(t)
  /\ UNCHANGED <<on_way1, tile>>

(* A new route, or the sale of the train: block_reserver frees the block and *)
(* releases the crossing                                                     *)
UnreserveTileOnly(t) == \* mutant: the crossing is not released
  /\ train[t] \in {"reserved", "granted"}
  /\ train' = [train EXCEPT ![t] = "away"]
  /\ UNCHANGED <<state, request_close, on_way1, on_way2, tile>>
Unreserve(t) ==
  /\ train[t] \in {"reserved", "granted"}
  /\ train' = [train EXCEPT ![t] = "away"]
  /\ ReleaseTrain(t)
  /\ UNCHANGED <<on_way1, tile>>

-----------------------------------------------------------------------------
(* Saving and loading (also when a client joins a network game), building   *)

CarsOn   == {c \in Cars : tile[c] # 0}
TrainsOn == {t \in Trains : train[t] = "on"}

(* rdwr and finish_rd: the state is saved, the vehicles on the crossing are  *)
(* found again, the train that requested is not                              *)
LoadOpen == \* mutant: the state is not saved
  /\ on_way1' = CarsOn /\ on_way2' = TrainsOn
  /\ request_close' = NoVehicle
  /\ state' = IF TrainsOn = {} THEN "open" ELSE "closed"
  /\ UNCHANGED <<tile, train>>
LoadCrossing ==
  /\ on_way1' = CarsOn /\ on_way2' = TrainsOn
  /\ request_close' = NoVehicle
  /\ state' = IF TrainsOn = {} THEN state ELSE "closed"
  /\ UNCHANGED <<tile, train>>

(* add and remove of a crossing beside this one, and recalc_state            *)
Rebuild ==
  /\ MayRebuild \/ \A t \in Trains : train[t] # "granted"
  /\ on_way1' = CarsOn /\ on_way2' = TrainsOn
  /\ request_close' = NoVehicle
  /\ state' = IF TrainsOn = {} THEN "open" ELSE "closed"
  /\ UNCHANGED <<tile, train>>

CrossingNext ==
  \/ \E c \in Cars : CarEnter(c) \/ CarAdvance(c) \/ CarLeave(c)
  \/ \E t \in Trains : \/ ReserveBlock(t) \/ TrainRequest(t) \/ TrainEnter(t)
                       \/ TrainLeave(t) \/ Unreserve(t)
  \/ LoadCrossing \/ Rebuild

CrossingSpec == CrossingInit /\ [][CrossingNext]_crossingVars

(* Vehicles that may drive on do so, and a train before a crossing asks      *)
(* again in every step of its convoy                                         *)
CrossingFairness ==
  /\ \A c \in Cars : WF_crossingVars(CarAdvance(c) \/ CarLeave(c))
  /\ \A t \in Trains : /\ WF_crossingVars(TrainRequest(t)) /\ WF_crossingVars(TrainEnter(t))
                       /\ WF_crossingVars(TrainLeave(t))
LiveSpec == CrossingSpec /\ CrossingFairness

-----------------------------------------------------------------------------
(* Properties *)

(* A crossing is never passed on both ways at a time: "returns true, if the  *)
(* crossing can be passed by this vehicle" (request_crossing)                *)
Exclusive == CarsOn = {} \/ TrainsOn = {}

(* The vehicle that requested last, which the logic remembers, has a closed  *)
(* and empty crossing before it until it enters or gives its block back      *)
RequesterMayPass ==
  request_close # NoVehicle =>
    state = "closed" /\ CarsOn = {} /\ train[request_close] = "granted"

(* A crossing that is not open is so for a train: when the trains have gone  *)
(* by, turned or been sold, cars may cross again                             *)
ClosedForTrain == state # "open" => \E t \in Trains : train[t] # "away"

(* A train before the crossing passes, however many cars come; or it turns.  *)
(* Only building has to end: it opens a crossing that prepares to close      *)
TrainPasses ==
  <>[][~Rebuild]_crossingVars => \A t \in Trains : train[t] = "reserved" ~> train[t] # "reserved"

(* A crossing that was closed opens again *)
ClosedOpens == state # "open" ~> state = "open"
=============================================================================
