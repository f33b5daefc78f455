# Simutrans (hextrans): TLA+ verification project

Simutrans is a transport simulation.  The world (`karte_t`) is one object, advanced by one
thread in *sync steps* (movement) and *steps* (everything slower).  A network game runs the
same deterministic world on a server and on every client, in lock step.  This directory
models the parts of the program whose correctness depends on the order of events, checks them
with TLC and proves the central invariants with TLAPS.

## 1. Inventory

| Component | State it keeps | Operations | What is hard about it | Module |
|---|---|---|---|---|
| Lockstep network game (`network/network_cmd_ingame.*`, `network/network.cc`, `network/network_file_transfer.cc`, `karte_t::interactive`, `process_network_commands`) | `sync_steps`, `map_counter`, `command_queue`, `sync_steps_barrier`, `pending_join_client`, `all_map_counters`, `has_current_network_save` | join, sync, ready, tool, check, step, forced sync, pause, disconnect | messages of several queues overtake each other; joins, syncs and pauses interleave; clients come and go | `Lockstep` |
| Socket list (`network/network_socket_list.*`) | one entry per connection, counters of connected and playing clients | accept, admin login, change of state, remove, recycling in `karte_t::step` | counters beside the list; slots are reused | `SocketList` |
| Crossings (`dataobj/crossing_logic.*`) | vehicles on and before the crossing, its state | request, add, release, change of state | two ways compete; vehicles come, wait, turn and leave in any order | `Crossing` |
| Rail blocks and signals (`obj/way/schiene.*`, `vehicle/rail_vehicle.cc`, `vehicle/vehicle.cc`, parts of `simconvoi.cc`) | the train a tile is reserved for; route indices, `next_stop_index`, `next_reservation_index` | reserve a block, search a route, place a train on it, hop, signals, free the tiles behind | two trains compete for blocks; reservations are undone half way, by a new route, by a turn, by loading | `RailBlocks` |
| Convoys (`simconvoi.*`, `obj/depot.cc`) | state machine of 20 states, copy of the schedule, line, pending update; depot's list, list of moved objects | buying, copying, starting, selling, editing, lines, step and sync_step, loading the game | long legal sequences, two clocks (`step`, `sync_step`) and commands | `Convoys`, `RailBlocks` |
| Halts (`simhalt.*`) | waiting goods, connections, transfer flags, components, the pass of `step_all` | reconnect and reroute in slices, search a route, fetch, arrive, build, remove, make public | work spread over steps with a changing network; searches that are resumed | `HaltRouting` |
| Schedules and lines (`dataobj/schedule.*`, `simline*`, `gui/components/gui_schedule.cc`) | entries, current stop; convoys of a line, registrations at stops | edit in a window, update of the convoys' copies, depots in between | convoys move while lines change; indices into lists that change | `Schedule`, `ScheduleEdit`, `Convoys` |
| Factories (`simfab.*`) and power nets (`dataobj/powernet.*`) | stocks, demand buffers, orders, transit, counters of what is inactive | produce, order, distribute, get, refund, grow, load | counters beside the stocks, rounding at both ends of a store, lost goods | `Factory`; power nets not modelled |
| Command deferral (`INT_CHECK`, `INTERACTIVE_RANDOM`, `documentation/world-mutation-deferral.md`) | `random_mode`, the local command queue | run a tool now, or queue it during a sync step | reentrancy of event handling inside the step | planned |
| Hex geometry (`dataobj/koord.h`, `koord_hex.cc`, `map_shape.h`, `world/surface.*`, `karte_t::rotate90`) | the map's shape, the cells, the vertex heights | neighbours, distances, discs, vertices, ranges, rotation | a vertex has three names; cut corners; 16 bit; a rotation moves everything | `HexGrid`, `MapShape`, `Surface` |
| Packets and file transfer (`network/network_packet.*`, `memory_rw.*`) | partial packets | send, receive | partial reads and writes | not modelled: taken as a reliable stream (TCP) |
| Scenario and AI scripts (`script/`, `dataobj/scenario.*`) | suspended calls | call, callback | a callback may come after its object is gone | not modelled |
| City growth, terrain, trees (`world/simcity.cc`, `world/terraformer.cc`) | map data | | sequential algorithms on large data | not modelled |
| GUI, display, sound, music, translation | | | no effect on the world | not modelled |
| Pak descriptors, save formats, `makeobj`, `nettool` | | | I/O and formats | not modelled |

The network game is the core: every other component only has to be deterministic, and the
lock step turns that into "all players see one world".

What makes each component correct, beyond keeping its types:

* *Lockstep*: all worlds are beginnings of one history; nobody computes a step the server has
  not announced; a client that was told it may join gets the game; the server pauses only when
  nobody depends on it; a save that is sent is the world.
* *Socket list*: a socket has one entry; the counters cover the list; whoever waits to join is
  connected and served; who is banned is out; who left is reported.
* *Crossings*: never both ways at once; closed only for a train; a train that waits passes.
* *Rail blocks*: no two trains on a tile, and every tile under a train reserved for it; a train
  that moves holds the way to its next stop; nothing stays reserved behind it.
* *Schedules*: the current stop is always an entry and stays on its entry; a convoy whose line
  is edited goes on to where it went; what a line gets is clean.
* *Convoys*: no convoy is lost between depot, line, stops and clocks; a copy of a line's schedule
  is current or about to be; what is to be destroyed is.
* *Hex geometry*: the arithmetic agrees with the geometry of the plane; a turned map is the map.
* *Halts*: when a pass is over, the network is that of the schedules and no goods wait for a
  connection that is gone; a pass ends; no goods are lost that have a route.
* *Factories*: the counters agree with the stocks, stocks stay in their stores, and a factory that
  is not full of what it makes is supplied again and again.
* *Command deferral*: the world does not change between two vehicles of one sync step.

## 2. Plan

Done, in this order:

1. `Lockstep` with its abstract specification `ReplicatedLog` and the refinement mapping in
   `LockstepLog`; `LockstepProofs` and, for the synchronisation, `LockstepSyncProofs`.
2. `SocketList`, which details the entries that `Lockstep` keeps as `sock`, `slot` and `left`
   (there an entry of a client who left may be freed by any step; here only by a step that sees
   another number of players); `SocketListProofs`.
3. `Crossing`; the second part of `MapProofs`.
4. `HexGrid`, `MapShape` (operators) and `Surface` (the world that is turned); the first part of
   `MapProofs`.
5. `RailBlocks`: what the action `ReserveBlock` of `Crossing` abstracts.  A crossing is there an
   obstacle that lets a train pass or not.
6. `Schedule` (operators) and `ScheduleEdit`.
7. `Convoys`, where a schedule is the set of its stops, since their order is the subject of
   `Schedule`, and a train's way is one state, since it is the subject of `RailBlocks`;
   `ConvoysProofs`.

8. `Factory`: one factory; suppliers, stations and vehicles are its environment; the third part of
   `MapProofs`.
9. `HaltRouting`: one category of goods.  Which lines are registered is exact here only for one
   player's lines; `Convoys` has the registrations under all commands.

Next:

10. `CommandDeferral`: tools during a sync step.
11. Power nets: supply and demand with their smoothing.

## 3. Module `Lockstep`

### State

| Variable | Code |
|---|---|
| `phase` | where a client is: `out`, inside `network_connect` (`join`, `sync`, `game`), paused after loading (`pause`), in `karte_t::interactive` (`run`), or thrown out by `network_disconnect` because it lost synchronisation (`desync`) |
| `sync`, `mc`, `barrier`, `cmdQ` | `karte_t::sync_steps`, `map_counter`, `sync_steps_barrier`, `command_queue` |
| `world` | everything the simulation computed, as the sequence of executed commands with the step of their execution: the simulation is deterministic, so two worlds are equal when these sequences are |
| `stage` | the part of the server's main loop: receive, execute what was received, run commands and step |
| `paused`, `hasSave`, `saved` | `PAUSE_FLAG`, `has_current_network_save`, the file `server<port>-network.sve` |
| `pending`, `mapCounters`, `rcvd` | `nwc_join_t::pending_join_client`, `nwc_ready_t::all_map_counters`, `received_command_queue` |
| `sock`, `slot`, `left`, `sendq` | the entry of a client in `socket_list_t`; `kicked` is a socket the server closed because of a lost synchronisation |
| `up`, `down` | the two directions of the TCP connection |

A checklist (random seed and handle counters, or the hash of the game state) for step `s` is
the part of the world before step `s`: it differs exactly when the worlds differ.

### Actions

The server's loop: `SrvAccept`, `SrvReceive` (`network_check_activity`), `SrvExecute`
(`process_network_commands` up to the send, with `nwc_join_t::execute`, `nwc_ready_t::execute`,
`network_broadcast_world_command_t::execute` and `network_world_command_t::execute`), `SrvSend`
(`network_process_send_queues`), `SrvDrain` (`do_network_world_command`, with
`nwc_sync_t::do_command`), `SrvStep` (the step in `karte_t::interactive`, the broadcast of it,
and the pause with a save when nobody plays), `SrvLoop`.  Users and administrators:
`SrvTool`, `CliTool`, `SrvForceSync`.  Clients: `CliConnect`, `CliReceive` (`network_connect`
or the game's loop), `CliDrain`, `CliStep`, `CliLeave`.

### Abstractions

* The tools themselves, permission checks and scenario rules are one nondeterministic choice:
  a request is broadcast or dropped.
* Time: a step may happen whenever the loop comes by; `CHECK` instead of `STEP` may be sent at
  any step (the code sends it when it lags) and must be sent every `ChecksEvery` steps.
* `STEP` and `CHECK` both carry the step they announce.
* A closed socket: what is on its way to a closed program is lost, the other end reads `EOF`.
* `generate_new_map_counter` returns a number that was not used before (in the code: the time
  in milliseconds).

## 4. Module `ReplicatedLog`

The promise of the network game: there is one log of commands, and every client that plays
holds a copy of a beginning of it which only grows by the log's next command.  `LockstepLog`
maps the server's world (with the commands of the step that is being executed) to the log and
the worlds of the playing clients to the copies; `ImplementsReplicatedLog` is a `PROPERTY` of
two runs (`LockstepCore`, `LockstepLeave`) and a theorem (section 14).  The log may only be set back while nobody plays:
this is what the stale save of an idle server does.

## 5. Module `SocketList`

| Variable | Code |
|---|---|
| `list` | `socket_list_t::list` behind the listening socket: socket and state of each entry |
| `connected`, `playing` | `connected_clients`, `playing_clients` |
| `last` | the static `last_clients` of `karte_t::step` |
| `pending` | `nwc_join_t::pending_join_client` |
| `syncs` | the client ids in the `nwc_sync_t` commands of the world's `command_queue` |
| `received` | `received_command_queue`, as far as it concerns the list |
| `blacklist` | `blacklist` of `network.cc` |
| `asked` | which programs have sent their first command (external: the program at the other end) |
| `stage` | the part of the server's loop |

One turn of the loop is `network_check_activity` (`Accept`, `Receive`, `Lose`), the execution of
what was received (`ExecuteJoin`, `ExecuteInfo`, `ExecuteOutOfSync`, `ExecuteLogin`,
`ExecuteKick`, `ExecuteBan`, and `ExecuteOther` for everything that leaves the list alone:
tools, chat, nicknames, unlocked companies), the send queues (`Lose` again), and then a sync
(`Sync`), a step of the world (`Step`) or neither (`Loop`).  `ResetServer` is the save of the
server's own user, which calls `network_reset_server`.

Client ids start with 1, because entry 0 is the listening socket.  A program sends a command
only after its previous one was executed: the code reads at most one packet of each connection
per round.  The operating system may give a closed socket's number to the next connection; so a
member of `Sockets` that was closed may be accepted again.  What a program says is limited to
what the programs of this repository say: a client asks to join or for the game info, a player
plays, an administration tool (`nettool`) logs in before it gives orders, and nothing else asks
for the game.

## 6. Module `Crossing`

| Variable | Code |
|---|---|
| `state`, `request_close`, `on_way1`, `on_way2` | the members of `crossing_logic_t` |
| `tile` | the crossing tile a car stands on, 0 for a car elsewhere |
| `train` | a train is `away`, has its block `reserved`, was `granted` the crossing, or is `on` it |

A car asks and enters in one hop (`CarEnter`, `CarAdvance` to the next tile of the crossing,
`CarLeave`).  A train reserves the block that contains its crossing tile (`ReserveBlock`), asks
for the crossing when it is near and again in every step until it may pass (`TrainRequest`),
enters and leaves (`TrainEnter`, `TrainLeave`); a new route or the sale of the train undoes the
reservation and releases the crossing (`Unreserve`).  `Load` is `crossing_t::finish_rd`, which
also runs on every node of a network game when a client joins; `Rebuild` is a crossing that is
built or removed beside this one (`crossing_logic_t::add`, `remove`).

A convoy counts as one vehicle: its vehicles follow without a gap, so the list `on_way2` holds
one of them as long as the convoy is on the tile.  Once `request_crossing` returned TRUE a train
does not ask again (`set_next_stop_index` moves behind the crossing), unless a signal stands on
the crossing's own tile: that case, and ships, which ask at the moment they enter, are left out.
`Tracks` parallel tracks share one logic; a block is taken as the tile of one track, so trains on
one track exclude each other and trains on different tracks do not.

## 7. Modules `HexGrid`, `MapShape`, `Surface`

`HexGrid` has the operators of `koord.h` and `koord_hex.cc` (neighbours, distances, discs, turn
steps, the three names of a vertex and the one its height is stored under, the slots, the step of
a rotation) on coordinates of `2 * MaxCoord` values, as `sint16` has: `Koord` wraps.  `MapShape`
has those of `map_shape_t`: the hexagon with sides `w`, `h`, `d` inside its rhombus, the ranges
of rows, columns, added tiles and far bands, edge distances, the relief's image frame, and the
rotation.

| Variable of `Surface` | Code |
|---|---|
| `shape`, `rotation` | `cached_shape`, `settings_t::rotation` |
| `steps` | the steps that the running call of `rotate90` has left |
| `plan` | the array of cells; an element names the tile that the grounds, water height, climate and humidity of the cell were made for, as all of them move together |
| `hgts` | `grid_hgts` (and the natural heights, which move with it) |
| `hill`, `turns` | history for the properties, and the bound |

`SetHeight` raises one corner by any of its names, `Rotate90` starts a rotation (`can_rotate90`
allows half turns only) and `RotateStep` is `rotate90_step`: new arrays for the turned shape, each
tile and each stored vertex copied to its new place.  What the code turns beside these (objects
on the tiles, halts, factories, players) is left out.

`RigidWorld` compares the arrays after any number of steps with a turn of the plane about the
map's centre, in integers and without axial coordinates; the other properties compare the
operators with definitions by sets on every shape.

## 8. Module `RailBlocks`

| Variable | Code |
|---|---|
| `state` | `convoi_t::state`; `SEARCHING` and `PLACED` are points inside `drive_to` |
| `route`, `ri`, `bi` | `convoi_t::route`, `route_index` of the first and of the last vehicle |
| `out` | `steps_driven >= 0`: not all vehicles have left the depot |
| `nextStop`, `nextRes` | `next_stop_index`, `next_reservation_index` |
| `resv` | `schiene_t::reserved` of each tile |
| `signal` | the kind of signal on a tile |

A train lies on the tiles from the one its last vehicle is on (`bi - 1`) to the one of its first
(`ri - 1`).  `Reserved` and `Unreserved` are the two halves of `block_reserver`: a block goes from
an index to the next signal that counts in this direction, and is given back when one tile is not
free.  `SignalClear`, `ObstacleClear`, `TileClear` and `StartClear` are the branches of
`can_enter_tile` with the three kinds of signals; they return whether the train may go on and the
reservations they leave, also when it may not.

`step()` of a train searches a route (`BeginSearch`, which gives up everything reserved, then
`PlaceInDepot`, `PlaceAhead`, `PlaceAnew` or `NoRoute`, then `Depart`) or lets a waiting one try
again (`TryStart`).  `sync_step()` moves it: `HopHead` after `hop_check`, `Wait`, `HopTail` with
`leave_tile`, `AllOut`, `Arrive`.  `Reroute` (`suche_neue_route`, `send_to_depot`), `RemoveSignal`
and `SaveAndLoad` come at any time.  Steps of one train are not interrupted by another's
(`Idle`): the code is one thread.

Abstractions: the speed is left out, so a train may brake at any time; each tile of a train holds
a vehicle, so a train's first and last vehicles follow each other within `Length`; whether a
crossing opens, and whether a train that starts stands at the border of its tile, is free.

`Troubles` are five things that the properties do not survive or that are not in the passing run,
each a value that a run may switch on: `interrupt` (a sync step in the middle of a route search,
through `interrupt_check`), `noRoute` (a search in vain, after which the tiles under the train stay
free), `leaving` (a new route before the whole train has left its depot), `turnOff` (a train that
turns is set on tiles it was not on, as `vorfahren` does not look at them, or on a route shorter
than itself), and `sent` (the player's command to go to a depot).

`WellSignalled` is what the properties ask of the player: no way with a pre-signal before a
priority signal that counts, and no way that ends on a crossing with a signal.  `MCRailBlocks` assumes
it of its instance, and section 15 has what happens otherwise.  A cascade of signals is a recursive
function (`clear`): each signal asks the one after, and `Aspect` is what it makes of the answer.

## 9. Modules `Schedule`, `ScheduleEdit`

`Schedule` has the operations of `schedule_t` on the entries and `current_stop`, the comparison
`matches`, and the search in `check_pending_updates` for the stop to go on with.  An entry is a
place and whether departures go by the clock.  Halts have one place each, so `matches_halt` is
equality.

`ScheduleEdit`: `window` is the copy in the window of a line, which its buttons change
(`gui_schedule.cc`); `CloseWindow` gives it to the line, whose convoy has to take it over
(`pending`); `cnv` is the convoy's copy, with which it drives (`Drive`), is sent to a depot
(`ToDepot`), gets there (`ArriveInDepot`) and takes the line's schedule over (`Update`).  A
convoy that left its line, because its schedule no longer matched, may join again (`JoinLine`).
`last` names the last operation for the properties.

## 10. Module `Convoys`

| Variable | Code |
|---|---|
| `state`, `schedule`, `homing`, `editing`, `line`, `pending` | `convoi_t::state`, the stops of `schedule`, whether its current entry is a depot, `is_editing_finished`, `line`, `line_update_pending` |
| `parked` | `depot_t::convois` |
| `sync` | how often the convoy is in the `sync_list_t` of the world |
| `lineExists`, `lineStops`, `members` | `all_managed_lines`, a line's schedule and `line_managed_convoys` |
| `lineAt`, `convoyAt` | `registered_lines` and `registered_convoys` of the halts |

The player's commands are those of `tool_change_convoi_t`, `tool_change_line_t`,
`tool_change_depot_t` and the functions they call; `Step` is `convoi_t::step` with the update of
the schedule first, `Arrive` and `Leave` are `sync_step`, `Loaded` is a convoy at the same stop
that another one's step loads, `Load` is saving and loading.  Where the window that sends a command
looks at the convoy's state, the guard has it; `Overtaking` lets commands come late, as they may
in a network game.  Driving, and waiting for a free way or at a crossing, are one state `DRIVING`.

## 11. Module `Factory`

One factory with up to two inputs and outputs, of every control type that `fabrik_t::build`
gives a factory with goods (producer, factory, consumer, under the classic orders and under the
demand buffers).

| Variable | Code |
|---|---|
| `desc` | what it makes and its settings; never changes |
| `prodbase` | `prodbase`; the capacities of the stores follow from it (`recalc_storage_capacities`) |
| `input`, `output` | `ware_production_t::menge` of the inputs and outputs |
| `demand_buffer`, `placing_orders` | of the inputs |
| `in_transit` | `statistics[0][FAB_GOODS_TRANSIT]` of the inputs |
| `underway` | no variable of the code: the goods for this factory that really wait or travel |
| `inactive_inputs`, `inactive_outputs`, `inactive_demands` | the counters of the same names |

`Step` is `fabrik_t::step`, `StepPeriod` the same at the end of a period, with `verteile_waren`
and the orders.  `Ship`, `Arrive`, `Recall` and `Lose` are what others do: a supplier sends
(`apply_transit`), goods arrive (`liefere_an`), a supplier calls waiting goods back, goods are
dropped by a station or a vehicle, with or without `update_transit`.  `SetBaseProduction` is a
field that is added or removed, `Load` saving and loading.  A shipment may have any size up to
`min_shipment`, or be none: which consumer and which station takes it is left open, and whether any
does (`verteile_waren` returns without a shipment when there is no consumer, stop or route).

## 12. Module `HaltRouting`

One category of goods.

| Variable | Code |
|---|---|
| `alle`, `next_halt`, `status_step` | `alle_haltestellen` in its order, the static `next_halt_to_step` of `step_all`, `status_step` |
| `behind` | `schedule_counter - reconnect_counter`, since only whether they differ is read |
| `schedule`, `registered` | a line's stops in their order; `registered_lines` of each halt |
| `all_links` | `all_links[catg]`: the connections with weights and cached transfer flags, `is_transfer`, `catg_connected_component` |
| `waiting`, `aboard` | the packets in `cargo` and in convoys: target place, target and via halt, without amounts |
| `explored` | `last_search_origin` with what `open_list` and `halt_data` keep: whether the search was started at all, and on which links |
| `unborn` | halts that are not built yet; a handle is not used twice |

`StepAll` is `step_all` for one station at a time: in the code a call does some 512 stations when
it reconnects and as many as have some 1024 packets when it reroutes, so one station here stands
for that many.  `Reconnect` starts a pass or goes on with `rebuild_connections`, and ends with
`rebuild_connected_components`; `Reroute` is `reroute_goods`, where the order of the packets,
which decides what is resumed, is open.  `Build`, `RemoveHalt`, `ChangeLine`, `MakePublic` and
`Load` are everything that changes the network in between.  `NewGoods` is `search_route` with
`starte_mit_route`, `Fetch` is `fetch_goods`, `Arrive` is `unload_cargo` with `liefere_an`, `Restow`
is `remove_stale_cargo`.

A search is modelled by its result: a route of least weight through transfer stations, ties open.
`max_transfers` and `max_hops` are taken to be larger than any route; overcrowding is left out.
`world` is the game that a behaviour plays: the schedules its lines may have, how many packets
it has room for, and which events happen in it; it is chosen from `Worlds` at the start and never
changes, so that one run has several games.  Without `"stale"` among a world's events, a search is
never resumed after links changed: in a game with passengers some `search_route` comes in between
and forgets it.

## 13. Runs

| Run | Question | Result |
|---|---|---|
| `LockstepCore` | two clients join one after the other while two users act, with a history of one map counter and a server that pauses without clients: no lost synchronisation, the log is implemented, an accepted join ends | holds, the last under `Fairness` |
| `LockstepLeave` | a client with a congested socket leaves at any point and returns, syncs are forced, the server pauses and saves when nobody plays: nobody is ahead, a player's server is never set back, the log is implemented | holds |
| `SocketList` | clients join, play, are thrown out and leave, a tool kicks and bans, the server is reset: one entry per socket, the pending client is served, nobody banned is connected, counters cover the list, a leaver's entry is kept until the step, a pending join ends | holds, the last under `Fairness` |
| `Crossing` | three trains on one track, three cars, loading at any time: never both ways at once, the last requester may pass, a waiting train passes, a closed crossing opens | holds, the last two under `Fairness` |
| `Surface` | all hexagons with sides up to 3, one raised corner, two half turns: the map turns like a plate; vertices, ranges, edges, measures agree with the plane | holds |
| `RailBlocks` | two trains on a single line between two stations: no collision, the way ahead is reserved, nothing else is | holds |
| `RailSentHome` | no collision when a player sends a train to a depot | **violated**: the tiles under the train are given up |
| `ScheduleEdit` | the schedule of a line is edited while a convoy drives by a copy | holds |
| `Convoys` | two convoys, two lines, all commands: everybody knows the same | holds |
| `Factory` | factories of every control type make, order, ship, get and lose goods, grow, are loaded: in those that use goods counters agree with the stocks; stocks stay in their stores; goods come again and again unless nobody takes what is made (`Unsold`) | holds for stores that do not shrink, the last under `Fairness`, which has no sales |
| `HaltRouting` | stations, schedules, public stops and loading change the network between the slices of a pass while goods travel: at its end the network is that of the schedules and waiting goods have a route; goods are thrown away only for a reason; a pass ends although changes go on | holds, the last under fairness |
| `HaltLosses` | only unroutable goods are thrown away | **violated**: a search that never began is resumed |

Beside these, the directory keeps configurations for counterexamples that section 15 tells of; TLC
finds each of them violated: `LockstepJoinLost.cfg` (of `MCLockstep`), `ConvoysSold.cfg`
(`MCConvoys`), `FactoryStuck.cfg`, `FactoryFields.cfg`, `FactoryLeak.cfg` (`MCFactory`),
`HaltSkipped.cfg`, `HaltArrivals.cfg`, `HaltPublic.cfg` and `HaltStale.cfg` (`MCHaltRouting`).

### Bounds

* `Lockstep`: `MaxStep`, `MaxCommand`, `MaxMapCounter`, `MaxSlot` bound what the server steps,
  the users issue, the syncs number and the socket list holds.  Two or three steps suffice for a
  command to be issued before, during and after a sync and to be executed in another step than it
  was sent; two map counters for a second client's sync to meet commands of the first one's
  world, three for a client that leaves and joins again.  `ChecksEvery = 2` gives both kinds of
  announcement.  `MaxMapCounters = 1` in `LockstepCore` makes the history of map counters
  overflow, and `LastChecklistsCount = 2` in `LockstepLeave` makes checklists too old.  That run
  has one client: what it asks is between one client and the server, and the second client is
  what `LockstepCore` is for.
* `SocketList`: `MaxEntries`, `MaxSyncs`, and `MaxCount` for the counters, which may run away
  where tools log in.  Three sockets are a tool and two clients, of which one may share the tool's
  address; two entries force their reuse.
* `Crossing`: no bound besides the vehicles; three of each kind are one on the crossing, one that
  may pass and one that waits.
* `Surface`: sides up to `MaxSide = 3` have all the cases of equal, longer and single-tile sides;
  `MaxTurns = 6` turns come back to the start; `MaxCoord = 16` makes coordinates of five bits, so
  that wrapping is near.
* `RailBlocks`: eight tiles, a train of two tiles and one of one tile.  The instance has each kind
  of signal in a direction where it counts, one that is passed from behind, a crossing on the
  single line, a depot and a platform on one side: the short train turns in the depot, the long
  one in the stations.  `MaxEvents = 1`: a removed signal, a new goal or a loaded game meets every
  state once.
* `ScheduleEdit`: four stops of which the line serves two to four, and a depot; `MaxEdits = 2`
  edits before or between updates; `MaxEntries` and `MaxReturn` are 254 and 127 in the code, and
  5 and 4 here, so that a full schedule is reached.
* `Convoys`: two convoys and two lines with symmetry; three stops and two schedules that share
  one.  No other bound.

* `Factory`: stores of a few units and shipments of one, with three units of production for two
  goods, so that all roundings happen; `CounterSize = 4` stands for 256 and lets counters wrap;
  `MaxUnderway` goods on their way per input, `MaxDebt` below nothing in a demand buffer,
  `desc.leak` goods lost uncounted.
* `HaltRouting`: four stations in a row with two transfers, a fifth to be built; a line that goes by
  the new station or leaves out one.  `CounterSize = 3` allows two changes during one pass
  (255 in the code).  `Games` has four worlds: stations are built, or removed, or become public and
  the game is loaded, around one packet, and schedules change around two; packets meet only in
  `vereinige_waren` and in one rerouting.

`CHECK_DEADLOCK FALSE` where a bound stops the system (`Lockstep`, `Surface`, `RailBlocks`,
`ScheduleEdit`, `Factory`), where two trains may wait for each other, as they do on badly signalled lines
(`RailBlocks`), and in `Convoys`, whose update divides by zero in a case that is not modelled
further.  `SocketList`, `Crossing` and `HaltRouting` are checked for deadlock.

### Fairness

* `Lockstep`: every program's loop goes on (`WF` of the parts of the loops, and of receiving on
  each socket: `select` reports all ready sockets).  `SF` for the server's step, because the loop
  passes many times before the step is due, and time then makes it due.  Users, administrators
  and clients that leave are under no fairness.
* `SocketList`: the loop goes on; `SF` for `Step` and `Sync`, which compete with `Loop` and with
  each other in the same turn of the loop: sync steps advance, so each comes in the end.
  Connections and commands are under no fairness.
* `Crossing`: a car on the crossing drives on, since it entered only with a free exit
  (`no_cars_blocking` in `private_car_t::can_enter_next_tile`); a convoy that waits asks again in
  each of its steps, and a convoy that may pass drives.  Cars need not come, and trains need not
  turn.

* `Factory`: a supplier that is asked again and again delivers, and of what is under way something
  arrives again and again, although goods may be lost in between.  The clock runs: `step` comes at
  the end of each period.  What is fair is a period that changes `intake`, the inputs and their
  orders, whatever it ships.  `WF_vars` would say more: where a period changes nothing without a
  sale, only one with a sale is a step at all, and fairness would make customers buy.  No sale is
  assumed, so `GetsSupplied` has an escape, `Unsold`: a factory under the demand buffers, one of
  whose stores stays full.  It is needed: with base 1 a factory with one input and two
  outputs may lose shipments until its demand is used up, use its last goods to fill its outputs to
  (3, 3), and then has no input, orders none and makes nothing until somebody buys.  And it is tight: TLC refutes
  the property with all stores full in place of one, where half a unit of room is left and rounds to
  no order.  Under the classic orders, and for consumers, there is no escape.
* `HaltRouting`: `karte_t::step` calls `step_all` every time.

The other modules state safety only: `RailBlocks` has no progress to promise, since trains may
block each other for ever.

## 14. Proofs

All theorems hold for every value of the constants that satisfies the assumptions beside them:
any number of clients, sockets, vehicles, tracks, convoys, lines, any shape, and any bound.

*`LockstepProofs`* proves `TypeCorrect` (`TypeOK`), `NeverAhead` (`NeverAheadOfServer`) and
`AnnouncedReached` (`AnnouncedStepsReached`).  That no client is ahead is not inductive: a client
trusts its barrier, which trusts messages, which were queued at the server, received or sent
long ago.  `IInv` types every queue and every message *relative to the server's step* (`UpMsgTo`,
`DownMsgTo`, `ReceivedTo`, `BroadcastTo`: what a message announces is at most that step), which
is monotone because the server never goes back (`Monotone`).  There is one lemma per action, and
lemmas for the queues (`InsertType`, `DirectKeeps`, `SendAllKeeps`).  `NeverSetBack` proves
`ServerNeverSetBack`: the save that a sync loads may be older than the world only if nobody plays
who would see it.  It needs `SaveInv` beside `IInv`: a save in advance exists only while nobody
plays.  `PausedIsAlone` (`PausedAlone`: a paused server has no player and no
pending client) needs only the types of `IInv` beside itself: most steps let nobody play or join
while the server is paused (`Lonely`), and those that do wake it.  `QueuesAreSorted`
(`QueueIsSorted`, so that looking at the first command is enough) rests on what an ordered
insertion and the removal of the head leave (`InsertSorts`, `TailSorts`).

`Refinement` proves `ImplementsReplicatedLog` for every value of the constants: closed and congested
connections, leaving players, the history of map counters and forced syncs included.  Worlds cannot be
compared directly, since a client may lag behind, or run ahead of the server within one step.  So
they are compared through what is still to be executed:

* A message makes of a game (a world and a map counter) another one (`PlayedOn`: what executing it
  does), and a stream of messages has an `Outcome`.  That is the last state of the one run of the
  stream (`Plays`), which exists and is unique (`PlaysOnce`).  The induction over the length of a
  stream goes without the library's induction theorem: the numbers up to a counterexample that are
  counterexamples too would be a finite set that the predecessor maps into itself one to one, hence
  onto, but it does not reach the greatest (`NatInductive`).
* `ServerEnd` is the outcome of the server's queue and of what it has received.  `Agreement` says that
  the stream of every client that plays (its queue, its socket, its send queue) has that same outcome
  (`RunOk`), or that the client is about to be let go on with a map counter that is not its own
  (`Doomed`) and will drop out; and that behind every game on its way to a client that will load it
  there is a ready message and a stream from that game to `ServerEnd` (`GameOk`).
* Every step of the server tells a client what it makes of `ServerEnd`, by a direct send or the send
  queue (`Tells`, often nothing), or lets the send queue go out (`Flushes`), or loses the client
  (`Loses`), or lets it join with a sync and the game (`Syncs`).  This needs to know that commands are stamped with later steps than those announced
  (`Stamped`), that no client still waits for an answer of an earlier life of its connection
  (`SockFine`), and what is received but not yet executed (`ServerOk`).
* `WorldsOk`: no world has a command of a later step, and the save is a beginning of the world of the
  server.  Together they are `AllAgree`.
* `ServerEnd` begins with the log, followed by commands of later steps only (`EndHasLog`).  So does
  the outcome of a client's stream begin with its world; its world has no later step; hence it is a
  beginning of the log (`CopyInLog`).
* `ServerRefines` and `ClientRefines` then map each action to an action of `ReplicatedLog` or to none:
  a client that executes a tool appends the next command of the log, as both its worlds, before and after,
  are beginnings of it.

*`LockstepSyncProofs`* proves `KeptInSync`: `NobodyDesyncs` for every number of steps, commands and
users and any delay, assuming `Orderly`: sockets take what is sent, nobody leaves, no sync is forced, and
there are at most `MaxMapCounters` + 1 clients (8 with the code's `MAX_MAP_COUNTERS`), as in
`LockstepCore`.  None of the four can be dropped; TLC finds a client thrown out without each:
with a congested socket a command comes after the word that lets the client run past its step; a client
that takes the slot of one that left while its sync was to be done is sent the game of that
sync, with a map counter that is not its own; with forced syncs, or with a third client and a history of
one map counter, the server forgets the map counter with which a client is yet to report ready
(`append_map_counter`) and throws it out.  The
invariant is `InSync`, beside `IInv`, `Agreement` and `QueueIsSorted`; for each client `ClientFine`.

* Where a client and the server stand in a join (`PlaceOk`): an accepted join is followed by its sync,
  the game by the word to go on, with one map counter (`JoinOk`); a client that waits to go on has reported
  ready once, or is answered once (`ReadyOk`); slots of open sockets differ (`SlotsOk`).
* Time.  A client hears of a command before it is allowed to go on to its step (`TimeOk`), so none comes late,
  not even for one that waits with a sync done.  Then what it has executed at a step is what the server had
  (`SameWorld`, by `Agreement`: what remains to be executed leads both to the same end), so its
  checklist is that of the server, and the checklists under way, in both directions, are those of
  the server's world (`CheckedOk`), which do not change any more (`WorldKept`).
* Map counters.  At most one sync is to be done, for the pending client (`PendingOk`); a client
  knows only of syncs the server has done, or is to do (`SyncsOk`).  It may do a sync
  before the server, but what it then reports is received only after the server has done it too:
  it can not have heard of the step of a command that is still due when the server receives (`LateOk`).  So a claim is about
  a sync that is done (`KnownOk`), and as each client joins once, the history still has its counter
  (`CountersOk`).

The proof has a lemma per action, which says what it leaves alone (`ClientFrame`) and what is new.
Steps of the server that neither receive nor execute anything are one case (`QuietFor`, `GoesOn`).

The number of players is a cardinality, so
`NodesAssumption` says that the clients are finitely many.

*`SocketListProofs`* proves `TypeCorrect`, `OneEntry` (`OneEntryPerSocket`), `Covered`
(`CountersCover`), `Counted` (`CountersAgree`, assuming `Admins = {}`), `PendingServed`
(`PendingWillBeServed`), `Banned` (`BannedAreOut`) and `LeaverKept` (`LeaverKeepsEntry`: every
step that gives an entry away or takes one out leaves those of unreported leavers alone).  The counters are `Nat` in the type
invariant because the code's are unsigned: a decrement below zero would wrap.  With tools they do
not agree with the list, so `IInv` says that they are *at least* what they count, which is what
keeps every decrement legal; equality is carried along under `Admins = {}`.  That `Admins = {}`
excludes logins needs `OrdersInv`: only tools send them.  Removing several entries at once rests
on lemmas about cardinalities.

*`MapProofs`*, on the crossing, proves `CrossingTypes`, `RequesterPasses` (`RequesterMayPass`) and
`NotClosedForNothing` (`ClosedForTrain`) for any number of tracks, and `WaysExclude`
(`Exclusive`) assuming `OneTrack`: all trains use one track and nothing is built beside it.  It
needs three facts besides the properties: the lists hold exactly the vehicles on the crossing
(`ListsAgree`), the reservation keeps all but one train of a track away (`Alone`), and a train
that may pass finds the crossing closed and free of cars (`GrantedIsSafe`).  Neither half
of `OneTrack` can be dropped (section 15).

*`MapProofs`*, on the factory, proves `FactoryTypes` (`TypeOK`) and `StocksStayInBounds`
(`StocksInBounds`) for any number of inputs and outputs, any stores, rates and conversion factor, and
`CachesAgree` (`CachesHold`) for factories that use goods and under `just_in_time` 2 keep their fields (section 15
says what happens otherwise) and have fewer inputs and outputs than an 8-bit counter counts: the
counts of a descriptor are 16 bits wide.  `FactoryAssumption` has `prodbase` at least 1: the code divides
by the productivity it starts from, and `finish_rd` takes the larger of it and 1.

* Types and bounds are inductive together (`Stores`).  A step of production is one of the control
  types; for each it is shown that it makes no more than there is room for and uses no more than
  there is (`Makes`).  This needs that ramps and shares are never negative, and that a quotient
  rounded down and rounded up again takes no more out of a store than is in it (`GoodsFacts`).
* The caches need the bounds: no store is over its limit, so a shipment makes room exactly in those
  that were full (`RoomAgain`), and what a control type registers is what became empty or full
  (`Counts`), added to what already was (`Joined`).
* A change of one demand is counted when it crosses the limit (`CrossedCounts`), an arrival when the
  input was empty (`FilledCounts`).  `SetBaseProduction` and `Load` count anew.
* The library's sums and extreme values are a recursive function and choices.  `SumType`,
  `GreatestLeast` and `OfTwo` say what they yield; they rest on `Inductive`, an induction over the
  numbers by finite sets, since the library's has an operator as a parameter.

*`MapProofs`*, on the map, is about every shape and every `MaxCoord`.  A turned map is a
shape with the expected extents (`RotatedShape`), a rotation step maps its tiles one to one onto
those of the turned map (`RotateKeepsMap`, `RotateInjective`, `RotateOnto`) and three steps are
the point reflection (`HalfTurn`).  All rest on `RotateTileExact`: the sums that the code reduces
to 16 bit stay in range, which needs `Turnable`, the extents of all turned shapes.  All
properties of the run are proved as well: `RangesHold` (`Ranges`), `NamesHold` (`VertexNames`),
`MeasuresHold` (`Measures`) and `WorldIsRigid` (`RigidWorld`), assuming `AllTurnable`, that no world is too wide to be turned; that
keeps the inductive invariant `ShapeInv`, a valid shape that can be turned again, and section 15
has a world it excludes.  For each shape the properties are proved from the six inequalities of the
hexagon: `Added` and `FarBand` for the ranges, `OneName`, `SamePos` and `SlotsApart` for the names
of a corner (the point where it is determines its canonical name), `Edges`, `ClosestContained` and
`Nearest` for distances.  `Nearest` holds for footprints of any size anywhere; discs are proved for
the radii 0 to 3 of the property only, as the number of tiles before a row is computed by a
recursion.  `RigidWorld` is inductive once it says what the arrays and the hill are (`WorldInv`,
`HillSound`).  A step is a turn of the plane (`StepTurns`, for which the coordinates of a point must both
be odd or both be even, or a turn would round: `Point`); six turns are nothing (`SixTurns`), which
a rotation counted modulo 6 needs.  Cells and slots are apart (`CellsApart`, `SameSlot`), so
`PlanTurns` and `HeightsTurn` can say what is in the new arrays; the latter needs that the stored name of a
corner is turned to the stored name of the turned corner, also where it belongs to a tile beside
the map (`RotateNear`, `RotatedCorner`, `MovedIsCorner`).

*`ConvoysProofs`* proves one inductive invariant `Sound` (`TypeOK`, `Members`, both halves of
`Registrations`, `PendingIsOwn`, and `Blank`: a handle without convoy or line has nothing), for
everything that may overtake.  Types need the others: an update takes the schedule of `pending`,
which must be a line.  Upon it, `ConvoysCopyIsCurrent` assumes that no command comes late, and
`ConvoysKeptTrack` that nothing overtakes at all; without these assumptions TLC finds
counterexamples (section 15).

*`RailBlocksProofs`* proves `TypesHold` (`TypeOK`), `TrainsNeverCollide` (`NoCollision`),
`DrivingHoldsItsWay` (`WayIsReserved`) and `NothingStrayIsReserved` (`NoStrayReservation`) for any
tracks, trains and signals, under two hypotheses that section 15 shows to be needed: `Troubles = {}`
(none of the known troubles of the code) and `WellSignalled`.  `IInv` consists of the types (`Types`,
`Signals`), `OneSearches` (one train at most searches a route), `Exclusive` (no two trains are on
one tile but a depot's) and, for each train, `TrainInv`: its route passes no tile twice (`Shape`) and is, from its
first vehicle on, the end of a path (`OnPath`); what is under it is reserved for it, or for nobody while
it has given up its route for another (`OnTrack`); no other tile is, but on the way ahead (`NoStray`);
it holds its way up to `next_reservation_index` (`Held`), which is behind the place where it stops
next (`Leads`).  `Held` and `Leads` are about a record like `Grant(t)`, in which the operators collect
what a call reserves, so that the lemmas can follow them through a cascade of signals.
None of these stands alone: that nobody collides needs what is held, which needs the indices,
which a route search may set only because nothing stray is reserved.  A cascade of signals is a recursive
function of the code's recursion; that it exists and ends is a lemma.  Saving and loading goes
train after train, with an invariant of its own for the trains already loaded.  TLC has checked
`IInv` on two signal plans before it was proved.

*`HaltRoutingProofs`* proves `TypesHold` (`TypeOK`), `LinksAreCurrent` (`LinksCurrent`), `RoutesAreHeld`
(`RoutesHold`) and `LossesAreCaused` (`LossesHaveACause`), the last two if no search is resumed over
rebuilt links (`NoneStale`).  A pass of `step_all` takes many steps, and its result is right only at the end,
so `IInv` follows it: what is already rebuilt, filled and rerouted is as the schedules say
(`TurnsDone`, `PassDone`), the rest may be old.  `RInv` adds the packets, which after their turn have a
route (`PacketsRouted`) over links that lead nowhere but where a line goes (`LinksWithin`); `TInv` adds
the types, with the bounds of the counters.  Three things make up most of it:

* Recursive functions.  The library's induction needs operators as parameters, so `SetInduction` is
  proved from cardinalities of finite sets, and `Iterates` from it: a function defined from its value
  one below exists.  `Kept`, the walk around a tour and the turns of a pass are such functions.
* Components.  A goods packet finds its way if both ends have one component.  Lines take goods both
  ways, so links are symmetric (`LinksBothWays`); the region that is filled from a station is closed under links
  (`RegionCloses`, by a cardinality argument: as many rounds as stations are enough); hence two linked stations
  are in one component (`ComponentsTogether`) and none is left out (`NoneMissed`).
* Losses.  `LossStep` compares the worlds before and after each action: only rerouting throws away, and
  it does so with current links only where the component says that there is no route.

*`ScheduleEditProofs`* proves all properties of its run: `TypesHold` (`TypeOK`), `LinesAreClean`
(`CleanIsClean`), `SelectionStays` (`SelectionFollows`) and `GoalStays` (`GoalIsKept`), for any route,
depots and limits (`EntriesAssumption` says that a way back has room, as 250 entries have in 254).
`IInv` adds to the types that only convoys have depots in their schedules, and never as the last of
several entries (`Ends`): each is put before a stop.  Without that, the stop after a depot would be
the first of the list, and the convoy's current stop would move when the depot is taken out.
`LinesAreClean` has an invariant of the loop (`Cleaning`): what is left of the first entries ends at the
place before the next one and does not begin at the last place of all.  `GoalStays` is a
matter of weights: the two stops that follow each other are worth at least 7 where they are, and anything
else at most 3, as no place is served twice; so there is one best entry (`BestIsGoal`).

Only model-checked: liveness under fairness, which is out of the prover's reach.  Every invariant
and every action property of the runs that are to pass is stated by a theorem.  Where a theorem has a hypothesis on the
constants, the run named beside its property satisfies it.

## 15. Findings

Where the code does not do what the repository says of it.  `RailSentHome` and `HaltLosses` are
runs with a counterexample, and the others of this list, but for the one about loading, have a
configuration that TLC finds violated:

* `LockstepJoinLost`: loading the game for one sync clears the server's command queue, and with
  it the sync of a second client that was already accepted.
* `RailSentHome`: `send_to_depot` looks for a depot with the train's own `calc_route`, which
  frees all it has reserved, also under its vehicles.  Another train may reserve these tiles
  before the next route is placed; if no depot is found, the train drives on so for good.
* `ConvoysSold`: `step` does the pending update first, which sets the state to `EDIT_SCHEDULE`;
  a convoy that is to be destroyed lives on when its line is changed in between.
* `FactoryStuck`: a producer under the demand buffers fills an output without counting it as
  inactive, but every shipment from a full output takes one off; the counter wraps and comes down
  to the number of outputs, and the producer stops with room in its stores.
* `FactoryFields`: with a field removed, a stock may be above its store; it counts as full, but
  the shipment that brings it below is not seen, as it compares for equality.
* `FactoryLeak`: `fetch_goods` drops goods that have lost their route without `update_transit`; with
  a maximum for goods in transit the factory orders less and less.
* `HaltLosses`: a search from a station whose first packet has no destination ends before it puts
  the station into `open_list`; for the next packet it is resumed there, finds nothing, and the
  packet is thrown away, as are all others at this station.
* `HaltSkipped`: removing a station during the reconnection moves the list up under
  `next_halt_to_step`; the next station keeps its old component, and the rerouting of this pass
  throws away goods that would go between it and its neighbours.
* `HaltArrivals`: a link that was just rebuilt has no transfer flag until the end of the pass.  In
  between, goods that arrive and have to change again find no route and are thrown away.
* Loading: `destroy_all` resets `status_step` but not
  `next_halt_to_step`.
* `HaltPublic`: `change_owner` rebuilds a stop and its neighbours at once and fills only what this
  made undecided, so that the rest keeps another component.
* `HaltStale`: links that are rebuilt do not end a search that may be resumed.

Others show in the models when a constant is changed or a property added, but have no run of
their own.

Network game and sockets:

* `has_current_network_save` (`simworld.h`: "there is a current valid savegame") stays set while
  the woken server executes commands; the next sync then loads and sends the old save, and these
  commands are undone.  `ServerNeverSetBack` shows that this never happens while anybody plays.
* Two comments do not hold, without harm to the worlds: a sync need not be the last command in a
  client's queue (`karte_t::load`), and `send_all` also queues for clients that do not play yet.
* A player who leaves while another joins is not reported, and the entry is not reused until the
  number of players changes (`LeaverIsReported` of `SocketList`; `karte_t::step`).
* A sync names its client by an index which may belong to the next connection when it is
  executed (`SyncServesJoiner`; `nwc_sync_t::do_command`).
* The login of a tool (`nwc_service_t::execute`) assigns the state past the book-keeping: with
  `Admins` nonempty, `CountersAgree` is violated.
* Commands are executed after their socket was closed by an earlier command of the same round,
  although `get_client` asserts a valid id.

Crossings and trains:

* Trains on two parallel tracks of one crossing: the second request overwrites `request_close`,
  and when the second train has gone the crossing opens before the first (`Exclusive` with
  `Track` of two values).
* `recalc_state`, called when a crossing is built or removed beside one that a train has closed,
  forgets the request: with `MayRebuild = TRUE`, `Exclusive` is violated on one track as well.
* After a route search in vain (`"noRoute"`) the tiles under the train stay free; with
  `"turnOff"`, a train that turns is put on tiles without a look at who has them.
* A priority signal after a pre-signal: when the pre-signal's train is refused further on, what
  the priority signal reserved and where it set the next stop is not undone as a whole, and
  `WayIsReserved` is violated (signals `pre` on `a2`, `priority` on `m2`, and on `c1` one that
  counts both ways).  `WellSignalled` excludes this, and a way that ends on a crossing with a signal:
  the signal has no block behind it to ask for.

Schedules and convoys:

* `check_pending_updates` divides by zero for a convoy whose schedule has nothing but a depot
  (`UpdateIsDefined`).
* Its weights are 3, 4, 2, 1 for the next four stops: the comment promises to "try first same
  sequence as in old schedule", but a convoy whose next stop is still there goes past it when the
  stop after it moved.  `GoalIsKept` has the case that holds.
* `send_to_depot` while an update of the line is pending takes the convoy off its line, as its
  copy does not match yet.
* A convoy that is started in the very frame of its arrival in the depot is in the list of moved
  objects twice (`KeptTrack` with `"arrival"`): it was still in it when `start` added it.
* The state command for a convoy that meanwhile entered its depot takes it out of `INITIAL`
  without taking it from the depot's list (`KeptTrack` with `"late"`).
* Trimming a line destroys convoys in a depot without taking them from the depot's list
  (`KeptTrack` with `"trim"`).
* `delete_line` leaves its convoys registered nowhere, although halts keep "a list of lineless
  convoys serving this stop" (`simhalt.h`).

Geometry:

* `enlarge_map` accepts a world such as 32760 x 10 x 1, whose extents fit, but a rotation passes
  through shapes with the extent `w + h - 1`, which do not: `ExtentsFit` of `Surface` is
  violated for worlds that are not `Turnable`.  `documentation/map-shape.md` says that the
  extents stay within 32766.

## 16. Not modelled

* Contents of tools, packets, files and of the simulation itself: the lock step needs only that
  they are deterministic.  Partial reads and writes of packets; failing sends in `Lockstep`
  (`SocketList` lets every send of a sync fail).
* `generate_new_map_counter` returning the same millisecond twice.
* Chat, nicknames, passwords, company locks, announcements to the list server.
* Choose signals, private tracks, removal of tracks under a train; road, water and air vehicles
  but for cars on a crossing; freight, loading times and finances of a convoy.
* In `Factory`: electricity, boosts by passengers and mail, `just_in_time` 0, the choice of a
  consumer.  In `HaltRouting`: amounts, several categories, overcrowding, merging stops, return
  trips of passengers, coverage, reuse of handles.
* Objects on turned tiles, slopes, directions (`ribi_t`) and everything on the screen.
* The components marked *planned* and *not modelled* in the inventory.
