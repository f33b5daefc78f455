------------------------------ MODULE HaltRouting ------------------------------
(***************************************************************************)
(* The stations as a network that goods find their way through             *)
(* (simhalt.cc), for one category of goods that every station takes.  The  *)
(* links between stations follow from the schedules of the lines, but are  *)
(* recomputed in slices: one call of step_all reconnects or reroutes some  *)
(* stations, and the world changes between the calls.                      *)
(* Weights are the code's; max_transfers and max_hops are taken to be      *)
(* larger than any route.                                                  *)
(***************************************************************************)
EXTENDS Integers, Sequences, FiniteSets, FiniteSetsExt, SequencesExt, TLC

CONSTANTS
  Halts,          \* the stations there may ever be; a handle is not used twice
  FirstHalts,     \* alle_haltestellen at the start
  Lines,
  Worlds,         \* the games played: schedules (those each line may have: sequences of stops, each
                  \* at most once), room (bound: packets waiting and aboard) and events, what happens
                  \* besides traffic: "build", "remove", "change", "load", "public"; "stale": a search
                  \* may be resumed after links changed.  Without it some search_route, which forgets
                  \* the last search, comes after every such change
  Places, Near,   \* where goods want to go, and planquadrat_t::halt_list of these places
  WeightWait, WeightHalt,
  CounterSize,    \* bound: so many changes, less one, between two passes (the counters: 256)
  Undecided,      \* UNDECIDED_CONNECTED_COMPONENT
  NoHalt          \* an unbound handle

ASSUME WeightsAssumption == WeightWait \in Nat \ {0} /\ WeightHalt \in Nat \ {0}
ASSUME CounterAssumption == CounterSize \in Nat \ {0, 1, 2}
ASSUME HandlesAssumption == {Undecided, NoHalt} \cap Halts = {}
ASSUME FiniteAssumption == IsFiniteSet(Halts)
ASSUME SchedulesAssumption == \A game \in Worlds, l \in Lines : game.schedules[l] \subseteq Seq(Halts)
ASSUME FirstAssumption == FirstHalts \in Seq(Halts) /\ IsInjective(FirstHalts)

VARIABLES
  world,          \* the game this is; never changes
  alle,           \* alle_haltestellen, in order
  unborn,         \* the stations not built yet
  schedule,       \* of each line
  registered,     \* registered_lines of each station
  all_links,      \* of each station: its connections, is_transfer, catg_connected_component
  behind,         \* schedule_counter - reconnect_counter; only whether they differ is ever read
  status_step,    \* what step_all is in the middle of
  next_halt,      \* next_halt_to_step
  waiting,        \* cargo: where a packet waits, where it wants to, target and via halt
  aboard,         \* packets in a convoy of a line
  explored        \* the search that search_route_resumable may resume

network == <<world, alle, unborn, schedule, registered>>
pass == <<behind, status_step, next_halt>>
goods == <<waiting, aboard>>
vars == <<network, all_links, pass, goods, explored>>

Idle == "idle"
RECONNECTING == "RECONNECTING"
REROUTING == "REROUTING"

Standing == Range(alle)
Connection == [halt : Halts, weight : Nat, is_transfer : BOOLEAN]
Unlinked == [connections |-> {}, is_transfer |-> FALSE, component |-> Undecided]
NoSearch == [origin |-> NoHalt, started |-> FALSE, links |-> <<>>]

TypeOK ==
  /\ world \in Worlds
  /\ alle \in Seq(Halts) /\ unborn \subseteq Halts \ Standing /\ Len(alle) = Cardinality(Standing)
  /\ \A l \in Lines : schedule[l] \in world.schedules[l]
  /\ registered \in [Halts -> SUBSET Lines]
  /\ \A h \in Halts : /\ all_links[h].connections \subseteq Connection
                      /\ all_links[h].is_transfer \in BOOLEAN
                      /\ all_links[h].component \in Halts \cup {Undecided}
  /\ behind \in 0..CounterSize - 1
  /\ status_step \in {Idle, RECONNECTING, REROUTING}
  /\ next_halt \in 0..Cardinality(Halts)
  /\ waiting \subseteq [at : Standing, to : Places, target : Halts, via : Halts]
  /\ aboard \subseteq [line : Lines, to : Places, target : Halts, via : Halts]
  /\ explored.origin \in Halts \cup {NoHalt} /\ explored.started \in BOOLEAN

------------------------------------------------------------------------------
(* rebuild_connections *)

(* The element of a singleton, a value that TLC computes once, not at every use *)
The(S) == CHOOSE x \in S : x = x

(* A stop that is no station now is a way point *)
Kept(stops, stations) ==
  LET kept[k \in 0..Len(stops)] ==
        IF k = 0 THEN <<>> ELSE IF stops[k] \in stations THEN Append(kept[k - 1], stops[k]) ELSE kept[k - 1]
  IN  kept[Len(stops)]
Stops(l) == Kept(schedule[l], Standing)
(* The stops after h, in the order in which a line comes to them *)
Onward(stops, h) ==
  LET i == CHOOSE j \in DOMAIN stops : stops[j] = h
  IN  SubSeq(stops, i + 1, Len(stops)) \o SubSeq(stops, 1, i - 1)
Tours(h) == {Onward(s, h) : s \in {t \in {Stops(l) : l \in registered[h]} : h \in Range(t)}}
Rides(h) == UNION {{<<tour[k], WeightWait + k * WeightHalt>> : k \in DOMAIN tour} : tour \in Tours(h)}

(* A transfer station is one where no single schedule goes to every neighbour *)
Neighbours(tour) == IF tour = <<>> THEN {} ELSE {tour[1], tour[Len(tour)]}
IsTransfer(h) ==
  LET tours == Tours(h)
      all == UNION {Neighbours(tour) : tour \in tours}
  IN  all # {} /\ Cardinality(all) # Max({Cardinality(Neighbours(tour)) : tour \in tours})

Rebuilt(h) ==
  [connections |-> LET rides == Rides(h)
                   IN  {[halt |-> x, weight |-> Min({r[2] : r \in {q \in rides : q[1] = x}}), is_transfer |-> FALSE] :
                        x \in {r[1] : r \in rides}},
   is_transfer |-> IsTransfer(h),
   component |-> Undecided]

(* fill_connected_component: the undecided stations that undecided stations lead to *)
Linked(links, h) == {c.halt : c \in links[h].connections} \cap Standing
UndecidedArcs(links) ==
  LET und == {h \in Standing : links[h].component = Undecided}
  IN  UNION {{<<x, y>> : y \in Linked(links, x) \cap und} : x \in und}

(* Mutant of Region: the recursion stops after one step *)
RegionNear(arcs, h) == {h} \cup {arc[2] : arc \in {r \in arcs : r[1] = h}}
Region(arcs, h) ==
  LET reach[k \in Nat] ==
        IF k = 0 THEN {h} ELSE UNION {{y} \cup {arc[2] : arc \in {q \in arcs : q[1] = y}} : y \in reach[k - 1]}
  IN  reach[Cardinality(Halts)]

(* What filling leaves at station x: the component, and the transfer flags of its neighbours *)
Filled(links, x, component) ==
  [links[x] EXCEPT
     !.component = component,
     !.connections = {[c EXCEPT !.is_transfer = IF c.halt \in Standing THEN links[c.halt].is_transfer ELSE @] : c \in @}]

(* Filling starts at the stations in order: the first one that leads to x names x's component *)
FirstTo(arcs, links, x) ==
  alle[Min({i \in DOMAIN alle : links[alle[i]].component = Undecided /\ x \in Region(arcs, alle[i])})]
rebuild_connected_components(links) ==
  The({[x \in Halts |-> IF x \in Standing /\ links[x].component = Undecided
                        THEN Filled(links, x, FirstTo(arcs, links, x)) ELSE links[x]] : arcs \in {UndecidedArcs(links)}})

------------------------------------------------------------------------------
(* Searching: routes of least weight through transfer stations, destinations of any kind *)

(* The ways that a search from h sees: the first change, where it has come to, its weight, and    *)
(* whether it may go on there.  No route is longer than there are stations.                       *)
Begun(h, links) ==
  {[via |-> c.halt, halt |-> c.halt, weight |-> c.weight, on |-> c.is_transfer] :
     c \in {d \in links[h].connections : d.halt \in Standing}}
Continued(w, links) ==
  {[via |-> w.via, halt |-> c.halt, weight |-> w.weight + c.weight, on |-> c.is_transfer] :
     c \in {d \in links[w.halt].connections : d.halt \in Standing}}
Further(ways, h, links, live) ==
  Begun(h, links) \cup UNION {Continued(w, links) : w \in {v \in ways : v.on /\ live[v.halt] /\ v.halt # h}}
Ways(h, links, live) ==
  LET ways[k \in Nat] == IF k = 0 THEN {} ELSE Further(ways[k - 1], h, links, live)
  IN  ways[Cardinality(Halts) - 1]

(* Where a search from h ends and its first change; ties are settled by the order of the heap *)
Routes(h, T, links, live) ==
  LET ending == {w \in Ways(h, links, live) : w.halt \in T}
  IN  {[target |-> w.halt, via |-> w.via] : w \in {v \in ending : \A u \in ending : v.weight <= u.weight}}

Everywhere == [h \in Halts |-> TRUE]
Live(links) == [h \in Halts |-> links[h].is_transfer]
EndHalts(to) == Near[to] \cap Standing

(* search_route from one station: links of other components are not searched *)
search_route(h, to) ==
  LET components == {all_links[t].component : t \in EndHalts(to)}
  IN  IF Undecided \in components \cup {all_links[h].component} \/ all_links[h].component \in components
      THEN Routes(h, EndHalts(to), all_links, Everywhere) ELSE {}

(* search_route_resumable: what the search remembers after it, and the routes it may find then *)
Destinations(h, to) ==
  {t \in EndHalts(to) : \/ Undecided \in {all_links[t].component, all_links[h].component}
                        \/ all_links[t].component = all_links[h].component}

(* Without a destination the origin is never put in open_list, which a resumed search goes on with *)
Explore(h, to) ==
  IF explored.origin = h THEN explored
  ELSE [origin |-> h, started |-> Destinations(h, to) # {},
        links |-> IF "stale" \in world.events THEN all_links ELSE <<>>]
Found(h, to, search) ==
  IF ~search.started THEN {}
  ELSE IF search.links \in {<<>>, all_links} THEN Routes(h, Destinations(h, to), all_links, Live(all_links))
  ELSE Routes(h, EndHalts(to), search.links, Live(search.links))

(* Links changed: see "stale" *)
Forget == explored' = IF "stale" \in world.events THEN explored ELSE NoSearch

------------------------------------------------------------------------------
Registered(h) == {l \in Lines : h \in Range(schedule[l])}

(* The network as the registered lines have it *)
AsScheduled ==
  The({rebuild_connected_components(links) :
         links \in {The({[h \in Halts |-> IF h \in Standing THEN Rebuilt(h) ELSE Unlinked]})}})

(* A world whose first pass is over *)
Init ==
  /\ world \in Worlds
  /\ alle = FirstHalts /\ unborn = Halts \ Range(FirstHalts)
  /\ schedule \in [Lines -> UNION {world.schedules[l] : l \in Lines}] /\ \A l \in Lines : schedule[l] \in world.schedules[l]
  /\ registered = [h \in Halts |-> IF h \in Standing THEN Registered(h) ELSE {}]
  /\ all_links = AsScheduled
  /\ behind = 0 /\ status_step = Idle /\ next_halt = 0
  /\ waiting = {} /\ aboard = {} /\ explored = NoSearch

(* set_schedule_counter, n times *)
Changed(n) == behind + n < CounterSize /\ behind' = behind + n

(* step_all, before anything of it: a pass starts only when the last one is over *)
Starting == status_step = Idle /\ behind # 0
LastTurn == next_halt + 1 >= Len(alle)

(* The station whose turn it is; none when stations were removed beyond it *)
Turn == IF next_halt < Len(alle) THEN {alle[next_halt + 1]} ELSE {}
Advance(following) ==
  IF LastTurn THEN next_halt' = 0 /\ status_step' = following
  ELSE next_halt' = next_halt + 1 /\ status_step' = IF status_step = Idle THEN RECONNECTING ELSE status_step

RebuildTurn ==
  \E links \in {The({[h \in Halts |-> IF h \in Turn THEN Rebuilt(h) ELSE all_links[h]]})} :
    all_links' = IF LastTurn THEN rebuild_connected_components(links) ELSE links

(* Mutant of Reconnect: the changes are ticked off when the pass is over, not when it starts *)
ReconnectLate ==
  /\ alle # <<>> /\ (Starting \/ status_step = RECONNECTING)
  /\ behind' = IF LastTurn THEN 0 ELSE behind
  /\ RebuildTurn /\ Advance(REROUTING) /\ Forget
  /\ UNCHANGED <<network, goods>>
(* Mutant of Reconnect: a change starts a new pass at once *)
ReconnectAnew ==
  /\ alle # <<>> /\ (behind # 0 \/ status_step = RECONNECTING)
  /\ behind' = IF status_step = RECONNECTING THEN behind ELSE 0
  /\ RebuildTurn /\ Forget
  /\ IF LastTurn THEN next_halt' = 0 /\ status_step' = REROUTING
     ELSE next_halt' = next_halt + 1 /\ status_step' = RECONNECTING
  /\ UNCHANGED <<network, goods>>

Reconnect ==
  /\ alle # <<>> /\ (Starting \/ status_step = RECONNECTING)
  /\ behind' = IF Starting THEN 0 ELSE behind
  /\ RebuildTurn /\ Advance(REROUTING) /\ Forget
  /\ UNCHANGED <<network, goods>>

(* reroute_goods of the station whose turn it is *)
At(h) == {p \in waiting : p.at = h}
(* The packets at h after their searches, of which the one for "first" comes first *)
Reroutings(h, first) ==
  LET search == Explore(h, first.to)
      routes(p) == Found(h, p.to, search)
      routed == {p \in At(h) : h \notin Near[p.to] /\ routes(p) # {}}
  IN  {{[at |-> h, to |-> p.to, target |-> f[p].target, via |-> f[p].via] : p \in routed} :
         f \in {g \in [routed -> UNION {routes(p) : p \in routed}] : \A p \in routed : g[p] \in routes(p)}}

(* Mutant of Reroute: goods whose next stop still stands keep their route *)
RerouteLazy ==
  /\ alle # <<>> /\ status_step = REROUTING /\ Advance(Idle)
  /\ waiting' = {p \in waiting : p.at \in Turn => p.via \in Standing}
  /\ UNCHANGED <<network, all_links, behind, aboard, explored>>

Reroute ==
  /\ alle # <<>> /\ status_step = REROUTING /\ Advance(Idle)
  /\ LET searching == {p \in waiting : p.at \in Turn /\ p.at \notin Near[p.to]}
     IN  IF searching = {}
         THEN waiting' = {p \in waiting : p.at \notin Turn} /\ UNCHANGED explored
         ELSE \E first \in searching : /\ explored' = Explore(first.at, first.to)
                                       /\ \E there \in Reroutings(first.at, first) :
                                            waiting' = (waiting \ At(first.at)) \cup there
  /\ UNCHANGED <<network, all_links, behind, aboard>>

NothingToStep ==
  /\ alle = <<>> /\ next_halt' = 0 /\ status_step' = Idle
  /\ UNCHANGED <<network, all_links, behind, goods, explored>>

StepAll == Reconnect \/ Reroute \/ NothingToStep

------------------------------------------------------------------------------
(* Stations and lines are built, removed and changed *)

(* The constructor makes a pass due by itself; add_grund registers the lines that already stop here *)
Build(h) ==
  /\ "build" \in world.events /\ h \in unborn
  /\ unborn' = unborn \ {h} /\ alle' = Append(alle, h)
  /\ registered' = [registered EXCEPT ![h] = Registered(h)]
  /\ behind' = IF Registered(h) # {} THEN 2 ELSE 1
  /\ UNCHANGED <<world, schedule, all_links, status_step, next_halt, goods, explored>>

(* Mutant of RemoveHalt: the cargo of the station is kept *)
RemoveKeepsCargo(h) ==
  /\ "remove" \in world.events /\ Changed(1)
  /\ \E i \in DOMAIN alle : alle[i] = h /\ alle' = RemoveAt(alle, i)
  /\ registered' = [registered EXCEPT ![h] = {}]
  /\ all_links' = [all_links EXCEPT ![h] = Unlinked]
  /\ Forget /\ UNCHANGED <<world, unborn, schedule, status_step, next_halt, goods>>

(* rem_grund of the last tile and the destructor: the list closes up, next_halt_to_step stays *)
RemoveHalt(h) ==
  /\ "remove" \in world.events /\ Changed(1)
  /\ \E i \in DOMAIN alle : alle[i] = h /\ alle' = RemoveAt(alle, i)
  /\ registered' = [registered EXCEPT ![h] = {}]
  /\ all_links' = [all_links EXCEPT ![h] = Unlinked]
  /\ waiting' = waiting \ At(h)
  /\ Forget /\ UNCHANGED <<world, unborn, schedule, status_step, next_halt, aboard>>

(* simline_t::set_schedule and update_line *)
ChangeLine(l) ==
  /\ "change" \in world.events /\ Changed(1)
  /\ \E s \in world.schedules[l] \ {schedule[l]} :
       /\ schedule' = [schedule EXCEPT ![l] = s]
       /\ registered' = [h \in Halts |-> IF h \in Standing \cap Range(s) THEN registered[h] \cup {l}
                                         ELSE registered[h] \ {l}]
  /\ UNCHANGED <<world, alle, unborn, all_links, status_step, next_halt, goods, explored>>

(* The end of change_owner, for a stop that no line had to wait for: it, then what it links to, is rebuilt *)
MakePublic(h) ==
  /\ "public" \in world.events /\ h \in Standing
  /\ \E links \in {The({[x \in Halts |-> IF x \in {h} \cup {c.halt : c \in Rebuilt(h).connections}
                                         THEN Rebuilt(x) ELSE all_links[x]]})} :
       all_links' = rebuild_connected_components(links)
  /\ Forget /\ UNCHANGED <<network, pass, goods>>

(* karte_t::load in a running program: destroy_all, the halts of the savegame, and step_all *)
(* until everything is reconnected; next_halt_to_step is a static that nobody resets        *)
Load ==
  /\ "load" \in world.events /\ alle # <<>>
  /\ \E links \in {The({[h \in Halts |-> IF h \in Range(SubSeq(alle, next_halt + 1, Len(alle))) THEN Rebuilt(h)
                                         ELSE Unlinked]})} :
       all_links' = rebuild_connected_components(links)
  /\ status_step' = REROUTING /\ next_halt' = 0 /\ behind' = 0
  /\ explored' = NoSearch
  /\ UNCHANGED <<network, goods>>

------------------------------------------------------------------------------
(* Traffic *)

Room == Cardinality(waiting) + Cardinality(aboard) < world.room

(* vereinige_waren joins packets of one destination, or add_ware_to_halt adds one *)
Put(cargo, p) ==
  LET same == {q \in cargo : q.at = p.at /\ q.to = p.to /\ q.target = p.target}
  IN  IF same = {} THEN cargo \cup {p}
      ELSE (cargo \ same) \cup {[q EXCEPT !.via = IF p.via # p.at THEN p.via ELSE @] : q \in same}
Joins(p) == \E q \in waiting : q.at = p.at /\ q.to = p.to /\ q.target = p.target

(* A factory or a town hands goods to station h that are not wanted within walking distance *)
NewGoods(h, to) ==
  /\ Room /\ h \in Standing \ Near[to] /\ EndHalts(to) # {}
  /\ \E r \in search_route(h, to) :
       waiting' = Put(waiting, [at |-> h, to |-> to, target |-> r.target, via |-> r.via])
  /\ explored' = NoSearch
  /\ UNCHANGED <<network, all_links, pass, aboard>>

(* fetch_goods for a convoy of line l: goods whose next stop is gone are searched a new one; *)
(* some may stay behind                                                                     *)
Loaded(p, l) == [line |-> l, to |-> p.to, target |-> p.target, via |-> p.via]
Take(p, q, l) ==
  IF q.via \in Range(Stops(l)) /\ q.via # q.at
  THEN /\ aboard' = aboard \cup {Loaded(q, l)}
       /\ \E rest \in {{}} \cup (IF Room THEN {{q}} ELSE {}) : waiting' = (waiting \ {p}) \cup rest
  ELSE waiting' = (waiting \ {p}) \cup {q} /\ UNCHANGED aboard
Fetch(p, l) ==
  /\ p \in waiting /\ p.at \in Range(Stops(l))
  /\ IF p.via \in Standing
     THEN p.via \in Range(Stops(l)) /\ Take(p, p, l) /\ UNCHANGED explored
     ELSE LET search == Explore(p.at, p.to)
              routes == Found(p.at, p.to, search)
          IN  /\ explored' = search
              /\ IF routes = {} THEN waiting' = waiting \ {p} /\ UNCHANGED aboard
                 ELSE \E r \in routes : Take(p, [p EXCEPT !.target = r.target, !.via = r.via], l)
  /\ UNCHANGED <<network, all_links, pass>>

(* liefere_an at h: delivered, joined with what waits, or searched a route *)
Arriving(c, h) == [at |-> h, to |-> c.to, target |-> c.target, via |-> c.via]
liefere_an(c, h) ==
  IF h \in Near[c.to] THEN UNCHANGED <<waiting, explored>>
  ELSE IF Joins(Arriving(c, h)) THEN waiting' = Put(waiting, Arriving(c, h)) /\ UNCHANGED explored
  ELSE LET search == Explore(h, c.to)
           routes == Found(h, c.to, search)
       IN  /\ explored' = search
           /\ IF routes = {} THEN waiting' = waiting
              ELSE \E r \in routes :
                     waiting' = Put(waiting, [Arriving(c, h) EXCEPT !.target = r.target, !.via = r.via])

(* unload_cargo *)
Arrive(c) ==
  /\ c \in aboard /\ aboard' = aboard \ {c}
  /\ IF {c.target, c.via} \subseteq Standing
     THEN \E h \in {c.via} \cup ({c.target} \cap Range(Stops(c.line))) : liefere_an(c, h)
     ELSE Stops(c.line) # <<>> /\ UNCHANGED <<waiting, explored>>
  /\ UNCHANGED <<network, all_links, pass>>

(* remove_stale_cargo: what the schedule no longer takes where it should go is unloaded at a next stop *)
Restow(c) ==
  /\ c \in aboard /\ c.via \notin Range(Stops(c.line))
  /\ IF Stops(c.line) = <<>> THEN aboard' = aboard \ {c}
     ELSE \E h \in Range(Stops(c.line)) :
            aboard' = (aboard \ {c}) \cup {[c EXCEPT !.via = h, !.target = IF @ \in Standing THEN @ ELSE h]}
  /\ UNCHANGED <<network, all_links, pass, waiting, explored>>

Next ==
  \/ StepAll
  \/ \E h \in Halts : Build(h) \/ RemoveHalt(h) \/ MakePublic(h)
  \/ \E l \in Lines : ChangeLine(l)
  \/ Load
  \/ \E h \in Halts, to \in Places : NewGoods(h, to)
  \/ \E p \in waiting, l \in Lines : Fetch(p, l)
  \/ \E c \in aboard : Arrive(c) \/ Restow(c)

Spec == Init /\ [][Next]_vars
(* karte_t::step calls step_all in every step *)
FairSpec == Spec /\ WF_vars(StepAll)

------------------------------------------------------------------------------
(* step_all has nothing to do *)
Current == status_step = Idle /\ behind = 0

(* Loading and public stops leave components that schedules do not explain: see the README *)
Ordinary == world.events \cap {"load", "public"} = {}

(* However changes fall between the slices of a pass: once step_all has nothing to do, every  *)
(* line is registered where it stops, and links, transfer flags, cached flags and components  *)
(* are those of the schedules.                                                          *)
LinksCurrent ==
  Current /\ Ordinary =>
    \A asScheduled \in {AsScheduled}, h \in Standing :
      registered[h] = Registered(h) /\ all_links[h] = asScheduled[h]

(* Then every packet that waits has a next stop that a line goes to and a target station *)
(* that stands and serves the place it wants to.                                         *)
RoutesHold ==
  Current => \A p \in waiting : /\ p.via \in Linked(all_links, p.at)
                                /\ p.target \in EndHalts(p.to)

(* The two halves of a link agree on the component: what is connected has one id (simhalt.h:264). *)
ComponentsAgree ==
  Current => \A h \in Standing : \A x \in Linked(all_links, h) : all_links[x].component = all_links[h].component

(* Goods that reroute_goods throws away at the station whose turn it is *)
Rerouting == status_step = REROUTING /\ <<status_step, next_halt>>' # <<status_step, next_halt>>
Lost(p) ==
  /\ p.at \in Turn /\ p.at \notin Near[p.to]
  /\ ~\E q \in waiting' : q.at = p.at /\ q.to = p.to
Routable(h, to, links) == Routes(h, EndHalts(to), links, Live(links)) # {}

(* A pass that no change overtook throws goods away only where some goods have no route at  *)
(* all, or where the last search had found no destination: components are never split then. *)
LossesHaveACause ==
  [][Rerouting /\ Ordinary /\ behind = 0 => \A p \in waiting :
       Lost(p) => \/ \E q \in At(p.at) : ~Routable(q.at, q.to, all_links)
                  \/ explored.origin = p.at /\ ~explored.started]_vars

(* reroute_goods removes the goods "whose destination was removed from the map": no others. *)
OnlyUnroutableIsLost ==
  [][Rerouting => \A p \in waiting : Lost(p) => ~Routable(p.at, p.to, all_links)]_vars

(* liefere_an discards goods when the "target halt is no longer there": not those that the *)
(* schedules take to a station that stands.                                                *)
ArrivalsGoOn ==
  [][\A c \in aboard \ aboard' :
       \A h \in {c.via} \cap Standing :
         (/\ c.target \in Standing /\ h \notin Near[c.to] /\ <<alle, schedule, pass>>' = <<alle, schedule, pass>>
          /\ Routable(h, c.to, AsScheduled))
         => \E q \in waiting' : q.at = h /\ q.to = c.to]_vars

(* A pass that has begun is completed, whatever changes meanwhile; only loading starts its *)
(* second half anew.                                                                       *)
PassEnds == world.events \cap {"load"} = {} => ((status_step # Idle) ~> (status_step = Idle))
================================================================================
