-------------------------------- MODULE Convoys --------------------------------
(***************************************************************************)
(* The convoys of a player and his lines (simconvoi.cc, simline.cc,         *)
(* simlinemgmt.cc, obj/depot.cc): who belongs to which line, who is        *)
(* registered at which stop, who is in the depot and who is moved, while   *)
(* the player's commands (tool/simtool.cc) meet the clock of the game.     *)
(* A schedule is the set of its stops here, {} before there is one (a      *)
(* schedule of one stop is emptied); the order is the subject of Schedule. *)
(***************************************************************************)
EXTENDS Integers, FiniteSets

CONSTANTS
  Convoys,     \* handles of convoys
  Lines,       \* handles of lines
  None,        \* no line
  Schedules,   \* the schedules in play: sets of stops
  Overtaking   \* what may come between: "late" commands that reach a convoy after it
               \* entered its depot or is to be destroyed, "arrival" a start in the very frame of the arrival,
               \* "trim" convoys in the depot that are taken off a line

ASSUME SchedulesAssumption == {} \in Schedules
ASSUME NoneAssumption == None \notin Lines

VARIABLES
  state,       \* of a convoy; "NONE": there is no such convoy
  schedule,    \* the stops of a convoy's copy
  homing,      \* the next entry of the copy is a depot
  editing,     \* start_editing was called, finish_editing not yet
  line,        \* the line of a convoy, or None
  pending,     \* line_update_pending
  parked,      \* the convoys in the depot's list
  sync,        \* how often a convoy is in the list of what is moved
  lineExists,  \* the lines there are
  lineStops,   \* the stops of a line
  members,     \* line_managed_convoys
  lineAt,      \* the stops where a line is registered
  convoyAt     \* the stops where a convoy is registered

cnvVars == <<state, schedule, homing, editing, line, pending>>
lineVars == <<lineExists, lineStops, members, lineAt>>
vars == <<cnvVars, parked, sync, lineVars, convoyAt>>

(* DRIVING: on its way, or waiting for a free way *)
States == {"NONE", "INITIAL", "EDIT_SCHEDULE", "ROUTING_1", "NO_ROUTE", "DRIVING", "LOADING", "SELF_DESTRUCT"}
Stops == UNION Schedules

TypeOK ==
  /\ state \in [Convoys -> States]
  /\ schedule \in [Convoys -> Schedules]
  /\ homing \in [Convoys -> BOOLEAN] /\ editing \in [Convoys -> BOOLEAN]
  /\ line \in [Convoys -> Lines \cup {None}] /\ pending \in [Convoys -> Lines \cup {None}]
  /\ parked \subseteq Convoys
  /\ sync \in [Convoys -> 0..2]
  /\ lineExists \subseteq Lines
  /\ lineStops \in [Lines -> Schedules]
  /\ members \in [Lines -> SUBSET Convoys]
  /\ lineAt \in [Lines -> SUBSET Stops]
  /\ convoyAt \in [Convoys -> SUBSET Stops]

Init ==
  /\ state = [c \in Convoys |-> "NONE"]
  /\ schedule = [c \in Convoys |-> {}]
  /\ homing = [c \in Convoys |-> FALSE] /\ editing = [c \in Convoys |-> FALSE]
  /\ line = [c \in Convoys |-> None] /\ pending = [c \in Convoys |-> None]
  /\ parked = {} /\ sync = [c \in Convoys |-> 0]
  /\ lineExists = {} /\ lineStops = [l \in Lines |-> {}]
  /\ members = [l \in Lines |-> {}] /\ lineAt = [l \in Lines |-> {}]
  /\ convoyAt = [c \in Convoys |-> {}]

-----------------------------------------------------------------------------
(* Helpers *)

Exists(c) == state[c] # "NONE"
MatchesInLength(s, t) == s # {} /\ Cardinality(s) = Cardinality(t)
(* schedule_t::matches: depots are passed over, an empty schedule matches none *)
Matches(s, t) == s # {} /\ s = t

(* The line of one convoy becomes l.  The first convoy of a line announces it at *)
(* its stops, the last one takes it back (add_convoy, remove_convoy)         *)
Without(c) == IF line[c] = None THEN members ELSE [members EXCEPT ![line[c]] = @ \ {c}]
With(m, c, l) == IF l = None THEN m ELSE [m EXCEPT ![l] = @ \cup {c}]
AnnouncedForGood(m) ==
  [l \in Lines |-> IF m[l] # {} /\ members[l] = {} THEN lineAt[l] \cup lineStops[l] ELSE lineAt[l]]
Announced(m) ==
  [l \in Lines |-> IF m[l] = {} THEN lineAt[l] \ lineStops[l]
                   ELSE IF members[l] = {} THEN lineAt[l] \cup lineStops[l] ELSE lineAt[l]]
RejoinBoth(c, l) ==
  /\ line' = [line EXCEPT ![c] = l]
  /\ members' = With(members, c, l)
  /\ lineAt' = Announced(members')
  /\ UNCHANGED <<lineExists, lineStops>>
Rejoin(c, l) ==
  /\ line' = [line EXCEPT ![c] = l]
  /\ members' = With(Without(c), c, l)
  /\ lineAt' = Announced(members')
  /\ UNCHANGED <<lineExists, lineStops>>

(* check_pending_updates divides by zero for a convoy that has nothing but a *)
(* depot in its schedule                                                     *)
UpdateIsDefined(c, l) == ~(homing[c] /\ schedule[c] = {} /\ lineStops[l] # {})
(* What it leaves of the convoy: the depot stays next; the convoy goes on as it *)
(* is if it goes to the same stop                                            *)
KeepsDepot(c, l) == homing[c] /\ lineStops[l] # {}
Same(c, l) ==
  IF KeepsDepot(c, l) THEN {TRUE} ELSE IF schedule[c] # {} /\ lineStops[l] # {} THEN BOOLEAN ELSE {FALSE}
TakenState(c, same) == IF state[c] = "INITIAL" \/ same THEN state[c] ELSE "EDIT_SCHEDULE"
TakeSchedule(c, l) ==
  /\ UpdateIsDefined(c, l)
  /\ schedule' = [schedule EXCEPT ![c] = lineStops[l]]
  /\ homing' = [homing EXCEPT ![c] = KeepsDepot(c, l)]

(* What becomes of the state of a convoy in its step: s is its state, stops and *)
(* home are its schedule by then                                             *)
After(s, stops, home, edit) ==
  LET empty == stops = {} /\ ~home
  IN  CASE s = "EDIT_SCHEDULE" /\ edit -> {"EDIT_SCHEDULE"}
        [] s = "EDIT_SCHEDULE" /\ ~edit /\ empty -> {"NO_ROUTE"}
        [] s = "EDIT_SCHEDULE" /\ ~edit /\ ~empty -> {"ROUTING_1", "LOADING", "DRIVING"}
        [] s = "ROUTING_1" -> IF empty THEN {"NO_ROUTE"} ELSE {"NO_ROUTE", "DRIVING"}
        [] s = "NO_ROUTE" -> IF empty THEN {"NO_ROUTE"} ELSE {"NO_ROUTE", "DRIVING"}
        [] s = "LOADING" -> {"LOADING", "NO_ROUTE", "DRIVING"}
        [] OTHER -> {s}

(* unregister_stops for a convoy without line *)
Unregistered(c) == IF line[c] = None THEN convoyAt[c] \ schedule[c] ELSE convoyAt[c]

(* The update of some convoys is not to be done any more *)
Cleared(C) == [c \in Convoys |-> IF c \in C THEN None ELSE pending[c]]

LessUnchecked(n) == n - 1
(* list.remove: one entry, if there is one *)
Less(n) == IF n = 0 THEN 0 ELSE n - 1

(* destroy and the destructor: the depot's list is not looked at *)
Destroy(c) ==
  /\ state' = [state EXCEPT ![c] = "NONE"]
  /\ Rejoin(c, None)
  /\ convoyAt' = [convoyAt EXCEPT ![c] = Unregistered(c)]
  /\ schedule' = [schedule EXCEPT ![c] = {}]
  /\ homing' = [homing EXCEPT ![c] = FALSE] /\ editing' = [editing EXCEPT ![c] = FALSE]
  /\ pending' = Cleared({c})
  /\ sync' = [sync EXCEPT ![c] = Less(@)]

-----------------------------------------------------------------------------
(* The player's commands *)

(* add_convoi; with o the copy of another convoy (copy_convoi) *)
Buy(c) ==
  /\ ~Exists(c)
  /\ state' = [state EXCEPT ![c] = "INITIAL"]
  /\ parked' = parked \cup {c}
  /\ UNCHANGED <<schedule, homing, editing, line, pending, sync, lineVars, convoyAt>>
Copy(c, o) ==
  /\ ~Exists(c) /\ Exists(o)
  /\ state' = [state EXCEPT ![c] = "INITIAL"]
  /\ parked' = parked \cup {c}
  /\ Rejoin(c, line[o])
  /\ LET stops == IF line[o] = None THEN schedule[o] ELSE lineStops[line[o]]
     IN  /\ schedule' = [schedule EXCEPT ![c] = stops]
         /\ convoyAt' = [convoyAt EXCEPT ![c] = IF line[o] = None THEN @ \cup stops ELSE @]
  /\ homing' = [homing EXCEPT ![c] = line[o] = None /\ homing[o]]
  /\ UNCHANGED <<editing, pending, sync>>

(* start_convoi and start: past a depot that is next, and off if there is a route. *)
(* A convoy under edit is taken from the depot's list and not started        *)
Start(c) ==
  /\ c \in parked /\ schedule[c] # {}
  /\ sync[c] = 0 \/ ("arrival" \in Overtaking /\ sync[c] < 2)
  /\ homing' = [homing EXCEPT ![c] = FALSE]
  /\ \/ \E s \in IF state[c] = "EDIT_SCHEDULE" THEN After(state[c], schedule[c], FALSE, editing[c]) ELSE {state[c]} :
          /\ parked' = parked \ {c}
          /\ IF s \in {"INITIAL", "ROUTING_1"}
             THEN /\ state' = [state EXCEPT ![c] = "ROUTING_1"]
                  /\ sync' = [sync EXCEPT ![c] = @ + 1]
             ELSE state' = [state EXCEPT ![c] = s] /\ UNCHANGED sync
     \/ UNCHANGED <<state, parked, sync>>
  /\ UNCHANGED <<schedule, editing, line, pending, lineVars, convoyAt>>

SelfDestructAnywhere(c) ==
  /\ Exists(c)
  /\ IF state[c] = "INITIAL" THEN Destroy(c) /\ UNCHANGED parked
     ELSE /\ state' = [state EXCEPT ![c] = "SELF_DESTRUCT"]
          /\ pending' = Cleared({c})
          /\ UNCHANGED <<schedule, homing, editing, line, parked, sync, lineVars, convoyAt>>
(* self_destruct; the command for a convoy in a depot and the depot's own command *)
(* to sell it take it from the depot's list first                            *)
SelfDestruct(c) ==
  /\ Exists(c)
  /\ IF state[c] = "INITIAL"
     THEN Destroy(c) /\ parked' = parked \ {c}
     ELSE /\ state' = [state EXCEPT ![c] = "SELF_DESTRUCT"]
          /\ pending' = Cleared({c})
          /\ UNCHANGED <<schedule, homing, editing, line, parked, sync, lineVars, convoyAt>>

(* The state is set by a command; the window sends it for a convoy that is not *)
(* in its depot, and closes with the convoy                                  *)
EditSchedule(c) ==
  /\ Exists(c) /\ (state[c] \notin {"INITIAL", "SELF_DESTRUCT"} \/ "late" \in Overtaking)
  /\ state' = [state EXCEPT ![c] = "EDIT_SCHEDULE"]
  /\ editing' = [editing EXCEPT ![c] = TRUE]
  /\ UNCHANGED <<schedule, homing, line, pending, parked, sync, lineVars, convoyAt>>

(* set_schedule: a convoy leaves its line if the new schedule is another one *)
SetSchedule(c, s, home) ==
  LET lost == line[c] # None /\ ~Matches(s, lineStops[line[c]])
      changed == lost \/ (line[c] = None /\ ~Matches(s, schedule[c]))
      old == IF line[c] = None THEN schedule[c] ELSE {}
  IN  /\ state[c] # "SELF_DESTRUCT"
      /\ IF lost
         THEN Rejoin(c, None) /\ pending' = Cleared({c})
         ELSE UNCHANGED <<line, pending, lineVars>>
      /\ schedule' = [schedule EXCEPT ![c] = s]
      /\ homing' = [homing EXCEPT ![c] = home]
      /\ convoyAt' = [convoyAt EXCEPT ![c] = IF changed THEN (@ \ old) \cup s ELSE @]
      /\ state' = [state EXCEPT ![c] = IF @ = "INITIAL" THEN @ ELSE "EDIT_SCHEDULE"]
      /\ UNCHANGED <<parked, sync>>
ChangeSchedule(c, s) ==
  /\ Exists(c) /\ SetSchedule(c, s, FALSE)
  /\ editing' = [editing EXCEPT ![c] = FALSE]
(* The window sends it for a convoy that does not go to a depot yet *)
SendToDepot(c) ==
  /\ Exists(c) /\ state[c] \notin {"INITIAL", "EDIT_SCHEDULE"} /\ ~homing[c]
  /\ SetSchedule(c, schedule[c], TRUE)
  /\ UNCHANGED editing

(* set_line, with the update at once.  set_update_line is cleared with the line *)
SetLine(c, l) ==
  /\ Exists(c) /\ l \in lineExists
  /\ state[c] # "SELF_DESTRUCT" \/ "late" \in Overtaking
  /\ TakeSchedule(c, l)
  /\ Rejoin(c, l)
  /\ convoyAt' = [convoyAt EXCEPT ![c] = Unregistered(c)]
  /\ \E same \in Same(c, l) :
       state' = [state EXCEPT ![c] = TakenState(c, same)]
  /\ pending' = Cleared({c})
  /\ editing' = [editing EXCEPT ![c] = FALSE]
  /\ UNCHANGED <<parked, sync>>

CreateLine(l, s) ==
  /\ l \notin lineExists
  /\ lineExists' = lineExists \cup {l}
  /\ lineStops' = [lineStops EXCEPT ![l] = s]
  /\ UNCHANGED <<cnvVars, parked, sync, members, lineAt, convoyAt>>

(* delete_line: its convoys keep their schedules, but are registered nowhere *)
DeleteLine(l) ==
  /\ l \in lineExists
  /\ lineExists' = lineExists \ {l}
  /\ lineStops' = [lineStops EXCEPT ![l] = {}]
  /\ line' = [c \in Convoys |-> IF c \in members[l] THEN None ELSE line[c]]
  /\ pending' = Cleared(members[l])
  /\ members' = [members EXCEPT ![l] = {}]
  /\ lineAt' = [lineAt EXCEPT ![l] = @ \ lineStops[l]]
  /\ convoyAt' = [c \in Convoys |-> IF c \in members[l] THEN convoyAt[c] \ schedule[c] ELSE convoyAt[c]]
  /\ UNCHANGED <<state, schedule, homing, editing, parked, sync>>

(* set_schedule and update_line: convoys in the depot and convoys under edit take *)
(* the schedule at once, the others in their next step                       *)
ChangeLine(l, s) ==
  LET now == {c \in members[l] : state[c] \in {"INITIAL", "EDIT_SCHEDULE"}}
  IN  /\ l \in lineExists
      /\ \A c \in now : ~(homing[c] /\ schedule[c] = {} /\ s # {})
      /\ lineStops' = [lineStops EXCEPT ![l] = s]
      /\ lineAt' = [lineAt EXCEPT ![l] = (@ \ lineStops[l]) \cup (IF members[l] = {} THEN {} ELSE s)]
      /\ schedule' = [c \in Convoys |-> IF c \in now THEN s ELSE schedule[c]]
      /\ homing' = [c \in Convoys |-> IF c \in now THEN homing[c] /\ s # {} ELSE homing[c]]
      /\ pending' = [c \in Convoys |-> IF c \in now THEN None ELSE IF c \in members[l] THEN l ELSE pending[c]]
      /\ UNCHANGED <<state, editing, line, parked, sync, lineExists, members, convoyAt>>

(* set_withdraw for all convoys of a line, or its trimming: the empty ones S are *)
(* to be destroyed.  Withdrawing leaves those in the depot alone, trimming     *)
(* does not, and does not take them from the depot's list                     *)
Withdraw(l, S) ==
  LET inDepot == {c \in S : state[c] = "INITIAL"}
  IN  /\ S \subseteq members[l] /\ S # {}
      /\ IF inDepot = {}
         THEN /\ state' = [c \in Convoys |-> IF c \in S THEN "SELF_DESTRUCT" ELSE state[c]]
              /\ pending' = Cleared(S)
              /\ UNCHANGED <<schedule, homing, editing, line, parked, sync, lineVars, convoyAt>>
         ELSE /\ "trim" \in Overtaking
              /\ \E c \in S : S = {c} /\ Destroy(c) /\ UNCHANGED parked

(* The lineless convoys with one and the same schedule become a new line *)
Unite(l) ==
  \E s \in Schedules \ {{}} :
    LET C == {c \in Convoys : Exists(c) /\ line[c] = None /\ schedule[c] = s}
    IN  /\ l \notin lineExists /\ Cardinality(C) > 1
        /\ lineExists' = lineExists \cup {l}
        /\ lineStops' = [lineStops EXCEPT ![l] = s]
        /\ line' = [c \in Convoys |-> IF c \in C THEN l ELSE line[c]]
        /\ members' = [members EXCEPT ![l] = C]
        /\ lineAt' = [lineAt EXCEPT ![l] = s]
        /\ convoyAt' = [c \in Convoys |-> IF c \in C THEN convoyAt[c] \ s ELSE convoyAt[c]]
        /\ \E R \in SUBSET {c \in C : state[c] # "INITIAL" /\ ~homing[c]} :
             state' = [c \in Convoys |-> IF c \in R THEN "EDIT_SCHEDULE" ELSE state[c]]
        /\ UNCHANGED <<schedule, homing, editing, pending, parked, sync>>

-----------------------------------------------------------------------------
(* The clock *)

(* step: first the line's new schedule, then what the state calls for.  A convoy that *)
(* is to be destroyed is, and an empty one that is withdrawn after its stop   *)
Step(c) ==
  LET l == pending[c]
      update == l # None
      stops == IF update THEN lineStops[l] ELSE schedule[c]
      home == IF update THEN KeepsDepot(c, l) ELSE homing[c]
  IN  /\ Exists(c) /\ (update => UpdateIsDefined(c, l))
      /\ \E same \in IF update THEN Same(c, l) ELSE {TRUE} :
           LET s == TakenState(c, same)
               arrives == IF s = "EDIT_SCHEDULE" /\ ~editing[c] /\ home THEN {"INITIAL"} ELSE {}
           IN  \/ s \in {"SELF_DESTRUCT", "LOADING"} /\ Destroy(c) /\ UNCHANGED parked
               \/ \E t \in After(s, stops, home, editing[c]) \cup arrives :
                    /\ s # "SELF_DESTRUCT"
                    /\ state' = [state EXCEPT ![c] = t]
                    /\ schedule' = [schedule EXCEPT ![c] = stops]
                    /\ homing' = [homing EXCEPT ![c] = home /\ t # "INITIAL"]
                    /\ pending' = Cleared({c})
                    /\ parked' = IF t \in arrives THEN parked \cup {c} ELSE parked
                    /\ sync' = [sync EXCEPT ![c] = IF t = "INITIAL" THEN Less(@) ELSE @]
                    /\ UNCHANGED <<editing, line, lineVars, convoyAt>>

(* A convoy's step loads all that wait at its stop (request_loading, hat_gehalten): *)
(* another one goes on, or is to be destroyed                                *)
Loaded(c) ==
  /\ state[c] = "LOADING" /\ \E o \in Convoys \ {c} : state[o] = "LOADING"
  /\ \/ state' = [state EXCEPT ![c] = "ROUTING_1"] /\ UNCHANGED pending
     \/ state' = [state EXCEPT ![c] = "SELF_DESTRUCT"] /\ pending' = Cleared({c})
  /\ UNCHANGED <<schedule, homing, editing, line, parked, sync, lineVars, convoyAt>>

(* sync_step: the convoy gets where it goes (ziel_erreicht, betrete_depot) *)
Arrive(c) ==
  /\ state[c] = "DRIVING" /\ sync[c] > 0
  /\ IF homing[c]
     THEN state' = [state EXCEPT ![c] = "INITIAL"] /\ parked' = parked \cup {c}
     ELSE UNCHANGED parked /\ \E s \in {"LOADING", "ROUTING_1"} : state' = [state EXCEPT ![c] = s]
  /\ homing' = [homing EXCEPT ![c] = FALSE]
  /\ UNCHANGED <<schedule, editing, line, pending, sync, lineVars, convoyAt>>

(* sync_step: "in depot, should not be in sync list, remove" *)
Leave(c) ==
  /\ state[c] = "INITIAL" /\ sync[c] > 0
  /\ sync' = [sync EXCEPT ![c] = Less(@)]
  /\ UNCHANGED <<cnvVars, parked, lineVars, convoyAt>>

(* The game is saved, with all updates done, and loaded: lists and registrations *)
(* are made anew, and a convoy that does not match its line looks for another *)
Load ==
  LET update == {c \in Convoys : pending[c] # None}
      stops == [c \in Convoys |-> IF c \in update THEN lineStops[line[c]] ELSE schedule[c]]
      fits(c) ==
        IF line[c] = None \/ Matches(stops[c], lineStops[line[c]]) THEN {line[c]}
        ELSE LET other == {l \in lineExists : Matches(stops[c], lineStops[l])}
             IN  IF other = {} THEN {None} ELSE other
  IN  /\ \A c \in update : UpdateIsDefined(c, pending[c])
      /\ \E R \in SUBSET update :
           /\ \A c \in update : (c \notin R) \in Same(c, pending[c])
           /\ state' = [c \in Convoys |-> TakenState(c, c \notin R)]
      /\ \E f \in [Convoys -> Lines \cup {None}] :
           /\ \A c \in Convoys : f[c] \in fits(c)
           /\ line' = f
           /\ members' = [l \in Lines |-> {c \in Convoys : f[c] = l}]
           /\ lineAt' = [l \in Lines |-> IF \E c \in Convoys : f[c] = l THEN lineStops[l] ELSE {}]
           /\ convoyAt' = [c \in Convoys |-> IF f[c] = None THEN stops[c] ELSE {}]
      /\ schedule' = stops
      /\ homing' = [c \in Convoys |-> /\ state[c] # "INITIAL"
                                      /\ IF c \in update THEN KeepsDepot(c, pending[c]) ELSE homing[c]]
      /\ editing' = [c \in Convoys |-> FALSE]
      /\ pending' = Cleared(Convoys)
      /\ parked' = {c \in Convoys : state[c] = "INITIAL"}
      /\ sync' = [c \in Convoys |-> IF state[c] \in {"NONE", "INITIAL"} THEN 0 ELSE 1]
      /\ UNCHANGED <<lineExists, lineStops>>

Command(c) ==
  \/ Buy(c) \/ (\E o \in Convoys : Copy(c, o)) \/ Start(c) \/ SelfDestruct(c) \/ EditSchedule(c)
  \/ (\E s \in Schedules : ChangeSchedule(c, s)) \/ SendToDepot(c) \/ \E l \in Lines : SetLine(c, l)
LineCommand(l) ==
  \/ (\E s \in Schedules : CreateLine(l, s) \/ ChangeLine(l, s))
  \/ DeleteLine(l) \/ Unite(l) \/ \E S \in SUBSET Convoys : Withdraw(l, S)
Clock(c) == Step(c) \/ Loaded(c) \/ Arrive(c) \/ Leave(c)

Next == (\E c \in Convoys : Command(c) \/ Clock(c)) \/ (\E l \in Lines : LineCommand(l)) \/ Load

Spec == Init /\ [][Next]_vars

-----------------------------------------------------------------------------
(* Properties *)

(* A line knows its convoys, and they know it (delete_line relies on it: it takes *)
(* its convoys off until its list is empty)                                  *)
Members == \A c \in Convoys, l \in Lines : c \in members[l] <=> line[c] = l

(* Goods are routed by what is registered at the stops: a line with convoys is *)
(* registered at the stops it has now and nowhere else, a line without at none *)
LineRegistered == \A l \in Lines : lineAt[l] = IF members[l] = {} THEN {} ELSE lineStops[l]

(* and a convoy only at stops of its schedule, and only if it has no line ("lineless *)
(* convoys serving this stop")                                               *)
RegistrationsTrue ==
  \A c \in Convoys : convoyAt[c] # {} => Exists(c) /\ line[c] = None /\ convoyAt[c] \subseteq schedule[c]

(* Both: who serves a stop is who goods may wait for there                   *)
Registrations == LineRegistered /\ RegistrationsTrue

(* A convoy waits for an update of its own line only, and of one that exists *)
PendingIsOwn == \A c \in Convoys : pending[c] # None => pending[c] = line[c] /\ pending[c] \in lineExists

(* A convoy drives by the schedule of its line, unless it has to take it yet *)
CopyIsCurrent ==
  \A c \in Convoys :
    line[c] # None /\ pending[c] = None /\ state[c] # "SELF_DESTRUCT" => schedule[c] = lineStops[line[c]]

(* No convoy is lost, moved twice or moved after its end: one in the depot is in the *)
(* depot's list, any other in the list of what is moved, once                 *)
KeptTrack ==
  \A c \in Convoys :
    /\ c \in parked <=> state[c] = "INITIAL"
    /\ state[c] # "INITIAL" => sync[c] = IF Exists(c) THEN 1 ELSE 0

(* A convoy that is to be destroyed is not brought back ("Will be executed upon next *)
(* sync step")                                                               *)
DestructionIsFinal ==
  [][\A c \in Convoys : state[c] = "SELF_DESTRUCT" => state'[c] \in {"SELF_DESTRUCT", "NONE"}]_vars
=============================================================================
