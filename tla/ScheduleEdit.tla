------------------------------ MODULE ScheduleEdit ------------------------------
(***************************************************************************)
(* The schedule of a line is edited in its window (gui/components/          *)
(* gui_schedule.cc), which works on a copy; a convoy of the line drives by *)
(* its own copy, and takes the new schedule over in its next step          *)
(* (simconvoi.cc, simlinemgmt.cc, obj/depot.cc).                           *)
(***************************************************************************)
EXTENDS Schedule

CONSTANTS
  Route,       \* different places: the line serves some of the first of them
  MaxEdits     \* bound: edits of the line

ASSUME RouteAssumption ==
  /\ MaxEdits \in Nat
  /\ Route \in Seq({Route[k] : k \in DOMAIN Route}) /\ Len(Route) <= MaxEntries
  /\ \A k \in DOMAIN Route : Route[k] \notin Depots \cup {Nowhere}
  /\ Nowhere \notin Depots

VARIABLES
  window,      \* the schedule in the window
  line,        \* the schedule of the line
  cnv,         \* the schedule of the convoy
  bound,       \* the convoy belongs to the line
  pending,     \* line_update_pending: the convoy has to take the line's schedule
  edits,       \* number of edits
  last         \* the last operation: its name and the entry it was about

vars == <<window, line, cnv, bound, pending, edits, last>>

Kinds == {"start", "delete", "up", "down", "select", "append", "insert", "clock", "cleanup", "return",
          "close", "drive", "depot", "arrive", "update", "join"}
Stops == {Route[k] : k \in DOMAIN Route}

TypeOK ==
  /\ \A s \in {window, line, cnv} : StopValid(s) /\ Count(s) <= MaxEntries
  /\ bound \in BOOLEAN /\ pending \in BOOLEAN
  /\ edits \in 0..MaxEdits
  /\ last.kind \in Kinds

(* A line, and a convoy of it anywhere on its way *)
Init ==
  /\ \E n \in 2..Len(Route) : \E i, j \in 0..(n - 1) :
       LET first == [k \in 1..n |-> Entry(Route[k])]
       IN  line = Of(first, i) /\ cnv = Of(first, j)
  /\ window = line
  /\ bound = TRUE /\ pending = FALSE
  /\ edits = 0
  /\ last = [kind |-> "start", at |-> 0]

Edit(kind, i, s) ==
  /\ edits < MaxEdits
  /\ window' = s
  /\ edits' = edits + 1
  /\ last' = [kind |-> kind, at |-> i]
  /\ UNCHANGED <<line, cnv, bound, pending>>

Indices == 0..(Count(window) - 1)
DeleteEntry == \E i \in Indices : Edit("delete", i, RemoveEntry(window, i))
Up == \E i \in Indices : Edit("up", i, MoveBackward(window, i))
Down == \E i \in Indices : Edit("down", i, MoveForward(window, i))
Select == \E i \in Indices : Edit("select", i, SetStop(window, i))
AppendStop == \E p \in Stops : Edit("append", Count(window), Added(window, Entry(p)))
InsertStop == \E p \in Stops : Edit("insert", window.stop, Insert(window, Entry(p)))
ByTheClock ==
  Count(window) > 0 /\ Edit("clock", window.stop, [window EXCEPT !.entries[window.stop + 1].timed = ~@])
(* The button is shown for doubles only; the window puts current_stop right *)
HasDouble == Count(window) > 1 /\ \E i \in Indices : PosAt(window, i) = PosAt(window, i + 1)
Cleanup == HasDouble /\ Edit("cleanup", 0, SetStop(RemoveDouble(window), RemoveDouble(window).stop))
ReturnWay == \E mirror \in BOOLEAN : ~HasDouble /\ Edit("return", 0, AddReturnWay(window, mirror))

(* The window is closed: the line gets the schedule, its convoys have to *)
CloseWindow ==
  /\ window # line
  /\ line' = MakeValid(window) /\ window' = line'
  /\ pending' = bound
  /\ last' = [kind |-> "close", at |-> 0]
  /\ UNCHANGED <<cnv, bound, edits>>

Travel(kind, s) ==
  /\ cnv' = s
  /\ last' = [kind |-> kind, at |-> cnv.stop]
  /\ UNCHANGED <<window, line, edits>>

(* A stop is served *)
Drive == Current(cnv) \notin Depots /\ Travel("drive", Advance(cnv)) /\ UNCHANGED <<bound, pending>>

(* send_to_depot: the depot is put before the current entry.  set_schedule takes *)
(* the convoy off a line that this does not match                            *)
SentTo(s, d) ==
  LET t == Insert(s, Entry(d)) IN SetStop(t, (t.stop + Count(t) - 1) % Count(t))
ToDepotKeepsLine ==
  \E d \in Depots :
    Current(cnv) \notin Depots /\ Travel("depot", SentTo(cnv, d)) /\ pending' = FALSE /\ UNCHANGED bound
ToDepot ==
  \E d \in Depots :
    /\ Current(cnv) \notin Depots /\ Travel("depot", SentTo(cnv, d))
    /\ bound' = (bound /\ Matches(SentTo(cnv, d), line))
    /\ pending' = (pending /\ bound')

(* convoi_arrived: the depot's first entry goes *)
Left(s, d) ==
  LET i == CHOOSE k \in 0..(Count(s) - 1) : PosAt(s, k) = d /\ \A j \in 0..(k - 1) : PosAt(s, j) # d
  IN  RemoveCurrent(SetStop(s, i))
ArriveInDepot ==
  Current(cnv) \in Depots /\ Travel("arrive", Left(cnv, Current(cnv))) /\ UNCHANGED <<bound, pending>>

(* check_pending_updates.  A division by zero is not modelled further *)
Update ==
  /\ pending /\ UpdateIsDefined(cnv, line)
  /\ Travel("update", Updated(cnv, line).sched)
  /\ pending' = FALSE /\ UNCHANGED bound

(* A convoy is put on the line, and gets its schedule at once *)
JoinLine ==
  /\ ~bound /\ UpdateIsDefined(cnv, line)
  /\ Travel("join", SetStop(Updated(cnv, line).sched, line.stop))
  /\ bound' = TRUE /\ pending' = FALSE

Next ==
  \/ DeleteEntry \/ Up \/ Down \/ Select \/ AppendStop \/ InsertStop \/ ByTheClock \/ Cleanup \/ ReturnWay
  \/ CloseWindow \/ Drive \/ ToDepot \/ ArriveInDepot \/ Update \/ JoinLine

Spec == Init /\ [][Next]_vars

-----------------------------------------------------------------------------
(* Properties *)

Distinct(s) == \A i, j \in DOMAIN s.entries : i # j => s.entries[i].pos # s.entries[j].pos

(* The window's current stop stays on its entry when others are moved around *)
(* it or taken out                                                           *)
SelectionFollows ==
  [][/\ last'.kind \in {"up", "down"} => Current(window') = Current(window)
     /\ last'.kind = "delete" /\ last'.at # window.stop => Current(window') = Current(window)
     /\ last'.kind = "insert" => Current(window') = Current(window) \/ Count(window) = 0]_vars

(* The schedule a line gets serves no place twice in a row, also from its end to *)
(* its start, and no place is lost but by becoming the only one              *)
CleanIsClean ==
  LET r == MakeValid(window)
  IN  /\ StopValid(r)
      /\ \A i \in 0..(Count(r) - 1) : PosAt(r, i) # PosAt(r, i + 1)
      /\ Count(r) > 0 => Places(r) = Places(window)
      /\ Count(r) = 0 => Cardinality(Places(window)) <= 1

(* The places of a schedule but for the depots *)
Stations(s) == SelectSeq([i \in 1..Count(s) |-> s.entries[i].pos], LAMBDA p : p \notin Depots)
(* A convoy of a line has the stops of the line, unless it has to take them *)
CopyIsCurrent == bound /\ ~pending => Stations(cnv) = Stations(line)

(* A convoy that takes over the edited schedule of its line goes on to where it *)
(* went, and to a depot it was sent to first, if the stop and the one after it *)
(* still follow each other there ("same sequence as in old schedule")        *)
Goal(s) == Current(IF Current(s) \in Depots THEN SetStop(s, (s.stop + 1) % Count(s)) ELSE s)
Follow(s) == {<<PosAt(s, i), PosAt(s, i + 1)>> : i \in 0..(Count(s) - 1)}
Without(s) == IF Current(s) \in Depots THEN RemoveCurrent(s) ELSE s
GoalIsKept ==
  [][last'.kind = "update" =>
     LET old == Without(cnv)
     IN  /\ Distinct(old) /\ Distinct(line) /\ Count(line) < MaxEntries
         /\ Count(old) > 2 /\ <<Current(old), PosAt(old, old.stop + 1)>> \in Follow(line)
         => /\ Current(cnv) \in Depots => Current(cnv') = Current(cnv)
            /\ Goal(cnv') = Goal(cnv)]_vars
==============================================================================
