-------------------------------- MODULE Schedule --------------------------------
(***************************************************************************)
(* The list of stops of a convoy or of a line (dataobj/schedule.h and .cc), *)
(* and the search for the stop to go on with when a line's list replaces a *)
(* convoy's (convoi_t::check_pending_updates).  A schedule is a record of  *)
(* its entries and of current_stop, which counts from 0; an entry is a     *)
(* place and whether trains leave there by the clock (minimum_loading >    *)
(* 100).                                                                   *)
(***************************************************************************)
EXTENDS Integers, Sequences, SequencesExt, FiniteSetsExt

CONSTANTS
  Depots,      \* the places with a depot
  MaxEntries,  \* 254, the number of entries a schedule may have
  MaxReturn    \* 127, a schedule with fewer entries is given a way back

(* A schedule that is given a way back has room for it: 250 entries at most *)
ASSUME EntriesAssumption ==
  MaxEntries \in Nat \ {0} /\ MaxReturn \in Nat /\ 2 * MaxReturn - 4 <= MaxEntries

Nowhere == "nowhere" \* koord3d::invalid

Entry(p) == [pos |-> p, timed |-> FALSE]
Of(entries, n) == [entries |-> entries, stop |-> n]
Empty == Of(<<>>, 0)

Count(s) == Len(s.entries)
PosAt(s, i) == s.entries[(i % Count(s)) + 1].pos
Current(s) == IF s.stop < Count(s) THEN PosAt(s, s.stop) ELSE Nowhere
Places(s) == {s.entries[i].pos : i \in DOMAIN s.entries}
StopValid(s) == s.stop < Count(s) \/ s = Empty

(* set_current_stop, make_current_stop_valid *)
SetStop(s, n) ==
  [s EXCEPT !.stop = IF Count(s) = 0 THEN 0 ELSE IF n >= Count(s) THEN Count(s) - 1 ELSE n]

(* advance: past all entries of a place that are served by the clock *)
Advance(s) ==
  LET n == Count(s)
      other == {k \in 1..(n - 1) : PosAt(s, s.stop + k) # Current(s)}
      first == CHOOSE k \in other : \A j \in other : k <= j
  IN  IF n = 0 THEN s
      ELSE IF ~s.entries[s.stop + 1].timed THEN [s EXCEPT !.stop = (@ + 1) % n]
      ELSE IF other = {} THEN s
      ELSE [s EXCEPT !.stop = (@ + first) % n]

Insert(s, e) ==
  IF Count(s) >= MaxEntries THEN s
  ELSE SetStop([s EXCEPT !.entries = InsertAt(@, s.stop + 1, e)], s.stop + 1)
Added(s, e) ==
  IF Count(s) >= MaxEntries THEN s ELSE [s EXCEPT !.entries = Append(@, e)]

RemoveEntryStale(s, i) == [s EXCEPT !.entries = RemoveAt(@, i + 1)]

(* remove: the current entry; remove_entry: any *)
RemoveCurrent(s) == IF Count(s) = 0 THEN s ELSE SetStop([s EXCEPT !.entries = RemoveAt(@, s.stop + 1)], s.stop)
RemoveEntry(s, i) ==
  SetStop([s EXCEPT !.entries = RemoveAt(@, i + 1)], IF s.stop > i THEN s.stop - 1 ELSE s.stop)

ExchangedOnly(stop, i, j) == IF stop = i THEN j ELSE stop

(* move_entry_forward, move_entry_backward: with the next or the previous, the *)
(* last with all others                                                      *)
Swap(s, i, j) == [s EXCEPT ![i + 1] = s[j + 1], ![j + 1] = s[i + 1]]
Exchanged(stop, i, j) == IF stop = i THEN j ELSE IF stop = j THEN i ELSE stop
MoveForward(s, i) ==
  LET n == Count(s)
  IN  IF n <= 1 THEN s
      ELSE IF i = n - 1 THEN Of(<<Last(s.entries)>> \o Front(s.entries), (s.stop + 1) % n)
      ELSE Of(Swap(s.entries, i, i + 1), Exchanged(s.stop, i, i + 1))
MoveBackward(s, i) ==
  LET n == Count(s)
  IN  IF n <= 1 THEN s
      ELSE IF i = 0 THEN Of(Append(Tail(s.entries), Head(s.entries)), (s.stop - 1 + n) % n)
      ELSE Of(Swap(s.entries, i, i - 1), Exchanged(s.stop, i, i - 1))

RemoveDoubleFromFront(s) ==
  LET step(kept, e) == IF kept # <<>> /\ e.pos = Last(kept).pos THEN kept ELSE Append(kept, e)
  IN  [s EXCEPT !.entries = FoldLeft(step, <<>>, @)]

(* remove_double_entries: one entry after the other, each against the place     *)
(* before it.  What is left of the first k entries.  No entry is nowhere here, *)
(* so that branch is left out                                                *)
RemoveDouble(s) ==
  LET n == Count(s)
      same(k) == s.entries[k].pos = s.entries[IF k = 1 THEN n ELSE k - 1].pos
      left[k \in 0..n] ==
        IF k = 0 THEN Of(<<>>, s.stop)
        ELSE IF ~same(k) THEN [left[k - 1] EXCEPT !.entries = Append(@, s.entries[k])]
        ELSE [left[k - 1] EXCEPT !.stop = IF Count(left[k - 1]) < @ THEN @ - 1 ELSE @]
  IN  IF n < 2 THEN s ELSE left[n]
MakeValid(s) ==
  LET r == RemoveDouble(s)
  IN  SetStop(IF Count(r) = 1 THEN [r EXCEPT !.entries = <<>>] ELSE r, r.stop)

(* add_return_way: the way back is added, or the order is reversed *)
AddReturnWay(s, mirror) ==
  IF Count(s) <= 1 THEN s
  ELSE IF ~mirror THEN [s EXCEPT !.entries = Reverse(@)]
  ELSE IF Count(s) < MaxReturn THEN [s EXCEPT !.entries = @ \o Reverse(SubSeq(@, 2, Count(s) - 1))]
  ELSE s

(* matches: two indices run over both lists, and past any depot *)
Matches(a, b) ==
  LET m == Count(a)
      n == Count(b)
      depot(s, i) == i < Count(s) /\ PosAt(s, i) \in Depots
      meets[i \in 0..m, j \in 0..n] ==
        IF i = m /\ j = n THEN TRUE
        ELSE IF i < m /\ j < n /\ PosAt(a, i) = PosAt(b, j) THEN meets[i + 1, j + 1]
        ELSE LET i2 == IF depot(a, i) THEN i + 1 ELSE i
                 j2 == IF depot(b, j) THEN j + 1 ELSE j
             IN  <<i, j>> # <<i2, j2>> /\ meets[i2, j2]
  IN  m > 0 /\ n > 0 /\ meets[0, 0]

-----------------------------------------------------------------------------
(* check_pending_updates: where a convoy goes on in the new schedule of its   *)
(* line.  matches_halt is the equality of places: a halt has one place here   *)

(* the entry the convoy goes to and the three after it: s is its schedule     *)
(* without the depot it was sent to, n what current_stop was before           *)
Ahead(s, n) == <<Current(s), PosAt(s, n + 1), PosAt(s, n + 2), PosAt(s, n + 3)>>
Weight == <<3, 4, 2, 1>>
Agree(ahead, new, i) == {k \in 1..4 : ahead[k] = PosAt(new, i + k - 1)}
Quality(ahead, new, i) ==
  LET worth(k) == IF k \in Agree(ahead, new, i) THEN Weight[k] ELSE 0
  IN  worth(1) + worth(2) + worth(3) + worth(4)
BestStop(ahead, new) ==
  LET I == 0..(Count(new) - 1)
      q[i \in I] == Quality(ahead, new, i)
      best == CHOOSE i \in I : /\ \A j \in I : q[j] <= q[i]
                               /\ \A j \in 0..(i - 1) : q[j] < q[i]
  IN  IF q[best] = 0 THEN new.stop
      ELSE (best + Min(Agree(ahead, new, best)) - 1) % Count(new)

(* Without a further entry than the depot the code divides by zero *)
UpdateIsDefined(old, new) ==
  Count(old) = 1 /\ Count(new) > 0 /\ Current(old) \in Depots => PosAt(new, 0) = Current(old)

(* The depot is restored behind the stop after it: current_stop is not put back *)
UpdatedPastDepot(old, new) ==
  LET left == IF Current(old) \in Depots THEN RemoveCurrent(old) ELSE old
      fresh == SetStop(new, BestStop(Ahead(left, old.stop), new))
  IN  [sched |-> IF Current(old) \in Depots THEN Insert(fresh, Entry(Current(old))) ELSE fresh,
       same |-> TRUE]

(* What a convoy gets: its schedule, and whether it still goes where it went *)
Updated(old, new) ==
  LET depot == Current(old) \in Depots
      left == IF depot THEN RemoveCurrent(old) ELSE old
      fresh == SetStop(new, BestStop(Ahead(left, old.stop), new))
      back == Insert(fresh, Entry(Current(old)))
  IN  IF Count(old) = 0 \/ Count(new) = 0 THEN [sched |-> SetStop(new, 0), same |-> FALSE]
      ELSE IF old.stop < Count(new) /\ PosAt(new, old.stop) = Current(old)
      THEN [sched |-> SetStop(new, old.stop), same |-> TRUE]
      ELSE IF depot
      THEN [sched |-> SetStop(back, (back.stop + Count(back) - 1) % Count(back)), same |-> TRUE]
      ELSE [sched |-> fresh, same |-> Current(old) = Current(fresh)]
=============================================================================
