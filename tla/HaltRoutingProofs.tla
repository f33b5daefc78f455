--------------------------- MODULE HaltRoutingProofs ---------------------------
(***************************************************************************)
(* Proofs about HaltRouting for any stations, lines, schedules and places, *)
(* and whatever happens between two slices of a pass: once step_all has    *)
(* nothing to do, the network is that of the schedules, and goods that     *)
(* wait have a route; a pass that no change overtook loses goods only for  *)
(* a reason.                                                               *)
(***************************************************************************)
EXTENDS HaltRouting, FiniteSetTheorems, TLAPS

(* The lists of stations and lines; a station stands once *)
NetworkType ==
  /\ alle \in Seq(Halts) /\ IsInjective(alle)
  /\ unborn \subseteq Halts \ Standing
  /\ schedule \in [Lines -> UNION {world.schedules[l] : l \in Lines}]
  /\ registered \in [Halts -> SUBSET Lines]
  /\ all_links = [h \in Halts |-> all_links[h]]

(* A pass begins with the first station *)
PassType ==
  /\ behind \in Nat /\ next_halt \in Nat
  /\ status_step \in {Idle, RECONNECTING, REROUTING}
  /\ status_step = Idle => next_halt = 0

RegistrationsTrue == \A h \in Standing : registered[h] = Registered(h)

(* Rebuilding the components leaves what is no station alone: it must have no links *)
OthersUnlinked == \A h \in Halts \ Standing : all_links[h] = Unlinked

(* Stations whose turn was after the last change have the links of the schedules *)
TurnsDone ==
  behind = 0 /\ status_step = RECONNECTING =>
    \A i \in 1..Len(alle) : i <= next_halt => all_links[alle[i]] = Rebuilt(alle[i])

(* When all had their turn, they have the components as well *)
PassDone ==
  behind = 0 /\ status_step \in {Idle, REROUTING} =>
    \A h \in Standing : all_links[h] = AsScheduled[h]

IInv ==
  /\ NetworkType /\ PassType /\ RegistrationsTrue
  /\ Ordinary => OthersUnlinked /\ TurnsDone /\ PassDone

------------------------------------------------------------------------------
(* Operators *)

(* Induction: no set of numbers that holds 0 and every successor misses a number, since the        *)
(* numbers up to it that are missed would be mapped into themselves without reaching it.           *)
LEMMA SetInduction ==
  ASSUME NEW P, 0 \in P, \A n \in Nat : n \in P => n + 1 \in P
  PROVE  \A n \in Nat : n \in P
<1> SUFFICES ASSUME NEW n \in Nat, n \notin P PROVE FALSE
  OBVIOUS
<1> DEFINE S == {m \in 0..n : m \notin P}
           f == [m \in S |-> m - 1]
<1>1. IsFiniteSet(S)
  <2>1. IsFiniteSet(0..n)
    BY FS_Interval
  <2> QED BY <2>1, FS_Subset
<1>2. f \in [S -> S]
  <2> SUFFICES ASSUME NEW m \in S PROVE m - 1 \in S
    OBVIOUS
  <2>1. m # 0 /\ m - 1 \in 0..n
    OBVIOUS
  <2>2. m - 1 \in Nat /\ (m - 1) + 1 = m
    BY <2>1
  <2> QED BY <2>1, <2>2
<1>3. f \in Injection(S, S)
  BY <1>2 DEF Injection, IsInjective
<1>4. f \in Surjection(S, S)
  BY <1>1, <1>3, FS_Injection
<1>5. PICK m \in S : f[m] = n
  <2>1. n \in S
    OBVIOUS
  <2> QED BY <1>4, <2>1 DEF Surjection
<1> QED BY <1>5

(* A recursive function on numbers exists, whatever its steps compute from what they have *)
Iterating(f, start, step) == f = [k \in Nat |-> IF k = 0 THEN start ELSE step[<<k, f[k - 1]>>]]
LEMMA Iterates ==
  ASSUME NEW start, NEW step
  PROVE  \E f : Iterating(f, start, step)
<1> DEFINE Step(k, X) == step[<<k, X>>]
           upto(n, f) == /\ f = [k \in 0..n |-> f[k]]
                         /\ f[0] = start /\ \A k \in 1..n : f[k] = Step(k, f[k - 1])
           Ex == {n \in Nat : \E f : upto(n, f)}
<1> HIDE DEF Step
<1>1. 0 \in Ex
  <2>1. upto(0, [k \in 0..0 |-> start])
    OBVIOUS
  <2> QED BY <2>1
<1>2. ASSUME NEW n \in Nat, n \in Ex PROVE n + 1 \in Ex
  <2> PICK f : upto(n, f)
    BY <1>2
  <2>0. f[0] = start /\ \A k \in 1..n : f[k] = Step(k, f[k - 1])
    OBVIOUS
  <2> DEFINE g == [k \in 0..n + 1 |-> IF k <= n THEN f[k] ELSE Step(n + 1, f[n])]
  <2>1. ASSUME NEW k \in 1..n + 1 PROVE g[k] = Step(k, g[k - 1])
    <3>1. k - 1 \in 0..n /\ g[k - 1] = f[k - 1]
      OBVIOUS
    <3>2. CASE k <= n
      <4>1. k \in 1..n /\ g[k] = f[k]
        BY <3>2
      <4> HIDE DEF g, upto
      <4> QED BY <2>0, <3>1, <4>1
    <3>3. CASE k > n
      <4>1. k = n + 1 /\ k - 1 = n
        BY <3>3
      <4>2. g[k] = Step(n + 1, f[n])
        BY <3>3, <4>1
      <4> HIDE DEF g, upto
      <4> QED BY <3>1, <4>1, <4>2
    <3> QED BY <3>2, <3>3
  <2>2. upto(n + 1, g)
    <3>1. g = [k \in 0..n + 1 |-> g[k]] /\ g[0] = start
      BY <2>0
    <3> HIDE DEF g
    <3> QED BY <2>1, <3>1
  <2> HIDE DEF g, upto
  <2> QED BY <2>2
<1>3. \A n \in Nat : n \in Ex
  <2> HIDE DEF Ex
  <2> QED BY <1>1, <1>2, SetInduction
<1>4. ASSUME NEW n \in Nat, NEW m \in Nat, NEW f, NEW g, upto(n, f), upto(m, g), n <= m
      PROVE  f[n] = g[n]
  <2> DEFINE same == {i \in Nat : i <= n => f[i] = g[i]}
  <2>1. 0 \in same
    BY <1>4
  <2>2. ASSUME NEW i \in Nat, i \in same PROVE i + 1 \in same
    <3> SUFFICES ASSUME i + 1 <= n PROVE f[i + 1] = g[i + 1]
      OBVIOUS
    <3>1. i + 1 \in 1..n /\ i + 1 \in 1..m /\ (i + 1) - 1 = i /\ f[i] = g[i]
      BY <1>4, <2>2
    <3> QED BY <1>4, <3>1
  <2>3. n \in same
    <3> HIDE DEF same
    <3> QED BY <2>1, <2>2, SetInduction
  <2> QED BY <2>3
<1> DEFINE h_(n) == CHOOSE f : upto(n, f)
           F == [n \in Nat |-> h_(n)[n]]
<1>5. \A n \in Nat : upto(n, h_(n))
  <2> HIDE DEF upto
  <2> QED BY <1>3
<1>6. ASSUME NEW n \in Nat PROVE F[n] = IF n = 0 THEN start ELSE Step(n, F[n - 1])
  <2>1. CASE n = 0
    <3>1. F[0] = h_(0)[0]
      OBVIOUS
    <3>2. h_(0)[0] = start
      <4> HIDE DEF h_
      <4> QED BY <1>5
    <3> QED BY <2>1, <3>1, <3>2
  <2>2. CASE n # 0
    <3>1. n - 1 \in Nat
      BY <2>2
    <3>2. upto(n, h_(n)) /\ upto(n - 1, h_(n - 1))
      <4> HIDE DEF upto, h_
      <4> QED BY <1>5, <3>1
    <3>3. h_(n - 1)[n - 1] = h_(n)[n - 1]
      <4>1. upto(n - 1, [k \in 0..n - 1 |-> h_(n)[k]])
        <5>1. h_(n)[0] = start /\ \A k \in 1..n : h_(n)[k] = Step(k, h_(n)[k - 1])
          <6> HIDE DEF h_
          <6> QED BY <3>2
        <5>2. \A k \in 1..n - 1 : k \in 1..n /\ k - 1 \in 0..n - 1
          BY <3>1
        <5> HIDE DEF h_
        <5> QED BY <3>1, <5>1, <5>2
      <4>2. h_(n - 1)[n - 1] = [k \in 0..n - 1 |-> h_(n)[k]][n - 1]
        <5> HIDE DEF upto, h_
        <5> QED BY <3>1, <3>2, <4>1, <1>4
      <4> HIDE DEF h_
      <4> QED BY <3>1, <4>2
    <3>4. h_(n)[n] = Step(n, h_(n)[n - 1])
      <4>1. \A k \in 1..n : h_(n)[k] = Step(k, h_(n)[k - 1])
        <5> HIDE DEF h_
        <5> QED BY <3>2
      <4>2. n \in 1..n
        BY <2>2
      <4> HIDE DEF upto, h_
      <4> QED BY <4>1, <4>2
    <3>5. F[n] = h_(n)[n] /\ F[n - 1] = h_(n - 1)[n - 1]
      <4> HIDE DEF h_
      <4> QED BY <3>1
    <3> HIDE DEF F, h_
    <3> QED BY <2>2, <3>3, <3>4, <3>5
  <2> QED BY <2>1, <2>2
<1>7. F = [n \in Nat |-> F[n]]
  OBVIOUS
<1>8. F = [k \in Nat |-> IF k = 0 THEN start ELSE Step(k, F[k - 1])]
  <2> HIDE DEF F
  <2> QED BY <1>6, <1>7
<1> HIDE DEF F
<1> QED BY <1>8 DEF Step, Iterating

(* A schedule visits no station but those that stand *)
LEMMA KeptWithin ==
  ASSUME NEW S, NEW s \in Seq(S), NEW stations
  PROVE  Kept(s, stations) \in Seq(S) /\ Range(Kept(s, stations)) \subseteq Range(s) \cap stations
<1> DEFINE C == Range(s) \cap stations
           n == Len(s)
           next(k, X) == IF s[k] \in stations THEN Append(X, s[k]) ELSE X
           step == [q \in Nat \X Seq(S) |-> next(q[1], q[2])]
           is(f) == f = [k \in 0..n |-> IF k = 0 THEN <<>> ELSE next(k, f[k - 1])]
           kept == CHOOSE f : is(f)
           good(X) == X \in Seq(S) /\ Range(X) \subseteq C
<1>1. ASSUME NEW X, good(X), NEW k \in 1..n
      PROVE  good(next(k, X))
  <2>1. s[k] \in Range(s) /\ s[k] \in S
    BY DEF Range
  <2>2. X \in Seq(S) /\ Range(X) \subseteq C
    BY <1>1
  <2>3. Append(X, s[k]) \in Seq(S) /\ Len(Append(X, s[k])) = Len(X) + 1
    BY <2>1, <2>2
  <2>4. \A i \in 1..Len(X) + 1 : Append(X, s[k])[i] = IF i <= Len(X) THEN X[i] ELSE s[k]
    BY <2>1, <2>2
  <2>5. Range(Append(X, s[k])) \subseteq Range(X) \cup {s[k]}
    BY <2>2, <2>3, <2>4 DEF Range
  <2> QED BY <2>1, <2>2, <2>3, <2>5
<1>2. good(<<>>)
  BY DEF Range
<1>3. n \in Nat
  OBVIOUS
<1> HIDE DEF good, C, n
<1>4. \E f : is(f)
  <2> PICK f : Iterating(f, <<>>, step)
    <3> HIDE DEF step
    <3> QED BY Iterates
  <2>0. \A k \in Nat : f[k] = IF k = 0 THEN <<>> ELSE step[<<k, f[k - 1]>>]
    <3> HIDE DEF step
    <3> QED BY DEF Iterating
  <2> DEFINE P == {k \in Nat : k <= n => good(f[k])}
             g == [k \in 0..n |-> f[k]]
  <2>1. f[0] = <<>>
    <3> HIDE DEF step
    <3> QED BY <2>0
  <2>2. ASSUME NEW k \in Nat, k < n, good(f[k]) PROVE f[k + 1] = next(k + 1, f[k])
    <3>1. f[k + 1] = step[<<k + 1, f[k]>>]
      <4>1. k + 1 \in Nat /\ k + 1 # 0 /\ (k + 1) - 1 = k
        OBVIOUS
      <4> HIDE DEF step
      <4> QED BY <2>0, <4>1
    <3>2. f[k] \in Seq(S) /\ k + 1 \in Nat
      BY <2>2 DEF good
    <3> HIDE DEF next
    <3> QED BY <3>1, <3>2
  <2>3. 0 \in P
    BY <1>2, <2>1
  <2>4. ASSUME NEW k \in Nat, k \in P PROVE k + 1 \in P
    <3> SUFFICES ASSUME k + 1 <= n PROVE good(f[k + 1])
      OBVIOUS
    <3>1. k < n /\ k <= n /\ k + 1 \in 1..n
      BY <1>3
    <3>2. good(f[k])
      BY <2>4, <3>1
    <3>3. f[k + 1] = next(k + 1, f[k])
      BY <2>2, <3>1, <3>2
    <3> HIDE DEF next
    <3> QED BY <1>1, <3>1, <3>2, <3>3
  <2>5. \A k \in Nat : k \in P
    <3> HIDE DEF P
    <3> QED BY <2>3, <2>4, SetInduction
  <2>6. ASSUME NEW k \in 0..n PROVE g[k] = IF k = 0 THEN <<>> ELSE next(k, g[k - 1])
    <3>1. CASE k = 0
      BY <1>3, <2>1, <3>1
    <3>2. CASE k # 0
      <4>1. k - 1 \in Nat /\ k - 1 < n /\ k - 1 <= n /\ k - 1 \in 0..n /\ (k - 1) + 1 = k
        BY <1>3, <3>2
      <4>2. good(f[k - 1])
        BY <2>5, <4>1
      <4>3. f[(k - 1) + 1] = next((k - 1) + 1, f[k - 1])
        <5> HIDE DEF next
        <5> QED BY <2>2, <4>1, <4>2
      <4>4. f[k] = next(k, f[k - 1]) /\ g[k] = f[k] /\ g[k - 1] = f[k - 1]
        <5> HIDE DEF next
        <5> QED BY <4>1, <4>3
      <4> HIDE DEF next, g
      <4> QED BY <3>2, <4>4
    <3> QED BY <3>1, <3>2
  <2>7. is(g)
    <3>1. g = [k \in 0..n |-> g[k]]
      OBVIOUS
    <3> HIDE DEF g, next
    <3> QED BY <2>6, <3>1
  <2> HIDE DEF is, g
  <2> QED BY <2>7
<1>5. is(kept)
  <2> HIDE DEF is
  <2> QED BY <1>4
<1>6. Kept(s, stations) = kept[n]
  BY DEF Kept, n
<1> DEFINE P == {k \in Nat : k <= n => good(kept[k])}
<1>7. /\ kept[0] = <<>>
      /\ \A k \in 1..n : kept[k] = next(k, kept[k - 1])
  <2> HIDE DEF kept, next
  <2> QED BY <1>3, <1>5
<1> HIDE DEF kept
<1>8. 0 \in P
  BY <1>2, <1>7
<1>9. ASSUME NEW k \in Nat, k \in P PROVE k + 1 \in P
  <2> SUFFICES ASSUME k + 1 <= n PROVE good(kept[k + 1])
    OBVIOUS
  <2>1. k <= n /\ k + 1 \in 1..n /\ (k + 1) - 1 = k
    BY <1>3
  <2>2. good(kept[k])
    BY <1>9, <2>1
  <2>3. kept[k + 1] = next(k + 1, kept[k])
    <3> HIDE DEF next
    <3> QED BY <1>7, <2>1
  <2> HIDE DEF next
  <2> QED BY <1>1, <2>1, <2>2, <2>3
<1>10. \A k \in Nat : k \in P
  <2> HIDE DEF P
  <2> QED BY <1>8, <1>9, SetInduction
<1>11. good(kept[n])
  BY <1>3, <1>10
<1> QED BY <1>6, <1>11 DEF good, C

LEMMA RemoveAtElements ==
  ASSUME NEW S, NEW seq \in Seq(S), NEW i \in 1..Len(seq)
  PROVE  /\ RemoveAt(seq, i) \in Seq(S) /\ Len(RemoveAt(seq, i)) = Len(seq) - 1
         /\ \A j \in 1..Len(seq) - 1 : RemoveAt(seq, i)[j] = IF j < i THEN seq[j] ELSE seq[j + 1]
<1>1. /\ SubSeq(seq, 1, i - 1) \in Seq(S) /\ Len(SubSeq(seq, 1, i - 1)) = i - 1
      /\ \A j \in 1..i - 1 : SubSeq(seq, 1, i - 1)[j] = seq[j]
  OBVIOUS
<1>2. /\ SubSeq(seq, i + 1, Len(seq)) \in Seq(S) /\ Len(SubSeq(seq, i + 1, Len(seq))) = Len(seq) - i
      /\ \A j \in 1..Len(seq) - i : SubSeq(seq, i + 1, Len(seq))[j] = seq[i + j]
  OBVIOUS
<1>3. /\ RemoveAt(seq, i) \in Seq(S) /\ Len(RemoveAt(seq, i)) = i - 1 + (Len(seq) - i)
      /\ \A j \in 1..Len(seq) - 1 :
           RemoveAt(seq, i)[j] = IF j <= i - 1 THEN SubSeq(seq, 1, i - 1)[j]
                                 ELSE SubSeq(seq, i + 1, Len(seq))[j - (i - 1)]
  <2> DEFINE front == SubSeq(seq, 1, i - 1)
             back == SubSeq(seq, i + 1, Len(seq))
  <2>1. RemoveAt(seq, i) = front \o back
    BY DEF RemoveAt
  <2>2. front \in Seq(S) /\ back \in Seq(S) /\ Len(front) = i - 1 /\ Len(back) = Len(seq) - i
    BY <1>1, <1>2
  <2> HIDE DEF front, back
  <2>3. front \o back \in Seq(S) /\ Len(front \o back) = i - 1 + (Len(seq) - i)
    BY <2>2
  <2>4. \A j \in 1..Len(seq) - 1 : (front \o back)[j] = IF j <= i - 1 THEN front[j] ELSE back[j - (i - 1)]
    BY <2>2
  <2> QED BY <2>1, <2>3, <2>4 DEF front, back
<1>4. \A j \in 1..Len(seq) - 1 : j > i - 1 => j - (i - 1) \in 1..Len(seq) - i /\ i + (j - (i - 1)) = j + 1
  OBVIOUS
<1> QED BY <1>1, <1>2, <1>3, <1>4

LEMMA TheOne == \A v : The({v}) = v
BY DEF The

(* Rebuilding the components, with the arcs in their place *)
LEMMA Components ==
  ASSUME NEW links
  PROVE  rebuild_connected_components(links) =
           [x \in Halts |-> IF x \in Standing /\ links[x].component = Undecided
                            THEN Filled(links, x, FirstTo(UndecidedArcs(links), links, x)) ELSE links[x]]
<1> DEFINE filled(arcs) == [x \in Halts |-> IF x \in Standing /\ links[x].component = Undecided
                                            THEN Filled(links, x, FirstTo(arcs, links, x)) ELSE links[x]]
<1>1. rebuild_connected_components(links) = The({filled(arcs) : arcs \in {UndecidedArcs(links)}})
  BY DEF rebuild_connected_components
<1>2. {filled(arcs) : arcs \in {UndecidedArcs(links)}} = {filled(UndecidedArcs(links))}
  <2> HIDE DEF filled
  <2> QED OBVIOUS
<1>3. rebuild_connected_components(links) = filled(UndecidedArcs(links))
  <2> HIDE DEF filled
  <2> QED BY <1>1, <1>2, TheOne
<1> QED BY <1>3

(* The links of the schedules before the components are filled *)
Rebuilding == [h \in Halts |-> IF h \in Standing THEN Rebuilt(h) ELSE Unlinked]

LEMMA ScheduledIs == AsScheduled = rebuild_connected_components(Rebuilding)
<1> DEFINE all(links) == rebuild_connected_components(links)
<1>1. AsScheduled = The({all(links) : links \in {The({Rebuilding})}})
  BY DEF AsScheduled, Rebuilding
<1>2. {all(links) : links \in {The({Rebuilding})}} = {all(Rebuilding)}
  <2> HIDE DEF all
  <2> QED BY TheOne
<1>3. AsScheduled = all(Rebuilding)
  <2> HIDE DEF all
  <2> QED BY <1>1, <1>2, TheOne
<1> QED BY <1>3

(* What is no station keeps no links *)
LEMMA ElsewhereKept ==
  ASSUME NEW links, NEW h \in Halts \ Standing
  PROVE  rebuild_connected_components(links)[h] = links[h]
BY Components

LEMMA ScheduledElsewhere ==
  ASSUME NEW h \in Halts \ Standing
  PROVE  AsScheduled[h] = Unlinked
BY ScheduledIs, ElsewhereKept DEF Rebuilding

(* What the schedules say is the same as long as stations, schedules and registrations are *)
LEMMA SameNetwork ==
  ASSUME UNCHANGED <<alle, schedule, registered>>
  PROVE  AsScheduled' = AsScheduled /\ \A h : Rebuilt(h)' = Rebuilt(h)
<1>1. Standing' = Standing
  BY DEF Standing
<1>2. \A l : Stops(l)' = Stops(l)
  BY <1>1 DEF Stops
<1>4. \A h : Tours(h)' = Tours(h)
  BY <1>2 DEF Tours
<1>5. \A h : Rides(h)' = Rides(h)
  BY <1>4 DEF Rides
<1>6. \A h : IsTransfer(h)' = IsTransfer(h)
  BY <1>4 DEF IsTransfer
<1>7. \A h : Rebuilt(h)' = Rebuilt(h)
  BY <1>5, <1>6 DEF Rebuilt
<1>8. \A links, h : Linked(links, h)' = Linked(links, h)
  BY <1>1 DEF Linked
<1>9. \A links : UndecidedArcs(links)' = UndecidedArcs(links)
  BY <1>1, <1>8 DEF UndecidedArcs
<1>10. \A links, x, component : Filled(links, x, component)' = Filled(links, x, component)
  BY <1>1 DEF Filled
<1>11. \A arcs, links, x : FirstTo(arcs, links, x)' = FirstTo(arcs, links, x)
  BY DEF FirstTo
<1>12. \A links : rebuild_connected_components(links)' = rebuild_connected_components(links)
  BY <1>1, <1>9, <1>10, <1>11 DEF rebuild_connected_components
<1>13. AsScheduled' = AsScheduled
  BY <1>1, <1>7, <1>12 DEF AsScheduled
<1> QED BY <1>7, <1>13

------------------------------------------------------------------------------
(* The steps *)

(* What leaves stations, schedules, links and the pass alone *)
LEMMA Untouched ==
  ASSUME IInv, UNCHANGED <<network, all_links, pass>>
  PROVE  IInv'
<1>1. AsScheduled' = AsScheduled /\ \A h : Rebuilt(h)' = Rebuilt(h)
  BY SameNetwork DEF network
<1>2. NetworkType' /\ PassType'
  BY DEF IInv, NetworkType, PassType, network, pass, Standing
<1>3. RegistrationsTrue'
  BY DEF IInv, RegistrationsTrue, Registered, network, Standing
<1>4. Ordinary' = Ordinary
  BY DEF Ordinary, network
<1>5. Ordinary => OthersUnlinked' /\ TurnsDone' /\ PassDone'
  BY <1>1 DEF IInv, OthersUnlinked, TurnsDone, PassDone, network, pass, Standing
<1> QED BY <1>2, <1>3, <1>4, <1>5 DEF IInv

(* A station's turn: what had its turn before keeps its links, and it has those of the schedules *)
LEMMA ReconnectKeeps ==
  ASSUME IInv, Reconnect
  PROVE  IInv'
<1> DEFINE links == [h \in Halts |-> IF h \in Turn THEN Rebuilt(h) ELSE all_links[h]]
<1>1. AsScheduled' = AsScheduled /\ \A h : Rebuilt(h)' = Rebuilt(h)
  BY SameNetwork DEF Reconnect, network
<1>2. all_links' = IF LastTurn THEN rebuild_connected_components(links) ELSE links
  BY TheOne DEF Reconnect, RebuildTurn
<1>3. Standing' = Standing /\ Standing \subseteq Halts
  BY DEF Reconnect, network, Standing, Range, IInv, NetworkType
<1>4. NetworkType'
  <2>1. all_links' = [h \in Halts |-> all_links'[h]]
    BY <1>2, Components
  <2> QED BY <2>1, <1>3 DEF IInv, NetworkType, Reconnect, network
<1>5. PassType'
  BY DEF IInv, PassType, Reconnect, Starting, Advance, LastTurn, Idle, RECONNECTING, REROUTING
<1>6. RegistrationsTrue'
  BY <1>3 DEF IInv, RegistrationsTrue, Registered, Reconnect, network
<1>7. Ordinary' = Ordinary
  BY DEF Ordinary, Reconnect, network
<1>8. ASSUME Ordinary PROVE OthersUnlinked' /\ TurnsDone' /\ PassDone'
  <2>1. \A h \in Halts \ Standing : links[h] = Unlinked
    BY <1>8, <1>3 DEF IInv, NetworkType, PassType, OthersUnlinked, Turn, Standing, Range
  <2>2. OthersUnlinked'
    <3> HIDE DEF links
    <3>1. \A h \in Halts \ Standing : rebuild_connected_components(links)[h] = links[h]
      BY ElsewhereKept
    <3>2. \A h \in Halts \ Standing : all_links'[h] = Unlinked
      BY <1>2, <2>1, <3>1
    <3> QED BY <1>3, <3>2 DEF OthersUnlinked
  <2>3. ASSUME behind' = 0
        PROVE  \A i \in 1..Len(alle) : i <= next_halt + 1 => links[alle[i]] = Rebuilt(alle[i])
    <3>1. \A i \in 1..Len(alle) : i <= next_halt => all_links[alle[i]] = Rebuilt(alle[i])
      BY <1>8, <2>3 DEF IInv, PassType, TurnsDone, Reconnect, Starting
    <3>2. \A i \in 1..Len(alle) : alle[i] \in Halts
      BY DEF IInv, NetworkType
    <3> QED BY <3>1, <3>2 DEF Turn, IInv, PassType
  <2>4. CASE LastTurn
    <3>1. status_step' = REROUTING
      BY <2>4 DEF Reconnect, Advance
    <3>2. TurnsDone'
      BY <3>1 DEF TurnsDone, REROUTING, RECONNECTING
    <3>3. ASSUME behind' = 0 PROVE links = Rebuilding
      <4>1. \A h \in Standing : links[h] = Rebuilt(h)
        BY <2>3, <3>3, <2>4 DEF Standing, Range, LastTurn, IInv, NetworkType, PassType
      <4> QED BY <4>1, <2>1 DEF Rebuilding
    <3>4. PassDone'
      BY <1>1, <1>2, <1>3, <2>4, <3>3, ScheduledIs DEF PassDone
    <3> QED BY <2>2, <3>2, <3>4
  <2>5. CASE ~LastTurn
    <3>1. status_step' = RECONNECTING /\ next_halt' = next_halt + 1
      BY <2>5 DEF Reconnect, Advance, Starting
    <3>2. PassDone'
      BY <3>1 DEF PassDone, Idle, REROUTING, RECONNECTING
    <3>3. TurnsDone'
      BY <1>1, <1>2, <2>3, <2>5, <3>1 DEF TurnsDone, Reconnect, network
    <3> QED BY <2>2, <3>2, <3>3
  <2> QED BY <2>4, <2>5
<1> QED BY <1>4, <1>5, <1>6, <1>7, <1>8 DEF IInv

(* Rerouting changes no links *)
LEMMA RerouteKeeps ==
  ASSUME IInv, Reroute \/ NothingToStep
  PROVE  IInv'
<1>0. UNCHANGED <<network, all_links, behind>>
  BY DEF Reroute, NothingToStep
<1>1. AsScheduled' = AsScheduled
  BY <1>0, SameNetwork DEF network
<1>2. NetworkType' /\ Standing' = Standing
  BY <1>0 DEF IInv, NetworkType, network, Standing
<1>3. PassType' /\ status_step' \in {Idle, REROUTING}
  BY <1>0 DEF IInv, PassType, Reroute, NothingToStep, Advance, LastTurn, Idle, RECONNECTING, REROUTING
<1>4. RegistrationsTrue'
  BY <1>0 DEF IInv, RegistrationsTrue, Registered, network, Standing
<1>5. Ordinary' = Ordinary
  BY <1>0 DEF Ordinary, network
<1>6. Ordinary => OthersUnlinked' /\ TurnsDone'
  BY <1>0, <1>2, <1>3 DEF IInv, OthersUnlinked, TurnsDone, Idle, REROUTING, RECONNECTING
<1>7. Ordinary => PassDone'
  <2>1. CASE Reroute
    BY <1>0, <1>1, <1>2, <2>1 DEF IInv, PassDone, Reroute
  <2>2. CASE NothingToStep
    BY <1>2, <2>2 DEF PassDone, NothingToStep, Standing, Range
  <2> QED BY <2>1, <2>2
<1> QED BY <1>2, <1>3, <1>4, <1>5, <1>6, <1>7 DEF IInv

(* A new station has no links, and makes a pass due *)
LEMMA BuildKeeps ==
  ASSUME IInv, NEW h \in Halts, Build(h)
  PROVE  IInv'
<1>1. alle' \in Seq(Halts) /\ Standing' = Standing \cup {h} /\ h \notin Standing
  BY DEF IInv, NetworkType, Build, Standing, Range
<1>2. IsInjective(alle')
  BY <1>1 DEF IInv, NetworkType, Build, IsInjective, Standing, Range
<1>3. NetworkType'
  <2>1. unborn' \subseteq Halts \ Standing'
    BY <1>1 DEF IInv, NetworkType, Build
  <2>2. registered' \in [Halts -> SUBSET Lines]
    BY DEF IInv, NetworkType, Build, Registered
  <2> QED BY <1>1, <1>2, <2>1, <2>2 DEF IInv, NetworkType, Build
<1>4. PassType' /\ behind' # 0
  BY DEF IInv, PassType, Build
<1>5. RegistrationsTrue'
  BY <1>1 DEF IInv, RegistrationsTrue, Registered, Build, NetworkType
<1>6. Ordinary' = Ordinary
  BY DEF Ordinary, Build
<1>7. Ordinary => OthersUnlinked'
  BY <1>1 DEF IInv, OthersUnlinked, Build
<1> QED BY <1>3, <1>4, <1>5, <1>6, <1>7 DEF IInv, TurnsDone, PassDone

(* The list closes up over a removed station *)
LEMMA RemovedLeaves ==
  ASSUME IInv, NEW h \in Halts, RemoveHalt(h)
  PROVE  /\ alle' \in Seq(Halts) /\ IsInjective(alle')
         /\ Standing' = Standing \ {h}
<1> PICK i \in DOMAIN alle : alle[i] = h /\ alle' = RemoveAt(alle, i)
  BY DEF RemoveHalt
<1>1. /\ alle \in Seq(Halts) /\ i \in 1..Len(alle)
      /\ \A j, k \in 1..Len(alle) : alle[j] = alle[k] => j = k
  BY DEF IInv, NetworkType, IsInjective
<1>2. /\ alle' \in Seq(Halts) /\ Len(alle') = Len(alle) - 1
      /\ \A j \in 1..Len(alle) - 1 : alle'[j] = IF j < i THEN alle[j] ELSE alle[j + 1]
  BY <1>1, RemoveAtElements
<1>3. \A x \in Standing' : x \in Standing /\ x # h
  <2> SUFFICES ASSUME NEW j \in 1..Len(alle) - 1 PROVE alle'[j] \in Standing /\ alle'[j] # h
    BY <1>2 DEF Standing, Range
  <2>1. CASE j < i
    <3>1. alle'[j] = alle[j] /\ j \in 1..Len(alle) /\ j # i
      BY <1>1, <1>2, <2>1
    <3> QED BY <1>1, <3>1 DEF Standing, Range
  <2>2. CASE j >= i
    <3>1. j + 1 \in 1..Len(alle) /\ j + 1 # i
      BY <1>1, <2>2
    <3> QED BY <1>1, <1>2, <2>2, <3>1 DEF Standing, Range
  <2> QED BY <1>1, <2>1, <2>2
<1>4. ASSUME NEW x \in Standing, x # h PROVE x \in Standing'
  <2>1. PICK j \in 1..Len(alle) : x = alle[j]
    BY <1>1 DEF Standing, Range
  <2>2. CASE j < i
    <3>1. j \in 1..Len(alle) - 1 /\ alle'[j] = x
      BY <1>1, <1>2, <2>1, <2>2
    <3> QED BY <1>2, <3>1 DEF Standing, Range
  <2>3. CASE j > i
    <3>1. j - 1 \in 1..Len(alle) - 1 /\ alle'[j - 1] = x
      BY <1>1, <1>2, <2>1, <2>3
    <3> QED BY <1>2, <3>1 DEF Standing, Range
  <2> QED BY <1>1, <1>4, <2>1, <2>2, <2>3
<1>5. IsInjective(alle')
  BY <1>1, <1>2 DEF IsInjective
<1> QED BY <1>2, <1>3, <1>4, <1>5

(* A removed station leaves the list, without links *)
LEMMA RemoveHaltKeeps ==
  ASSUME IInv, NEW h \in Halts, RemoveHalt(h)
  PROVE  IInv'
<1>1. alle' \in Seq(Halts) /\ IsInjective(alle') /\ Standing' = Standing \ {h}
  BY RemovedLeaves
<1>2. NetworkType'
  <2>1. unborn' \subseteq Halts \ Standing'
    BY <1>1 DEF IInv, NetworkType, RemoveHalt
  <2>2. registered' \in [Halts -> SUBSET Lines]
    BY DEF IInv, NetworkType, RemoveHalt
  <2>3. all_links' = [x \in Halts |-> all_links'[x]]
    BY DEF IInv, NetworkType, RemoveHalt
  <2> QED BY <1>1, <2>1, <2>2, <2>3 DEF IInv, NetworkType, RemoveHalt
<1>3. PassType' /\ behind' # 0
  BY DEF IInv, PassType, RemoveHalt, Changed
<1>4. RegistrationsTrue'
  BY <1>1 DEF IInv, RegistrationsTrue, Registered, RemoveHalt, NetworkType
<1>5. Ordinary' = Ordinary
  BY DEF Ordinary, RemoveHalt
<1>6. Ordinary => OthersUnlinked'
  BY <1>1 DEF IInv, OthersUnlinked, RemoveHalt, NetworkType
<1> QED BY <1>2, <1>3, <1>4, <1>5, <1>6 DEF IInv, TurnsDone, PassDone

(* A line's stops change with its registrations *)
LEMMA ChangeLineKeeps ==
  ASSUME IInv, NEW l \in Lines, ChangeLine(l)
  PROVE  IInv'
<1> PICK s \in world.schedules[l] \ {schedule[l]} :
      /\ schedule' = [schedule EXCEPT ![l] = s]
      /\ registered' = [h \in Halts |-> IF h \in Standing \cap Range(s) THEN registered[h] \cup {l}
                                        ELSE registered[h] \ {l}]
  BY DEF ChangeLine
<1>1. Standing' = Standing
  BY DEF ChangeLine, Standing
<1>2. NetworkType'
  <2>1. registered' \in [Halts -> SUBSET Lines]
    BY DEF IInv, NetworkType
  <2>2. schedule' \in [Lines -> UNION {world.schedules[k] : k \in Lines}]
    BY DEF IInv, NetworkType
  <2> QED BY <1>1, <2>1, <2>2 DEF IInv, NetworkType, ChangeLine
<1>3. PassType' /\ behind' # 0
  BY DEF IInv, PassType, ChangeLine, Changed
<1>4. RegistrationsTrue'
  <2> SUFFICES ASSUME NEW h \in Standing PROVE registered'[h] = Registered(h)'
    BY <1>1 DEF RegistrationsTrue
  <2>1. h \in Halts /\ registered[h] = {k \in Lines : h \in Range(schedule[k])}
    BY DEF IInv, RegistrationsTrue, Registered, NetworkType, Standing, Range
  <2>2. \A k \in Lines : schedule'[k] = IF k = l THEN s ELSE schedule[k]
    BY DEF IInv, NetworkType
  <2> QED BY <2>1, <2>2 DEF Registered
<1>5. Ordinary' = Ordinary
  BY DEF Ordinary, ChangeLine
<1>6. Ordinary => OthersUnlinked'
  BY <1>1 DEF IInv, OthersUnlinked, ChangeLine
<1> QED BY <1>2, <1>3, <1>4, <1>5, <1>6 DEF IInv, TurnsDone, PassDone

(* Loading and public stops change links only, and not in ordinary games *)
LEMMA OtherwiseKeeps ==
  ASSUME IInv, Load \/ \E h \in Halts : MakePublic(h)
  PROVE  IInv'
<1>1. UNCHANGED network /\ ~Ordinary /\ Ordinary' = Ordinary
  BY DEF Load, MakePublic, Ordinary, network
<1>2. PICK links : all_links' = rebuild_connected_components(links)
  BY DEF Load, MakePublic
<1>3. all_links' = [h \in Halts |-> all_links'[h]]
  BY <1>2, Components
<1>4. NetworkType' /\ RegistrationsTrue'
  BY <1>1, <1>3 DEF IInv, NetworkType, RegistrationsTrue, Registered, network, Standing
<1>5. PassType'
  <2>1. CASE Load
    BY <2>1 DEF IInv, PassType, Load, Idle, REROUTING
  <2>2. CASE \E h \in Halts : MakePublic(h)
    <3>1. UNCHANGED pass
      BY <2>2 DEF MakePublic
    <3> QED BY <3>1 DEF IInv, PassType, pass
  <2> QED BY <2>1, <2>2
<1> QED BY <1>1, <1>4, <1>5 DEF IInv

(* Initially the first pass is over *)
LEMMA InitHolds == Init => IInv
<1> SUFFICES ASSUME Init PROVE IInv
  OBVIOUS
<1>1. NetworkType
  <2>1. Standing \subseteq Halts /\ alle \in Seq(Halts)
    BY FirstAssumption DEF Init, Standing, Range
  <2>2. registered \in [Halts -> SUBSET Lines]
    BY DEF Init, Registered
  <2>3. all_links = [h \in Halts |-> all_links[h]]
    BY ScheduledIs, Components DEF Init
  <2> QED BY <2>1, <2>2, <2>3, FirstAssumption DEF NetworkType, Init, Standing
<1>2. PassType
  BY DEF Init, PassType, Idle
<1>3. RegistrationsTrue
  BY <1>1 DEF Init, RegistrationsTrue, NetworkType, Standing, Range
<1>4. OthersUnlinked
  BY ScheduledElsewhere DEF Init, OthersUnlinked
<1>5. TurnsDone /\ PassDone
  BY DEF Init, TurnsDone, PassDone, Idle, RECONNECTING
<1> QED BY <1>1, <1>2, <1>3, <1>4, <1>5 DEF IInv

LEMMA NextKeeps == IInv /\ [Next]_vars => IInv'
<1> SUFFICES ASSUME IInv, [Next]_vars PROVE IInv'
  OBVIOUS
<1>1. CASE StepAll
  BY <1>1, ReconnectKeeps, RerouteKeeps DEF StepAll
<1>2. CASE \E h \in Halts : Build(h) \/ RemoveHalt(h) \/ MakePublic(h)
  BY <1>2, BuildKeeps, RemoveHaltKeeps, OtherwiseKeeps
<1>3. CASE \E l \in Lines : ChangeLine(l)
  BY <1>3, ChangeLineKeeps
<1>4. CASE Load
  BY <1>4, OtherwiseKeeps
<1>5. CASE UNCHANGED <<network, all_links, pass>>
  BY <1>5, Untouched
<1>6. ASSUME NEW h \in Halts, NEW to \in Places, NewGoods(h, to)
      PROVE  UNCHANGED <<network, all_links, pass>>
  BY <1>6 DEF NewGoods
<1>7. ASSUME NEW p \in waiting, NEW l \in Lines, Fetch(p, l)
      PROVE  UNCHANGED <<network, all_links, pass>>
  BY <1>7 DEF Fetch
<1>8. ASSUME NEW c \in aboard, Arrive(c) \/ Restow(c)
      PROVE  UNCHANGED <<network, all_links, pass>>
  BY <1>8 DEF Arrive, Restow
<1>9. CASE UNCHANGED vars
  BY <1>9, Untouched DEF vars
<1> QED BY <1>1, <1>2, <1>3, <1>4, <1>5, <1>6, <1>7, <1>8, <1>9 DEF Next

(* The lists of stations keep their types, no station stands twice, and every pass is between    *)
(* its first and last station; links are those of the schedules as far as a pass has come.        *)
THEOREM LinksSound == Spec => []IInv
BY InitHolds, NextKeeps, PTL DEF Spec

(* Whatever stations are built or removed and whatever lines are changed between the slices of a  *)
(* pass: when step_all has nothing to do, registrations, links and components are those of the    *)
(* schedules.                                                                                     *)
THEOREM LinksAreCurrent == Spec => []LinksCurrent
<1>1. IInv => LinksCurrent
  BY DEF IInv, LinksCurrent, Current, PassDone, RegistrationsTrue
<1> QED BY <1>1, LinksSound, PTL

------------------------------------------------------------------------------
(* Searches *)

(* What a search sees can be computed way by way: a function that does so exists, as for every number of    *)
(* steps there is one up to there, and any two of them agree                                                *)
Computes(f, h, links, live) == f = [k \in Nat |-> IF k = 0 THEN {} ELSE Further(f[k - 1], h, links, live)]

LEMMA WaysExist ==
  ASSUME NEW h, NEW links, NEW live
  PROVE  \E f : Computes(f, h, links, live)
<1> DEFINE Step(X) == Further(X, h, links, live)
           upto(n, f) == /\ f = [k \in 0..n |-> f[k]]
                         /\ f[0] = {} /\ \A k \in 1..n : f[k] = Step(f[k - 1])
           Ex == {n \in Nat : \E f : upto(n, f)}
<1> HIDE DEF Step
<1>1. 0 \in Ex
  <2>1. upto(0, [k \in 0..0 |-> {}])
    OBVIOUS
  <2> QED BY <2>1
<1>2. ASSUME NEW n \in Nat, n \in Ex PROVE n + 1 \in Ex
  <2> PICK f : upto(n, f)
    BY <1>2
  <2>0. f[0] = {} /\ \A k \in 1..n : f[k] = Step(f[k - 1])
    OBVIOUS
  <2> DEFINE g == [k \in 0..n + 1 |-> IF k <= n THEN f[k] ELSE Step(f[n])]
  <2>1. ASSUME NEW k \in 1..n + 1 PROVE g[k] = Step(g[k - 1])
    <3>1. k - 1 \in 0..n /\ g[k - 1] = f[k - 1]
      OBVIOUS
    <3>2. CASE k <= n
      <4>1. k \in 1..n /\ g[k] = f[k]
        BY <3>2
      <4> HIDE DEF g, upto
      <4> QED BY <2>0, <3>1, <4>1
    <3>3. CASE k > n
      <4>1. k = n + 1 /\ k - 1 = n
        BY <3>3
      <4>2. g[k] = Step(f[n])
        BY <3>3, <4>1
      <4> HIDE DEF g, upto
      <4> QED BY <3>1, <4>1, <4>2
    <3> QED BY <3>2, <3>3
  <2>2. upto(n + 1, g)
    <3>1. g = [k \in 0..n + 1 |-> g[k]] /\ g[0] = {}
      BY <2>0
    <3> HIDE DEF g
    <3> QED BY <2>1, <3>1
  <2> HIDE DEF g, upto
  <2> QED BY <2>2
<1>3. \A n \in Nat : n \in Ex
  <2> HIDE DEF Ex
  <2> QED BY <1>1, <1>2, SetInduction
<1>4. ASSUME NEW n \in Nat, NEW m \in Nat, NEW f, NEW g, upto(n, f), upto(m, g), n <= m
      PROVE  f[n] = g[n]
  <2> DEFINE same == {i \in Nat : i <= n => f[i] = g[i]}
  <2>1. 0 \in same
    BY <1>4
  <2>2. ASSUME NEW i \in Nat, i \in same PROVE i + 1 \in same
    <3> SUFFICES ASSUME i + 1 <= n PROVE f[i + 1] = g[i + 1]
      OBVIOUS
    <3>1. i + 1 \in 1..n /\ i + 1 \in 1..m /\ (i + 1) - 1 = i /\ f[i] = g[i]
      BY <1>4, <2>2
    <3> QED BY <1>4, <3>1
  <2>3. n \in same
    <3> HIDE DEF same
    <3> QED BY <2>1, <2>2, SetInduction
  <2> QED BY <2>3
<1> DEFINE h_(n) == CHOOSE f : upto(n, f)
           F == [n \in Nat |-> h_(n)[n]]
<1>5. \A n \in Nat : upto(n, h_(n))
  <2> HIDE DEF upto
  <2> QED BY <1>3
<1>6. ASSUME NEW n \in Nat PROVE F[n] = IF n = 0 THEN {} ELSE Step(F[n - 1])
  <2>1. CASE n = 0
    <3>1. F[0] = h_(0)[0]
      OBVIOUS
    <3>2. h_(0)[0] = {}
      <4> HIDE DEF h_
      <4> QED BY <1>5
    <3> QED BY <2>1, <3>1, <3>2
  <2>2. CASE n # 0
    <3>1. n - 1 \in Nat
      BY <2>2
    <3>2. upto(n, h_(n)) /\ upto(n - 1, h_(n - 1))
      <4> HIDE DEF upto, h_
      <4> QED BY <1>5, <3>1
    <3>3. h_(n - 1)[n - 1] = h_(n)[n - 1]
      <4>1. upto(n - 1, [k \in 0..n - 1 |-> h_(n)[k]])
        <5>1. h_(n)[0] = {} /\ \A k \in 1..n : h_(n)[k] = Step(h_(n)[k - 1])
          <6> HIDE DEF h_
          <6> QED BY <3>2
        <5>2. \A k \in 1..n - 1 : k \in 1..n /\ k - 1 \in 0..n - 1
          BY <3>1
        <5> HIDE DEF h_
        <5> QED BY <3>1, <5>1, <5>2
      <4>2. h_(n - 1)[n - 1] = [k \in 0..n - 1 |-> h_(n)[k]][n - 1]
        <5> HIDE DEF upto, h_
        <5> QED BY <3>1, <3>2, <4>1, <1>4
      <4> HIDE DEF h_
      <4> QED BY <3>1, <4>2
    <3>4. h_(n)[n] = Step(h_(n)[n - 1])
      <4>1. \A k \in 1..n : h_(n)[k] = Step(h_(n)[k - 1])
        <5> HIDE DEF h_
        <5> QED BY <3>2
      <4>2. n \in 1..n
        BY <2>2
      <4> HIDE DEF upto, h_
      <4> QED BY <4>1, <4>2
    <3>5. F[n] = h_(n)[n] /\ F[n - 1] = h_(n - 1)[n - 1]
      <4> HIDE DEF h_
      <4> QED BY <3>1
    <3> HIDE DEF F, h_
    <3> QED BY <2>2, <3>3, <3>4, <3>5
  <2> QED BY <2>1, <2>2
<1>7. F = [n \in Nat |-> F[n]]
  OBVIOUS
<1>8. F = [k \in Nat |-> IF k = 0 THEN {} ELSE Step(F[k - 1])]
  <2> HIDE DEF F
  <2> QED BY <1>6, <1>7
<1> HIDE DEF F
<1> QED BY <1>8 DEF Step, Computes

(* Every way starts over a link of the station and leads nowhere that links do not lead *)
LEMMA WaysWithin ==
  ASSUME NEW h \in Halts, NEW links, NEW live, NEW T, Linked(links, h) \subseteq T,
         \A x \in T : Linked(links, x) \subseteq T
  PROVE  \A w \in Ways(h, links, live) : w.via \in Linked(links, h) /\ w.halt \in T
<1> DEFINE good(X) == \A w \in X : w.via \in Linked(links, h) /\ w.halt \in T
           ways == CHOOSE f : Computes(f, h, links, live)
           P == {k \in Nat : good(ways[k])}
<1>1. ways = [k \in Nat |-> IF k = 0 THEN {} ELSE Further(ways[k - 1], h, links, live)]
  <2>1. Computes(ways, h, links, live)
    BY WaysExist
  <2> HIDE DEF ways
  <2> QED BY <2>1 DEF Computes
<1>2. ASSUME NEW X, good(X) PROVE good(Further(X, h, links, live))
  <2>1. good(Begun(h, links))
    BY DEF Begun, Linked
  <2>2. ASSUME NEW w \in X, w.via \in Linked(links, h), w.halt \in T PROVE good(Continued(w, links))
    BY <2>2 DEF Continued, Linked
  <2> QED BY <1>2, <2>1, <2>2 DEF Further
<1>3. 0 \in P
  <2>1. ways[0] = {}
    <3> HIDE DEF ways
    <3> QED BY <1>1
  <2> HIDE DEF ways
  <2> QED BY <2>1
<1>4. ASSUME NEW k \in Nat, k \in P PROVE k + 1 \in P
  <2>1. ways[k + 1] = Further(ways[k], h, links, live)
    <3> HIDE DEF ways
    <3> QED BY <1>1
  <2> HIDE DEF ways
  <2>2. good(ways[k])
    BY <1>4
  <2>3. good(ways[k + 1])
    <3> HIDE DEF good
    <3> QED BY <2>1, <2>2, <1>2
  <2> QED BY <2>3
<1>5. \A k \in Nat : k \in P
  <2> HIDE DEF P
  <2> QED BY <1>3, <1>4, SetInduction
<1>6. Ways(h, links, live) = ways[Cardinality(Halts) - 1]
  BY DEF Ways, Computes
<1>7. Cardinality(Halts) - 1 \in Nat
  BY FiniteAssumption, FS_CardinalityType, FS_EmptySet
<1> HIDE DEF ways
<1> QED BY <1>5, <1>6, <1>7

(* A route starts over a link and ends where the search was to end *)
LEMMA RoutesLead ==
  ASSUME NEW h \in Halts, NEW T, NEW links, NEW live, NEW r \in Routes(h, T, links, live)
  PROVE  r.via \in Linked(links, h) /\ r.target \in T
<1>1. \A x : Linked(links, x) \subseteq Standing
  BY DEF Linked
<1> QED BY <1>1, WaysWithin DEF Routes

------------------------------------------------------------------------------
(* Routes, in games where no search is resumed after links changed *)

NoneStale == \A game \in Worlds : "stale" \notin game.events

(* Records are what their fields say *)
IsConnection(c) == c = [halt |-> c.halt, weight |-> c.weight, is_transfer |-> c.is_transfer]
IsLink(link) ==
  /\ link = [connections |-> link.connections, is_transfer |-> link.is_transfer, component |-> link.component]
  /\ \A c \in link.connections : IsConnection(c)
IsPacket(p) == p = [at |-> p.at, to |-> p.to, target |-> p.target, via |-> p.via]

Ends(link) == {c.halt : c \in link.connections}

(* Stations whose links were rebuilt after the last change *)
RebuiltNow(h) ==
  behind = 0 /\ (status_step = RECONNECTING => \E i \in 1..Len(alle) : i <= next_halt /\ h = alle[i])
(* Stations whose goods were rerouted after that *)
ReroutedNow(h) ==
  /\ behind = 0 /\ status_step # RECONNECTING
  /\ status_step = REROUTING => \E i \in 1..Len(alle) : i <= next_halt /\ h = alle[i]

Routed(p) == p.via \in Linked(all_links, p.at) /\ p.target \in EndHalts(p.to)

LinkShapes == \A h \in Halts : IsLink(all_links[h])
(* No link leads where the schedules do not *)
LinksWithin == \A h \in Standing : RebuiltNow(h) => Ends(all_links[h]) \subseteq Ends(Rebuilt(h))
Packets == \A p \in waiting : IsPacket(p) /\ p.at \in Standing
PacketsRouted == \A p \in waiting : ReroutedNow(p.at) => Routed(p)
SearchesForget == "stale" \notin world.events /\ explored.links = <<>>

RInv == IInv /\ LinkShapes /\ LinksWithin /\ Packets /\ PacketsRouted /\ SearchesForget

------------------------------------------------------------------------------
(* Links *)

LEMMA RebuiltIsLink == \A h : IsLink(Rebuilt(h))
<1> SUFFICES ASSUME NEW h PROVE IsLink(Rebuilt(h))
  OBVIOUS
<1> DEFINE least(x) == Min({r[2] : r \in {q \in Rides(h) : q[1] = x}})
           ends == {r[1] : r \in Rides(h)}
           found == {[halt |-> x, weight |-> least(x), is_transfer |-> FALSE] : x \in ends}
<1>1. Rebuilt(h) = [connections |-> found, is_transfer |-> IsTransfer(h), component |-> Undecided]
  BY DEF Rebuilt
<1>2. \A c \in found : IsConnection(c)
  <2> HIDE DEF least, ends
  <2> QED BY DEF IsConnection
<1> HIDE DEF found
<1> QED BY <1>1, <1>2 DEF IsLink

LEMMA UnlinkedIsLink == IsLink(Unlinked) /\ Ends(Unlinked) = {}
BY DEF IsLink, Unlinked, Ends

(* Filling the components moves no link *)
LEMMA FilledEnds ==
  ASSUME NEW links, NEW x, NEW component, IsLink(links[x])
  PROVE  IsLink(Filled(links, x, component)) /\ Ends(Filled(links, x, component)) = Ends(links[x])
<1> DEFINE flag(c) == IF c.halt \in Standing THEN links[c.halt].is_transfer ELSE c.is_transfer
           cached(c) == [c EXCEPT !.is_transfer = IF c.halt \in Standing THEN links[c.halt].is_transfer ELSE @]
           all == {cached(c) : c \in links[x].connections}
<1>1. \A c \in links[x].connections : cached(c) = [halt |-> c.halt, weight |-> c.weight, is_transfer |-> flag(c)]
  BY DEF IsLink, IsConnection
<1>2. Filled(links, x, component) = [connections |-> all, is_transfer |-> links[x].is_transfer, component |-> component]
  <2> DEFINE l == links[x]
  <2>1. Filled(links, x, component) = [l EXCEPT !.component = component, !.connections = all]
    BY DEF Filled
  <2>2. l = [connections |-> l.connections, is_transfer |-> l.is_transfer, component |-> l.component]
    BY DEF IsLink
  <2> HIDE DEF l, all
  <2> QED BY <2>1, <2>2 DEF l
<1>3. \A c \in all : IsConnection(c)
  <2> HIDE DEF cached
  <2> QED BY <1>1 DEF IsConnection
<1>4. {c.halt : c \in all} = {c.halt : c \in links[x].connections}
  <2> HIDE DEF cached, flag
  <2> QED BY <1>1
<1> HIDE DEF all
<1> QED BY <1>2, <1>3, <1>4 DEF IsLink, Ends

LEMMA ComponentsEnds ==
  ASSUME NEW links, \A h \in Halts : IsLink(links[h])
  PROVE  \A h \in Halts : /\ IsLink(rebuild_connected_components(links)[h])
                          /\ Ends(rebuild_connected_components(links)[h]) = Ends(links[h])
BY Components, FilledEnds

LEMMA LinkedEnds == \A links, h : Linked(links, h) = Ends(links[h]) \cap Standing
BY DEF Linked, Ends

------------------------------------------------------------------------------
(* Traffic *)

(* A packet that is as it should be *)
Fine(p) == IsPacket(p) /\ p.at \in Standing /\ (ReroutedNow(p.at) => Routed(p))

(* What a packet is with another route *)
LEMMA Redirected ==
  ASSUME NEW p, IsPacket(p), NEW target, NEW via
  PROVE  [p EXCEPT !.target = target, !.via = via] = [at |-> p.at, to |-> p.to, target |-> target, via |-> via]
<1> DEFINE aimed == [p EXCEPT !.target = target]
<1>1. aimed = [at |-> p.at, to |-> p.to, target |-> target, via |-> p.via]
  BY DEF IsPacket
<1>2. [p EXCEPT !.target = target, !.via = via] = [aimed EXCEPT !.via = via]
  OBVIOUS
<1> HIDE DEF aimed
<1>3. [aimed EXCEPT !.via = via] = [at |-> p.at, to |-> p.to, target |-> target, via |-> via]
  BY <1>1
<1> QED BY <1>2, <1>3

LEMMA AllFine == ASSUME RInv PROVE \A p \in waiting : Fine(p)
BY DEF RInv, Packets, PacketsRouted, Fine

LEMMA TrafficKeeps ==
  ASSUME RInv, UNCHANGED <<network, all_links, pass>>,
         \A p \in waiting' : Fine(p), explored'.links = <<>>
  PROVE  RInv'
<1>1. IInv'
  BY Untouched DEF RInv
<1>2. Standing' = Standing /\ alle' = alle /\ world' = world
  BY DEF network, Standing
<1>3. \A h : Rebuilt(h)' = Rebuilt(h)
  BY SameNetwork DEF network
<1>4. \A h : RebuiltNow(h)' = RebuiltNow(h) /\ ReroutedNow(h)' = ReroutedNow(h)
  BY <1>2 DEF RebuiltNow, ReroutedNow, pass
<1>5. LinkShapes' /\ LinksWithin' /\ SearchesForget'
  BY <1>2, <1>3, <1>4 DEF RInv, LinkShapes, LinksWithin, SearchesForget
<1>6. \A p : Routed(p)' = Routed(p)
  BY <1>2 DEF Routed, Linked, EndHalts
<1>7. Packets' /\ PacketsRouted'
  BY <1>2, <1>4, <1>6 DEF Packets, PacketsRouted, Fine
<1> QED BY <1>1, <1>5, <1>7 DEF RInv

(* Whatever a search finds that is not resumed over old links is a route on the links there are *)
LEMMA ExploreForgets ==
  ASSUME SearchesForget, NEW h, NEW to
  PROVE  Explore(h, to).links = <<>>
BY DEF SearchesForget, Explore

LEMMA FoundLead ==
  ASSUME NEW h \in Halts, NEW to, NEW search, search.links = <<>>, NEW r \in Found(h, to, search)
  PROVE  r.via \in Linked(all_links, h) /\ r.target \in EndHalts(to)
<1>1. r \in Routes(h, Destinations(h, to), all_links, Live(all_links))
  BY DEF Found
<1> QED BY <1>1, RoutesLead DEF Destinations

(* A packet that is put to others, with which it may be joined *)
LEMMA PutFine ==
  ASSUME \A q \in waiting : Fine(q), NEW p, IsPacket(p), p.at \in Standing,
         ReroutedNow(p.at) => Routed(p) \/ (p.via = p.at /\ Joins(p))
  PROVE  \A q \in Put(waiting, p) : Fine(q)
<1> DEFINE same == {q \in waiting : q.at = p.at /\ q.to = p.to /\ q.target = p.target}
           joined(q) == [q EXCEPT !.via = IF p.via # p.at THEN p.via ELSE @]
<1>1. Put(waiting, p) = IF same = {} THEN waiting \cup {p} ELSE (waiting \ same) \cup {joined(q) : q \in same}
  BY DEF Put
<1>2. CASE same = {}
  <2>1. Fine(p)
    BY <1>2 DEF Fine, Joins
  <2> HIDE DEF same
  <2> QED BY <1>1, <1>2, <2>1
<1>3. ASSUME NEW q \in same PROVE Fine(joined(q))
  <2>1. q = [at |-> q.at, to |-> q.to, target |-> q.target, via |-> q.via]
    BY DEF Fine, IsPacket
  <2>2. joined(q) = [at |-> q.at, to |-> q.to, target |-> q.target, via |-> IF p.via # p.at THEN p.via ELSE q.via]
    BY <2>1
  <2>3. CASE p.via = p.at
    <3>1. joined(q) = q
      BY <2>1, <2>2, <2>3
    <3> QED BY <3>1
  <2>4. CASE p.via # p.at
    <3>1. ReroutedNow(p.at) => p.via \in Linked(all_links, q.at) /\ q.target \in EndHalts(q.to)
      BY <2>4 DEF Routed
    <3> HIDE DEF joined
    <3> QED BY <2>2, <2>4, <3>1 DEF Fine, IsPacket, Routed
  <2> QED BY <2>3, <2>4
<1>4. CASE same # {}
  <2> HIDE DEF joined
  <2> QED BY <1>1, <1>3, <1>4
<1> QED BY <1>2, <1>4

LEMMA StandingHalts == ASSUME IInv PROVE Standing \subseteq Halts
BY DEF IInv, NetworkType, Standing, Range

LEMMA NewGoodsKeeps ==
  ASSUME RInv, NEW h \in Halts, NEW to \in Places, NewGoods(h, to)
  PROVE  RInv'
<1> PICK r \in search_route(h, to) :
      waiting' = Put(waiting, [at |-> h, to |-> to, target |-> r.target, via |-> r.via])
  BY DEF NewGoods
<1> DEFINE p == [at |-> h, to |-> to, target |-> r.target, via |-> r.via]
<1>1. r \in Routes(h, EndHalts(to), all_links, Everywhere)
  BY DEF search_route
<1>2. Routed(p)
  BY <1>1, RoutesLead DEF Routed
<1>3. IsPacket(p) /\ p.at \in Standing
  BY DEF IsPacket, NewGoods
<1>4. \A q \in waiting' : Fine(q)
  <2> HIDE DEF p
  <2> QED BY <1>2, <1>3, AllFine, PutFine DEF p
<1>5. explored'.links = <<>>
  BY DEF NewGoods, NoSearch
<1> QED BY <1>4, <1>5, TrafficKeeps DEF NewGoods

LEMMA TakeWithin ==
  ASSUME NEW p \in waiting, NEW q, NEW l, Take(p, q, l)
  PROVE  waiting' \subseteq waiting \cup {q}
BY DEF Take

LEMMA FetchKeeps ==
  ASSUME RInv, NEW p \in waiting, NEW l \in Lines, Fetch(p, l)
  PROVE  RInv'
<1>1. Fine(p) /\ p.at \in Standing /\ p.at \in Halts
  BY AllFine, StandingHalts DEF Fine, RInv
<1>2. UNCHANGED <<network, all_links, pass>>
  BY DEF Fetch
<1>3. CASE p.via \in Standing
  <2>1. waiting' \subseteq waiting /\ explored' = explored
    BY <1>3, TakeWithin DEF Fetch
  <2> QED BY <1>2, <2>1, AllFine, TrafficKeeps DEF RInv, SearchesForget
<1>4. CASE p.via \notin Standing
  <2> DEFINE search == Explore(p.at, p.to)
             routes == Found(p.at, p.to, search)
  <2>1. /\ explored' = search
        /\ IF routes = {} THEN waiting' = waiting \ {p} /\ UNCHANGED aboard
           ELSE \E r \in routes : Take(p, [p EXCEPT !.target = r.target, !.via = r.via], l)
    BY <1>4 DEF Fetch
  <2>2. explored'.links = <<>> /\ search.links = <<>>
    BY <2>1, ExploreForgets DEF RInv
  <2>3. CASE routes = {}
    <3>1. waiting' \subseteq waiting
      BY <2>1, <2>3
    <3> QED BY <1>2, <2>2, <3>1, AllFine, TrafficKeeps
  <2>4. CASE routes # {}
    <3> HIDE DEF search
    <3> PICK r \in routes : Take(p, [p EXCEPT !.target = r.target, !.via = r.via], l)
      BY <2>1, <2>4
    <3> DEFINE q == [p EXCEPT !.target = r.target, !.via = r.via]
    <3>1. r.via \in Linked(all_links, p.at) /\ r.target \in EndHalts(p.to)
      BY <1>1, <2>2, FoundLead
    <3>2. q = [at |-> p.at, to |-> p.to, target |-> r.target, via |-> r.via]
      BY <1>1, Redirected DEF Fine
    <3>3. Fine(q)
      <4> HIDE DEF q
      <4> QED BY <1>1, <3>1, <3>2 DEF Fine, IsPacket, Routed
    <3>4. waiting' \subseteq waiting \cup {q}
      BY TakeWithin
    <3> HIDE DEF q
    <3> QED BY <1>2, <2>2, <3>3, <3>4, AllFine, TrafficKeeps
  <2> QED BY <2>3, <2>4
<1> QED BY <1>3, <1>4

LEMMA ArriveKeeps ==
  ASSUME RInv, NEW c \in aboard, Arrive(c) \/ Restow(c)
  PROVE  RInv'
<1>1. UNCHANGED <<network, all_links, pass>>
  BY DEF Arrive, Restow
<1>2. CASE UNCHANGED <<waiting, explored>>
  BY <1>1, <1>2, AllFine, TrafficKeeps DEF RInv, SearchesForget
<1>3. ASSUME NEW h, h \in {c.via} \cup {c.target}, h \in Standing, liefere_an(c, h) PROVE RInv'
  <2> DEFINE p == Arriving(c, h)
             search == Explore(h, c.to)
             routes == Found(h, c.to, search)
  <2>1. p = [at |-> h, to |-> c.to, target |-> c.target, via |-> c.via]
    BY DEF Arriving
  <2>2. h \in Halts
    BY <1>3, StandingHalts DEF RInv
  <2>3. CASE h \in Near[c.to]
    BY <1>2, <1>3, <2>3 DEF liefere_an
  <2>4. CASE h \notin Near[c.to] /\ Joins(p)
    <3>1. waiting' = Put(waiting, p) /\ explored' = explored
      BY <1>3, <2>4 DEF liefere_an
    <3>2. ReroutedNow(h) => h = c.via
      <4> SUFFICES ASSUME ReroutedNow(h), h = c.target PROVE FALSE
        BY <1>3
      <4> PICK q \in waiting : q.at = h /\ q.to = c.to /\ q.target = h
        BY <2>1, <2>4 DEF Joins
      <4>1. Routed(q)
        BY AllFine DEF Fine
      <4> QED BY <2>4, <4>1 DEF Routed, EndHalts
    <3> HIDE DEF p
    <3>3. \A q \in waiting' : Fine(q)
      BY <1>3, <2>1, <2>4, <3>1, <3>2, AllFine, PutFine DEF IsPacket
    <3> QED BY <1>1, <3>1, <3>3, TrafficKeeps DEF RInv, SearchesForget
  <2>5. CASE h \notin Near[c.to] /\ ~Joins(p)
    <3>1. /\ explored' = search
          /\ IF routes = {} THEN waiting' = waiting
             ELSE \E r \in routes : waiting' = Put(waiting, [p EXCEPT !.target = r.target, !.via = r.via])
      BY <1>3, <2>5 DEF liefere_an
    <3>2. explored'.links = <<>> /\ search.links = <<>>
      BY <3>1, ExploreForgets DEF RInv
    <3>3. CASE routes = {}
      BY <1>1, <3>1, <3>2, <3>3, AllFine, TrafficKeeps
    <3>4. CASE routes # {}
      <4> HIDE DEF search, p
      <4> PICK r \in routes : waiting' = Put(waiting, [p EXCEPT !.target = r.target, !.via = r.via])
        BY <3>1, <3>4
      <4> DEFINE q == [p EXCEPT !.target = r.target, !.via = r.via]
      <4>1. r.via \in Linked(all_links, h) /\ r.target \in EndHalts(c.to)
        BY <2>2, <3>2, FoundLead
      <4>2. q = [at |-> h, to |-> c.to, target |-> r.target, via |-> r.via]
        <5>1. IsPacket(p) /\ p.at = h /\ p.to = c.to
          BY <2>1 DEF IsPacket
        <5>2. q = [at |-> p.at, to |-> p.to, target |-> r.target, via |-> r.via]
          BY <5>1, Redirected
        <5> QED BY <5>1, <5>2
      <4> HIDE DEF q
      <4>3. IsPacket(q) /\ q.at \in Standing /\ Routed(q)
        BY <1>3, <4>1, <4>2 DEF IsPacket, Routed
      <4>4. waiting' = Put(waiting, q)
        BY DEF q
      <4>5. \A x \in waiting' : Fine(x)
        BY <4>3, <4>4, AllFine, PutFine
      <4> QED BY <1>1, <3>2, <4>5, TrafficKeeps
    <3> QED BY <3>3, <3>4
  <2> QED BY <2>3, <2>4, <2>5
<1>4. CASE Arrive(c)
  <2>1. CASE {c.target, c.via} \subseteq Standing
    <3> PICK h \in {c.via} \cup ({c.target} \cap Range(Stops(c.line))) : liefere_an(c, h)
      BY <1>4, <2>1 DEF Arrive
    <3> QED BY <1>3, <2>1
  <2>2. CASE ~({c.target, c.via} \subseteq Standing)
    BY <1>2, <1>4, <2>2 DEF Arrive
  <2> QED BY <2>1, <2>2
<1>5. CASE Restow(c)
  BY <1>2, <1>5 DEF Restow
<1> QED BY <1>4, <1>5

------------------------------------------------------------------------------
(* Passes, and changes between their slices *)

(* A station's turn does not touch the others' links, and filling the components moves none *)
LEMMA ReconnectRoutes ==
  ASSUME RInv, Reconnect
  PROVE  RInv'
<1> DEFINE links == [h \in Halts |-> IF h \in Turn THEN Rebuilt(h) ELSE all_links[h]]
<1>1. IInv' /\ IInv
  BY ReconnectKeeps DEF RInv
<1>2. \A h : Rebuilt(h)' = Rebuilt(h)
  BY SameNetwork DEF Reconnect, network
<1>3. all_links' = IF LastTurn THEN rebuild_connected_components(links) ELSE links
  BY TheOne DEF Reconnect, RebuildTurn
<1>4. Standing' = Standing /\ alle' = alle /\ Standing \subseteq Halts
  BY StandingHalts, <1>1 DEF Reconnect, network, Standing
<1>5. \A h \in Halts : IsLink(links[h])
  BY RebuiltIsLink DEF RInv, LinkShapes
<1>6. \A h \in Halts : IsLink(all_links'[h]) /\ Ends(all_links'[h]) = Ends(links[h])
  <2> HIDE DEF links
  <2> QED BY <1>3, <1>5, ComponentsEnds
<1>7. LinkShapes'
  BY <1>6 DEF LinkShapes
<1>8. ASSUME NEW h \in Standing, RebuiltNow(h)' PROVE Ends(links[h]) \subseteq Ends(Rebuilt(h))
  <2>1. PICK i \in 1..Len(alle) : h = alle[i] /\ i <= next_halt + 1
    <3>1. CASE LastTurn
      <4> PICK i \in 1..Len(alle) : h = alle[i]
        BY <1>1 DEF Standing, Range, IInv, NetworkType
      <4> QED BY <1>1, <3>1 DEF LastTurn, IInv, PassType, NetworkType
    <3>2. CASE ~LastTurn
      <4>1. status_step' = RECONNECTING /\ next_halt' = next_halt + 1
        BY <3>2 DEF Reconnect, Advance, Starting
      <4> QED BY <1>4, <1>8, <4>1 DEF RebuiltNow
    <3> QED BY <3>1, <3>2
  <2>2. CASE h \in Turn
    BY <2>2, <1>4
  <2>3. CASE h \notin Turn
    <3>1. i <= next_halt
      BY <1>1, <2>1, <2>3 DEF Turn, IInv, PassType, NetworkType
    <3>2. behind = 0 /\ status_step = RECONNECTING
      BY <1>1, <1>8, <2>1, <3>1 DEF RebuiltNow, Reconnect, Starting, IInv, PassType
    <3>3. RebuiltNow(h)
      BY <2>1, <3>1, <3>2 DEF RebuiltNow
    <3> QED BY <1>4, <2>3, <3>3 DEF RInv, LinksWithin
  <2> QED BY <2>2, <2>3
<1>9. LinksWithin'
  <2> HIDE DEF links
  <2> QED BY <1>2, <1>4, <1>6, <1>8 DEF LinksWithin
<1>10. \A h : ~ReroutedNow(h)'
  BY <1>1 DEF ReroutedNow, Reconnect, Starting, Advance, IInv, PassType, Idle, RECONNECTING, REROUTING
<1>11. Packets' /\ PacketsRouted'
  BY <1>4, <1>10 DEF RInv, Packets, PacketsRouted, Reconnect, goods
<1>12. SearchesForget'
  BY DEF RInv, SearchesForget, Reconnect, Forget, NoSearch, network
<1> QED BY <1>1, <1>7, <1>9, <1>11, <1>12 DEF RInv

(* The goods of a station whose turn it is have routes of the links there are, or are gone *)
LEMMA RerouteRoutes ==
  ASSUME RInv, Reroute
  PROVE  RInv'
<1>1. IInv' /\ IInv
  BY RerouteKeeps DEF RInv
<1>2. UNCHANGED <<network, all_links, behind>>
  BY DEF Reroute
<1>3. \A h : Rebuilt(h)' = Rebuilt(h)
  BY <1>2, SameNetwork DEF network
<1>4. Standing' = Standing /\ alle' = alle /\ world' = world /\ Standing \subseteq Halts
  BY <1>1, <1>2, StandingHalts DEF network, Standing
<1>5. status_step = REROUTING /\ status_step' \in {Idle, REROUTING}
  BY DEF Reroute, Advance, Idle, REROUTING
<1>6. LinkShapes'
  BY <1>2 DEF RInv, LinkShapes
<1>7. LinksWithin'
  BY <1>2, <1>3, <1>4, <1>5 DEF RInv, LinksWithin, RebuiltNow, Idle, RECONNECTING, REROUTING
<1>8. ASSUME NEW h \in Standing, ReroutedNow(h)', h \notin Turn PROVE ReroutedNow(h)
  <2>1. PICK i \in 1..Len(alle) : h = alle[i] /\ i <= next_halt + 1
    <3>1. CASE LastTurn
      <4> PICK i \in 1..Len(alle) : h = alle[i]
        BY <1>1 DEF Standing, Range, IInv, NetworkType
      <4> QED BY <1>1, <3>1 DEF LastTurn, IInv, PassType, NetworkType
    <3>2. CASE ~LastTurn
      <4>1. status_step' = REROUTING /\ next_halt' = next_halt + 1
        BY <1>5, <3>2 DEF Reroute, Advance, Idle, REROUTING
      <4> QED BY <1>4, <1>8, <4>1 DEF ReroutedNow
    <3> QED BY <3>1, <3>2
  <2>2. i <= next_halt
    BY <1>1, <1>8, <2>1 DEF Turn, IInv, PassType, NetworkType
  <2>3. behind = 0
    BY <1>2, <1>8 DEF ReroutedNow
  <2> QED BY <1>5, <2>1, <2>2, <2>3 DEF ReroutedNow, RECONNECTING, REROUTING
<1>9. \A p : Routed(p)' = Routed(p)
  BY <1>2, <1>4 DEF Routed, Linked, EndHalts
<1> DEFINE searching == {p \in waiting : p.at \in Turn /\ p.at \notin Near[p.to]}
<1>10. /\ explored'.links = <<>>
       /\ \A p \in waiting' : \/ p \in waiting /\ p.at \notin Turn
                              \/ IsPacket(p) /\ p.at \in Standing /\ Routed(p)
  <2>1. CASE searching = {}
    <3>1. waiting' = {p \in waiting : p.at \notin Turn} /\ explored' = explored
      BY <2>1 DEF Reroute
    <3> QED BY <3>1 DEF RInv, SearchesForget
  <2>2. CASE searching # {}
    <3> PICK first \in searching :
          /\ explored' = Explore(first.at, first.to)
          /\ \E there \in Reroutings(first.at, first) : waiting' = (waiting \ At(first.at)) \cup there
      BY <2>2 DEF Reroute
    <3> PICK there \in Reroutings(first.at, first) : waiting' = (waiting \ At(first.at)) \cup there
      OBVIOUS
    <3> DEFINE h == first.at
    <3>1. Turn = {h} /\ h \in Standing /\ h \in Halts
      BY <1>4 DEF Turn, RInv, Packets
    <3>2. \A p \in waiting \ At(h) : p.at \notin Turn
      BY <3>1 DEF At
    <3>3. \A p \in there : IsPacket(p) /\ p.at \in Standing /\ Routed(p)
      <4> DEFINE search == Explore(h, first.to)
                 routes(p) == Found(h, p.to, search)
                 routed == {p \in At(h) : h \notin Near[p.to] /\ routes(p) # {}}
                 choices == {g \in [routed -> UNION {routes(p) : p \in routed}] : \A p \in routed : g[p] \in routes(p)}
      <4>1. PICK f \in choices :
              there = {[at |-> h, to |-> p.to, target |-> f[p].target, via |-> f[p].via] : p \in routed}
        BY DEF Reroutings
      <4> SUFFICES ASSUME NEW p \in routed
                   PROVE  LET q == [at |-> h, to |-> p.to, target |-> f[p].target, via |-> f[p].via]
                          IN  IsPacket(q) /\ q.at \in Standing /\ Routed(q)
        BY <4>1
      <4>2. f[p] \in Found(h, p.to, search)
        OBVIOUS
      <4>3. search.links = <<>>
        BY ExploreForgets DEF RInv
      <4>4. f[p].via \in Linked(all_links, h) /\ f[p].target \in EndHalts(p.to)
        <5> HIDE DEF search, h
        <5> QED BY <3>1, <4>2, <4>3, FoundLead
      <4> QED BY <3>1, <4>4 DEF IsPacket, Routed
    <3>4. explored'.links = <<>>
      BY ExploreForgets DEF RInv
    <3> QED BY <3>2, <3>3, <3>4
  <2> QED BY <2>1, <2>2
<1>11. Packets' /\ PacketsRouted'
  <2>1. ASSUME NEW p \in waiting, p.at \notin Turn, ReroutedNow(p.at)' PROVE Routed(p)
    BY <1>8, <2>1 DEF RInv, Packets, PacketsRouted
  <2> QED BY <1>4, <1>9, <1>10, <2>1 DEF RInv, Packets, PacketsRouted
<1>12. SearchesForget'
  BY <1>4, <1>10 DEF RInv, SearchesForget
<1> QED BY <1>1, <1>6, <1>7, <1>11, <1>12 DEF RInv

(* Without stations there are no packets *)
LEMMA NothingRoutes ==
  ASSUME RInv, NothingToStep
  PROVE  RInv'
<1>1. IInv'
  BY RerouteKeeps DEF RInv
<1>2. Standing' = {} /\ Standing = {}
  BY DEF NothingToStep, network, Standing, Range
<1>3. waiting' = waiting /\ \A p \in waiting : IsPacket(p) /\ FALSE
  BY <1>2 DEF RInv, Packets, NothingToStep, goods
<1> QED BY <1>1, <1>2, <1>3
        DEF RInv, LinkShapes, LinksWithin, Packets, PacketsRouted, SearchesForget, NothingToStep, network

(* After a change a pass is due: nothing is rebuilt or rerouted yet *)
LEMMA DueRoutes ==
  ASSUME RInv, IInv', behind' # 0, LinkShapes', Packets', SearchesForget'
  PROVE  RInv'
BY DEF RInv, LinksWithin, PacketsRouted, RebuiltNow, ReroutedNow

LEMMA BuildRoutes ==
  ASSUME RInv, NEW h \in Halts, Build(h)
  PROVE  RInv'
<1>1. IInv' /\ behind' # 0
  <2>1. behind' # 0
    BY DEF Build
  <2> QED BY <2>1, BuildKeeps DEF RInv
<1>2. Standing \subseteq Standing'
  <2>1. alle \in Seq(Halts) /\ alle' = Append(alle, h)
    BY DEF RInv, IInv, NetworkType, Build
  <2>2. \A i \in DOMAIN alle : i \in DOMAIN alle' /\ alle'[i] = alle[i]
    BY <2>1
  <2> QED BY <2>2 DEF Standing, Range
<1>3. LinkShapes' /\ Packets' /\ SearchesForget'
  BY <1>2 DEF RInv, LinkShapes, Packets, SearchesForget, Build, goods
<1> QED BY <1>1, <1>3, DueRoutes

LEMMA RemoveHaltRoutes ==
  ASSUME RInv, NEW h \in Halts, RemoveHalt(h)
  PROVE  RInv'
<1>1. IInv'
  BY RemoveHaltKeeps DEF RInv
<1>2. behind' # 0
  BY DEF RInv, IInv, PassType, RemoveHalt, Changed
<1>3. Standing' = Standing \ {h}
  BY RemovedLeaves DEF RInv
<1>4. LinkShapes'
  BY UnlinkedIsLink DEF RInv, LinkShapes, IInv, NetworkType, RemoveHalt
<1>5. Packets'
  BY <1>3 DEF RInv, Packets, RemoveHalt, At
<1>6. SearchesForget'
  BY DEF RInv, SearchesForget, RemoveHalt, Forget, NoSearch
<1> QED BY <1>1, <1>2, <1>4, <1>5, <1>6, DueRoutes

LEMMA ChangeLineRoutes ==
  ASSUME RInv, NEW l \in Lines, ChangeLine(l)
  PROVE  RInv'
<1>1. IInv'
  BY ChangeLineKeeps DEF RInv
<1>2. behind' # 0
  BY DEF RInv, IInv, PassType, ChangeLine, Changed
<1>3. LinkShapes' /\ Packets' /\ SearchesForget'
  BY DEF RInv, LinkShapes, Packets, SearchesForget, ChangeLine, goods, Standing
<1> QED BY <1>1, <1>2, <1>3, DueRoutes

(* A public stop and what it leads to get all the links that the schedules have for them *)
LEMMA MakePublicRoutes ==
  ASSUME RInv, NEW h \in Halts, MakePublic(h)
  PROVE  RInv'
<1> DEFINE links == [x \in Halts |-> IF x \in {h} \cup {c.halt : c \in Rebuilt(h).connections}
                                     THEN Rebuilt(x) ELSE all_links[x]]
<1>1. IInv' /\ Standing \subseteq Halts
  BY OtherwiseKeeps, StandingHalts DEF RInv
<1>2. UNCHANGED <<network, pass, goods>>
  BY DEF MakePublic
<1>3. all_links' = rebuild_connected_components(links)
  BY TheOne DEF MakePublic
<1>4. \A x \in Halts : IsLink(links[x]) /\ (Ends(links[x]) = Ends(Rebuilt(x)) \/ Ends(links[x]) = Ends(all_links[x]))
  BY RebuiltIsLink DEF RInv, LinkShapes
<1>5. \A x \in Halts : IsLink(all_links'[x]) /\ Ends(all_links'[x]) = Ends(links[x])
  <2> HIDE DEF links
  <2> QED BY <1>3, <1>4, ComponentsEnds
<1> HIDE DEF links
<1>6. Standing' = Standing /\ \A x : Rebuilt(x)' = Rebuilt(x)
  BY <1>2, SameNetwork DEF network, Standing
<1>7. \A x : RebuiltNow(x)' = RebuiltNow(x) /\ ReroutedNow(x)' = ReroutedNow(x) /\ (ReroutedNow(x) => RebuiltNow(x))
  BY <1>2 DEF RebuiltNow, ReroutedNow, pass, network
<1>8. LinkShapes'
  BY <1>5 DEF LinkShapes
<1>9. LinksWithin'
  BY <1>1, <1>4, <1>5, <1>6, <1>7 DEF RInv, LinksWithin
<1>10. ASSUME NEW p \in waiting, ReroutedNow(p.at) PROVE Routed(p)'
  <2>1. p.at \in Standing /\ Routed(p) /\ RebuiltNow(p.at)
    BY <1>7, <1>10 DEF RInv, Packets, PacketsRouted
  <2>2. Ends(all_links[p.at]) \subseteq Ends(all_links'[p.at])
    BY <1>1, <1>4, <1>5, <2>1 DEF RInv, LinksWithin
  <2>3. p.via \in Ends(all_links[p.at]) \cap Standing
    BY <2>1, LinkedEnds DEF Routed
  <2>4. p.via \in Linked(all_links, p.at)'
    BY <1>6, <2>2, <2>3 DEF Linked, Ends
  <2> QED BY <1>6, <2>1, <2>4 DEF Routed, EndHalts
<1>11. Packets' /\ PacketsRouted'
  BY <1>2, <1>6, <1>7, <1>10 DEF RInv, Packets, PacketsRouted, goods
<1>12. SearchesForget'
  BY DEF RInv, SearchesForget, MakePublic, Forget, NoSearch, network
<1> QED BY <1>1, <1>8, <1>9, <1>11, <1>12 DEF RInv

(* Loading begins to reroute from the first station, over links that may be too few *)
LEMMA LoadRoutes ==
  ASSUME RInv, Load
  PROVE  RInv'
<1> DEFINE links == [h \in Halts |-> IF h \in Range(SubSeq(alle, next_halt + 1, Len(alle))) THEN Rebuilt(h)
                                     ELSE Unlinked]
<1>1. IInv' /\ Standing \subseteq Halts
  BY OtherwiseKeeps, StandingHalts DEF RInv
<1>2. UNCHANGED <<network, goods>> /\ status_step' = REROUTING /\ next_halt' = 0
  BY DEF Load
<1>3. all_links' = rebuild_connected_components(links)
  BY TheOne DEF Load
<1>4. \A x \in Halts : IsLink(links[x]) /\ (Ends(links[x]) = Ends(Rebuilt(x)) \/ Ends(links[x]) = {})
  BY RebuiltIsLink, UnlinkedIsLink
<1>5. \A x \in Halts : IsLink(all_links'[x]) /\ Ends(all_links'[x]) = Ends(links[x])
  <2> HIDE DEF links
  <2> QED BY <1>3, <1>4, ComponentsEnds
<1> HIDE DEF links
<1>6. Standing' = Standing /\ \A x : Rebuilt(x)' = Rebuilt(x)
  BY <1>2, SameNetwork DEF network, Standing
<1>7. LinkShapes' /\ LinksWithin'
  BY <1>1, <1>4, <1>5, <1>6 DEF LinkShapes, LinksWithin
<1>8. \A x : ~ReroutedNow(x)'
  BY <1>2 DEF ReroutedNow
<1>9. Packets' /\ PacketsRouted'
  BY <1>2, <1>6, <1>8 DEF RInv, Packets, PacketsRouted, goods
<1>10. SearchesForget'
  BY DEF RInv, SearchesForget, Load, NoSearch, network
<1> QED BY <1>1, <1>7, <1>9, <1>10 DEF RInv

LEMMA InitRoutes == NoneStale /\ Init => RInv
<1> SUFFICES ASSUME NoneStale, Init PROVE RInv
  OBVIOUS
<1>1. IInv /\ Standing \subseteq Halts
  BY InitHolds, StandingHalts
<1>2. \A h \in Halts : IsLink(Rebuilding[h]) /\ (h \in Standing => Ends(Rebuilding[h]) = Ends(Rebuilt(h)))
  BY RebuiltIsLink, UnlinkedIsLink DEF Rebuilding
<1>3. \A h \in Halts : IsLink(all_links[h]) /\ Ends(all_links[h]) = Ends(Rebuilding[h])
  BY <1>2, ScheduledIs, ComponentsEnds DEF Init
<1>4. LinkShapes /\ LinksWithin
  BY <1>1, <1>2, <1>3 DEF LinkShapes, LinksWithin
<1>5. Packets /\ PacketsRouted
  BY DEF Init, Packets, PacketsRouted
<1>6. SearchesForget
  BY DEF NoneStale, Init, SearchesForget, NoSearch
<1> QED BY <1>1, <1>4, <1>5, <1>6 DEF RInv

LEMMA NextRoutes == RInv /\ [Next]_vars => RInv'
<1> SUFFICES ASSUME RInv, [Next]_vars PROVE RInv'
  OBVIOUS
<1>1. CASE StepAll
  BY <1>1, ReconnectRoutes, RerouteRoutes, NothingRoutes DEF StepAll
<1>2. CASE \E h \in Halts : Build(h) \/ RemoveHalt(h) \/ MakePublic(h)
  BY <1>2, BuildRoutes, RemoveHaltRoutes, MakePublicRoutes
<1>3. CASE \E l \in Lines : ChangeLine(l)
  BY <1>3, ChangeLineRoutes
<1>4. CASE Load
  BY <1>4, LoadRoutes
<1>5. CASE \E h \in Halts, to \in Places : NewGoods(h, to)
  BY <1>5, NewGoodsKeeps
<1>6. CASE \E p \in waiting, l \in Lines : Fetch(p, l)
  BY <1>6, FetchKeeps
<1>7. CASE \E c \in aboard : Arrive(c) \/ Restow(c)
  BY <1>7, ArriveKeeps
<1>8. CASE UNCHANGED vars
  BY <1>8, AllFine, TrafficKeeps DEF vars, goods, RInv, SearchesForget
<1> QED BY <1>1, <1>2, <1>3, <1>4, <1>5, <1>6, <1>7, <1>8 DEF Next

(* Whatever is built, removed, changed, made public or loaded between the slices of a pass, as    *)
(* long as no search is resumed over old links: when step_all has nothing to do, every packet     *)
(* that waits has a next stop that a line goes to and a target that serves where it wants to go.  *)
THEOREM RoutesAreHeld == ASSUME NoneStale PROVE Spec => []RoutesHold
<1>1. Init => RInv
  BY NoneStale, InitRoutes
<1>2. RInv => RoutesHold
  BY DEF RInv, RoutesHold, Current, Packets, PacketsRouted, ReroutedNow, Routed, Idle, RECONNECTING, REROUTING
<1> QED BY <1>1, <1>2, NextRoutes, PTL DEF Spec
------------------------------------------------------------------------------
(* Components are never split by what a schedule links *)

LEMMA RegionCloses ==
  ASSUME NEW a \in Halts, NEW arcs, arcs \subseteq Halts \X Halts
  PROVE  /\ a \in Region(arcs, a)
         /\ \A x, y : x \in Region(arcs, a) /\ <<x, y>> \in arcs => y \in Region(arcs, a)
<1> DEFINE next(X) == UNION {{y} \cup {arc[2] : arc \in {q \in arcs : q[1] = y}} : y \in X}
           step == [q \in Nat \X SUBSET Halts |-> next(q[2])]
           is(f) == f = [k \in Nat |-> IF k = 0 THEN {a} ELSE next(f[k - 1])]
           reach == CHOOSE f : is(f)
           N == Cardinality(Halts)
<1>1. ASSUME NEW X \in SUBSET Halts
      PROVE  next(X) \in SUBSET Halts /\ X \subseteq next(X)
  BY <1>1
<1>2. \A X, x, y : x \in X /\ <<x, y>> \in arcs => y \in next(X)
  OBVIOUS
<1>3. \E f : is(f)
  <2> HIDE DEF next
  <2> PICK f : Iterating(f, {a}, step)
    <3> HIDE DEF step
    <3> QED BY Iterates
  <2>0. \A k \in Nat : f[k] = IF k = 0 THEN {a} ELSE step[<<k, f[k - 1]>>]
    <3> HIDE DEF step
    <3> QED BY DEF Iterating
  <2> DEFINE P == {k \in Nat : f[k] \in SUBSET Halts}
  <2>1. f[0] = {a}
    <3> HIDE DEF step
    <3> QED BY <2>0
  <2>2. ASSUME NEW k \in Nat, f[k] \in SUBSET Halts PROVE f[k + 1] = next(f[k])
    <3>1. f[k + 1] = step[<<k + 1, f[k]>>]
      <4>1. k + 1 \in Nat /\ k + 1 # 0 /\ (k + 1) - 1 = k
        OBVIOUS
      <4> HIDE DEF step
      <4> QED BY <2>0, <4>1
    <3>2. k + 1 \in Nat
      OBVIOUS
    <3> QED BY <2>2, <3>1, <3>2
  <2>3. 0 \in P
    BY <2>1
  <2>4. ASSUME NEW k \in Nat, k \in P PROVE k + 1 \in P
    BY <1>1, <2>2, <2>4
  <2>5. \A k \in Nat : k \in P
    <3> HIDE DEF P
    <3> QED BY <2>3, <2>4, SetInduction
  <2>6. ASSUME NEW k \in Nat PROVE f[k] = IF k = 0 THEN {a} ELSE next(f[k - 1])
    <3>1. CASE k # 0
      <4>1. k - 1 \in Nat /\ (k - 1) + 1 = k
        BY <3>1
      <4>2. f[k - 1] \in SUBSET Halts
        BY <2>5, <4>1
      <4>3. f[(k - 1) + 1] = next(f[k - 1])
        BY <2>2, <4>1, <4>2
      <4> QED BY <3>1, <4>1, <4>3
    <3> QED BY <2>1, <3>1
  <2>7. f = [k \in Nat |-> f[k]]
    <3> HIDE DEF step
    <3> QED BY DEF Iterating
  <2> HIDE DEF step
  <2> QED BY <2>6, <2>7
<1>4. is(reach)
  <2> HIDE DEF is
  <2> QED BY <1>3
<1>5. Region(arcs, a) = reach[N]
  BY DEF Region
<1>6. reach[0] = {a} /\ \A k \in Nat : reach[k + 1] = next(reach[k])
  <2>1. \A k \in Nat : reach[k] = IF k = 0 THEN {a} ELSE next(reach[k - 1])
    <3> HIDE DEF reach, next
    <3> QED BY <1>4
  <2>2. \A k \in Nat : k + 1 \in Nat /\ k + 1 # 0 /\ (k + 1) - 1 = k
    OBVIOUS
  <2> HIDE DEF reach, next
  <2> QED BY <2>1, <2>2
<1> HIDE DEF reach, next
<1>7. ASSUME NEW k \in Nat
      PROVE  reach[k] \in SUBSET Halts /\ a \in reach[k]
  <2> DEFINE P == {i \in Nat : reach[i] \in SUBSET Halts /\ a \in reach[i]}
  <2>1. 0 \in P
    BY <1>6
  <2>2. ASSUME NEW i \in Nat, i \in P PROVE i + 1 \in P
    BY <1>1, <1>6, <2>2
  <2>3. \A i \in Nat : i \in P
    <3> HIDE DEF P
    <3> QED BY <2>1, <2>2, SetInduction
  <2> QED BY <2>3
(* It grows with every step, or never again; it cannot outgrow the stations *)
<1>8. ASSUME NEW k \in Nat
      PROVE  /\ IsFiniteSet(reach[k]) /\ Cardinality(reach[k]) \in Nat
             /\ Cardinality(reach[k]) <= N
             /\ reach[k] = reach[k + 1] \/ Cardinality(reach[k]) < Cardinality(reach[k + 1])
  <2>1. /\ reach[k] \in SUBSET Halts /\ reach[k + 1] \in SUBSET Halts
        /\ reach[k] \subseteq reach[k + 1]
    BY <1>1, <1>6, <1>7
  <2>2. IsFiniteSet(reach[k]) /\ Cardinality(reach[k]) <= N /\ IsFiniteSet(reach[k + 1])
    BY <2>1, FiniteAssumption, FS_Subset
  <2>3. /\ Cardinality(reach[k]) <= Cardinality(reach[k + 1])
        /\ Cardinality(reach[k]) = Cardinality(reach[k + 1]) => reach[k] = reach[k + 1]
    BY <2>1, <2>2, FS_Subset
  <2>4. Cardinality(reach[k]) \in Nat /\ Cardinality(reach[k + 1]) \in Nat
    BY <2>2, FS_CardinalityType
  <2> QED BY <2>2, <2>3, <2>4
<1> DEFINE P == {k \in Nat : reach[k + 1] = reach[k] \/ Cardinality(reach[k]) >= k + 1}
<1>9. 0 \in P
  <2>1. Cardinality({a}) = 1
    BY FS_Singleton
  <2> QED BY <1>6, <2>1
<1>10. ASSUME NEW k \in Nat, k \in P PROVE k + 1 \in P
  <2>1. CASE reach[k + 1] = reach[k]
    <3>1. reach[(k + 1) + 1] = next(reach[k + 1]) /\ reach[k + 1] = next(reach[k])
      BY <1>6
    <3> QED BY <2>1, <3>1
  <2>2. CASE reach[k + 1] # reach[k]
    <3>1. Cardinality(reach[k]) >= k + 1
      BY <1>10, <2>2
    <3>2. Cardinality(reach[k]) < Cardinality(reach[k + 1])
      BY <1>8, <2>2
    <3>3. Cardinality(reach[k]) \in Nat /\ Cardinality(reach[k + 1]) \in Nat
      BY <1>8
    <3>4. Cardinality(reach[k + 1]) >= (k + 1) + 1
      BY <3>1, <3>2, <3>3
    <3> QED BY <3>4
  <2> QED BY <2>1, <2>2
<1>11. N \in Nat
  BY FiniteAssumption, FS_CardinalityType
<1>12. N \in P
  <2> HIDE DEF P, N
  <2> QED BY <1>9, <1>10, <1>11, SetInduction
<1>13. reach[N + 1] = reach[N]
  <2>1. ~(Cardinality(reach[N]) >= N + 1)
    <3> HIDE DEF N
    <3> QED BY <1>8, <1>11
  <2> HIDE DEF N
  <2> QED BY <1>12, <2>1
<1> HIDE DEF N
<1>14. reach[N + 1] = next(reach[N])
  BY <1>6, <1>11
<1> QED BY <1>2, <1>5, <1>7, <1>11, <1>13, <1>14

(* The stops that follow a stop are the other ones *)
LEMMA OnwardMembers ==
  ASSUME NEW s \in Seq(Halts), NEW h \in Range(s)
  PROVE  /\ Onward(s, h) \in Seq(Halts) /\ Range(Onward(s, h)) \subseteq Range(s)
         /\ Range(s) \ {h} \subseteq Range(Onward(s, h))
<1> DEFINE i == CHOOSE j \in DOMAIN s : s[j] = h
           after == SubSeq(s, i + 1, Len(s))
           before == SubSeq(s, 1, i - 1)
<1>1. i \in 1..Len(s) /\ s[i] = h
  <2>1. \E j \in DOMAIN s : s[j] = h
    BY DEF Range
  <2> QED BY <2>1
<1>2. Onward(s, h) = after \o before
  BY DEF Onward
<1> HIDE DEF i
<1>3. /\ after \in Seq(Halts) /\ Len(after) = Len(s) - i
      /\ \A j \in 1..Len(s) - i : after[j] = s[i + j]
  BY <1>1
<1>4. /\ before \in Seq(Halts) /\ Len(before) = i - 1
      /\ \A j \in 1..i - 1 : before[j] = s[j]
  BY <1>1
<1> HIDE DEF after, before
<1>5. /\ Len(after \o before) = Len(s) - 1 /\ after \o before \in Seq(Halts)
      /\ \A j \in 1..Len(s) - 1 :
           (after \o before)[j] = IF j <= Len(s) - i THEN after[j] ELSE before[j - (Len(s) - i)]
  <2>1. after \in Seq(Halts) /\ before \in Seq(Halts) /\ Len(after) + Len(before) = Len(s) - 1
    BY <1>1, <1>3, <1>4
  <2>2. Len(after \o before) = Len(after) + Len(before) /\ after \o before \in Seq(Halts)
    BY <2>1
  <2>3. \A j \in 1..Len(after) + Len(before) :
          (after \o before)[j] = IF j <= Len(after) THEN after[j] ELSE before[j - Len(after)]
    BY <2>1
  <2> QED BY <1>3, <2>1, <2>2, <2>3
<1>6. ASSUME NEW j \in 1..Len(s) - 1 PROVE (after \o before)[j] \in Range(s)
  <2>1. CASE j <= Len(s) - i
    <3>1. i + j \in DOMAIN s /\ j \in 1..Len(s) - i
      BY <1>1, <2>1
    <3> QED BY <1>3, <1>5, <2>1, <3>1 DEF Range
  <2>2. CASE ~(j <= Len(s) - i)
    <3>1. j - (Len(s) - i) \in DOMAIN s /\ j - (Len(s) - i) \in 1..i - 1
      BY <1>1, <2>2
    <3> QED BY <1>4, <1>5, <2>2, <3>1 DEF Range
  <2> QED BY <2>1, <2>2
<1>7. ASSUME NEW k \in 1..Len(s), k # i PROVE \E j \in 1..Len(s) - 1 : (after \o before)[j] = s[k]
  <2>1. CASE k > i
    <3>1. /\ k - i \in 1..Len(s) - 1 /\ k - i \in 1..Len(s) - i /\ k - i <= Len(s) - i
          /\ i + (k - i) = k
      BY <1>1, <2>1
    <3>2. (after \o before)[k - i] = s[k]
      BY <1>3, <1>5, <3>1
    <3> QED BY <3>1, <3>2
  <2>2. CASE k < i
    <3>1. /\ k + (Len(s) - i) \in 1..Len(s) - 1 /\ ~(k + (Len(s) - i) <= Len(s) - i)
          /\ (k + (Len(s) - i)) - (Len(s) - i) = k /\ k \in 1..i - 1
      BY <1>1, <2>2
    <3>2. (after \o before)[k + (Len(s) - i)] = s[k]
      BY <1>4, <1>5, <3>1
    <3> QED BY <3>1, <3>2
  <2>3. k > i \/ k < i
    BY <1>1, <1>7
  <2> QED BY <2>1, <2>2, <2>3
<1>8. DOMAIN (after \o before) = 1..Len(s) - 1 /\ DOMAIN s = 1..Len(s)
  BY <1>5
<1>9. Range(after \o before) \subseteq Range(s)
  BY <1>6, <1>8 DEF Range
<1>10. Range(s) \ {h} \subseteq Range(after \o before)
  BY <1>1, <1>7, <1>8 DEF Range
<1> QED BY <1>2, <1>5, <1>9, <1>10

LEMMA RebuiltEnds ==
  \A h, z : z \in Ends(Rebuilt(h)) <=> \E tour \in Tours(h) : z \in Range(tour)
<1> SUFFICES ASSUME NEW h, NEW z
             PROVE  z \in Ends(Rebuilt(h)) <=> \E tour \in Tours(h) : z \in Range(tour)
  OBVIOUS
<1> DEFINE least(x) == Min({r[2] : r \in {q \in Rides(h) : q[1] = x}})
           ends == {r[1] : r \in Rides(h)}
           found == {[halt |-> x, weight |-> least(x), is_transfer |-> FALSE] : x \in ends}
<1>1. Rebuilt(h) = [connections |-> found, is_transfer |-> IsTransfer(h), component |-> Undecided]
  BY DEF Rebuilt
<1>2. Ends(Rebuilt(h)) = ends
  <2>1. Ends(Rebuilt(h)) = {c.halt : c \in found}
    <3> HIDE DEF found
    <3> QED BY <1>1 DEF Ends
  <2>2. {c.halt : c \in found} = ends
    <3> DEFINE made(x) == [halt |-> x, weight |-> least(x), is_transfer |-> FALSE]
    <3>1. \A x : made(x).halt = x
      <4> HIDE DEF least
      <4> QED OBVIOUS
    <3>2. found = {made(x) : x \in ends}
      OBVIOUS
    <3> HIDE DEF made, ends, found
    <3> QED BY <3>1, <3>2
  <2> QED BY <2>1, <2>2
<1>3. z \in ends <=> \E tour \in Tours(h) : z \in Range(tour)
  <2> DEFINE weight(k) == WeightWait + k * WeightHalt
  <2>1. Rides(h) = UNION {{<<tour[k], weight(k)>> : k \in DOMAIN tour} : tour \in Tours(h)}
    BY DEF Rides
  <2> HIDE DEF weight
  <2>2. \A r : r \in Rides(h) <=> \E tour \in Tours(h) : \E k \in DOMAIN tour : r = <<tour[k], weight(k)>>
    BY <2>1
  <2>3. \A tour \in Tours(h) : \A k \in DOMAIN tour : <<tour[k], weight(k)>> \in Rides(h)
    BY <2>2
  <2>4. \A t, u : <<t, u>>[1] = t
    OBVIOUS
  <2>5. \A v : v \in ends <=> \E tour \in Tours(h) : \E k \in DOMAIN tour : v = tour[k]
    <3>1. ASSUME NEW v \in ends PROVE \E tour \in Tours(h) : \E k \in DOMAIN tour : v = tour[k]
      <4> PICK r \in Rides(h) : v = r[1]
        OBVIOUS
      <4> PICK tour \in Tours(h) : \E k \in DOMAIN tour : r = <<tour[k], weight(k)>>
        BY <2>2
      <4> PICK k \in DOMAIN tour : r = <<tour[k], weight(k)>>
        OBVIOUS
      <4>1. v = tour[k]
        BY <2>4
      <4> QED BY <4>1
    <3>2. ASSUME NEW tour \in Tours(h), NEW k \in DOMAIN tour PROVE tour[k] \in ends
      <4>1. <<tour[k], weight(k)>> \in Rides(h) /\ <<tour[k], weight(k)>>[1] = tour[k]
        BY <2>3, <2>4
      <4> QED BY <4>1
    <3> HIDE DEF ends
    <3> QED BY <3>1, <3>2
  <2> QED BY <2>5 DEF Range
<1> QED BY <1>2, <1>3

LEMMA WorldStays == world \in Worlds /\ [Next]_vars => world' = world
BY DEF Next, vars, network, pass, goods, StepAll, Reconnect, Reroute, NothingToStep, Build, RemoveHalt,
       MakePublic, ChangeLine, Load, NewGoods, Fetch, Arrive, Restow

(* Whoever a line takes there is taken back by it *)
LEMMA LinksBothWays ==
  ASSUME IInv, world \in Worlds, NEW x \in Standing, NEW y \in Standing, y \in Ends(Rebuilt(x))
  PROVE  x \in Ends(Rebuilt(y))
<1>1. PICK tour \in Tours(x) : y \in Range(tour)
  BY RebuiltEnds
<1>2. PICK l \in registered[x] : x \in Range(Stops(l)) /\ tour = Onward(Stops(l), x)
  BY DEF Tours
<1>3. registered[x] = Registered(x) /\ registered[y] = Registered(y)
  BY DEF IInv, RegistrationsTrue
<1>4. l \in Lines
  BY <1>2, <1>3 DEF Registered
<1>5. schedule[l] \in Seq(Halts)
  BY <1>4, SchedulesAssumption DEF IInv, NetworkType
<1>6. Stops(l) \in Seq(Halts) /\ Range(Stops(l)) \subseteq Range(schedule[l])
  BY <1>5, KeptWithin DEF Stops
<1>7. y \in Range(Stops(l))
  BY <1>1, <1>2, <1>6, OnwardMembers
<1>8. l \in registered[y]
  BY <1>3, <1>4, <1>6, <1>7 DEF Registered
<1>9. Onward(Stops(l), y) \in Tours(y)
  BY <1>7, <1>8 DEF Tours
<1>10. CASE x = y
  BY <1>10
<1>11. CASE x # y
  <2>1. x \in Range(Onward(Stops(l), y))
    BY <1>2, <1>6, <1>7, <1>11, OnwardMembers
  <2> QED BY <1>9, <2>1, RebuiltEnds
<1> QED BY <1>10, <1>11

LEMMA ComponentsTogether ==
  ASSUME IInv, world \in Worlds, NEW x \in Standing, NEW y \in Standing, y \in Ends(AsScheduled[x])
  PROVE  AsScheduled[x].component = AsScheduled[y].component
<1> DEFINE arcs == UndecidedArcs(Rebuilding)
           from(z) == {i \in DOMAIN alle : Rebuilding[alle[i]].component = Undecided /\ z \in Region(arcs, alle[i])}
<1>1. Standing \subseteq Halts /\ alle \in Seq(Halts)
  BY StandingHalts DEF IInv, NetworkType
<1>2. \A h \in Standing : Rebuilding[h] = Rebuilt(h) /\ Rebuilding[h].component = Undecided
  BY <1>1 DEF Rebuilding, Rebuilt
<1>3. \A h \in Halts : IsLink(Rebuilding[h])
  BY RebuiltIsLink, UnlinkedIsLink DEF Rebuilding
<1>4. y \in Ends(Rebuilt(x)) /\ x \in Ends(Rebuilt(y))
  <2>1. y \in Ends(Rebuilt(x))
    BY <1>1, <1>2, <1>3, ScheduledIs, ComponentsEnds
  <2> QED BY <2>1, LinksBothWays
<1>5. <<x, y>> \in arcs /\ <<y, x>> \in arcs /\ arcs \subseteq Halts \X Halts
  BY <1>1, <1>2, <1>4, LinkedEnds DEF UndecidedArcs
<1> HIDE DEF arcs
<1>6. \A i \in DOMAIN alle : x \in Region(arcs, alle[i]) <=> y \in Region(arcs, alle[i])
  <2>1. \A i \in DOMAIN alle : alle[i] \in Halts
    BY <1>1
  <2> QED BY <1>5, <2>1, RegionCloses
<1>7. from(x) = from(y)
  BY <1>6
<1>8. FirstTo(arcs, Rebuilding, x) = FirstTo(arcs, Rebuilding, y)
  BY <1>7 DEF FirstTo
<1>9. \A h \in Standing : AsScheduled[h].component = FirstTo(arcs, Rebuilding, h)
  <2> SUFFICES ASSUME NEW h \in Standing PROVE AsScheduled[h].component = FirstTo(arcs, Rebuilding, h)
    OBVIOUS
  <2>1. AsScheduled[h] = Filled(Rebuilding, h, FirstTo(arcs, Rebuilding, h))
    BY <1>1, <1>2, ScheduledIs, Components DEF arcs
  <2>2. IsLink(Rebuilding[h])
    BY <1>1, <1>3
  <2>3. Filled(Rebuilding, h, FirstTo(arcs, Rebuilding, h)).component = FirstTo(arcs, Rebuilding, h)
    <3> DEFINE l == Rebuilding[h]
               c == FirstTo(arcs, Rebuilding, h)
               all == {[d EXCEPT !.is_transfer = IF d.halt \in Standing THEN Rebuilding[d.halt].is_transfer ELSE @] :
                         d \in l.connections}
    <3>1. Filled(Rebuilding, h, c) = [l EXCEPT !.component = c, !.connections = all]
      BY DEF Filled
    <3>2. l = [connections |-> l.connections, is_transfer |-> l.is_transfer, component |-> l.component]
      BY <2>2 DEF IsLink
    <3> HIDE DEF l, c, all
    <3>3. [l EXCEPT !.component = c, !.connections = all].component = c
      BY <3>2
    <3> QED BY <3>1, <3>3 DEF c
  <2> QED BY <2>1, <2>3
<1> QED BY <1>8, <1>9

(* Once the links are those of the schedules, a search that is refused other components misses nothing *)
LEMMA NoneMissed ==
  ASSUME IInv, world \in Worlds, Ordinary, behind = 0, status_step = REROUTING,
         NEW h \in Standing, NEW to, Routes(h, Destinations(h, to), all_links, Live(all_links)) = {}
  PROVE  ~Routable(h, to, all_links)
<1> DEFINE live == Live(all_links)
           own == all_links[h].component
           T == {x \in Standing : all_links[x].component = own}
<1>1. \A x \in Standing : all_links[x] = AsScheduled[x]
  BY DEF IInv, PassDone, Idle, REROUTING
<1>2. ASSUME NEW x \in T PROVE Linked(all_links, x) \subseteq T
  <2> SUFFICES ASSUME NEW y \in Linked(all_links, x) PROVE y \in T
    OBVIOUS
  <2>1. y \in Standing /\ y \in Ends(all_links[x]) /\ x \in Standing
    BY LinkedEnds
  <2>2. y \in Ends(AsScheduled[x])
    BY <1>1, <2>1
  <2>3. AsScheduled[x].component = AsScheduled[y].component
    BY <2>1, <2>2, ComponentsTogether
  <2> QED BY <1>1, <2>1, <2>3
<1>3. h \in T /\ h \in Halts
  BY StandingHalts
<1>4. \A w \in Ways(h, all_links, live) : w.halt \in T
  <2>1. Linked(all_links, h) \subseteq T /\ \A x \in T : Linked(all_links, x) \subseteq T
    BY <1>2, <1>3
  <2> HIDE DEF T, live
  <2> QED BY <1>3, <2>1, WaysWithin
<1>5. /\ Destinations(h, to) \subseteq EndHalts(to)
      /\ T \cap EndHalts(to) \subseteq Destinations(h, to)
  BY DEF Destinations
<1> SUFFICES ASSUME Routes(h, EndHalts(to), all_links, live) # {} PROVE FALSE
  BY DEF Routable
<1>6. PICK v \in Ways(h, all_links, live) :
        v.halt \in EndHalts(to) /\ \A u \in Ways(h, all_links, live) : u.halt \in EndHalts(to) => v.weight <= u.weight
  <2> HIDE DEF live
  <2> QED BY DEF Routes
<1>7. v.halt \in Destinations(h, to)
  BY <1>4, <1>5, <1>6
<1>8. [target |-> v.halt, via |-> v.via] \in Routes(h, Destinations(h, to), all_links, live)
  <2> HIDE DEF live
  <2> QED BY <1>5, <1>6, <1>7 DEF Routes
<1> QED BY <1>8

(* Goods that reroute_goods finds a route for are not lost *)
LEMMA RoutedStays ==
  ASSUME RInv, NEW p \in waiting, NEW first, p.at \notin Near[p.to],
         Found(p.at, p.to, Explore(p.at, first.to)) # {}, NEW there \in Reroutings(p.at, first)
  PROVE  \E q \in there : q.at = p.at /\ q.to = p.to
<1> DEFINE h == p.at
           search == Explore(h, first.to)
           routes(q) == Found(h, q.to, search)
           routed == {q \in At(h) : h \notin Near[q.to] /\ routes(q) # {}}
           with(f) == {[at |-> h, to |-> q.to, target |-> f[q].target, via |-> f[q].via] : q \in routed}
<1>1. p \in routed
  BY DEF At
<1>2. \E f : there = with(f)
  BY DEF Reroutings
<1>3. PICK f : there = with(f)
  BY <1>2
<1>4. [at |-> h, to |-> p.to, target |-> f[p].target, via |-> f[p].via] \in there
  <2> HIDE DEF routed, h
  <2> QED BY <1>1, <1>3
<1> QED BY <1>4

LEMMA LossCaused ==
  ASSUME RInv, world \in Worlds, Ordinary, behind = 0, Reroute, NEW p \in waiting, Lost(p)
  PROVE  \/ \E q \in At(p.at) : ~Routable(q.at, q.to, all_links)
         \/ explored.origin = p.at /\ ~explored.started
<1> DEFINE h == p.at
           searching == {q \in waiting : q.at \in Turn /\ q.at \notin Near[q.to]}
<1>1. /\ status_step = REROUTING /\ p \in searching
      /\ ~\E q \in waiting' : q.at = h /\ q.to = p.to
  BY DEF Reroute, Lost
<1> PICK first \in searching : \E there \in Reroutings(first.at, first) :
                                 waiting' = (waiting \ At(first.at)) \cup there
  <2>1. \E first \in searching : \E there \in Reroutings(first.at, first) :
          waiting' = (waiting \ At(first.at)) \cup there
    <3>1. IF searching = {} THEN waiting' = {q \in waiting : q.at \notin Turn} /\ UNCHANGED explored
          ELSE \E first \in searching : /\ explored' = Explore(first.at, first.to)
                                        /\ \E there \in Reroutings(first.at, first) :
                                             waiting' = (waiting \ At(first.at)) \cup there
      BY DEF Reroute
    <3> HIDE DEF searching
    <3> QED BY <1>1, <3>1
  <2> QED BY <2>1
<1>2. PICK there \in Reroutings(first.at, first) : waiting' = (waiting \ At(first.at)) \cup there
  OBVIOUS
<1>3. first \in waiting /\ first.at = h /\ p \in At(h) /\ first \in At(h) /\ h \notin Near[p.to]
  BY <1>1 DEF Turn, At
<1>4. h \in Standing
  BY DEF RInv, Packets
<1> DEFINE search == Explore(h, first.to)
<1>5. Found(h, p.to, search) = {}
  <2> SUFFICES ASSUME Found(h, p.to, search) # {} PROVE FALSE
    OBVIOUS
  <2>1. there \in Reroutings(h, first)
    BY <1>2, <1>3
  <2>2. \E q \in there : q.at = h /\ q.to = p.to
    BY <1>3, <2>1, RoutedStays
  <2> QED BY <1>1, <1>2, <2>2
<1>6. search.links = <<>>
  BY DEF Explore, RInv, SearchesForget
<1>7. CASE search.started
  <2>1. Routes(h, Destinations(h, p.to), all_links, Live(all_links)) = {}
    BY <1>5, <1>6, <1>7 DEF Found
  <2>2. ~Routable(h, p.to, all_links)
    BY <1>1, <1>4, <2>1, NoneMissed DEF RInv
  <2> QED BY <1>3, <2>2
<1>8. CASE ~search.started /\ explored.origin # h
  <2>1. Destinations(h, first.to) = {}
    BY <1>8 DEF Explore
  <2>2. Routes(h, Destinations(h, first.to), all_links, Live(all_links)) = {}
    BY <2>1 DEF Routes
  <2>3. ~Routable(h, first.to, all_links)
    BY <1>1, <1>4, <2>2, NoneMissed DEF RInv
  <2> QED BY <1>3, <2>3
<1>9. CASE ~search.started /\ explored.origin = h
  BY <1>9 DEF Explore
<1> QED BY <1>7, <1>8, <1>9

LEMMA LossStep ==
  ASSUME RInv, world \in Worlds, [Next]_vars, Rerouting, Ordinary, behind = 0, NEW p \in waiting, Lost(p)
  PROVE  \/ \E q \in At(p.at) : ~Routable(q.at, q.to, all_links)
         \/ explored.origin = p.at /\ ~explored.started
<1>1. ~UNCHANGED <<status_step, next_halt>> /\ status_step = REROUTING
  BY DEF Rerouting
<1>2. ~Reconnect
  BY <1>1 DEF Reconnect, Starting, Idle, RECONNECTING, REROUTING
<1>3. ~NothingToStep
  <2> SUFFICES ASSUME alle = <<>> PROVE FALSE
    BY DEF NothingToStep
  <2>1. Turn = {}
    BY DEF Turn, RInv, IInv, PassType
  <2> QED BY <2>1 DEF Lost
<1>4. ~Load
  BY DEF Load, Ordinary
<1>5. ~\E x \in Halts : Build(x) \/ RemoveHalt(x) \/ MakePublic(x)
  BY <1>1 DEF Build, RemoveHalt, MakePublic, pass
<1>6. ~\E l \in Lines : ChangeLine(l)
  BY <1>1 DEF ChangeLine
<1>7. ~\E x \in Halts, to \in Places : NewGoods(x, to)
  BY <1>1 DEF NewGoods, pass
<1>8. ~\E q \in waiting, l \in Lines : Fetch(q, l)
  BY <1>1 DEF Fetch, pass
<1>9. ~\E c \in aboard : Arrive(c) \/ Restow(c)
  BY <1>1 DEF Arrive, Restow, pass
<1>10. Reroute
  BY <1>1, <1>2, <1>3, <1>4, <1>5, <1>6, <1>7, <1>8, <1>9 DEF Next, StepAll, vars, pass
<1> QED BY <1>10, LossCaused

(* A pass that no change overtook throws goods away only where some goods have no route, or where *)
(* the last search had found no destination: a component that a search is refused holds no stop   *)
(* that its links lead to, because every line takes goods both ways.                              *)
THEOREM LossesAreCaused == ASSUME NoneStale PROVE Spec => LossesHaveACause
<1>1. Init => RInv /\ world \in Worlds
  BY InitRoutes DEF Init
<1>2. RInv /\ world \in Worlds /\ [Next]_vars => RInv' /\ (world \in Worlds)'
  BY NextRoutes, WorldStays
<1>3. RInv /\ world \in Worlds /\ [Next]_vars =>
        [Rerouting /\ Ordinary /\ behind = 0 => \A p \in waiting :
           Lost(p) => \/ \E q \in At(p.at) : ~Routable(q.at, q.to, all_links)
                      \/ explored.origin = p.at /\ ~explored.started]_vars
  BY LossStep
<1> QED BY <1>1, <1>2, <1>3, PTL DEF Spec, LossesHaveACause

------------------------------------------------------------------------------
(* Types *)

Packet(stations) == [at : stations, to : Places, target : Halts, via : Halts]
Cargo == [line : Lines, to : Places, target : Halts, via : Halts]
Link == [connections : SUBSET Connection, is_transfer : BOOLEAN, component : Halts \cup {Undecided}]

SchedulesTrue == \A l \in Lines : schedule[l] \in world.schedules[l]
LinkTypes == \A h \in Halts : all_links[h] \in Link
CountersBounded == behind < CounterSize /\ next_halt <= Cardinality(Halts)
GoodsTypes == waiting \subseteq Packet(Standing) /\ aboard \subseteq Cargo
SearchType == explored.origin \in Halts \cup {NoHalt} /\ explored.started \in BOOLEAN

TInv == IInv /\ world \in Worlds /\ SchedulesTrue /\ LinkTypes /\ CountersBounded /\ GoodsTypes /\ SearchType

LEMMA Least ==
  ASSUME NEW S \in SUBSET Nat, S # {}
  PROVE  Min(S) \in S
<1> DEFINE P == {n \in Nat : \A m \in S : m > n}
<1> SUFFICES ASSUME ~\E x \in S : \A y \in S : x <= y PROVE FALSE
  BY DEF Min
<1>1. \A n \in Nat : n \notin S => \A m \in S : m # n
  OBVIOUS
<1>2. 0 \in P
  OBVIOUS
<1>3. ASSUME NEW n \in Nat, n \in P PROVE n + 1 \in P
  <2>1. n + 1 \notin S
    BY <1>3
  <2> QED BY <1>3, <2>1
<1>4. \A n \in Nat : n \in P
  <2> HIDE DEF P
  <2> QED BY <1>2, <1>3, SetInduction
<1> PICK s \in S : TRUE
  OBVIOUS
<1> QED BY <1>4

LEMMA StopsType ==
  ASSUME world \in Worlds, SchedulesTrue, NEW l \in Lines
  PROVE  Stops(l) \in Seq(Halts) /\ Range(Stops(l)) \subseteq Standing
<1>1. schedule[l] \in Seq(Halts)
  BY SchedulesAssumption DEF SchedulesTrue
<1> QED BY <1>1, KeptWithin DEF Stops

LEMMA RebuiltType ==
  ASSUME IInv, world \in Worlds, SchedulesTrue, NEW h \in Halts
  PROVE  Rebuilt(h) \in Link
<1> DEFINE weights(x) == {r[2] : r \in {q \in Rides(h) : q[1] = x}}
           ends == {r[1] : r \in Rides(h)}
           found == {[halt |-> x, weight |-> Min(weights(x)), is_transfer |-> FALSE] : x \in ends}
<1>1. Rebuilt(h) = [connections |-> found, is_transfer |-> IsTransfer(h), component |-> Undecided]
  BY DEF Rebuilt
<1>2. ASSUME NEW tour \in Tours(h)
      PROVE  Range(tour) \subseteq Halts /\ tour \in Seq(Halts)
  <2> PICK l \in registered[h] : h \in Range(Stops(l)) /\ tour = Onward(Stops(l), h)
    BY <1>2 DEF Tours
  <2>1. l \in Lines
    BY DEF IInv, NetworkType
  <2>2. Stops(l) \in Seq(Halts)
    BY <2>1, StopsType
  <2> QED BY <2>2, OnwardMembers DEF Range
<1>3. \A r \in Rides(h) : r[1] \in Halts /\ r[2] \in Nat
  <2> SUFFICES ASSUME NEW tour \in Tours(h), NEW k \in DOMAIN tour
               PROVE  tour[k] \in Halts /\ WeightWait + k * WeightHalt \in Nat
    BY DEF Rides
  <2>1. tour \in Seq(Halts) /\ k \in Nat
    BY <1>2
  <2>2. WeightWait \in Nat /\ WeightHalt \in Nat
    BY WeightsAssumption
  <2>3. k * WeightHalt \in Nat
    BY <2>1, <2>2
  <2> QED BY <2>1, <2>2, <2>3
<1>4. ASSUME NEW x \in ends PROVE x \in Halts /\ Min(weights(x)) \in Nat
  <2>1. weights(x) \in SUBSET Nat /\ weights(x) # {}
    BY <1>3
  <2>2. Min(weights(x)) \in Nat
    <3> HIDE DEF weights
    <3> QED BY <2>1, Least
  <2> QED BY <1>3, <2>2
<1>5. found \subseteq Connection
  <2> DEFINE made(x) == [halt |-> x, weight |-> Min(weights(x)), is_transfer |-> FALSE]
  <2>1. \A x \in ends : made(x) \in Connection
    <3> HIDE DEF weights, ends
    <3> QED BY <1>4 DEF Connection
  <2>2. found = {made(x) : x \in ends}
    OBVIOUS
  <2> HIDE DEF made, ends, found
  <2> QED BY <2>1, <2>2
<1>6. IsTransfer(h) \in BOOLEAN
  BY DEF IsTransfer
<1> HIDE DEF found
<1> QED BY <1>1, <1>5, <1>6 DEF Link

LEMMA FilledType ==
  ASSUME IInv, NEW links, \A h \in Halts : links[h] \in Link, NEW x \in Standing, links[x].component = Undecided
  PROVE  Filled(links, x, FirstTo(UndecidedArcs(links), links, x)) \in Link
<1> DEFINE arcs == UndecidedArcs(links)
           from == {i \in DOMAIN alle : links[alle[i]].component = Undecided /\ x \in Region(arcs, alle[i])}
           cached(c) == [c EXCEPT !.is_transfer = IF c.halt \in Standing THEN links[c.halt].is_transfer ELSE @]
           l == links[x]
           all == {cached(c) : c \in l.connections}
<1>1. Standing \subseteq Halts /\ alle \in Seq(Halts)
  BY StandingHalts DEF IInv, NetworkType
<1>2. FirstTo(arcs, links, x) \in Halts
  <2>1. arcs \subseteq Halts \X Halts
    BY <1>1 DEF UndecidedArcs
  <2>2. PICK i \in DOMAIN alle : alle[i] = x
    BY DEF Standing, Range
  <2>3. x \in Region(arcs, alle[i])
    <3> HIDE DEF arcs
    <3> QED BY <1>1, <2>1, <2>2, RegionCloses
  <2>4. from \in SUBSET Nat /\ i \in from
    <3> HIDE DEF arcs
    <3> QED BY <1>1, <2>2, <2>3
  <2>5. Min(from) \in from
    <3> HIDE DEF from
    <3> QED BY <2>4, Least
  <2>6. FirstTo(arcs, links, x) = alle[Min(from)]
    BY DEF FirstTo
  <2> QED BY <1>1, <2>5, <2>6
<1>3. ASSUME NEW c \in l.connections PROVE cached(c) \in Connection
  <2>1. c \in Connection
    BY <1>1 DEF Link
  <2>2. c.halt \in Standing => links[c.halt].is_transfer \in BOOLEAN
    BY <1>1 DEF Link
  <2> QED BY <2>1, <2>2 DEF Connection
<1>4. Filled(links, x, FirstTo(arcs, links, x)) =
        [l EXCEPT !.component = FirstTo(arcs, links, x), !.connections = all]
  BY DEF Filled
<1>5. l \in Link /\ all \subseteq Connection
  <2>1. l \in Link
    BY <1>1
  <2> HIDE DEF cached, l
  <2> QED BY <1>3, <2>1
<1> HIDE DEF all, l, arcs
<1>6. [l EXCEPT !.component = FirstTo(arcs, links, x), !.connections = all] \in Link
  BY <1>2, <1>5 DEF Link
<1> QED BY <1>4, <1>6 DEF arcs

LEMMA ComponentsType ==
  ASSUME IInv, NEW links, \A h \in Halts : links[h] \in Link
  PROVE  \A h \in Halts : rebuild_connected_components(links)[h] \in Link
BY Components, FilledType

(* What traffic does to types *)
LEMMA TrafficTypes ==
  ASSUME TInv, UNCHANGED <<network, all_links, pass>>, (IInv)',
         waiting' \subseteq Packet(Standing), aboard' \subseteq Cargo, SearchType'
  PROVE  TInv'
BY DEF TInv, SchedulesTrue, LinkTypes, CountersBounded, GoodsTypes, network, pass, Standing, Packet

LEMMA ExploreType ==
  ASSUME SearchType, NEW h \in Halts, NEW to
  PROVE  Explore(h, to).origin \in Halts \cup {NoHalt} /\ Explore(h, to).started \in BOOLEAN
BY DEF SearchType, Explore

LEMMA FoundType ==
  ASSUME IInv, NEW h \in Halts, NEW to, NEW search, NEW r \in Found(h, to, search)
  PROVE  r.target \in Halts /\ r.via \in Halts
<1>1. \E T, links, live : T \subseteq EndHalts(to) /\ r \in Routes(h, T, links, live)
  BY DEF Found, Destinations
<1>2. PICK T, links, live : T \subseteq EndHalts(to) /\ r \in Routes(h, T, links, live)
  BY <1>1
<1>3. r.via \in Linked(links, h) /\ r.target \in T
  BY <1>2, RoutesLead
<1> QED BY <1>2, <1>3, StandingHalts DEF Linked, EndHalts

LEMMA PutType ==
  ASSUME waiting \subseteq Packet(Standing), NEW p \in Packet(Standing)
  PROVE  Put(waiting, p) \subseteq Packet(Standing)
<1> DEFINE same == {q \in waiting : q.at = p.at /\ q.to = p.to /\ q.target = p.target}
           joined(q) == [q EXCEPT !.via = IF p.via # p.at THEN p.via ELSE @]
<1>1. Put(waiting, p) = IF same = {} THEN waiting \cup {p} ELSE (waiting \ same) \cup {joined(q) : q \in same}
  BY DEF Put
<1>2. ASSUME NEW q \in same PROVE joined(q) \in Packet(Standing)
  BY DEF Packet
<1> HIDE DEF joined, same
<1>3. same \subseteq waiting
  BY DEF same
<1> QED BY <1>1, <1>2, <1>3

LEMMA TakeType ==
  ASSUME TInv, NEW p \in waiting, NEW q \in Packet(Standing), NEW l \in Lines, Take(p, q, l)
  PROVE  waiting' \subseteq Packet(Standing) /\ aboard' \subseteq Cargo
<1>1. waiting' \subseteq waiting \cup {q}
  BY TakeWithin
<1>2. Loaded(q, l) \in Cargo
  BY DEF Loaded, Packet, Cargo
<1>3. aboard' \subseteq aboard \cup {Loaded(q, l)}
  BY DEF Take
<1> QED BY <1>1, <1>2, <1>3 DEF TInv, GoodsTypes

LEMMA NewGoodsTypes ==
  ASSUME TInv, IInv', NEW h \in Halts, NEW to \in Places, NewGoods(h, to)
  PROVE  TInv'
<1> PICK r \in search_route(h, to) :
      waiting' = Put(waiting, [at |-> h, to |-> to, target |-> r.target, via |-> r.via])
  BY DEF NewGoods
<1>1. r \in Routes(h, EndHalts(to), all_links, Everywhere)
  BY DEF search_route
<1>2. r.target \in Halts /\ r.via \in Halts
  BY <1>1, RoutesLead, StandingHalts DEF EndHalts, Linked, TInv
<1>3. [at |-> h, to |-> to, target |-> r.target, via |-> r.via] \in Packet(Standing)
  BY <1>2 DEF NewGoods, Packet
<1>4. waiting' \subseteq Packet(Standing)
  BY <1>3, PutType DEF TInv, GoodsTypes
<1> QED BY <1>4, TrafficTypes DEF NewGoods, TInv, GoodsTypes, SearchType, NoSearch

LEMMA FetchTypes ==
  ASSUME TInv, IInv', NEW p \in waiting, NEW l \in Lines, Fetch(p, l)
  PROVE  TInv'
<1>1. p \in Packet(Standing) /\ p.at \in Halts
  BY StandingHalts DEF TInv, GoodsTypes, Packet
<1>2. UNCHANGED <<network, all_links, pass>>
  BY DEF Fetch
<1>3. CASE p.via \in Standing
  BY <1>1, <1>2, <1>3, TakeType, TrafficTypes DEF Fetch, TInv, SearchType
<1>4. CASE p.via \notin Standing
  <2> DEFINE search == Explore(p.at, p.to)
             routes == Found(p.at, p.to, search)
  <2>1. /\ explored' = search
        /\ IF routes = {} THEN waiting' = waiting \ {p} /\ UNCHANGED aboard
           ELSE \E r \in routes : Take(p, [p EXCEPT !.target = r.target, !.via = r.via], l)
    BY <1>4 DEF Fetch
  <2>2. SearchType'
    BY <1>1, <2>1, ExploreType DEF TInv, SearchType
  <2>3. CASE routes = {}
    <3> HIDE DEF routes
    <3> QED BY <1>2, <2>1, <2>2, <2>3, TrafficTypes DEF TInv, GoodsTypes
  <2>4. CASE routes # {}
    <3> HIDE DEF search
    <3> PICK r \in routes : Take(p, [p EXCEPT !.target = r.target, !.via = r.via], l)
      BY <2>1, <2>4
    <3>1. r.target \in Halts /\ r.via \in Halts
      BY <1>1, FoundType DEF TInv
    <3>2. [p EXCEPT !.target = r.target, !.via = r.via] \in Packet(Standing)
      BY <1>1, <3>1 DEF Packet
    <3>3. waiting' \subseteq Packet(Standing) /\ aboard' \subseteq Cargo
      BY <3>2, TakeType
    <3> QED BY <1>2, <2>2, <3>3, TrafficTypes
  <2> QED BY <2>3, <2>4
<1> QED BY <1>3, <1>4

LEMMA ArriveTypes ==
  ASSUME TInv, IInv', NEW c \in aboard, Arrive(c) \/ Restow(c)
  PROVE  TInv'
<1>1. UNCHANGED <<network, all_links, pass>>
  BY DEF Arrive, Restow
<1>2. c \in Cargo /\ aboard \subseteq Cargo /\ waiting \subseteq Packet(Standing)
  BY DEF TInv, GoodsTypes
<1>3. CASE UNCHANGED <<waiting, explored>> /\ aboard' \subseteq Cargo
  BY <1>1, <1>2, <1>3, TrafficTypes DEF TInv, SearchType
<1>4. ASSUME NEW h \in Standing, liefere_an(c, h), aboard' \subseteq Cargo PROVE TInv'
  <2> DEFINE p == Arriving(c, h)
             search == Explore(h, c.to)
             routes == Found(h, c.to, search)
  <2>1. p \in Packet(Standing) /\ h \in Halts
    BY <1>2, StandingHalts DEF Arriving, Packet, Cargo, TInv
  <2>2. CASE h \in Near[c.to]
    BY <1>3, <1>4, <2>2 DEF liefere_an
  <2>3. CASE h \notin Near[c.to] /\ Joins(p)
    <3>1. waiting' = Put(waiting, p) /\ explored' = explored
      BY <1>4, <2>3 DEF liefere_an
    <3> QED BY <1>1, <1>2, <1>4, <2>1, <3>1, PutType, TrafficTypes DEF TInv, SearchType
  <2>4. CASE h \notin Near[c.to] /\ ~Joins(p)
    <3>1. /\ explored' = search
          /\ IF routes = {} THEN waiting' = waiting
             ELSE \E r \in routes : waiting' = Put(waiting, [p EXCEPT !.target = r.target, !.via = r.via])
      BY <1>4, <2>4 DEF liefere_an
    <3>2. SearchType'
      BY <2>1, <3>1, ExploreType DEF TInv, SearchType
    <3>3. CASE routes = {}
      <4> HIDE DEF routes
      <4> QED BY <1>1, <1>2, <1>4, <3>1, <3>2, <3>3, TrafficTypes
    <3>4. CASE routes # {}
      <4> HIDE DEF search, p
      <4> PICK r \in routes : waiting' = Put(waiting, [p EXCEPT !.target = r.target, !.via = r.via])
        BY <3>1, <3>4
      <4>1. r.target \in Halts /\ r.via \in Halts
        BY <2>1, FoundType DEF TInv
      <4>2. [p EXCEPT !.target = r.target, !.via = r.via] \in Packet(Standing)
        BY <2>1, <4>1 DEF Packet
      <4> QED BY <1>1, <1>2, <1>4, <3>2, <4>2, PutType, TrafficTypes
    <3> QED BY <3>3, <3>4
  <2> QED BY <2>2, <2>3, <2>4
<1>5. CASE Arrive(c)
  <2>1. aboard' \subseteq Cargo
    BY <1>2, <1>5 DEF Arrive
  <2>2. CASE {c.target, c.via} \subseteq Standing
    <3> PICK h \in {c.via} \cup ({c.target} \cap Range(Stops(c.line))) : liefere_an(c, h)
      BY <1>5, <2>2 DEF Arrive
    <3> QED BY <1>4, <2>1, <2>2
  <2>3. CASE ~({c.target, c.via} \subseteq Standing)
    BY <1>3, <1>5, <2>1, <2>3 DEF Arrive
  <2> QED BY <2>2, <2>3
<1>6. CASE Restow(c)
  <2>1. UNCHANGED <<waiting, explored>>
    BY <1>6 DEF Restow
  <2>2. CASE Stops(c.line) = <<>>
    BY <1>2, <1>3, <1>6, <2>1, <2>2 DEF Restow
  <2>3. CASE Stops(c.line) # <<>>
    <3> PICK h \in Range(Stops(c.line)) :
          aboard' = (aboard \ {c}) \cup {[c EXCEPT !.via = h, !.target = IF @ \in Standing THEN @ ELSE h]}
      BY <1>6, <2>3 DEF Restow
    <3>1. h \in Halts
      <4>1. c.line \in Lines
        BY <1>2 DEF Cargo
      <4> QED BY <4>1, StopsType, StandingHalts DEF TInv
    <3>2. [c EXCEPT !.via = h, !.target = IF @ \in Standing THEN @ ELSE h] \in Cargo
      BY <1>2, <3>1 DEF Cargo
    <3> QED BY <1>2, <1>3, <2>1, <3>2
  <2> QED BY <2>2, <2>3
<1> QED BY <1>5, <1>6

LEMMA FewStations ==
  ASSUME IInv
  PROVE  Len(alle) = Cardinality(Standing) /\ Len(alle) <= Cardinality(Halts) /\ Cardinality(Halts) \in Nat
<1>1. alle \in Seq(Halts) /\ IsInjective(alle) /\ Standing = Range(alle) /\ Len(alle) \in Nat
  BY DEF IInv, NetworkType, Standing
<1>2. alle \in Bijection(1..Len(alle), Standing)
  <2>1. alle \in [1..Len(alle) -> Standing]
    BY <1>1 DEF Range
  <2>2. alle \in Injection(1..Len(alle), Standing)
    BY <1>1, <2>1 DEF Injection
  <2>3. alle \in Surjection(1..Len(alle), Standing)
    BY <1>1, <2>1 DEF Surjection, Range
  <2> QED BY <2>2, <2>3 DEF Bijection
<1>3. ExistsBijection(1..Len(alle), Standing)
  BY <1>2 DEF ExistsBijection
<1>4. IsFiniteSet(1..Len(alle)) /\ Cardinality(1..Len(alle)) = Len(alle)
  BY <1>1, FS_Interval
<1>5. Cardinality(Standing) = Len(alle)
  BY <1>3, <1>4, FS_Bijection
<1>6. Cardinality(Standing) <= Cardinality(Halts)
  BY StandingHalts, FiniteAssumption, FS_Subset
<1> QED BY <1>5, <1>6, FiniteAssumption, FS_CardinalityType

LEMMA StepAllTypes ==
  ASSUME TInv, IInv', StepAll
  PROVE  TInv'
<1>1. /\ IInv /\ Standing \subseteq Halts /\ UNCHANGED network /\ Standing' = Standing
      /\ next_halt \in Nat /\ behind \in Nat
  BY StandingHalts DEF TInv, StepAll, Reconnect, Reroute, NothingToStep, network, Standing, IInv, PassType
<1>2. SchedulesTrue' /\ (world \in Worlds)'
  BY <1>1 DEF TInv, SchedulesTrue, network
<1>3. CountersBounded'
  <2>1. behind' \in {0, behind}
    BY DEF StepAll, Reconnect, Reroute, NothingToStep
  <2>2. next_halt' = 0 \/ (next_halt' = next_halt + 1 /\ next_halt + 1 < Len(alle))
    BY <1>1 DEF StepAll, Reconnect, Reroute, NothingToStep, Advance, LastTurn, IInv, NetworkType
  <2>3. Len(alle) \in Nat
    BY <1>1 DEF IInv, NetworkType
  <2> QED BY <1>1, <2>1, <2>2, <2>3, FewStations, CounterAssumption DEF TInv, CountersBounded
<1>4. CASE Reconnect
  <2> DEFINE links == [h \in Halts |-> IF h \in Turn THEN Rebuilt(h) ELSE all_links[h]]
  <2>1. all_links' = IF LastTurn THEN rebuild_connected_components(links) ELSE links
    BY <1>4, TheOne DEF Reconnect, RebuildTurn
  <2>2. \A h \in Halts : links[h] \in Link
    BY RebuiltType DEF TInv, LinkTypes
  <2>3. LinkTypes'
    <3> HIDE DEF links
    <3> QED BY <1>1, <2>1, <2>2, ComponentsType DEF LinkTypes
  <2>4. GoodsTypes' /\ SearchType'
    BY <1>1, <1>4 DEF TInv, GoodsTypes, SearchType, Reconnect, goods, Forget, NoSearch, Packet
  <2> QED BY <1>2, <1>3, <2>3, <2>4 DEF TInv
<1>5. CASE NothingToStep
  BY <1>1, <1>2, <1>3, <1>5 DEF TInv, LinkTypes, GoodsTypes, SearchType, NothingToStep, goods, Packet
<1>6. CASE Reroute
  <2>1. LinkTypes' /\ aboard' = aboard
    BY <1>6 DEF TInv, LinkTypes, Reroute
  <2> DEFINE searching == {p \in waiting : p.at \in Turn /\ p.at \notin Near[p.to]}
  <2>2. IF searching = {}
        THEN waiting' = {p \in waiting : p.at \notin Turn} /\ UNCHANGED explored
        ELSE \E first \in searching : /\ explored' = Explore(first.at, first.to)
                                      /\ \E there \in Reroutings(first.at, first) :
                                           waiting' = (waiting \ At(first.at)) \cup there
    BY <1>6 DEF Reroute
  <2>3. CASE searching = {}
    <3>1. waiting' \subseteq waiting /\ explored' = explored
      <4> HIDE DEF searching
      <4> QED BY <2>2, <2>3
    <3> QED BY <1>1, <1>2, <1>3, <2>1, <3>1 DEF TInv, GoodsTypes, SearchType, Packet
  <2>4. CASE searching # {}
    <3>1. \E first \in searching : /\ explored' = Explore(first.at, first.to)
                                   /\ \E there \in Reroutings(first.at, first) :
                                        waiting' = (waiting \ At(first.at)) \cup there
      <4> HIDE DEF searching
      <4> QED BY <2>2, <2>4
    <3> PICK first \in waiting : /\ explored' = Explore(first.at, first.to)
                                 /\ \E there \in Reroutings(first.at, first) :
                                      waiting' = (waiting \ At(first.at)) \cup there
      BY <3>1
    <3> PICK there \in Reroutings(first.at, first) : waiting' = (waiting \ At(first.at)) \cup there
      OBVIOUS
    <3>2. first \in Packet(Standing) /\ first.at \in Standing /\ first.at \in Halts
      BY <1>1 DEF TInv, GoodsTypes, Packet
    <3>3. SearchType'
      BY <3>2, ExploreType DEF TInv, SearchType
    <3>4. there \subseteq Packet(Standing)
      <4> DEFINE h == first.at
                 search == Explore(h, first.to)
                 routes(p) == Found(h, p.to, search)
                 routed == {p \in At(h) : h \notin Near[p.to] /\ routes(p) # {}}
                 choices == {g \in [routed -> UNION {routes(p) : p \in routed}] : \A p \in routed : g[p] \in routes(p)}
                 with(f) == {[at |-> h, to |-> p.to, target |-> f[p].target, via |-> f[p].via] : p \in routed}
      <4>1. \E f \in choices : there = with(f)
        BY DEF Reroutings
      <4> PICK f \in choices : there = with(f)
        BY <4>1
      <4>2. ASSUME NEW p \in routed PROVE f[p].target \in Halts /\ f[p].via \in Halts /\ p.to \in Places
        <5>1. f[p] \in Found(h, p.to, search)
          OBVIOUS
        <5>2. p.to \in Places
          BY DEF At, TInv, GoodsTypes, Packet
        <5> HIDE DEF search
        <5> QED BY <3>2, <5>1, <5>2, FoundType DEF TInv
      <4>3. \A p \in routed : [at |-> h, to |-> p.to, target |-> f[p].target, via |-> f[p].via] \in Packet(Standing)
        <5> HIDE DEF routed
        <5> QED BY <3>2, <4>2 DEF Packet
      <4> HIDE DEF routed
      <4> QED BY <4>3
    <3>5. waiting' \subseteq Packet(Standing)
      BY <3>4 DEF TInv, GoodsTypes
    <3> QED BY <1>1, <1>2, <1>3, <2>1, <3>3, <3>5 DEF TInv, GoodsTypes, Packet
  <2> QED BY <2>3, <2>4
<1> QED BY <1>4, <1>5, <1>6 DEF StepAll

LEMMA ChangeTypes ==
  ASSUME TInv, IInv',
         \/ Load
         \/ \E h \in Halts : Build(h) \/ RemoveHalt(h) \/ MakePublic(h)
         \/ \E l \in Lines : ChangeLine(l)
  PROVE  TInv'
<1>1. IInv /\ Standing \subseteq Halts /\ behind \in Nat
  BY StandingHalts DEF TInv, IInv, PassType
<1>2. ASSUME NEW h \in Halts, Build(h) PROVE TInv'
  <2>1. Standing \subseteq Standing'
    <3>1. alle \in Seq(Halts) /\ alle' = Append(alle, h)
      BY <1>1, <1>2 DEF IInv, NetworkType, Build
    <3>2. \A i \in DOMAIN alle : i \in DOMAIN alle' /\ alle'[i] = alle[i]
      BY <3>1
    <3> QED BY <3>2 DEF Standing, Range
  <2>2. GoodsTypes'
    BY <1>2, <2>1 DEF TInv, GoodsTypes, Packet, Build, goods
  <2> QED BY <1>2, <2>2, CounterAssumption DEF TInv, SchedulesTrue, LinkTypes, CountersBounded, SearchType, Build
<1>3. ASSUME NEW h \in Halts, RemoveHalt(h) PROVE TInv'
  <2>1. Standing' = Standing \ {h}
    BY <1>1, <1>3, RemovedLeaves
  <2>2. GoodsTypes'
    BY <1>3, <2>1 DEF TInv, GoodsTypes, Packet, RemoveHalt, At
  <2>3. Unlinked \in Link
    BY DEF Unlinked, Link
  <2>4. LinkTypes'
    <3>1. all_links' = [all_links EXCEPT ![h] = Unlinked] /\ all_links = [x \in Halts |-> all_links[x]]
      BY <1>1, <1>3 DEF RemoveHalt, IInv, NetworkType
    <3> QED BY <2>3, <3>1 DEF TInv, LinkTypes
  <2>5. CountersBounded' /\ SearchType'
    BY <1>3 DEF TInv, CountersBounded, SearchType, RemoveHalt, Changed, Forget, NoSearch
  <2> QED BY <1>3, <2>2, <2>4, <2>5 DEF TInv, SchedulesTrue, RemoveHalt
<1>4. ASSUME NEW h \in Halts, MakePublic(h) PROVE TInv'
  <2> DEFINE links == [x \in Halts |-> IF x \in {h} \cup {c.halt : c \in Rebuilt(h).connections}
                                       THEN Rebuilt(x) ELSE all_links[x]]
  <2>1. all_links' = rebuild_connected_components(links)
    BY <1>4, TheOne DEF MakePublic
  <2>2. \A x \in Halts : links[x] \in Link
    BY RebuiltType DEF TInv, LinkTypes
  <2>3. LinkTypes'
    <3> HIDE DEF links
    <3> QED BY <1>1, <2>1, <2>2, ComponentsType DEF LinkTypes
  <2> QED BY <1>4, <2>3 DEF TInv, SchedulesTrue, CountersBounded, GoodsTypes, SearchType, MakePublic, network,
                            pass, goods, Forget, NoSearch, Standing, Packet
<1>5. ASSUME NEW l \in Lines, ChangeLine(l) PROVE TInv'
  <2>1. SchedulesTrue'
    BY <1>1, <1>5 DEF TInv, SchedulesTrue, ChangeLine, IInv, NetworkType
  <2>2. CountersBounded' /\ GoodsTypes' /\ SearchType' /\ LinkTypes'
    BY <1>5 DEF TInv, CountersBounded, GoodsTypes, SearchType, LinkTypes, ChangeLine, Changed, goods, Standing, Packet
  <2> QED BY <1>5, <2>1, <2>2 DEF TInv, ChangeLine
<1>6. CASE Load
  <2> DEFINE links == [h \in Halts |-> IF h \in Range(SubSeq(alle, next_halt + 1, Len(alle))) THEN Rebuilt(h)
                                       ELSE Unlinked]
  <2>1. all_links' = rebuild_connected_components(links)
    BY <1>6, TheOne DEF Load
  <2>2. \A x \in Halts : links[x] \in Link
    BY RebuiltType DEF Unlinked, Link, TInv
  <2>3. LinkTypes'
    <3> HIDE DEF links
    <3> QED BY <1>1, <2>1, <2>2, ComponentsType DEF LinkTypes
  <2> QED BY <1>6, <2>3, FewStations, CounterAssumption
          DEF TInv, SchedulesTrue, CountersBounded, GoodsTypes, SearchType, Load, network, goods, NoSearch, Standing, Packet
<1> QED BY <1>2, <1>3, <1>4, <1>5, <1>6

LEMMA InitTypes == Init => TInv
<1> SUFFICES ASSUME Init PROVE TInv
  OBVIOUS
<1>1. IInv /\ Standing \subseteq Halts
  BY InitHolds, StandingHalts
<1>2. SchedulesTrue /\ world \in Worlds
  BY DEF Init, SchedulesTrue
<1>3. GoodsTypes /\ SearchType
  BY DEF Init, GoodsTypes, SearchType, NoSearch
<1>4. CountersBounded
  BY FewStations, <1>1, CounterAssumption DEF Init, CountersBounded
<1>5. LinkTypes
  <2>1. \A h \in Halts : Rebuilding[h] \in Link
    BY <1>1, <1>2, RebuiltType DEF Rebuilding, Unlinked, Link
  <2> QED BY <1>1, <2>1, ScheduledIs, ComponentsType DEF Init, LinkTypes
<1> QED BY <1>1, <1>2, <1>3, <1>4, <1>5 DEF TInv

(* Every variable of the network keeps its type: goods wait only at stations that stand, next_halt *)
(* never outruns the list by more than the stations removed, links have a weight and components a  *)
(* station's name                                                                                 *)
THEOREM TypesHold == Spec => []TypeOK
<1>1. TInv /\ [Next]_vars => TInv'
  <2> SUFFICES ASSUME TInv, [Next]_vars PROVE TInv'
    OBVIOUS
  <2>1. IInv'
    BY NextKeeps DEF TInv
  <2>2. CASE UNCHANGED vars
    BY <2>1, <2>2 DEF TInv, SchedulesTrue, LinkTypes, CountersBounded, GoodsTypes, SearchType, vars, network, pass,
                      goods, Standing, Packet
  <2>3. CASE Next
    <3>1. CASE StepAll
      BY <2>1, <3>1, StepAllTypes
    <3>2. CASE Load \/ (\E h \in Halts : Build(h) \/ RemoveHalt(h) \/ MakePublic(h)) \/ \E l \in Lines : ChangeLine(l)
      BY <2>1, <3>2, ChangeTypes
    <3>3. CASE \E h \in Halts, to \in Places : NewGoods(h, to)
      BY <2>1, <3>3, NewGoodsTypes
    <3>4. CASE \E p \in waiting, l \in Lines : Fetch(p, l)
      BY <2>1, <3>4, FetchTypes
    <3>5. CASE \E c \in aboard : Arrive(c) \/ Restow(c)
      BY <2>1, <3>5, ArriveTypes
    <3> QED BY <2>3, <3>1, <3>2, <3>3, <3>4, <3>5 DEF Next
  <2> QED BY <2>2, <2>3
<1>2. TInv => TypeOK
  <2> SUFFICES ASSUME TInv PROVE TypeOK
    OBVIOUS
  <2>1. IInv /\ Len(alle) = Cardinality(Standing)
    BY FewStations DEF TInv
  <2>2. alle \in Seq(Halts) /\ unborn \subseteq Halts \ Standing /\ registered \in [Halts -> SUBSET Lines]
    BY <2>1 DEF IInv, NetworkType
  <2>3. \A h \in Halts : /\ all_links[h].connections \subseteq Connection
                          /\ all_links[h].is_transfer \in BOOLEAN
                          /\ all_links[h].component \in Halts \cup {Undecided}
    BY DEF TInv, LinkTypes, Link
  <2>4. /\ behind \in 0..CounterSize - 1 /\ next_halt \in 0..Cardinality(Halts)
        /\ status_step \in {Idle, RECONNECTING, REROUTING}
    BY <2>1, CounterAssumption, FewStations DEF TInv, IInv, PassType, CountersBounded
  <2>5. /\ waiting \subseteq [at : Standing, to : Places, target : Halts, via : Halts]
        /\ aboard \subseteq [line : Lines, to : Places, target : Halts, via : Halts]
    BY DEF TInv, GoodsTypes, Packet, Cargo
  <2>6. \A l \in Lines : schedule[l] \in world.schedules[l]
    BY DEF TInv, SchedulesTrue
  <2>7. world \in Worlds /\ explored.origin \in Halts \cup {NoHalt} /\ explored.started \in BOOLEAN
    BY DEF TInv, SearchType
  <2> QED BY <2>1, <2>2, <2>3, <2>4, <2>5, <2>6, <2>7 DEF TypeOK
<1> QED BY <1>1, <1>2, InitTypes, PTL DEF Spec
==============================================================================
