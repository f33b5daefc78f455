---------------------------- MODULE RailBlocksProofs ----------------------------
(***************************************************************************)
(* Proofs about RailBlocks for any trains, tiles, routes and signals: on a  *)
(* line that is signalled well, and when none of the Troubles happens, no   *)
(* two trains are on a tile, a train that moves holds its way, and nothing  *)
(* else is reserved, whatever is rerouted, taken away, saved and loaded.    *)
(***************************************************************************)
EXTENDS RailBlocks, FiniteSetTheorems, TLAPS

Driving(t) == state[t] \in {"DRIVING", "LEAVING_DEPOT", "WAITING_FOR_CLEARANCE", "CAN_START"}
Searching(t) == state[t] \in {"SEARCHING", "PLACED"}

(* The variables, as functions *)
Types ==
  /\ state \in [Trains -> States] /\ out \in [Trains -> BOOLEAN]
  /\ route \in [Trains -> Seq(Tiles)] /\ ri \in [Trains -> Nat] /\ bi \in [Trains -> Nat]
  /\ nextStop \in [Trains -> 0..(INVALID_INDEX + 1)] /\ nextRes \in [Trains -> 0..INVALID_INDEX]
  /\ resv \in [Tiles -> Trains \cup {Nobody}]
  /\ events \in 0..MaxEvents

(* Signals are only taken away *)
Signals == \E plan \in Plans : signal \in [Tiles -> Kinds] /\ \A x \in Tiles : signal[x] \in {plan[x], "none"}

(* A train on a route that passes no tile twice *)
Shape(t) ==
  /\ Count(route[t]) > 0 /\ Count(route[t]) < INVALID_INDEX
  /\ \A i, j \in 0..(Count(route[t]) - 1) : At(route[t], i) = At(route[t], j) => i = j
  /\ 1 <= bi[t] /\ bi[t] <= ri[t] /\ ri[t] <= Count(route[t]) /\ ri[t] - bi[t] <= Length[t]
  /\ state[t] = "INITIAL" => Count(route[t]) = 1 /\ At(route[t], 0) \in Depots
  /\ out[t] => At(route[t], 0) \in Depots

(* From its first vehicle on the route of a train is the end of a path *)
OnPath(t) ==
  \E p \in Paths : \A i \in (ri[t] - 1)..(Count(route[t]) - 1) :
    LET j == i + 1 + Len(p) - Count(route[t]) IN j \in DOMAIN p /\ At(route[t], i) = p[j]

(* What is under a train is reserved for it, or for nobody while it has given *)
(* up its route for another                                                  *)
OnTrack(t) ==
  state[t] # "INITIAL" =>
    \A x \in Under(t) \ Depots :
      \/ resv[x] = t
      \/ resv[x] = Nobody /\ (state[t] = "PLACED" \/ (state[t] = "SEARCHING" /\ ri[t] < Count(route[t])))

(* No other tile is, but on the way ahead *)
NoStray(t) ==
  \A x \in Tiles : resv[x] = t =>
    /\ state[t] # "INITIAL"
    /\ \/ x \in Under(t)
       \/ ~Searching(t) /\ \E i \in ri[t]..(Count(route[t]) - 1) : x = At(route[t], i)

(* g is what a train has: it holds its way up to next_reservation_index ... *)
Mine(g, t, x) == x \in Depots \/ g.resv[x] = t
Held(t, g) == \A i \in ri[t]..(Count(route[t]) - 1) : i < g.res => Mine(g, t, At(route[t], i))
(* ... which is behind the place where it stops next *)
Leads(t, g) ==
  /\ \A i \in ri[t]..(Count(route[t]) - 1) : i < g.stop => i < g.res
  /\ g.stop = Count(route[t]) /\ ri[t] < g.stop => At(route[t], g.stop - 1) \in Crossings

TrainInv(t) ==
  /\ Shape(t)
  /\ Searching(t) => nextRes[t] = 0
  /\ Driving(t) \/ state[t] = "PLACED" => OnPath(t)
  /\ OnTrack(t) /\ NoStray(t)
  /\ Driving(t) => Held(t, Grant(t))
  /\ Driving(t) /\ state[t] # "CAN_START" => Leads(t, Grant(t))

(* One train at most searches a route *)
OneSearches == \A t, u \in Trains : Searching(t) /\ Searching(u) => t = u

IInv == Types /\ Signals /\ OneSearches /\ Exclusive /\ \A t \in Trains : TrainInv(t)

------------------------------------------------------------------------------
(* Operators *)

(* Induction, as in any set of numbers that holds 0 and every successor: the numbers up to one     *)
(* that is missed would be mapped into themselves without reaching it                               *)
LEMMA SetInduction ==
  ASSUME NEW P, 0 \in P, \A n \in Nat : n \in P => n + 1 \in P
  PROVE  \A n \in Nat : n \in P
<1> SUFFICES ASSUME NEW n \in Nat, n \notin P PROVE FALSE
  OBVIOUS
<1> DEFINE S == {m \in 0..n : m \notin P}
           f == [m \in S |-> m - 1]
<1>1. IsFiniteSet(S)
  <2>1. IsFiniteSet(0..n)
    BY FS_Interval
  <2> QED BY <2>1, FS_Subset
<1>2. f \in [S -> S]
  <2> SUFFICES ASSUME NEW m \in S PROVE m - 1 \in S
    OBVIOUS
  <2>1. m # 0 /\ m - 1 \in 0..n
    OBVIOUS
  <2>2. m - 1 \in Nat /\ (m - 1) + 1 = m
    BY <2>1
  <2> QED BY <2>1, <2>2
<1>3. f \in Injection(S, S)
  BY <1>2 DEF Injection, IsInjective
<1>4. f \in Surjection(S, S)
  BY <1>1, <1>3, FS_Injection
<1>5. PICK m \in S : f[m] = n
  <2>1. n \in S
    OBVIOUS
  <2> QED BY <1>4, <2>1 DEF Surjection
<1> QED BY <1>5

(* A set of indices has a first one *)
LEMMA Smallest ==
  ASSUME NEW I \in SUBSET Nat, I # {}
  PROVE  \E i \in I : \A j \in I : i <= j
<1> SUFFICES ASSUME \A i \in I : \E j \in I : j < i PROVE FALSE
  OBVIOUS
<1> DEFINE P == {n \in Nat : \A j \in I : j >= n}
<1>1. 0 \in P
  OBVIOUS
<1>2. ASSUME NEW n \in Nat, n \in P PROVE n + 1 \in P
  <2>1. n \notin I
    BY <1>2
  <2>2. \A j \in I : j >= n + 1
    BY <1>2, <2>1
  <2> QED BY <2>2
<1>3. \A n \in Nat : n \in P
  <2> HIDE DEF P
  <2> QED BY <1>1, <1>2, SetInduction
<1>4. PICK i \in I : TRUE
  OBVIOUS
<1>5. i + 1 \in P
  <2> HIDE DEF P
  <2> QED BY <1>3, <1>4
<1> QED BY <1>4, <1>5

LEMMA FirstIs ==
  ASSUME NEW I \in SUBSET Nat
  PROVE  /\ FirstIndex(I) \in Nat
         /\ \/ I = {} /\ FirstIndex(I) = INVALID_INDEX
            \/ FirstIndex(I) \in I /\ \A j \in I : FirstIndex(I) <= j
<1>1. CASE I = {}
  BY <1>1 DEF FirstIndex, INVALID_INDEX
<1>2. CASE I # {}
  <2>1. FirstIndex(I) \in I /\ \A j \in I : FirstIndex(I) <= j
    BY <1>2, Smallest DEF FirstIndex
  <2> QED BY <2>1
<1> QED BY <1>1, <1>2

(* The tiles of the route of a train *)
LEMMA RouteTiles ==
  ASSUME Types, NEW t \in Trains, Shape(t)
  PROVE  /\ Count(route[t]) \in Nat /\ ri[t] \in Nat /\ bi[t] \in Nat /\ Length[t] \in Nat
         /\ \A i \in 0..(Count(route[t]) - 1) : At(route[t], i) \in Tiles
         /\ Pos(t) = At(route[t], ri[t] - 1)
BY RailAssumption DEF Types, Shape, Count, At, Pos

LEMMA Counts ==
  ASSUME Types, NEW t \in Trains, Shape(t)
  PROVE  Count(route[t]) \in 1..(INVALID_INDEX - 1) /\ INVALID_INDEX = 1000
<1>1. Count(route[t]) \in Nat
  BY RouteTiles
<1>2. Count(route[t]) > 0 /\ Count(route[t]) < INVALID_INDEX
  BY DEF Shape
<1> QED BY <1>1, <1>2 DEF INVALID_INDEX

(* The block that starts at an index ends with the next signal, or with the route; where a train   *)
(* stops next is in it, if it stops at all                                                         *)
LEMMA Blocks ==
  ASSUME Types, Signals, NEW t \in Trains, Shape(t),
         NEW s \in Nat, ri[t] - 1 <= s, s < Count(route[t])
  PROVE  LET r == route[t]
             f == From(t, r, s)
             e == BlockEnd(t, r, s)
             n == NextSignal(t, r, s)
             o == NextObstacle(t, r, s)
         IN  /\ f \in Nat /\ ri[t] <= f /\ f <= Count(r) /\ (s = ri[t] - 1 => f = ri[t]) /\ (ri[t] <= s => f = s)
             /\ e \in Nat /\ f <= e + 1 /\ e < Count(r) /\ (f < Count(r) => f <= e)
             /\ \/ n = INVALID_INDEX
                \/ /\ n = e /\ f <= n /\ n < Count(r) - 1 /\ signal[At(r, n)] # "none"
                   /\ n = f \/ <<At(r, n), At(r, n - 1)>> \notin Unseen
             /\ \/ o = INVALID_INDEX /\ e = Count(r) - 1
                \/ /\ o \in Nat /\ f <= o /\ o <= e
                   /\ o = Count(r) - 1 => At(r, o) \in Crossings
<1> DEFINE r == route[t]
           f == From(t, r, s)
           S == SignalsAhead(t, r, s)
           n == NextSignal(t, r, s)
           e == BlockEnd(t, r, s)
           X == {i \in f..e : At(r, i) \in Crossings}
           c == NextCrossing(t, r, s)
           o == NextObstacle(t, r, s)
<1>1. /\ f \in Nat /\ ri[t] <= f /\ f <= Count(r) /\ (s = ri[t] - 1 => f = ri[t]) /\ (ri[t] <= s => f = s)
  <2>1. At(r, s) = Pos(t) <=> s = ri[t] - 1
    BY RouteTiles DEF Shape
  <2> QED BY <2>1, RouteTiles DEF From, Shape
<1>2. /\ S \in SUBSET Nat
      /\ \A i \in S : /\ i \in Nat /\ f <= i /\ i < Count(r) - 1 /\ signal[At(r, i)] # "none"
                      /\ i = f \/ <<At(r, i), At(r, i - 1)>> \notin Unseen
  BY <1>1, RouteTiles DEF SignalsAhead
<1>3. \/ n = INVALID_INDEX
      \/ n \in S /\ n \in Nat /\ f <= n /\ n < Count(r) - 1 /\ signal[At(r, n)] # "none"
         /\ (n = f \/ <<At(r, n), At(r, n - 1)>> \notin Unseen)
  <2>1. n = INVALID_INDEX \/ n \in S
    BY <1>2, FirstIs DEF NextSignal
  <2> HIDE DEF S, n, f
  <2> QED BY <1>2, <2>1
<1>4. Count(r) \in Nat /\ Count(r) > 0 /\ Count(r) < INVALID_INDEX /\ INVALID_INDEX \in Nat
  BY Counts
<1>5. /\ e \in Nat /\ f <= e + 1 /\ e < Count(r) /\ (f < Count(r) => f <= e)
      /\ n = INVALID_INDEX => e = Count(r) - 1
      /\ n # INVALID_INDEX => n \in S /\ n = e
  <2> HIDE DEF f, S, n
  <2>1. e = Lesser(n, Count(r) - 1)
    BY DEF n, BlockEnd
  <2>2. CASE n = INVALID_INDEX
    BY <1>1, <1>4, <2>1, <2>2 DEF Lesser
  <2>3. CASE n \in S
    <3>1. n \in Nat /\ f <= n /\ n < Count(r) - 1
      BY <1>2, <1>4, <2>3
    <3>2. e = n
      BY <1>4, <2>1, <3>1 DEF Lesser
    <3> QED BY <1>1, <1>4, <2>3, <3>1, <3>2
  <2> QED BY <1>3, <2>2, <2>3
<1>6. X \in SUBSET Nat /\ \A i \in X : f <= i /\ i <= e /\ At(r, i) \in Crossings
  BY <1>1, <1>5
<1>7. \/ c = INVALID_INDEX
      \/ c \in X
  <2>1. c = FirstIndex(X)
    BY DEF NextCrossing
  <2> HIDE DEF X, c
  <2> QED BY <1>6, <2>1, FirstIs
<1>8. o = Lesser(n, c)
  BY DEF NextObstacle
<1>9. \/ o = INVALID_INDEX /\ e = Count(r) - 1
      \/ /\ o \in Nat /\ f <= o /\ o <= e
         /\ o = Count(r) - 1 => At(r, o) \in Crossings
  <2> HIDE DEF f, S, n, e, X, c, o
  <2>1. CASE c = INVALID_INDEX
    <3>1. CASE n = INVALID_INDEX
      BY <1>4, <1>5, <1>8, <2>1, <3>1 DEF Lesser
    <3>2. CASE n # INVALID_INDEX
      <4>1. n \in Nat /\ n = e /\ f <= n /\ n < Count(r) - 1
        BY <1>2, <1>5, <3>2
      <4>2. o = n
        BY <1>4, <1>8, <2>1, <4>1 DEF Lesser
      <4> QED BY <4>1, <4>2
    <3> QED BY <3>1, <3>2
  <2>2. CASE c \in X
    <3>1. c \in Nat /\ f <= c /\ c <= e /\ c < INVALID_INDEX /\ At(r, c) \in Crossings
      BY <1>4, <1>5, <1>6, <2>2
    <3>2. CASE n = INVALID_INDEX
      BY <1>4, <1>8, <3>1, <3>2 DEF Lesser
    <3>3. CASE n # INVALID_INDEX
      <4>1. n \in Nat /\ n = e /\ f <= n /\ n < Count(r) - 1
        BY <1>2, <1>5, <3>3
      <4>2. o = c
        BY <1>8, <3>1, <4>1 DEF Lesser
      <4> QED BY <3>1, <4>1, <4>2
    <3> QED BY <3>2, <3>3
  <2> QED BY <1>7, <2>1, <2>2
<1> HIDE DEF f, S, n, e, X, c, o
<1>10. \/ n = INVALID_INDEX
       \/ /\ n = e /\ f <= n /\ n < Count(r) - 1 /\ signal[At(r, n)] # "none"
          /\ n = f \/ <<At(r, n), At(r, n - 1)>> \notin Unseen
  BY <1>2, <1>5
<1>11. QED
  BY <1>1, <1>5, <1>9, <1>10 DEF f, n, e, o

------------------------------------------------------------------------------
(* What the reservation of a block does *)

Granted == [resv : [Tiles -> Trains \cup {Nobody}], stop : 0..(INVALID_INDEX + 1), res : 0..INVALID_INDEX]

(* From g to h a train takes and gives up tiles from index n of its route on, and none of another's *)
Only(t, g, h, n) ==
  \A x \in Tiles :
    \/ h.resv[x] = g.resv[x]
    \/ /\ g.resv[x] \in {t, Nobody} /\ h.resv[x] \in {t, Nobody}
       /\ \E i \in n..(Count(route[t]) - 1) : x = At(route[t], i)

LEMMA OnlyChains ==
  ASSUME Types, NEW t \in Trains, Shape(t), NEW f, NEW g, NEW h, NEW m \in Nat, NEW n \in Nat, m <= n,
         (Only(t, f, g, m) /\ Only(t, g, h, n)) \/ (Only(t, f, g, n) /\ Only(t, g, h, m))
  PROVE  Only(t, f, h, m)
<1>1. \A i \in n..(Count(route[t]) - 1) : i \in m..(Count(route[t]) - 1)
  BY RouteTiles
<1> QED BY <1>1 DEF Only

(* What is behind is left alone *)
LEMMA BehindKept ==
  ASSUME Types, NEW t \in Trains, Shape(t), NEW g, NEW h, NEW n \in Nat, Only(t, g, h, n),
         NEW i \in 0..(Count(route[t]) - 1), i < n
  PROVE  h.resv[At(route[t], i)] = g.resv[At(route[t], i)]
<1>1. At(route[t], i) \in Tiles
  BY RouteTiles
<1>2. \A j \in n..(Count(route[t]) - 1) : At(route[t], i) # At(route[t], j)
  BY RouteTiles DEF Shape
<1> QED BY <1>1, <1>2 DEF Only

LEMMA FreedIs ==
  ASSUME NEW t \in Trains, NEW g \in Granted, NEW X
  PROVE  /\ Freed(g, t, X) \in Granted
         /\ Freed(g, t, X).stop = g.stop /\ Freed(g, t, X).res = g.res
         /\ \A x \in Tiles : Freed(g, t, X).resv[x] = IF x \in X /\ g.resv[x] = t THEN Nobody ELSE g.resv[x]
BY DEF Freed, Granted

LEMMA TakenIs ==
  ASSUME NEW t \in Trains, NEW g \in Granted, NEW X
  PROVE  /\ Taken(g, t, X) \in Granted
         /\ Taken(g, t, X).stop = g.stop /\ Taken(g, t, X).res = g.res
         /\ \A x \in Tiles : Taken(g, t, X).resv[x] = IF x \in X THEN t ELSE g.resv[x]
BY DEF Taken, Granted

LEMMA WithIndex ==
  ASSUME NEW g \in Granted, NEW n \in 0..INVALID_INDEX
  PROVE  /\ [g EXCEPT !.res = n] \in Granted
         /\ [g EXCEPT !.res = n].resv = g.resv
         /\ [g EXCEPT !.res = n].stop = g.stop
         /\ [g EXCEPT !.res = n].res = n
BY DEF Granted

LEMMA ReservedIs ==
  ASSUME Types, Signals, NEW t \in Trains, Shape(t), NEW g \in Granted,
         NEW s \in Nat, ri[t] - 1 <= s, s < Count(route[t])
  PROVE  LET r == route[t]
             f == From(t, r, s)
             e == BlockEnd(t, r, s)
             h == Reserved(g, t, r, s)
         IN  /\ h \in Granted /\ h.stop = g.stop /\ Only(t, g, h, f)
             /\ BlockFree(g, t, r, s) => h.res = e + 1 /\ \A i \in f..e : h.resv[At(r, i)] = t
             /\ ~BlockFree(g, t, r, s) => h.res = f
<1> DEFINE r == route[t]
           f == From(t, r, s)
           e == BlockEnd(t, r, s)
           h == Reserved(g, t, r, s)
           S == {i \in f..e : ~CanReserve(g, t, At(r, i))}
           k == FirstIndex(S)
           T == Taken(g, t, TilesOf(r, f, e))
           F == Freed(g, t, TilesOf(r, f, k))
<1>1. /\ f \in Nat /\ e \in Nat /\ f <= e + 1 /\ e < Count(r) /\ f <= Count(r) /\ ri[t] <= f
      /\ Count(r) \in Nat /\ Count(r) < INVALID_INDEX /\ INVALID_INDEX \in Nat
      /\ \A i \in f..e : i \in 0..(Count(r) - 1) /\ At(r, i) \in Tiles
  <2>1. Count(r) \in Nat /\ Count(r) < INVALID_INDEX /\ INVALID_INDEX \in Nat
    BY Counts
  <2>2. f \in Nat /\ e \in Nat /\ f <= e + 1 /\ e < Count(r) /\ f <= Count(r) /\ ri[t] <= f
    BY Blocks
  <2> HIDE DEF f, e
  <2>3. \A i \in f..e : i \in 0..(Count(r) - 1)
    BY <2>1, <2>2
  <2> QED BY <2>1, <2>2, <2>3, RouteTiles
<1>2. h = IF k = INVALID_INDEX THEN [T EXCEPT !.res = e + 1] ELSE [F EXCEPT !.res = f]
  <2>1. ~(s >= Count(r))
    BY RouteTiles
  <2> QED BY <2>1 DEF Reserved
<1> HIDE DEF h, f, e
<1>3. \/ S = {} /\ k = INVALID_INDEX
      \/ k \in S /\ k # INVALID_INDEX /\ k \in f..e
  <2>1. S \in SUBSET Nat /\ \A i \in S : i # INVALID_INDEX /\ i \in f..e
    BY <1>1
  <2> HIDE DEF S
  <2> QED BY <2>1, FirstIs
<1>4. BlockFree(g, t, r, s) <=> S = {}
  <2>1. BlockFree(g, t, r, s) <=> \A i \in f..e : CanReserve(g, t, At(r, i))
    BY DEF BlockFree, f, e, TilesOf
  <2> QED BY <2>1
<1>5. CASE S = {}
  <2>1. /\ T \in Granted /\ T.stop = g.stop
        /\ \A x \in Tiles : T.resv[x] = IF x \in TilesOf(r, f, e) THEN t ELSE g.resv[x]
    <3> HIDE DEF T
    <3> QED BY TakenIs DEF T
  <2>2. h = [T EXCEPT !.res = e + 1] /\ e + 1 \in 0..INVALID_INDEX
    BY <1>1, <1>2, <1>3, <1>5
  <2> HIDE DEF T
  <2>3. h \in Granted /\ h.stop = g.stop /\ h.res = e + 1 /\ h.resv = T.resv
    BY <2>1, <2>2, WithIndex
  <2>4. \A i \in f..e : h.resv[At(r, i)] = t
    BY <1>1, <2>1, <2>3 DEF TilesOf
  <2>5. \A x \in TilesOf(r, f, e) : g.resv[x] \in {t, Nobody} /\ \E i \in f..(Count(r) - 1) : x = At(r, i)
    <3>1. \A i \in f..e : g.resv[At(r, i)] \in {t, Nobody} /\ i \in f..(Count(r) - 1)
      BY <1>1, <1>5 DEF CanReserve
    <3> QED BY <3>1 DEF TilesOf
  <2>6. Only(t, g, h, f)
    BY <2>1, <2>3, <2>5 DEF Only
  <2> QED BY <1>4, <1>5, <2>3, <2>4, <2>6 DEF h, f, e
<1>6. CASE S # {}
  <2>1. k \in f..e /\ k # INVALID_INDEX
    BY <1>3, <1>6
  <2>2. /\ F \in Granted /\ F.stop = g.stop
        /\ \A x \in Tiles : F.resv[x] = IF x \in TilesOf(r, f, k) /\ g.resv[x] = t THEN Nobody ELSE g.resv[x]
    <3> HIDE DEF F, k
    <3> QED BY FreedIs DEF F
  <2>3. h = [F EXCEPT !.res = f] /\ f \in 0..INVALID_INDEX
    BY <1>1, <1>2, <2>1
  <2> HIDE DEF F, k
  <2>4. h \in Granted /\ h.stop = g.stop /\ h.res = f /\ h.resv = F.resv
    BY <2>2, <2>3, WithIndex
  <2>5. \A x \in TilesOf(r, f, k) : \E i \in f..(Count(r) - 1) : x = At(r, i)
    BY <1>1, <2>1 DEF TilesOf
  <2>6. Only(t, g, h, f)
    BY <2>2, <2>4, <2>5 DEF Only
  <2> QED BY <1>4, <1>6, <2>4, <2>6 DEF h, f, e
<1> QED BY <1>5, <1>6

LEMMA ReservedBeyond ==
  ASSUME Types, NEW t \in Trains, Shape(t), NEW g \in Granted, NEW s \in Nat, s >= Count(route[t])
  PROVE  LET h == Reserved(g, t, route[t], s)
         IN  /\ h \in Granted /\ h.resv = g.resv /\ h.stop = g.stop /\ h.res = Count(route[t]) - 1
             /\ ~BlockFree(g, t, route[t], s)
<1>1. Count(route[t]) - 1 \in 0..INVALID_INDEX
  BY Counts
<1>2. Reserved(g, t, route[t], s) = [g EXCEPT !.res = Count(route[t]) - 1]
  BY DEF Reserved
<1>3. ~BlockFree(g, t, route[t], s)
  BY RouteTiles DEF BlockFree
<1> QED BY <1>1, <1>2, <1>3, WithIndex

(* Giving up: with force everything from the index on *)
LEMMA UnreservedIs ==
  ASSUME Types, NEW t \in Trains, Shape(t), NEW g \in Granted, NEW s \in Nat, s < Count(route[t])
  PROVE  \A force \in BOOLEAN :
           LET r == route[t]
               h == Unreserved(g, t, r, s, force)
           IN  /\ h \in Granted /\ h.stop = g.stop /\ h.res = s /\ Only(t, g, h, s)
               /\ force => \A i \in s..(Count(r) - 1) : h.resv[At(r, i)] # t
<1> TAKE force \in BOOLEAN
<1> DEFINE r == route[t]
           own == FirstIndex({i \in s..(Count(r) - 1) : g.resv[At(r, i)] = t})
           end == FirstIndex({i \in own..(Count(r) - 1) : g.resv[At(r, i)] # t})
           to == IF force THEN Count(r) - 1 ELSE Lesser(end, Count(r)) - 1
           X == TilesOf(r, s, to)
           F == Freed(g, t, X)
           h == Unreserved(g, t, r, s, force)
<1>1. h = [F EXCEPT !.res = s]
  <2>1. ~(s >= Count(r))
    BY RouteTiles
  <2> QED BY <2>1 DEF Unreserved
<1> HIDE DEF own, X, F, h
<1>2. s \in 0..INVALID_INDEX /\ Count(r) \in Nat
  BY Counts
<1>e. end \in Int
  <2> DEFINE E == {i \in own..(Count(r) - 1) : g.resv[At(r, i)] # t}
  <2>1. own \in Nat
    <3> DEFINE O == {i \in s..(Count(r) - 1) : g.resv[At(r, i)] = t}
    <3>1. O \in SUBSET Nat /\ \A i \in O : i \in Nat
      BY <1>2
    <3>2. own = FirstIndex(O)
      BY DEF own
    <3> HIDE DEF O
    <3> QED BY <3>1, <3>2, FirstIs
  <2>2. E \in SUBSET Nat /\ \A i \in E : i \in Int
    BY <1>2, <2>1
  <2>3. end = FirstIndex(E)
    OBVIOUS
  <2> HIDE DEF E, end
  <2> QED BY <2>2, <2>3, FirstIs
<1> HIDE DEF end
<1>4. to \in Int /\ to <= Count(r) - 1 /\ (force => to = Count(r) - 1)
  BY <1>2, <1>e DEF Lesser
<1> HIDE DEF to
<1>5. /\ F \in Granted /\ F.stop = g.stop
      /\ \A x \in Tiles : F.resv[x] = IF x \in X /\ g.resv[x] = t THEN Nobody ELSE g.resv[x]
  BY FreedIs DEF F
<1> HIDE DEF F
<1>6. h \in Granted /\ h.stop = g.stop /\ h.res = s /\ h.resv = F.resv
  BY <1>1, <1>2, <1>5, WithIndex
<1> HIDE DEF h
<1>7. \A x \in X : \E i \in s..(Count(r) - 1) : x = At(r, i)
  BY <1>2, <1>4 DEF TilesOf, X
<1>8. Only(t, g, h, s)
  <2> HIDE DEF X
  <2> QED BY <1>5, <1>6, <1>7 DEF Only
<1>9. ASSUME force, NEW i \in s..(Count(r) - 1) PROVE h.resv[At(r, i)] # t
  <2>1. At(r, i) \in Tiles /\ At(r, i) \in X
    BY <1>2, <1>4, <1>9, RouteTiles DEF TilesOf, X
  <2> HIDE DEF X
  <2> QED BY <1>5, <1>6, <2>1, RailAssumption
<1> QED BY <1>6, <1>8, <1>9 DEF h

------------------------------------------------------------------------------
(* Signals *)

(* No signal on the way ahead is one of those that a line must not have *)
Clean(t) ==
  LET r == route[t] IN
  /\ \A i, j \in (ri[t] - 1)..(Count(r) - 1) :
       i < j /\ signal[At(r, i)] = "pre" /\ signal[At(r, j)] = "priority"
       => j > i + 1 /\ <<At(r, j), At(r, j - 1)>> \in Unseen
  /\ ri[t] < Count(r) /\ At(r, Count(r) - 1) \in Crossings => signal[At(r, Count(r) - 1)] = "none"

LEMMA StopIs ==
  ASSUME Types, NEW t \in Trains, Shape(t), NEW g \in Granted, NEW n \in 0..INVALID_INDEX
  PROVE  LET h == StopAt(g, route[t], n)
         IN  /\ h \in Granted /\ h.resv = g.resv /\ h.res = g.res
             /\ h.stop = n + 1 \/ (n = INVALID_INDEX /\ h.stop = Count(route[t]) - 1)
<1> DEFINE stop == IF n = INVALID_INDEX /\ At(route[t], Count(route[t]) - 1) \in Halts
                   THEN Count(route[t]) - 1 ELSE n + 1
<1>1. stop \in 0..(INVALID_INDEX + 1) /\ (stop = n + 1 \/ (n = INVALID_INDEX /\ stop = Count(route[t]) - 1))
  BY Counts
<1>2. StopAt(g, route[t], n) = [g EXCEPT !.stop = stop]
  BY DEF StopAt
<1> HIDE DEF stop
<1> QED BY <1>1, <1>2 DEF Granted

(* A train stops where what is reserved for it ends, or before *)
LEMMA StopLeads ==
  ASSUME Types, NEW t \in Trains, Shape(t), NEW g \in Granted, NEW n \in 0..INVALID_INDEX,
         \/ n = INVALID_INDEX /\ Count(route[t]) <= g.res
         \/ n < g.res /\ n < Count(route[t]) /\ (n = Count(route[t]) - 1 => At(route[t], n) \in Crossings)
  PROVE  Leads(t, StopAt(g, route[t], n))
<1> DEFINE C == Count(route[t])
           h == StopAt(g, route[t], n)
<1>1. C \in 1..(INVALID_INDEX - 1) /\ INVALID_INDEX = 1000 /\ ri[t] \in Nat /\ g.res \in Nat
  BY Counts, RouteTiles DEF Granted
<1>2. h.res = g.res /\ (h.stop = n + 1 \/ (n = INVALID_INDEX /\ h.stop = C - 1))
  BY StopIs
<1> HIDE DEF C, h
<1>3. CASE n = INVALID_INDEX
  <2>1. C <= g.res /\ h.stop # C
    BY <1>1, <1>2, <1>3 DEF C
  <2>2. \A i \in ri[t]..(C - 1) : i < h.res
    BY <1>1, <1>2, <2>1
  <2> QED BY <2>1, <2>2 DEF Leads, C, h
<1>4. CASE n # INVALID_INDEX
  <2>1. h.stop = n + 1 /\ n < g.res /\ n < C /\ (n = C - 1 => At(route[t], n) \in Crossings)
    BY <1>2, <1>4 DEF C
  <2>2. \A i \in ri[t]..(C - 1) : i < h.stop => i < h.res
    BY <1>1, <1>2, <2>1
  <2>3. h.stop = C => h.stop - 1 = n /\ At(route[t], n) \in Crossings
    BY <1>1, <2>1
  <2> QED BY <2>2, <2>3 DEF Leads, C, h
<1> QED BY <1>3, <1>4

(* The way up to index n is the train's *)
Behind(t, g, n) == \A i \in ri[t]..(Count(route[t]) - 1) : i <= n => Mine(g, t, At(route[t], i))

LEMMA BehindStays ==
  ASSUME Types, NEW t \in Trains, Shape(t), NEW g, NEW h, NEW n \in Int, n >= ri[t] - 1,
         Only(t, g, h, n + 1), Behind(t, g, n)
  PROVE  Behind(t, h, n)
<1> SUFFICES ASSUME NEW i \in ri[t]..(Count(route[t]) - 1), i <= n
             PROVE  Mine(h, t, At(route[t], i))
  BY DEF Behind
<1>1. n + 1 \in Nat /\ i \in 0..(Count(route[t]) - 1) /\ i < n + 1
  BY RouteTiles DEF Shape
<1>2. h.resv[At(route[t], i)] = g.resv[At(route[t], i)]
  BY <1>1, BehindKept
<1> QED BY <1>2 DEF Behind, Mine

(* A block that is free, after a way that the train has, becomes part of it *)
LEMMA BlockGoesOn ==
  ASSUME Types, Signals, NEW t \in Trains, Shape(t), NEW g \in Granted,
         NEW s \in Nat, ri[t] - 1 <= s, Behind(t, g, s - 1)
  PROVE  LET r == route[t]
             h == Reserved(g, t, r, s)
             e == BlockEnd(t, r, s)
             o == NextObstacle(t, r, s)
         IN  /\ h \in Granted /\ h.stop = g.stop /\ Only(t, g, h, s) /\ Held(t, h)
             /\ s < Count(r) => \A i \in ri[t]..(Count(r) - 1) : i < s => i < h.res
             /\ BlockFree(g, t, r, s) => /\ s < Count(r) /\ e + 1 = h.res /\ Behind(t, h, e) /\ s <= e + 1
                                         /\ o \in 0..INVALID_INDEX
                                         /\ o = INVALID_INDEX => Count(r) <= h.res
                                         /\ o # INVALID_INDEX => o <= e
                                         /\ \A k \in Granted : h.res <= k.res => Leads(t, StopAt(k, r, o))
<1> DEFINE r == route[t]
           C == Count(r)
           h == Reserved(g, t, r, s)
           f == From(t, r, s)
           e == BlockEnd(t, r, s)
           o == NextObstacle(t, r, s)
<1>1. C \in 1..(INVALID_INDEX - 1) /\ INVALID_INDEX = 1000 /\ ri[t] \in Nat /\ ri[t] >= 1
  BY Counts, RouteTiles DEF Shape
<1>2. CASE s >= C
  <2>1. h \in Granted /\ h.resv = g.resv /\ h.stop = g.stop /\ h.res = C - 1 /\ ~BlockFree(g, t, r, s)
    BY <1>2, ReservedBeyond
  <2> HIDE DEF h
  <2>2. Only(t, g, h, s)
    BY <2>1 DEF Only
  <2>3. \A i \in ri[t]..(C - 1) : i <= s - 1
    BY <1>1, <1>2
  <2>4. Held(t, h)
    BY <2>1, <2>3 DEF Held, Behind, Mine
  <2>5. ~(s < C)
    BY <1>1, <1>2
  <2> QED BY <2>1, <2>2, <2>4, <2>5 DEF h
<1>3. CASE s < C
  <2>1. /\ f \in Nat /\ ri[t] <= f /\ f <= C /\ (f = s \/ (s = ri[t] - 1 /\ f = ri[t]))
        /\ e \in Nat /\ f <= e + 1 /\ e < C
        /\ \/ o = INVALID_INDEX /\ e = C - 1
           \/ o \in Nat /\ f <= o /\ o <= e /\ (o = C - 1 => At(r, o) \in Crossings)
    <3>1. /\ f \in Nat /\ ri[t] <= f /\ f <= C /\ (s = ri[t] - 1 => f = ri[t]) /\ (ri[t] <= s => f = s)
          /\ e \in Nat /\ f <= e + 1 /\ e < C
          /\ \/ o = INVALID_INDEX /\ e = C - 1
             \/ o \in Nat /\ f <= o /\ o <= e /\ (o = C - 1 => At(r, o) \in Crossings)
      BY <1>3, Blocks
    <3> HIDE DEF f, e, o
    <3> QED BY <1>1, <3>1
  <2>2. /\ h \in Granted /\ h.stop = g.stop /\ Only(t, g, h, f)
        /\ BlockFree(g, t, r, s) => h.res = e + 1 /\ \A i \in f..e : h.resv[At(r, i)] = t
        /\ ~BlockFree(g, t, r, s) => h.res = f
    BY <1>3, ReservedIs
  <2> HIDE DEF f, e, o, h
  <2>3. Only(t, g, h, s)
    <3>1. \A i \in f..(C - 1) : i \in s..(C - 1)
      BY <1>1, <2>1
    <3> QED BY <2>2, <3>1 DEF Only
  <2>4. \A i \in ri[t]..(C - 1) : i < f => i <= s - 1 /\ Mine(h, t, At(r, i))
    <3> SUFFICES ASSUME NEW i \in ri[t]..(C - 1), i < f PROVE i <= s - 1 /\ Mine(h, t, At(r, i))
      OBVIOUS
    <3>1. i <= s - 1 /\ i \in 0..(C - 1)
      BY <1>1, <2>1
    <3>2. Mine(g, t, At(r, i))
      BY <3>1 DEF Behind
    <3>3. h.resv[At(r, i)] = g.resv[At(r, i)]
      BY <2>1, <2>2, <3>1, BehindKept
    <3> QED BY <3>1, <3>2, <3>3 DEF Mine
  <2>5. CASE BlockFree(g, t, r, s)
    <3>1. h.res = e + 1 /\ \A i \in f..e : h.resv[At(r, i)] = t
      BY <2>2, <2>5
    <3>2. \A i \in ri[t]..(C - 1) : i <= e => Mine(h, t, At(r, i))
      <4> SUFFICES ASSUME NEW i \in ri[t]..(C - 1), i <= e PROVE Mine(h, t, At(r, i))
        OBVIOUS
      <4>1. i < f \/ i \in f..e
        BY <1>1, <2>1
      <4> QED BY <2>4, <3>1, <4>1 DEF Mine
    <3>3. Held(t, h) /\ Behind(t, h, e)
      <4>1. \A i \in ri[t]..(C - 1) : i < h.res => i <= e
        BY <1>1, <2>1, <3>1
      <4> QED BY <3>2, <4>1 DEF Held, Behind
    <3>4. \A i \in ri[t]..(C - 1) : i < s => i < h.res
      BY <1>1, <2>1, <3>1
    <3>a. s <= e + 1
      BY <1>1, <2>1
    <3>5. s <= e + 1 /\ o \in 0..INVALID_INDEX /\ (o = INVALID_INDEX => C <= h.res) /\ (o # INVALID_INDEX => o <= e)
      <4>1. CASE o = INVALID_INDEX /\ e = C - 1
        BY <1>1, <3>1, <3>a, <4>1
      <4>2. CASE o \in Nat /\ f <= o /\ o <= e
        <5>1. o < INVALID_INDEX
          BY <1>1, <2>1, <4>2
        <5> QED BY <1>1, <3>a, <4>2, <5>1
      <4> QED BY <2>1, <4>1, <4>2
    <3>6. ASSUME NEW k \in Granted, h.res <= k.res PROVE Leads(t, StopAt(k, r, o))
      <4>1. k.res \in Nat /\ h.res \in Nat
        BY <2>2 DEF Granted
      <4>2. \/ o = INVALID_INDEX /\ C <= k.res
            \/ o < k.res /\ o < C /\ (o = C - 1 => At(r, o) \in Crossings)
        <5>1. CASE o = INVALID_INDEX
          BY <1>1, <3>5, <3>6, <4>1, <5>1
        <5>2. CASE o # INVALID_INDEX
          <6>1. o \in Nat /\ o <= e /\ (o = C - 1 => At(r, o) \in Crossings)
            BY <2>1, <5>2
          <6> QED BY <1>1, <2>1, <3>1, <3>6, <4>1, <6>1
        <5> QED BY <5>1, <5>2
      <4> QED BY <3>5, <3>6, <4>2, StopLeads
    <3> QED BY <1>3, <2>2, <2>3, <3>1, <3>3, <3>4, <3>5, <3>6 DEF h, e, o
  <2>6. CASE ~BlockFree(g, t, r, s)
    <3>1. h.res = f
      BY <2>2, <2>6
    <3>2. \A i \in ri[t]..(C - 1) : i < s => i < h.res
      BY <1>1, <2>1, <3>1
    <3>3. Held(t, h)
      BY <2>4, <3>1 DEF Held
    <3> QED BY <1>3, <2>2, <2>3, <2>6, <3>2, <3>3 DEF h
  <2> QED BY <2>5, <2>6
<1> QED BY <1>1, <1>2, <1>3


(* A train asks at index n, with the way up to there its own; the tile where the route ends is not *)
(* asked at, but by a train that is there                                                          *)
Ready(t, g, n) ==
  /\ g \in Granted /\ n \in Nat /\ ri[t] - 1 <= n /\ n < Count(route[t])
  /\ n = Count(route[t]) - 1 => ri[t] = Count(route[t])
  /\ signal[At(route[t], n)] # "none"
  /\ Behind(t, g, n)

(* What it has been given then: the way up to n still, and all up to the next stop if it may go *)
Given(t, g, n, a) ==
  /\ a.g \in Granted /\ a.ok \in BOOLEAN
  /\ Only(t, g, a.g, n + 1) /\ Held(t, a.g)
  /\ \A i \in ri[t]..(Count(route[t]) - 1) : i <= n => i < a.g.res
  /\ a.ok => Leads(t, a.g)
  /\ ~a.ok => a.g.stop = g.stop \/ (signal[At(route[t], n)] = "priority" /\ Leads(t, a.g))

LEMMA AspectIs ==
  ASSUME Types, Signals, NEW t \in Trains, Shape(t), Clean(t), NEW g, NEW n, Ready(t, g, n), NEW on,
         LET r == route[t]
             after == NextSignal(t, r, n + 1)
             h == Reserved(g, t, r, n + 1)
         IN  after # INVALID_INDEX /\ Ready(t, h, after) => Given(t, h, after, on)
  PROVE  Given(t, g, n, Aspect(t, n, g, on))
<1> DEFINE r == route[t]
           C == Count(r)
           h == Reserved(g, t, r, n + 1)
           e == BlockEnd(t, r, n + 1)
           after == NextSignal(t, r, n + 1)
           o == NextObstacle(t, r, n + 1)
           last == after = INVALID_INDEX \/ At(r, after) = At(r, C - 1)
           a == Aspect(t, n, g, on)
           way == ri[t]..(C - 1)
<1>1. /\ C \in 1..(INVALID_INDEX - 1) /\ INVALID_INDEX = 1000 /\ ri[t] \in Nat /\ ri[t] >= 1 /\ ri[t] <= C
      /\ g \in Granted /\ n \in Nat /\ ri[t] - 1 <= n /\ n < C /\ n + 1 \in Nat
  BY Counts, RouteTiles DEF Shape, Ready
<1>2. /\ h \in Granted /\ h.stop = g.stop /\ Only(t, g, h, n + 1) /\ Held(t, h)
      /\ n + 1 < C => \A i \in way : i < n + 1 => i < h.res
      /\ BlockFree(g, t, r, n + 1) => /\ n + 1 < C /\ e + 1 = h.res /\ Behind(t, h, e) /\ n + 1 <= e + 1
                                      /\ o \in 0..INVALID_INDEX
                                      /\ \A k \in Granted : h.res <= k.res => Leads(t, StopAt(k, r, o))
  <2>1. Behind(t, g, (n + 1) - 1) /\ n + 1 \in Nat /\ ri[t] - 1 <= n + 1 /\ g \in Granted
    <3>1. (n + 1) - 1 = n
      BY <1>1
    <3> QED BY <1>1, <3>1 DEF Ready
  <2> QED BY <2>1, BlockGoesOn
<1>3. \A i \in way : i <= n => i < h.res
  <2>1. CASE n + 1 < C
    BY <1>1, <1>2, <2>1
  <2>2. CASE ~(n + 1 < C)
    BY <1>1, <2>2 DEF Ready
  <2> QED BY <2>1, <2>2
<1>4. a = IF ~BlockFree(g, t, r, n + 1) THEN Answer(FALSE, h)
          ELSE IF signal[At(r, n)] = "normal" \/ last THEN Answer(TRUE, StopAt(h, r, o))
          ELSE IF on.ok THEN Answer(TRUE, StopAt(on.g, r, o))
          ELSE IF signal[At(r, n)] = "priority" THEN Answer(FALSE, StopAt(on.g, r, o))
          ELSE Answer(FALSE, Unreserved(on.g, t, r, n + 1, FALSE))
  BY DEF Aspect
<1>5. BlockFree(g, t, r, n + 1) /\ ~last =>
        /\ after \in Nat /\ after = e /\ n + 1 <= after /\ after < C - 1 /\ signal[At(r, after)] # "none"
        /\ after = n + 1 \/ <<At(r, after), At(r, after - 1)>> \notin Unseen
  <2> SUFFICES ASSUME BlockFree(g, t, r, n + 1), ~last
               PROVE  /\ after \in Nat /\ after = e /\ n + 1 <= after /\ after < C - 1 /\ signal[At(r, after)] # "none"
                      /\ after = n + 1 \/ <<At(r, after), At(r, after - 1)>> \notin Unseen
    OBVIOUS
  <2>1. n + 1 < C /\ ri[t] - 1 <= n + 1 /\ ri[t] <= n + 1 /\ after # INVALID_INDEX
    BY <1>1, <1>2
  <2>2. From(t, r, n + 1) = n + 1
    <3>1. n + 1 \in Nat /\ ri[t] - 1 <= n + 1 /\ n + 1 < Count(route[t]) /\ ri[t] <= n + 1
      BY <1>1, <2>1
    <3> QED BY <3>1, Blocks
  <2>3. /\ after = e /\ From(t, r, n + 1) <= after /\ after < C - 1 /\ signal[At(r, after)] # "none" /\ e \in Nat
        /\ after = From(t, r, n + 1) \/ <<At(r, after), At(r, after - 1)>> \notin Unseen
    BY <1>1, <2>1, Blocks
  <2> QED BY <2>2, <2>3
<1> HIDE DEF h, e, after, o, last, a
<1>6. ASSUME NEW k \in Granted, Only(t, g, k, n + 1), Held(t, k), \A i \in way : i <= n => i < k.res,
             BlockFree(g, t, r, n + 1), h.res <= k.res
      PROVE  LET b == StopAt(k, r, o)
             IN  b \in Granted /\ Only(t, g, b, n + 1) /\ Held(t, b) /\ Leads(t, b) /\ \A i \in way : i <= n => i < b.res
  <2> DEFINE b == StopAt(k, r, o)
  <2>1. b \in Granted /\ b.resv = k.resv /\ b.res = k.res
    BY <1>2, <1>6, StopIs
  <2>2. Leads(t, b)
    BY <1>2, <1>6
  <2> HIDE DEF b
  <2> QED BY <1>6, <2>1, <2>2 DEF Only, Held, Mine, b
<1>7. CASE ~BlockFree(g, t, r, n + 1)
  <2>1. a.g = h /\ a.ok = FALSE
    BY <1>4, <1>7 DEF Answer
  <2> QED BY <1>2, <1>3, <2>1 DEF Given, a
<1>8. CASE BlockFree(g, t, r, n + 1) /\ (signal[At(r, n)] = "normal" \/ last)
  <2>1. a.g = StopAt(h, r, o) /\ a.ok = TRUE
    BY <1>4, <1>8 DEF Answer
  <2>2. h.res <= h.res
    BY <1>2 DEF Granted
  <2> QED BY <1>2, <1>3, <1>6, <1>8, <2>1, <2>2 DEF Given, a
<1>9. CASE BlockFree(g, t, r, n + 1) /\ ~(signal[At(r, n)] = "normal") /\ ~last
  <2>1. /\ after \in Nat /\ after = e /\ n + 1 <= after /\ after < C - 1 /\ signal[At(r, after)] # "none"
        /\ after = n + 1 \/ <<At(r, after), At(r, after - 1)>> \notin Unseen
    BY <1>5, <1>9
  <2>2. Ready(t, h, after) /\ after # INVALID_INDEX
    <3>1. after # INVALID_INDEX /\ ri[t] - 1 <= after /\ after < C /\ after # C - 1
      BY <1>1, <2>1
    <3>2. h \in Granted /\ Behind(t, h, after)
      BY <1>2, <1>9, <2>1
    <3> QED BY <2>1, <3>1, <3>2 DEF Ready
  <2>3. Given(t, h, after, on)
    BY <2>2 DEF h, after
  <2>4. on.g \in Granted /\ on.ok \in BOOLEAN /\ Only(t, h, on.g, after + 1) /\ Held(t, on.g)
    BY <2>3 DEF Given
  <2>5. \A i \in way : i <= after => i < on.g.res
    BY <2>3 DEF Given
  <2>6. Only(t, g, on.g, n + 1)
    <3>1. n + 1 <= after + 1 /\ after + 1 \in Nat /\ n + 1 \in Nat
      BY <1>1, <2>1
    <3>2. Only(t, g, h, n + 1) /\ Only(t, h, on.g, after + 1)
      BY <1>2, <2>4
    <3> QED BY <3>1, <3>2, OnlyChains
  <2>7. (\A i \in way : i <= n => i < on.g.res) /\ h.res <= on.g.res
    <3>1. \A i \in way : i <= n => i <= after
      BY <1>1, <2>1
    <3>2. after \in way
      BY <1>1, <2>1
    <3>3. after < on.g.res /\ on.g.res \in Nat
      BY <2>4, <2>5, <3>2 DEF Granted
    <3>4. h.res = after + 1
      BY <1>2, <1>9, <2>1
    <3> QED BY <2>1, <2>5, <3>1, <3>3, <3>4
  <2>8. LET b == StopAt(on.g, r, o)
        IN  b \in Granted /\ Only(t, g, b, n + 1) /\ Held(t, b) /\ Leads(t, b) /\ \A i \in way : i <= n => i < b.res
    BY <1>6, <1>9, <2>4, <2>6, <2>7
  <2>9. CASE on.ok
    <3>1. a.g = StopAt(on.g, r, o) /\ a.ok = TRUE
      BY <1>4, <1>9, <2>9 DEF Answer
    <3> QED BY <2>8, <3>1 DEF Given, a
  <2>10. CASE ~on.ok /\ signal[At(r, n)] = "priority"
    <3>1. a.g = StopAt(on.g, r, o) /\ a.ok = FALSE
      BY <1>4, <1>9, <2>10 DEF Answer
    <3> QED BY <2>8, <2>10, <3>1 DEF Given, a
  <2>11. CASE ~on.ok /\ ~(signal[At(r, n)] = "priority")
    <3> DEFINE u == Unreserved(on.g, t, r, n + 1, FALSE)
    <3>1. a.g = u /\ a.ok = FALSE
      BY <1>4, <1>9, <2>11 DEF Answer
    <3>2. u \in Granted /\ u.stop = on.g.stop /\ u.res = n + 1 /\ Only(t, on.g, u, n + 1)
      <4>1. on.g \in Granted /\ n + 1 \in Nat /\ n + 1 < C
        BY <1>1, <1>2, <1>9, <2>4
      <4>2. \A force \in BOOLEAN : LET v == Unreserved(on.g, t, route[t], n + 1, force)
                       IN  v \in Granted /\ v.stop = on.g.stop /\ v.res = n + 1 /\ Only(t, on.g, v, n + 1)
        BY <4>1, UnreservedIs
      <4> QED BY <4>2
    <3> HIDE DEF u
    <3>3. Only(t, g, u, n + 1)
      BY <1>1, <2>6, <3>2, OnlyChains
    <3>4. Behind(t, u, n)
      <4>1. Behind(t, g, n)
        BY DEF Ready
      <4> QED BY <1>1, <3>3, <4>1, BehindStays
    <3>5. Held(t, u) /\ \A i \in way : i <= n => i < u.res
      <4>1. \A i \in way : i < n + 1 <=> i <= n
        BY <1>1
      <4> QED BY <3>2, <3>4, <4>1 DEF Held, Behind
    <3>6. signal[At(r, n)] = "pre"
      <4>1. At(r, n) \in Tiles
        BY <1>1, RouteTiles
      <4>2. signal[At(r, n)] \in Kinds
        BY <4>1 DEF Signals
      <4> QED BY <1>9, <2>11, <4>2 DEF Kinds, Ready
    <3>7. ~(signal[At(r, after)] = "priority")
      <4>1. n \in (ri[t] - 1)..(C - 1) /\ after \in (ri[t] - 1)..(C - 1) /\ n < after
        BY <1>1, <2>1
      <4>2. signal[At(r, after)] = "priority" => after > n + 1 /\ <<At(r, after), At(r, after - 1)>> \in Unseen
        BY <3>6, <4>1 DEF Clean
      <4> QED BY <1>1, <2>1, <4>2
    <3>8. u.stop = g.stop
      BY <1>2, <2>3, <2>11, <3>2, <3>7 DEF Given
    <3> QED BY <3>1, <3>2, <3>3, <3>5, <3>8 DEF Given, a
  <2> QED BY <2>4, <2>9, <2>10, <2>11
<1> QED BY <1>7, <1>8, <1>9


(* The signal after index n is farther on *)
LEMMA SignalAfter ==
  ASSUME Types, NEW t \in Trains, Shape(t), NEW n \in 0..(Count(route[t]) - 1)
  PROVE  LET after == NextSignal(t, route[t], n + 1)
         IN  after = INVALID_INDEX \/ (after \in (n + 1)..(Count(route[t]) - 1) /\ after # INVALID_INDEX)
<1> DEFINE r == route[t]
           f == From(t, r, n + 1)
           S == SignalsAhead(t, r, n + 1)
<1>1. Count(r) \in 1..(INVALID_INDEX - 1) /\ INVALID_INDEX = 1000
  BY Counts
<1>2. f \in Nat /\ n + 1 <= f
  BY <1>1 DEF From
<1>3. S \in SUBSET Nat /\ \A i \in S : i \in (n + 1)..(Count(r) - 1) /\ i # INVALID_INDEX
  BY <1>1, <1>2 DEF SignalsAhead
<1>4. NextSignal(t, r, n + 1) = FirstIndex(S)
  BY DEF NextSignal
<1> HIDE DEF S
<1> QED BY <1>3, <1>4, FirstIs

(* What the signals of a cascade answer, as a function; it is well defined *)
Cascade(t, f) ==
  [n \in 0..(Count(route[t]) - 1) |->
     [g \in Grants |->
        Aspect(t, n, g, f[NextSignal(t, route[t], n + 1)][Reserved(g, t, route[t], n + 1)])]]

LEMMA CascadeExists ==
  ASSUME Types, NEW t \in Trains, Shape(t)
  PROVE  \E f : f = Cascade(t, f)
<1> DEFINE C == Count(route[t])
           D == 0..(C - 1)
           next(n) == NextSignal(t, route[t], n + 1)
           Body(n, f) == [g \in Grants |-> Aspect(t, n, g, f[next(n)][Reserved(g, t, route[t], n + 1)])]
           Good(f, k) == f = [n \in D |-> f[n]] /\ \A n \in D : n + k >= C => f[n] = Body(n, f)
           P == {k \in Nat : \E f : Good(f, k)}
<1>1. C \in Nat
  BY RouteTiles
<1>2. ASSUME NEW n \in D, NEW f, NEW h, next(n) # INVALID_INDEX => f[next(n)] = h[next(n)]
      PROVE  Body(n, f) = Body(n, h)
  <2>1. CASE next(n) = INVALID_INDEX
    <3> SUFFICES ASSUME NEW g \in Grants, NEW a, NEW b PROVE Aspect(t, n, g, a) = Aspect(t, n, g, b)
      OBVIOUS
    <3> QED BY <2>1 DEF Aspect
  <2>2. CASE next(n) # INVALID_INDEX
    BY <1>2, <2>2
  <2> QED BY <2>1, <2>2
<1>3. \A n \in D : next(n) = INVALID_INDEX \/ (next(n) \in (n + 1)..(C - 1) /\ next(n) # INVALID_INDEX)
  BY SignalAfter
<1> HIDE DEF Body, next, C
<1>4. 0 \in P
  <2> DEFINE f == [n \in D |-> n]
  <2>1. f = [n \in D |-> f[n]]
    OBVIOUS
  <2>2. \A n \in D : ~(n + 0 >= C)
    BY <1>1
  <2>3. Good(f, 0)
    BY <2>1, <2>2
  <2> QED BY <2>3
<1>5. ASSUME NEW k \in Nat, k \in P PROVE k + 1 \in P
  <2>1. PICK f : Good(f, k)
    BY <1>5
  <2> DEFINE h == [n \in D |-> IF n + k + 1 = C THEN Body(n, f) ELSE f[n]]
  <2>2. h = [n \in D |-> h[n]]
    OBVIOUS
  <2>3. \A n \in D : h[n] = IF n + k + 1 = C THEN Body(n, f) ELSE f[n]
    OBVIOUS
  <2> HIDE DEF h
  <2>4. ASSUME NEW n \in D, n + (k + 1) >= C PROVE h[n] = Body(n, h)
    <3>1. h[n] = Body(n, f)
      <4>1. CASE n + k + 1 = C
        BY <2>3, <4>1
      <4>2. CASE n + k >= C
        <5>1. n + k + 1 # C
          BY <1>1, <4>2
        <5>2. h[n] = f[n]
          BY <2>3, <5>1
        <5> QED BY <2>1, <4>2, <5>2
      <4> QED BY <1>1, <2>4, <4>1, <4>2
    <3>2. next(n) # INVALID_INDEX => f[next(n)] = h[next(n)]
      <4> SUFFICES ASSUME next(n) # INVALID_INDEX PROVE f[next(n)] = h[next(n)]
        OBVIOUS
      <4>1. next(n) \in (n + 1)..(C - 1)
        BY <1>3
      <4>2. next(n) \in D /\ next(n) + k + 1 # C
        BY <1>1, <2>4, <4>1
      <4> QED BY <2>3, <4>2
    <3> QED BY <1>2, <3>1, <3>2
  <2>5. Good(h, k + 1)
    BY <2>2, <2>4
  <2> HIDE DEF Good
  <2> QED BY <2>5
<1>6. \A k \in Nat : k \in P
  <2> HIDE DEF P
  <2> QED BY <1>4, <1>5, SetInduction
<1>7. PICK f : Good(f, C)
  BY <1>1, <1>6
<1>8. \A n \in D : f[n] = Body(n, f)
  <2>1. \A n \in D : n + C >= C
    BY <1>1
  <2> QED BY <1>7, <2>1
<1>9. f = [n \in D |-> Body(n, f)]
  BY <1>7, <1>8
<1> QED BY <1>9 DEF Cascade, Body, next, C

LEMMA SignalClearIs ==
  ASSUME Types, Signals, NEW t \in Trains, Shape(t), Clean(t), NEW g, NEW n, Ready(t, g, n)
  PROVE  Given(t, g, n, SignalClear(t, g, n))
<1> DEFINE C == Count(route[t])
           D == 0..(C - 1)
           f == CHOOSE f : f = Cascade(t, f)
           after(i) == NextSignal(t, route[t], i + 1)
           held(i, k) == Reserved(k, t, route[t], i + 1)
           P == {d \in Nat : \A i \in D, k \in Granted : Ready(t, k, i) /\ i + d >= C => Given(t, k, i, f[i][k])}
<1>1. SignalClear(t, g, n) = f[n][g]
  BY DEF SignalClear, Cascade
<1>2. f = Cascade(t, f)
  BY CascadeExists
<1>3. C \in Nat
  BY RouteTiles
<1>4. Granted \subseteq Grants
  <2>1. 0..(INVALID_INDEX + 1) \subseteq Nat /\ 0..INVALID_INDEX \subseteq Nat
    BY DEF INVALID_INDEX
  <2> QED BY <2>1 DEF Granted, Grants
<1> HIDE DEF f
<1>5. \A i \in D, k \in Granted : f[i][k] = Aspect(t, i, k, f[after(i)][held(i, k)])
  <2> DEFINE Body(h) == [i \in D |-> [k \in Grants |-> Aspect(t, i, k, h[after(i)][held(i, k)])]]
  <2>1. f = Body(f)
    BY <1>2 DEF Cascade
  <2> SUFFICES ASSUME NEW h, f = Body(h), NEW i \in D, NEW k \in Granted
               PROVE  f[i][k] = Aspect(t, i, k, h[after(i)][held(i, k)])
    BY <2>1
  <2>2. f[i] = [j \in Grants |-> Aspect(t, i, j, h[after(i)][held(i, j)])]
    OBVIOUS
  <2> QED BY <1>4, <2>2
<1>6. \A i \in D : after(i) = INVALID_INDEX \/ (after(i) \in (i + 1)..(C - 1) /\ after(i) # INVALID_INDEX)
  BY SignalAfter
<1> HIDE DEF C, after, held
<1>7. 0 \in P
  <2>1. \A i \in D : ~(i + 0 >= C)
    BY <1>3
  <2> QED BY <2>1
<1>8. ASSUME NEW d \in Nat, d \in P PROVE d + 1 \in P
  <2> SUFFICES ASSUME NEW i \in D, NEW k \in Granted, Ready(t, k, i), i + (d + 1) >= C
               PROVE  Given(t, k, i, f[i][k])
    OBVIOUS
  <2>1. after(i) # INVALID_INDEX /\ Ready(t, held(i, k), after(i))
        => Given(t, held(i, k), after(i), f[after(i)][held(i, k)])
    <3> SUFFICES ASSUME after(i) # INVALID_INDEX, Ready(t, held(i, k), after(i))
                 PROVE  Given(t, held(i, k), after(i), f[after(i)][held(i, k)])
      OBVIOUS
    <3>1. after(i) \in D /\ after(i) + d >= C
      BY <1>3, <1>6
    <3>2. held(i, k) \in Granted
      BY DEF Ready
    <3> QED BY <1>8, <3>1, <3>2
  <2>2. Given(t, k, i, Aspect(t, i, k, f[after(i)][held(i, k)]))
    BY <2>1, AspectIs DEF after, held
  <2> QED BY <1>5, <2>2
<1>9. \A d \in Nat : d \in P
  <2> HIDE DEF P
  <2> QED BY <1>7, <1>8, SetInduction
<1>10. n \in D /\ n + C >= C /\ g \in Granted
  BY <1>3 DEF Ready, C
<1> QED BY <1>1, <1>3, <1>9, <1>10


------------------------------------------------------------------------------
(* May a train go on, and what has it got then *)

LEMMA ReachedLeads ==
  ASSUME Types, NEW t \in Trains, Shape(t), ri[t] = Count(route[t]), NEW g \in Granted
  PROVE  Leads(t, g)
<1>1. ~(ri[t] < Count(route[t])) /\ \A i : i \notin ri[t]..(Count(route[t]) - 1)
  BY RouteTiles
<1> QED BY <1>1 DEF Leads

Goes(t, g, a) ==
  /\ a.g \in Granted /\ a.ok \in BOOLEAN
  /\ Only(t, g, a.g, ri[t]) /\ Held(t, a.g) /\ Leads(t, a.g)

LEMMA GoesAsIs ==
  ASSUME NEW t \in Trains, NEW g \in Granted, Held(t, g), Leads(t, g), NEW ok \in BOOLEAN
  PROVE  Goes(t, g, Answer(ok, g))
BY DEF Goes, Answer, Only

LEMMA ObstacleClearIs ==
  ASSUME Types, Signals, NEW t \in Trains, Shape(t), Clean(t), NEW open \in BOOLEAN,
         NEW g \in Granted, Held(t, g), Leads(t, g), ri[t] <= g.stop, g.stop <= Count(route[t])
  PROVE  Goes(t, g, ObstacleClear(t, g, open))
<1> DEFINE r == route[t]
           C == Count(r)
           n == g.stop - 1
           x == At(r, n)
           s == g.stop
           held == Reserved(g, t, r, s)
           o == NextObstacle(t, r, s)
           passed == IF n = C - 1 THEN StopAt(g, r, INVALID_INDEX) ELSE StopAt(held, r, o)
           answer == SignalClear(t, g, n)
           a == ObstacleClear(t, g, open)
           way == ri[t]..(C - 1)
<1>1. /\ C \in 1..(INVALID_INDEX - 1) /\ INVALID_INDEX = 1000 /\ ri[t] \in Nat /\ ri[t] >= 1 /\ ri[t] <= C
      /\ s \in Nat /\ g.res \in Nat /\ s <= C /\ ri[t] <= s
      /\ n \in Nat /\ n + 1 = s /\ ri[t] - 1 <= n /\ n < C
  <2>1. s \in Nat /\ g.res \in Nat
    <3>1. g.stop \in 0..(INVALID_INDEX + 1) /\ g.res \in 0..INVALID_INDEX
      BY DEF Granted
    <3>2. 0..(INVALID_INDEX + 1) \subseteq Nat /\ 0..INVALID_INDEX \subseteq Nat
      BY DEF INVALID_INDEX
    <3> QED BY <3>1, <3>2
  <2> QED BY <2>1, Counts, RouteTiles DEF Shape
<1>2. Behind(t, g, n)
  <2>1. \A i \in way : i <= n => i < s
    BY <1>1
  <2> QED BY <2>1 DEF Behind, Leads, Held
<1>3. /\ held \in Granted /\ held.stop = g.stop /\ Only(t, g, held, s) /\ Held(t, held)
      /\ s < C => \A i \in way : i < s => i < held.res
      /\ BlockFree(g, t, r, s) => Leads(t, StopAt(held, r, o)) /\ o \in 0..INVALID_INDEX
  <2>1. s \in Nat /\ ri[t] - 1 <= s /\ Behind(t, g, s - 1)
    BY <1>1, <1>2
  <2>2. /\ held \in Granted /\ held.stop = g.stop /\ Only(t, g, held, s) /\ Held(t, held)
        /\ s < C => \A i \in way : i < s => i < held.res
        /\ BlockFree(g, t, r, s) => /\ o \in 0..INVALID_INDEX
                                    /\ \A k \in Granted : held.res <= k.res => Leads(t, StopAt(k, r, o))
    BY <2>1, BlockGoesOn
  <2> HIDE DEF held, o
  <2>3. held.res <= held.res
    BY <2>2 DEF Granted
  <2> QED BY <2>2, <2>3
<1>4. Only(t, g, held, ri[t])
  <2>1. \A i \in s..(C - 1) : i \in way
    BY <1>1
  <2> QED BY <1>3, <2>1 DEF Only
<1>5. a = IF x \in Crossings /\ ~open THEN Answer(s > ri[t] + 1, g)
          ELSE IF signal[x] # "none" THEN Answer(answer.ok \/ answer.g.stop > ri[t], answer.g)
          ELSE IF x \in Crossings /\ n # C - 1 /\ ~BlockFree(g, t, r, s) THEN Answer(FALSE, held)
          ELSE Answer(TRUE, IF x \in Crossings THEN passed ELSE g)
  BY DEF ObstacleClear
<1> HIDE DEF held, o, answer, a
<1>6. CASE x \in Crossings /\ ~open
  <2>1. a = Answer(s > ri[t] + 1, g)
    BY <1>5, <1>6
  <2>2. a.g = g /\ a.ok = (s > ri[t] + 1)
    BY <2>1 DEF Answer
  <2>3. a.ok \in BOOLEAN
    BY <2>2
  <2> QED BY <2>2, <2>3 DEF Goes, Only, a
<1>7. CASE ~(x \in Crossings /\ ~open) /\ signal[x] # "none"
  <2>1. a = Answer(answer.ok \/ answer.g.stop > ri[t], answer.g)
    BY <1>5, <1>7
  <2>2. n = C - 1 => ri[t] = C
    <3> SUFFICES ASSUME n = C - 1, ri[t] # C PROVE FALSE
      OBVIOUS
    <3>1. s = C /\ ri[t] < s
      BY <1>1
    <3>2. x \in Crossings
      BY <3>1 DEF Leads
    <3>3. signal[x] = "none"
      BY <3>1, <3>2 DEF Clean
    <3> QED BY <1>7, <3>3
  <2>3. Ready(t, g, n)
    BY <1>1, <1>2, <1>7, <2>2 DEF Ready
  <2>4. Given(t, g, n, answer)
    BY <2>3, SignalClearIs DEF answer
  <2>5. answer.g \in Granted /\ Held(t, answer.g) /\ Only(t, g, answer.g, ri[t])
    <3>1. \A i \in (n + 1)..(C - 1) : i \in way
      BY <1>1
    <3> QED BY <2>4, <3>1 DEF Given, Only
  <2>6. Leads(t, answer.g)
    <3>1. CASE answer.g.stop = s
      <4>1. \A i \in way : i < s => i < answer.g.res
        <5>1. \A i \in way : i < s => i <= n
          BY <1>1
        <5> QED BY <2>4, <5>1 DEF Given
      <4> QED BY <3>1, <4>1 DEF Leads
    <3> QED BY <2>4, <3>1 DEF Given
  <2>7. a.g = answer.g /\ a.ok \in BOOLEAN
    <3>1. a.ok = (answer.ok \/ answer.g.stop > ri[t]) /\ a.g = answer.g
      BY <2>1 DEF Answer
    <3> QED BY <3>1
  <2> QED BY <2>5, <2>6, <2>7 DEF Goes, a
<1>8. CASE ~(x \in Crossings /\ ~open) /\ signal[x] = "none" /\ x \in Crossings /\ n # C - 1 /\ ~BlockFree(g, t, r, s)
  <2>1. a = Answer(FALSE, held)
    BY <1>5, <1>8
  <2>2. Leads(t, held)
    <3>1. s < C
      BY <1>1, <1>8
    <3> QED BY <1>3, <3>1 DEF Leads
  <2>3. a.g = held /\ a.ok = FALSE
    BY <2>1 DEF Answer
  <2> QED BY <1>3, <1>4, <2>2, <2>3 DEF Goes, a
<1>9. CASE ~(x \in Crossings /\ ~open) /\ signal[x] = "none" /\ ~(x \in Crossings /\ n # C - 1 /\ ~BlockFree(g, t, r, s))
  <2>1. a = Answer(TRUE, IF x \in Crossings THEN passed ELSE g)
    BY <1>5, <1>9
  <2>2. CASE x \notin Crossings
    BY <2>1, <2>2, GoesAsIs DEF a
  <2>3. CASE x \in Crossings
    <3>1. a.g = passed /\ a.ok = TRUE
      BY <2>1, <2>3 DEF Answer
    <3>2. passed \in Granted /\ Only(t, g, passed, ri[t]) /\ Held(t, passed) /\ Leads(t, passed)
      <4>1. CASE n = C - 1
        <5> DEFINE p == StopAt(g, r, INVALID_INDEX)
        <5>1. p \in Granted /\ p.resv = g.resv /\ p.res = g.res
          <6>1. INVALID_INDEX \in 0..INVALID_INDEX
            BY DEF INVALID_INDEX
          <6> QED BY <6>1, StopIs
        <5>2. Leads(t, p)
          <6>1. CASE ri[t] = C
            BY <5>1, <6>1, ReachedLeads
          <6>2. CASE ri[t] # C
            <7>1. C - 1 \in way /\ C - 1 < s
              BY <1>1, <4>1, <6>2
            <7>2. C - 1 < g.res
              BY <7>1 DEF Leads
            <7>3. C <= g.res /\ INVALID_INDEX \in 0..INVALID_INDEX
              BY <1>1, <7>2
            <7> QED BY <7>3, StopLeads
          <6> QED BY <6>1, <6>2
        <5> HIDE DEF p
        <5>3. Only(t, g, p, ri[t]) /\ Held(t, p)
          BY <5>1 DEF Only, Held, Mine
        <5> QED BY <4>1, <5>1, <5>2, <5>3 DEF p
      <4>2. CASE n # C - 1
        <5> DEFINE p == StopAt(held, r, o)
        <5>1. BlockFree(g, t, r, s)
          BY <1>9, <2>3, <4>2
        <5>2. p \in Granted /\ p.resv = held.resv /\ p.res = held.res
          BY <1>3, <5>1, StopIs
        <5>3. Leads(t, p)
          BY <1>3, <5>1
        <5> HIDE DEF p
        <5>4. Only(t, g, p, ri[t]) /\ Held(t, p)
          BY <1>3, <1>4, <5>2 DEF Only, Held, Mine
        <5> QED BY <4>2, <5>2, <5>3, <5>4 DEF p
      <4> QED BY <4>1, <4>2
    <3> HIDE DEF passed
    <3> QED BY <3>1, <3>2 DEF Goes, a
  <2> QED BY <2>2, <2>3
<1> QED BY <1>6, <1>7, <1>8, <1>9


LEMMA TileClearIs ==
  ASSUME Types, Signals, NEW t \in Trains, Shape(t), Clean(t), NEW open \in BOOLEAN,
         NEW g \in Granted, Held(t, g), Leads(t, g)
  PROVE  LET a == TileClear(t, g, open)
         IN  /\ Goes(t, g, a)
             /\ a.ok /\ ri[t] < Count(route[t]) => CanReserve(a.g, t, At(route[t], ri[t]))
<1> DEFINE r == route[t]
           C == Count(r)
           held == Reserved(g, t, r, ri[t])
           o == NextObstacle(t, r, ri[t])
           obstacle == ObstacleClear(t, g, open)
           free == CanReserve(g, t, At(r, Lesser(ri[t], C - 1)))
           a == TileClear(t, g, open)
<1>1. /\ C \in 1..(INVALID_INDEX - 1) /\ INVALID_INDEX = 1000 /\ ri[t] \in Nat /\ ri[t] >= 1 /\ ri[t] <= C
      /\ g.stop \in Nat
  <2>1. g.stop \in Nat
    <3>1. g.stop \in 0..(INVALID_INDEX + 1)
      BY DEF Granted
    <3> QED BY <3>1 DEF INVALID_INDEX
  <2> QED BY <2>1, Counts, RouteTiles DEF Shape
<1>2. a = IF ~free THEN Answer(FALSE, g)
          ELSE IF g.stop = 0 \/ g.stop > C THEN Answer(TRUE, g)
          ELSE IF g.stop < ri[t]
          THEN IF BlockFree(g, t, r, ri[t]) THEN Answer(TRUE, StopAt(held, r, o)) ELSE Answer(FALSE, held)
          ELSE IF g.stop - 1 <= ri[t] + 3 THEN obstacle
          ELSE Answer(TRUE, g)
  BY DEF TileClear
<1> HIDE DEF a
<1>3. Goes(t, g, a)
  <2> HIDE DEF free, held, o, obstacle
  <2>1. CASE a = Answer(FALSE, g)
    BY <2>1, GoesAsIs
  <2>2. CASE a = Answer(TRUE, g)
    BY <2>2, GoesAsIs
  <2>3. CASE /\ g.stop < ri[t]
             /\ a = Answer(FALSE, held) \/ (a = Answer(TRUE, StopAt(held, r, o)) /\ BlockFree(g, t, r, ri[t]))
    <3>1. Behind(t, g, ri[t] - 1) /\ ri[t] - 1 <= ri[t] /\ ri[t] \in Nat
      BY <1>1 DEF Behind
    <3>2. /\ held \in Granted /\ held.stop = g.stop /\ Only(t, g, held, ri[t]) /\ Held(t, held)
          /\ BlockFree(g, t, r, ri[t]) => /\ o \in 0..INVALID_INDEX
                                          /\ \A k \in Granted : held.res <= k.res => Leads(t, StopAt(k, r, o))
      BY <3>1, BlockGoesOn DEF held, o
    <3>3. CASE a = Answer(FALSE, held)
      <4>1. Leads(t, held)
        <5>1. ~(ri[t] < held.stop) /\ \A i \in ri[t]..(C - 1) : ~(i < held.stop)
          BY <1>1, <2>3, <3>2
        <5> QED BY <5>1 DEF Leads
      <4>2. a.g = held /\ a.ok = FALSE
        BY <3>3 DEF Answer
      <4> QED BY <3>2, <4>1, <4>2 DEF Goes
    <3>4. CASE a = Answer(TRUE, StopAt(held, r, o)) /\ BlockFree(g, t, r, ri[t])
      <4> DEFINE p == StopAt(held, r, o)
      <4>1. p \in Granted /\ p.resv = held.resv /\ p.res = held.res
        BY <3>2, <3>4, StopIs
      <4>2. Leads(t, p)
        <5>1. held.res <= held.res
          BY <3>2 DEF Granted
        <5> QED BY <3>2, <3>4, <5>1
      <4>3. a.g = p /\ a.ok = TRUE
        BY <3>4 DEF Answer
      <4> HIDE DEF p
      <4> QED BY <3>2, <4>1, <4>2, <4>3 DEF Goes, Only, Held, Mine
    <3> QED BY <2>3, <3>3, <3>4
  <2>4. CASE a = obstacle /\ ri[t] <= g.stop /\ g.stop <= C
    BY <2>4, ObstacleClearIs DEF obstacle
  <2>5. (g.stop < ri[t] \/ ri[t] <= g.stop) /\ (g.stop > C \/ g.stop <= C)
    BY <1>1
  <2> QED BY <1>2, <2>1, <2>2, <2>3, <2>4, <2>5
<1>4. ASSUME a.ok, ri[t] < C PROVE CanReserve(a.g, t, At(r, ri[t]))
  <2>1. free
    BY <1>2, <1>4 DEF Answer
  <2>2. Lesser(ri[t], C - 1) = ri[t] /\ ri[t] \in 0..(C - 1)
    BY <1>1, <1>4 DEF Lesser
  <2>3. At(r, ri[t]) \in Tiles
    BY <2>2, RouteTiles
  <2> QED BY <1>3, <2>1, <2>2, <2>3 DEF Goes, Only, CanReserve
<1> QED BY <1>3, <1>4 DEF a

LEMMA StartClearIs ==
  ASSUME Types, Signals, NEW t \in Trains, Shape(t), Clean(t), NEW open \in BOOLEAN, NEW at_border \in BOOLEAN,
         NEW g \in Granted, Held(t, g)
  PROVE  LET a == StartClear(t, g, open, at_border)
         IN  /\ a.g \in Granted /\ a.ok \in BOOLEAN /\ Only(t, g, a.g, ri[t]) /\ Held(t, a.g)
             /\ a.ok => Leads(t, a.g)
<1> DEFINE r == route[t]
           C == Count(r)
           s == ri[t] - 1
           held == Reserved(g, t, r, s)
           o == NextObstacle(t, r, s)
           here == StopAt(g, r, s)
           tile == TileClear(t, here, open)
           a == StartClear(t, g, open, at_border)
<1>1. /\ C \in 1..(INVALID_INDEX - 1) /\ INVALID_INDEX = 1000 /\ ri[t] \in Nat /\ ri[t] >= 1 /\ ri[t] <= C
      /\ s \in Nat /\ s < C /\ s \in 0..INVALID_INDEX /\ s # INVALID_INDEX /\ s + 1 = ri[t]
  BY Counts, RouteTiles DEF Shape
<1>2. /\ held \in Granted /\ Held(t, held) /\ Only(t, g, held, ri[t])
      /\ BlockFree(g, t, r, s) => o \in 0..INVALID_INDEX /\ Leads(t, StopAt(held, r, o))
  <2>1. Behind(t, g, s - 1) /\ ri[t] - 1 <= s /\ s \in Nat /\ s < Count(route[t])
    BY <1>1 DEF Behind
  <2>2. /\ held \in Granted /\ Held(t, held)
        /\ BlockFree(g, t, r, s) => /\ o \in 0..INVALID_INDEX
                                    /\ \A k \in Granted : held.res <= k.res => Leads(t, StopAt(k, r, o))
    BY <2>1, BlockGoesOn
  <2>3. Only(t, g, held, From(t, r, s))
    BY <1>1, <2>1, ReservedIs
  <2>4. From(t, r, s) = ri[t]
    BY <2>1, Blocks
  <2> HIDE DEF held, o, s
  <2>5. held.res <= held.res
    BY <2>2 DEF Granted
  <2> QED BY <2>2, <2>3, <2>4, <2>5
<1>3. here \in Granted /\ here.resv = g.resv /\ here.res = g.res /\ here.stop = ri[t]
  <2>1. /\ here \in Granted /\ here.resv = g.resv /\ here.res = g.res
        /\ here.stop = s + 1 \/ (s = INVALID_INDEX /\ here.stop = C - 1)
    <3>1. s \in 0..INVALID_INDEX
      BY <1>1
    <3> HIDE DEF s
    <3> QED BY <3>1, StopIs
  <2> HIDE DEF here, s
  <2> QED BY <1>1, <2>1
<1>4. a = IF signal[Pos(t)] = "none" /\ Pos(t) \notin Crossings
          THEN IF BlockFree(g, t, r, s) THEN Answer(TRUE, StopAt(held, r, o)) ELSE Answer(FALSE, held)
          ELSE IF ~at_border THEN Answer(TRUE, here)
          ELSE tile
  BY DEF StartClear
<1> HIDE DEF s, held, o, here, tile, a
<1>5. Held(t, here) /\ Leads(t, here) /\ Only(t, g, here, ri[t])
  <2>1. ~(ri[t] < here.stop) /\ \A i \in ri[t]..(C - 1) : ~(i < here.stop)
    BY <1>1, <1>3
  <2> QED BY <1>3, <2>1 DEF Held, Leads, Only, Mine
<1>6. CASE a = Answer(FALSE, held)
  <2>1. a.g = held /\ a.ok = FALSE
    BY <1>6 DEF Answer
  <2> QED BY <1>2, <2>1 DEF a
<1>7. CASE a = Answer(TRUE, StopAt(held, r, o)) /\ BlockFree(g, t, r, s)
  <2> DEFINE p == StopAt(held, r, o)
  <2>1. p \in Granted /\ p.resv = held.resv /\ p.res = held.res
    BY <1>2, <1>7, StopIs
  <2>2. Leads(t, p)
    BY <1>2, <1>7
  <2>3. a.g = p /\ a.ok = TRUE
    BY <1>7 DEF Answer
  <2> HIDE DEF p
  <2> QED BY <1>2, <2>1, <2>2, <2>3 DEF Only, Held, Mine, a
<1>8. CASE a = Answer(TRUE, here)
  <2>1. a.g = here /\ a.ok = TRUE
    BY <1>8 DEF Answer
  <2> QED BY <1>3, <1>5, <2>1 DEF a
<1>9. CASE a = tile
  <2>1. Goes(t, here, a)
    BY <1>3, <1>5, <1>9, TileClearIs DEF tile
  <2> QED BY <1>3, <2>1 DEF Goes, Only, a
<1> QED BY <1>4, <1>6, <1>7, <1>8, <1>9

(* ... at any time *)
LEMMA EnterIs ==
  ASSUME Types, Signals, NEW t \in Trains, Shape(t), Clean(t), NEW in \in Inputs, Held(t, Grant(t)),
         state[t] \notin {"CAN_START", "PLACED"} => Leads(t, Grant(t))
  PROVE  LET a == Enter(t, Grant(t), in)
         IN  /\ a.g \in Granted /\ a.ok \in BOOLEAN /\ Only(t, Grant(t), a.g, ri[t]) /\ Held(t, a.g)
             /\ a.ok \/ state[t] \notin {"CAN_START", "PLACED"} => Leads(t, a.g)
             /\ a.ok /\ state[t] \notin {"CAN_START", "PLACED"} /\ ri[t] < Count(route[t])
                => CanReserve(a.g, t, At(route[t], ri[t]))
<1>1. Grant(t) \in Granted
  BY DEF Grant, Granted, Types
<1>2. in.open \in BOOLEAN /\ in.at_border \in BOOLEAN
  BY DEF Inputs
<1>3. CASE state[t] \in {"CAN_START", "PLACED"}
  <2>1. Enter(t, Grant(t), in) = StartClear(t, Grant(t), in.open, in.at_border)
    BY <1>3 DEF Enter
  <2>2. LET a == StartClear(t, Grant(t), in.open, in.at_border)
        IN  /\ a.g \in Granted /\ a.ok \in BOOLEAN /\ Only(t, Grant(t), a.g, ri[t]) /\ Held(t, a.g)
            /\ a.ok => Leads(t, a.g)
    BY <1>1, <1>2, StartClearIs
  <2> QED BY <1>3, <2>1, <2>2
<1>4. CASE state[t] \notin {"CAN_START", "PLACED"}
  <2>1. Enter(t, Grant(t), in) = TileClear(t, Grant(t), in.open)
    BY <1>4 DEF Enter
  <2> QED BY <1>1, <1>2, <1>4, <2>1, TileClearIs DEF Goes
<1> QED BY <1>3, <1>4


------------------------------------------------------------------------------
(* The invariant *)

LEMMA CleanIs ==
  ASSUME Types, Signals, WellSignalled, NEW t \in Trains, Shape(t), OnPath(t)
  PROVE  Clean(t)
<1> DEFINE r == route[t]
           C == Count(r)
           I == (ri[t] - 1)..(C - 1)
<1>1. C \in Nat /\ C > 0 /\ ri[t] \in Nat /\ ri[t] >= 1 /\ ri[t] <= C /\ \A i \in I : At(r, i) \in Tiles
  BY Counts, RouteTiles DEF Shape
<1>2. PICK plan \in Plans : \A x \in Tiles : signal[x] \in {plan[x], "none"}
  BY DEF Signals
<1>3. PICK p \in Paths : \A i \in I : i + 1 + Len(p) - C \in DOMAIN p /\ At(r, i) = p[i + 1 + Len(p) - C]
  BY DEF OnPath
<1>4. p \in Seq(Tiles) /\ Len(p) \in Nat /\ DOMAIN p = 1..Len(p)
  BY RailAssumption
<1>5. ASSUME NEW i \in I, NEW j \in I, i < j, signal[At(r, i)] = "pre", signal[At(r, j)] = "priority"
      PROVE  j > i + 1 /\ <<At(r, j), At(r, j - 1)>> \in Unseen
  <2> DEFINE k == i + 1 + Len(p) - C
             l == j + 1 + Len(p) - C
  <2>1. k \in DOMAIN p /\ l \in DOMAIN p /\ At(r, i) = p[k] /\ At(r, j) = p[l]
    BY <1>3
  <2>2. plan[p[k]] = "pre" /\ plan[p[l]] = "priority"
    BY <1>1, <1>2, <1>5, <2>1
  <2>3. k < l
    BY <1>1, <1>4, <1>5
  <2>4. l > k + 1 /\ <<p[l], p[l - 1]>> \in Unseen
    BY <2>1, <2>2, <2>3 DEF WellSignalled
  <2>5. j > i + 1 /\ j - 1 \in I /\ l - 1 = (j - 1) + 1 + Len(p) - C
    <3>1. i \in Int /\ j \in Int /\ j <= C - 1 /\ ri[t] - 1 <= i
      BY <1>1
    <3>2. j > i + 1
      BY <1>1, <1>4, <2>4, <3>1
    <3>3. j - 1 \in I
      BY <1>1, <3>1, <3>2
    <3> QED BY <1>1, <1>4, <3>1, <3>2, <3>3
  <2>6. At(r, j - 1) = p[l - 1]
    BY <1>3, <2>5
  <2> QED BY <2>1, <2>4, <2>5, <2>6
<1>6. ASSUME ri[t] < C, At(r, C - 1) \in Crossings
      PROVE  signal[At(r, C - 1)] = "none"
  <2>1. C - 1 \in I /\ (C - 1) + 1 + Len(p) - C = Len(p)
    BY <1>1, <1>4
  <2>2. At(r, C - 1) = Last(p) /\ At(r, C - 1) \in Tiles
    BY <1>1, <1>3, <2>1 DEF Last
  <2>3. plan[Last(p)] = "none"
    BY <1>6, <2>2 DEF WellSignalled
  <2> QED BY <1>2, <2>2, <2>3
<1> QED BY <1>5, <1>6 DEF Clean

(* The variables of a train stay, but for what is reserved *)
Unmoved(u) ==
  /\ state'[u] = state[u] /\ out'[u] = out[u]
  /\ route'[u] = route[u] /\ ri'[u] = ri[u] /\ bi'[u] = bi[u]
  /\ nextStop'[u] = nextStop[u] /\ nextRes'[u] = nextRes[u]

(* A train takes and gives up only tiles that no other needs *)
OwnTiles(t) ==
  \A x \in Tiles : resv'[x] = resv[x] \/ (resv'[x] \in {t, Nobody} /\ (x \in Depots \/ resv[x] \in {t, Nobody}))

LEMMA OthersHold ==
  ASSUME IInv, NEW t \in Trains, NEW u \in Trains, u # t, Unmoved(u), OwnTiles(t), ~Searching(u)
  PROVE  /\ TrainInv(u)' /\ Under(u)' = Under(u) /\ ~Searching(u)'
         /\ \A x \in Under(u) \ Depots : resv'[x] = u
<1> DEFINE C == Count(route[u])
<1>1. Types /\ TrainInv(u) /\ Shape(u) /\ u # Nobody
  BY RailAssumption DEF IInv, TrainInv
<1>2. Shape(u)' /\ Under(u)' = Under(u) /\ ~Searching(u)' /\ (Driving(u)' <=> Driving(u)) /\ ((OnPath(u))' <=> OnPath(u))
  BY <1>1 DEF Unmoved, Shape, Under, Searching, Driving, OnPath
<1>3. \A i \in 0..(C - 1) : At(route[u], i) \in Tiles
  BY <1>1, RouteTiles
<1>4. Under(u) \subseteq Tiles
  <2>1. \A i \in (bi[u] - 1)..(ri[u] - 1) : i \in 0..(C - 1)
    BY <1>1, RouteTiles DEF Shape
  <2> QED BY <1>3, <2>1 DEF Under
<1>5. \A x \in Tiles : x \notin Depots /\ resv[x] = u => resv'[x] = u
  BY <1>1 DEF OwnTiles
<1>6. \A x \in Tiles : resv'[x] = u => resv[x] = u
  BY <1>1 DEF OwnTiles
<1>7. state[u] # "INITIAL" => \A x \in Under(u) \ Depots : resv[x] = u
  BY <1>1 DEF TrainInv, OnTrack, Searching
<1>8. \A x \in Under(u) \ Depots : resv'[x] = u
  <2>1. CASE state[u] = "INITIAL"
    BY <2>1 DEF Under
  <2>2. CASE state[u] # "INITIAL"
    BY <1>4, <1>5, <1>7, <2>2
  <2> QED BY <2>1, <2>2
<1>9. OnTrack(u)'
  BY <1>2, <1>8 DEF OnTrack
<1>10. NoStray(u)'
  <2> SUFFICES ASSUME NEW x \in Tiles, resv'[x] = u
               PROVE  /\ state'[u] # "INITIAL"
                      /\ \/ x \in Under(u)'
                         \/ ~Searching(u)' /\ \E i \in ri'[u]..(Count(route'[u]) - 1) : x = At(route'[u], i)
    BY DEF NoStray
  <2>1. resv[x] = u
    BY <1>6
  <2> QED BY <1>1, <1>2, <2>1 DEF TrainInv, NoStray, Unmoved
<1>11. Driving(u) => Held(u, Grant(u))'
  <2> SUFFICES ASSUME Driving(u), NEW i \in ri[u]..(C - 1), i < nextRes[u]
               PROVE  At(route[u], i) \in Depots \/ resv'[At(route[u], i)] = u
    BY DEF Held, Mine, Grant, Unmoved
  <2>1. At(route[u], i) \in Tiles
    BY <1>1, <1>3, RouteTiles DEF Shape
  <2>2. At(route[u], i) \in Depots \/ resv[At(route[u], i)] = u
    BY <1>1 DEF TrainInv, Held, Mine, Grant
  <2> QED BY <1>5, <2>1, <2>2
<1>12. Leads(u, Grant(u))' <=> Leads(u, Grant(u))
  BY DEF Leads, Grant, Unmoved
<1>13. Searching(u)' => nextRes'[u] = 0
  BY <1>2
<1>14. TrainInv(u)'
  <2>1. state'[u] = state[u]
    BY DEF Unmoved
  <2> QED BY <1>1, <1>2, <1>9, <1>10, <1>11, <1>12, <1>13, <2>1 DEF TrainInv, Searching
<1> QED BY <1>2, <1>8, <1>14

(* What a step of one train has to keep *)
LEMMA TrainStep ==
  ASSUME IInv, NEW t \in Trains, Types', signal' = signal,
         \A u \in Trains : u # t => Unmoved(u) /\ ~Searching(u),
         OwnTiles(t), TrainInv(t)',
         \A x \in Under(t)' : x \in Depots \/ x \in Under(t) \/ resv'[x] = t
  PROVE  IInv'
<1>1. \A u \in Trains : u # t => /\ TrainInv(u)' /\ Under(u)' = Under(u) /\ ~Searching(u)'
                                 /\ \A x \in Under(u) \ Depots : resv'[x] = u
  BY OthersHold
<1>2. Signals'
  BY DEF IInv, Signals
<1>3. OneSearches'
  BY <1>1 DEF OneSearches
<1>4. \A u \in Trains : u # t => Under(t)' \cap Under(u)' \subseteq Depots
  BY <1>1 DEF IInv, Exclusive
<1>5. \A u, v \in Trains : u # t /\ v # t /\ u # v => Under(u)' \cap Under(v)' \subseteq Depots
  BY <1>1 DEF IInv, Exclusive
<1>6. Exclusive'
  BY <1>4, <1>5 DEF Exclusive
<1> QED BY <1>1, <1>2, <1>3, <1>6 DEF IInv


LEMMA OthersRest ==
  ASSUME IInv, NEW t \in Trains, Idle \/ Searching(t)
  PROVE  \A u \in Trains : u # t => ~Searching(u)
BY DEF IInv, OneSearches, Idle, Searching

LEMMA UnderIs ==
  ASSUME Types, NEW t \in Trains, Shape(t)
  PROVE  /\ \A i \in (bi[t] - 1)..(ri[t] - 1) : i \in 0..(Count(route[t]) - 1) /\ At(route[t], i) \in Tiles
         /\ \A i \in ri[t]..(Count(route[t]) - 1) : i \in 0..(Count(route[t]) - 1) /\ At(route[t], i) \in Tiles \ Under(t)
         /\ Under(t) \subseteq Tiles /\ Pos(t) \in Tiles
         /\ state[t] # "INITIAL" => Pos(t) \in Under(t)
<1> DEFINE C == Count(route[t])
<1>1. /\ C \in Nat /\ ri[t] \in Nat /\ bi[t] \in Nat /\ 1 <= bi[t] /\ bi[t] <= ri[t] /\ ri[t] <= C
      /\ \A i \in 0..(C - 1) : At(route[t], i) \in Tiles
      /\ Pos(t) = At(route[t], ri[t] - 1)
  BY RouteTiles DEF Shape
<1>2. \A i \in (bi[t] - 1)..(ri[t] - 1) : i \in 0..(C - 1) /\ At(route[t], i) \in Tiles
  BY <1>1
<1>3. ri[t] - 1 \in (bi[t] - 1)..(ri[t] - 1)
  BY <1>1
<1>4. \A i \in ri[t]..(C - 1) : i \in 0..(C - 1) /\ At(route[t], i) \in Tiles
  BY <1>1
<1>5. ASSUME NEW i \in ri[t]..(C - 1), At(route[t], i) \in Under(t) PROVE FALSE
  <2>1. PICK j \in (bi[t] - 1)..(ri[t] - 1) : At(route[t], i) = At(route[t], j)
    BY <1>5 DEF Under
  <2>2. i = j
    BY <1>2, <1>4, <2>1 DEF Shape
  <2> QED BY <1>1, <2>2
<1> QED BY <1>1, <1>2, <1>3, <1>4, <1>5 DEF Under

LEMMA KeepIs ==
  ASSUME Types, NEW t \in Trains, NEW g \in Granted, Keep(t, g)
  PROVE  /\ resv' = g.resv /\ resv' \in [Tiles -> Trains \cup {Nobody}]
         /\ nextStop' \in [Trains -> 0..(INVALID_INDEX + 1)] /\ nextRes' \in [Trains -> 0..INVALID_INDEX]
         /\ nextStop'[t] = g.stop /\ nextRes'[t] = g.res
         /\ \A u \in Trains : u # t => nextStop'[u] = nextStop[u] /\ nextRes'[u] = nextRes[u]
BY DEF Keep, Granted, Types

LEMMA GrantIs ==
  ASSUME Types, NEW t \in Trains
  PROVE  /\ Grant(t) \in Granted
         /\ Grant(t).resv = resv /\ Grant(t).stop = nextStop[t] /\ Grant(t).res = nextRes[t]
         /\ Keep(t, Grant(t)) => UNCHANGED <<nextStop, nextRes, resv>>
BY DEF Keep, Grant, Granted, Types

(* A train that is not under way: nothing but its state changes *)
LEMMA Rests ==
  ASSUME IInv, NEW t \in Trains, Idle \/ Searching(t),
         NEW s \in {"ROUTING_1", "NO_ROUTE", "LOADING"}, state' = [state EXCEPT ![t] = s],
         UNCHANGED <<route, ri, bi, out, nextStop, nextRes, resv, signal>>, events' \in 0..MaxEvents,
         state[t] # "PLACED", state[t] = "SEARCHING" => ri[t] = Count(route[t])
  PROVE  IInv'
<1>1. Types /\ Shape(t) /\ TrainInv(t)
  BY DEF IInv, TrainInv
<1>2. Types'
  <2>1. s \in States
    BY DEF States
  <2> QED BY <1>1, <2>1 DEF Types
<1>3. state'[t] = s /\ s # "INITIAL" /\ ~Searching(t)' /\ ~Driving(t)' /\ s # "PLACED"
  BY <1>1 DEF Types, Searching, Driving
<1>4. Shape(t)'
  BY <1>1, <1>3 DEF Shape
<1>5. Under(t)' = {At(route[t], i) : i \in (bi[t] - 1)..(ri[t] - 1)}
  BY <1>3 DEF Under
<1>6. \A x \in Under(t)' \ Depots : x \in Under(t) /\ resv[x] = t
  <2>1. CASE state[t] = "INITIAL"
    <3>1. Count(route[t]) = 1 /\ At(route[t], 0) \in Depots
      BY <1>1, <2>1 DEF Shape
    <3>2. \A i \in (bi[t] - 1)..(ri[t] - 1) : i = 0
      BY <1>1, <3>1, RouteTiles DEF Shape
    <3> QED BY <1>5, <3>1, <3>2
  <2>2. CASE state[t] # "INITIAL"
    <3>1. Under(t)' = Under(t)
      BY <1>5, <2>2 DEF Under
    <3>2. ~(ri[t] < Count(route[t])) \/ state[t] # "SEARCHING"
      BY <1>1, RouteTiles
    <3> QED BY <1>1, <2>2, <3>1, <3>2 DEF TrainInv, OnTrack
  <2> QED BY <2>1, <2>2
<1>7. OnTrack(t)'
  BY <1>6 DEF OnTrack
<1>8. NoStray(t)'
  <2> SUFFICES ASSUME NEW x \in Tiles, resv[x] = t
               PROVE  x \in Under(t)' \/ \E i \in ri[t]..(Count(route[t]) - 1) : x = At(route[t], i)
    BY <1>3 DEF NoStray
  <2>1. state[t] # "INITIAL" /\ (x \in Under(t) \/ \E i \in ri[t]..(Count(route[t]) - 1) : x = At(route[t], i))
    BY <1>1 DEF TrainInv, NoStray
  <2> QED BY <1>5, <2>1 DEF Under
<1>9. TrainInv(t)'
  BY <1>3, <1>4, <1>7, <1>8 DEF TrainInv
<1>10. \A u \in Trains : u # t => Unmoved(u) /\ ~Searching(u)
  BY <1>1, OthersRest DEF Unmoved, Types
<1>11. OwnTiles(t) /\ \A x \in Under(t)' : x \in Depots \/ x \in Under(t) \/ resv'[x] = t
  BY <1>6 DEF OwnTiles
<1> QED BY <1>2, <1>9, <1>10, <1>11, TrainStep

LEMMA StartStep ==
  ASSUME IInv, NEW t \in Trains, Start(t) PROVE IInv'
<1>1. events' \in 0..MaxEvents /\ state[t] # "PLACED" /\ state[t] # "SEARCHING"
  BY DEF Start, IInv, Types
<1> QED BY <1>1, Rests DEF Start

LEMMA NoRouteStep ==
  ASSUME IInv, Troubles = {}, NEW t \in Trains, NoRoute(t) PROVE IInv'
<1>1. events' \in 0..MaxEvents /\ state[t] # "PLACED" /\ Searching(t) /\ ri[t] = Count(route[t])
  BY DEF NoRoute, IInv, Types, Searching
<1> QED BY <1>1, Rests DEF NoRoute

LEMMA LoadedStep ==
  ASSUME IInv, NEW t \in Trains, Loaded(t) PROVE IInv'
<1>1. events' \in 0..MaxEvents /\ state[t] # "PLACED" /\ state[t] # "SEARCHING"
  BY DEF Loaded, IInv, Types
<1> QED BY <1>1, Rests DEF Loaded

LEMMA RerouteStep ==
  ASSUME IInv, Troubles = {}, NEW t \in Trains, Reroute(t) PROVE IInv'
<1>1. /\ Idle /\ state[t] \in {"DRIVING", "LEAVING_DEPOT", "WAITING_FOR_CLEARANCE", "CAN_START"}
      /\ state' = [state EXCEPT ![t] = "ROUTING_1"] /\ Keep(t, Grant(t))
      /\ events < MaxEvents /\ events' = events + 1 /\ UNCHANGED <<route, ri, bi, out, signal>>
  BY DEF Reroute, SyncStep
<1>2. UNCHANGED <<nextStop, nextRes, resv>>
  BY <1>1, GrantIs DEF IInv
<1>3. events' \in 0..MaxEvents
  BY <1>1, RailAssumption DEF IInv, Types
<1> QED BY <1>1, <1>2, <1>3, Rests


(* A train that asks for its way *)
LEMMA Asks ==
  ASSUME IInv, NEW t \in Trains, Idle \/ Searching(t), Driving(t) \/ state[t] = "PLACED",
         NEW s \in {"DRIVING", "LEAVING_DEPOT", "WAITING_FOR_CLEARANCE", "CAN_START"}, state' = [state EXCEPT ![t] = s],
         NEW h \in Granted, Keep(t, h), UNCHANGED <<route, ri, bi, out, signal, events>>,
         Held(t, h), s # "CAN_START" => Leads(t, h),
         \A x \in Tiles : h.resv[x] = resv[x] \/ (h.resv[x] \in {t, Nobody} /\ (x \in Depots \/ resv[x] \in {t, Nobody})),
         \A x \in Under(t) \ Depots : h.resv[x] = t,
         \A x \in Tiles : h.resv[x] = t => x \in Under(t) \/ \E i \in ri[t]..(Count(route[t]) - 1) : x = At(route[t], i)
  PROVE  IInv'
<1>1. Types /\ Shape(t) /\ TrainInv(t)
  BY DEF IInv, TrainInv
<1>2. /\ resv' = h.resv /\ nextStop'[t] = h.stop /\ nextRes'[t] = h.res
      /\ \A u \in Trains : u # t => nextStop'[u] = nextStop[u] /\ nextRes'[u] = nextRes[u]
  BY <1>1, KeepIs
<1>3. Types'
  <2>1. s \in States
    BY DEF States
  <2> QED BY <1>1, <2>1, KeepIs DEF Types
<1>4. state'[t] = s /\ s # "INITIAL" /\ ~Searching(t)' /\ s # "PLACED"
  BY <1>1 DEF Types, Searching
<1>5. Shape(t)'
  BY <1>1, <1>4 DEF Shape
<1>6. Under(t)' = Under(t)
  BY <1>4 DEF Under, Driving
<1>7. OnTrack(t)'
  BY <1>2, <1>6 DEF OnTrack
<1>8. NoStray(t)'
  BY <1>2, <1>4, <1>6 DEF NoStray
<1>9. OnPath(t)'
  BY <1>1 DEF TrainInv, OnPath
<1>10. Held(t, Grant(t))'
  BY <1>2 DEF Held, Mine, Grant
<1>11. s # "CAN_START" => Leads(t, Grant(t))'
  BY <1>2 DEF Leads, Grant
<1>12. TrainInv(t)'
  BY <1>4, <1>5, <1>7, <1>8, <1>9, <1>10, <1>11 DEF TrainInv
<1>13. \A u \in Trains : u # t => Unmoved(u) /\ ~Searching(u)
  BY <1>1, <1>2, OthersRest DEF Unmoved, Types
<1>14. OwnTiles(t) /\ \A x \in Under(t)' : x \in Depots \/ x \in Under(t) \/ resv'[x] = t
  BY <1>2, <1>6 DEF OwnTiles
<1> QED BY <1>3, <1>12, <1>13, <1>14, TrainStep

(* What a train is given beyond its first vehicle changes nothing under it *)
LEMMA AheadOnly ==
  ASSUME IInv, NEW t \in Trains, Driving(t), NEW h \in Granted, Only(t, Grant(t), h, ri[t])
  PROVE  /\ \A x \in Tiles : h.resv[x] = resv[x] \/ (h.resv[x] \in {t, Nobody} /\ resv[x] \in {t, Nobody})
         /\ \A x \in Under(t) : h.resv[x] = resv[x]
         /\ \A x \in Under(t) \ Depots : h.resv[x] = t
         /\ \A x \in Tiles : h.resv[x] = t => x \in Under(t) \/ \E i \in ri[t]..(Count(route[t]) - 1) : x = At(route[t], i)
<1>1. Types /\ Shape(t) /\ TrainInv(t) /\ state[t] # "INITIAL" /\ ~Searching(t)
  BY DEF IInv, TrainInv, Driving, Searching
<1>2. \A x \in Tiles : \/ h.resv[x] = resv[x]
                       \/ /\ resv[x] \in {t, Nobody} /\ h.resv[x] \in {t, Nobody}
                          /\ \E i \in ri[t]..(Count(route[t]) - 1) : x = At(route[t], i)
  BY <1>1, GrantIs DEF Only
<1>3. \A x \in Under(t) : h.resv[x] = resv[x]
  BY <1>1, <1>2, UnderIs
<1>4. \A x \in Under(t) \ Depots : resv[x] = t
  BY <1>1 DEF TrainInv, OnTrack, Searching
<1>5. \A x \in Tiles : resv[x] = t => x \in Under(t) \/ \E i \in ri[t]..(Count(route[t]) - 1) : x = At(route[t], i)
  BY <1>1 DEF TrainInv, NoStray
<1> QED BY <1>2, <1>3, <1>4, <1>5

LEMMA EnterHolds ==
  ASSUME IInv, WellSignalled, NEW t \in Trains, Driving(t) \/ state[t] = "PLACED", NEW in \in Inputs
  PROVE  LET a == Enter(t, Grant(t), in)
         IN  /\ a.g \in Granted /\ a.ok \in BOOLEAN /\ Only(t, Grant(t), a.g, ri[t]) /\ Held(t, a.g)
             /\ a.ok \/ state[t] \notin {"CAN_START", "PLACED"} => Leads(t, a.g)
             /\ a.ok /\ state[t] \notin {"CAN_START", "PLACED"} /\ ri[t] < Count(route[t])
                => CanReserve(a.g, t, At(route[t], ri[t]))
<1>1. Types /\ Signals /\ Shape(t) /\ TrainInv(t) /\ OnPath(t)
  BY DEF IInv, TrainInv
<1>2. Clean(t)
  BY <1>1, CleanIs
<1>3. Held(t, Grant(t))
  <2>1. CASE state[t] = "PLACED"
    <3>1. nextRes[t] = 0
      BY <1>1, <2>1 DEF TrainInv, Searching
    <3>2. \A i \in ri[t]..(Count(route[t]) - 1) : ~(i < 0)
      BY <1>1, RouteTiles
    <3> QED BY <3>1, <3>2 DEF Held, Grant
  <2> QED BY <1>1, <2>1 DEF TrainInv
<1>4. state[t] \notin {"CAN_START", "PLACED"} => Leads(t, Grant(t))
  BY <1>1 DEF TrainInv
<1> QED BY <1>1, <1>2, <1>3, <1>4, EnterIs

LEMMA DepartStep ==
  ASSUME IInv, WellSignalled, NEW t \in Trains, NEW in \in Inputs, Depart(t, in) PROVE IInv'
<1> DEFINE a == Enter(t, Grant(t), in)
           s == IF a.ok THEN "DRIVING" ELSE "CAN_START"
           h == ReserveUnder(t, a.g)
<1>1. /\ state[t] = "PLACED" /\ state' = [state EXCEPT ![t] = s] /\ Keep(t, h)
      /\ UNCHANGED <<route, ri, bi, out, signal, events>>
  BY DEF Depart
<1>2. Types /\ Shape(t) /\ TrainInv(t) /\ Searching(t)
  BY <1>1 DEF IInv, TrainInv, Searching
<1>3. a.g \in Granted /\ Only(t, Grant(t), a.g, ri[t]) /\ Held(t, a.g) /\ (a.ok => Leads(t, a.g))
  BY <1>1, EnterHolds
<1> HIDE DEF a
<1>4. /\ h \in Granted /\ h.stop = a.g.stop /\ h.res = a.g.res
      /\ \A x \in Tiles : h.resv[x] = IF x \in Under(t) /\ CanReserve(a.g, t, x) THEN t ELSE a.g.resv[x]
  BY <1>3, TakenIs DEF ReserveUnder
<1> HIDE DEF h
<1>5. Held(t, h) /\ (a.ok => Leads(t, h))
  <2>1. \A i \in ri[t]..(Count(route[t]) - 1) : At(route[t], i) \in Tiles
    BY <1>2, UnderIs
  <2>2. \A x \in Tiles : Mine(a.g, t, x) => Mine(h, t, x)
    BY <1>4 DEF Mine
  <2> QED BY <1>3, <1>4, <2>1, <2>2 DEF Held, Leads
<1>6. \A x \in Tiles : \/ a.g.resv[x] = resv[x]
                       \/ /\ resv[x] \in {t, Nobody} /\ a.g.resv[x] \in {t, Nobody}
                          /\ \E i \in ri[t]..(Count(route[t]) - 1) : x = At(route[t], i)
  BY <1>2, <1>3, GrantIs DEF Only
<1>7. \A x \in Tiles : h.resv[x] = resv[x] \/ (h.resv[x] \in {t, Nobody} /\ (x \in Depots \/ resv[x] \in {t, Nobody}))
  BY <1>4, <1>6 DEF CanReserve
<1>8. \A x \in Under(t) \ Depots : h.resv[x] = t
  <2>1. \A x \in Under(t) \ Depots : x \in Tiles /\ resv[x] \in {t, Nobody}
    BY <1>1, <1>2, UnderIs DEF TrainInv, OnTrack
  <2> QED BY <1>4, <1>6, <2>1 DEF CanReserve
<1>9. \A x \in Tiles : h.resv[x] = t => x \in Under(t) \/ \E i \in ri[t]..(Count(route[t]) - 1) : x = At(route[t], i)
  <2>1. \A x \in Tiles : resv[x] = t => x \in Under(t)
    BY <1>2 DEF TrainInv, NoStray
  <2> QED BY <1>4, <1>6, <2>1
<1>10. s \in {"DRIVING", "LEAVING_DEPOT", "WAITING_FOR_CLEARANCE", "CAN_START"} /\ (s # "CAN_START" => Leads(t, h))
  BY <1>5
<1> HIDE DEF s
<1> QED BY <1>1, <1>2, <1>4, <1>5, <1>7, <1>8, <1>9, <1>10, Asks, ZenonT(60)

LEMMA WaitStep ==
  ASSUME IInv, Troubles = {}, WellSignalled, NEW t \in Trains, NEW in \in Inputs, Wait(t, in) PROVE IInv'
<1> DEFINE a == Enter(t, Grant(t), in)
<1>1. /\ Idle /\ state[t] \in {"DRIVING", "LEAVING_DEPOT"} /\ state' = [state EXCEPT ![t] = "WAITING_FOR_CLEARANCE"]
      /\ Keep(t, a.g) /\ UNCHANGED <<route, ri, bi, out, signal, events>>
  BY DEF Wait, Moving, SyncStep
<1>2. Driving(t) /\ state[t] \notin {"CAN_START", "PLACED"}
  BY <1>1 DEF Driving
<1>3. a.g \in Granted /\ Only(t, Grant(t), a.g, ri[t]) /\ Held(t, a.g) /\ Leads(t, a.g)
  BY <1>2, EnterHolds
<1> HIDE DEF a
<1>4. /\ \A x \in Tiles : a.g.resv[x] = resv[x] \/ (a.g.resv[x] \in {t, Nobody} /\ (x \in Depots \/ resv[x] \in {t, Nobody}))
      /\ \A x \in Under(t) \ Depots : a.g.resv[x] = t
      /\ \A x \in Tiles : a.g.resv[x] = t => x \in Under(t) \/ \E i \in ri[t]..(Count(route[t]) - 1) : x = At(route[t], i)
  BY <1>2, <1>3, AheadOnly
<1>5. "WAITING_FOR_CLEARANCE" \in {"DRIVING", "LEAVING_DEPOT", "WAITING_FOR_CLEARANCE", "CAN_START"}
  OBVIOUS
<1> QED BY <1>1, <1>2, <1>3, <1>4, <1>5, Asks, ZenonT(60)

LEMMA TryStartStep ==
  ASSUME IInv, WellSignalled, NEW t \in Trains, NEW in \in Inputs, TryStart(t, in) PROVE IInv'
<1> DEFINE a == Enter(t, Grant(t), in)
           inDepot == state[t] = "CAN_START" /\ out[t] /\ ri[t] = 1
           h == IF ~a.ok /\ inDepot THEN [a.g EXCEPT !.resv[Pos(t)] = Nobody] ELSE a.g
           s == IF a.ok THEN IF out[t] THEN "LEAVING_DEPOT" ELSE "DRIVING" ELSE state[t]
<1>1. /\ Idle /\ state[t] \in {"CAN_START", "WAITING_FOR_CLEARANCE"} /\ state' = [state EXCEPT ![t] = s]
      /\ Keep(t, h) /\ UNCHANGED <<route, ri, bi, out, signal, events>>
  BY DEF TryStart
<1>2. Types /\ Shape(t) /\ Driving(t) /\ state[t] # "PLACED"
  BY <1>1 DEF IInv, TrainInv, Driving
<1>3. a.g \in Granted /\ Only(t, Grant(t), a.g, ri[t]) /\ Held(t, a.g) /\ (a.ok \/ state[t] # "CAN_START" => Leads(t, a.g))
  BY <1>2, EnterHolds
<1> HIDE DEF a
<1>4. /\ \A x \in Tiles : a.g.resv[x] = resv[x] \/ (a.g.resv[x] \in {t, Nobody} /\ resv[x] \in {t, Nobody})
      /\ \A x \in Under(t) \ Depots : a.g.resv[x] = t
      /\ \A x \in Tiles : a.g.resv[x] = t => x \in Under(t) \/ \E i \in ri[t]..(Count(route[t]) - 1) : x = At(route[t], i)
  BY <1>2, <1>3, AheadOnly
<1>5. /\ h \in Granted /\ h.stop = a.g.stop /\ h.res = a.g.res
      /\ \A x \in Tiles : h.resv[x] = a.g.resv[x] \/ (x \in Depots /\ h.resv[x] = Nobody)
  <2>1. inDepot => Pos(t) \in Depots
    BY <1>2, RouteTiles DEF Shape
  <2>2. a.g.resv \in [Tiles -> Trains \cup {Nobody}]
    BY <1>3 DEF Granted
  <2>3. CASE ~a.ok /\ inDepot
    <3>1. h = [a.g EXCEPT !.resv = [@ EXCEPT ![Pos(t)] = Nobody]]
      BY <2>3
    <3>2. [a.g.resv EXCEPT ![Pos(t)] = Nobody] \in [Tiles -> Trains \cup {Nobody}]
      BY <2>2
    <3> QED BY <1>3, <2>1, <2>2, <2>3, <3>1, <3>2 DEF Granted
  <2> QED BY <1>3, <2>3
<1> HIDE DEF h
<1>6. Held(t, h) /\ (a.ok \/ state[t] # "CAN_START" => Leads(t, h))
  <2>1. \A i \in ri[t]..(Count(route[t]) - 1) : At(route[t], i) \in Tiles
    BY <1>2, UnderIs
  <2>2. \A x \in Tiles : Mine(a.g, t, x) => Mine(h, t, x)
    BY <1>5 DEF Mine
  <2> QED BY <1>3, <1>5, <2>1, <2>2 DEF Held, Leads
<1>7. /\ \A x \in Tiles : h.resv[x] = resv[x] \/ (h.resv[x] \in {t, Nobody} /\ (x \in Depots \/ resv[x] \in {t, Nobody}))
      /\ \A x \in Tiles : h.resv[x] = t => x \in Under(t) \/ \E i \in ri[t]..(Count(route[t]) - 1) : x = At(route[t], i)
  BY <1>4, <1>5, RailAssumption
<1>8. \A x \in Under(t) \ Depots : h.resv[x] = t
  BY <1>2, <1>4, <1>5, UnderIs
<1>9. /\ s \in {"DRIVING", "LEAVING_DEPOT", "WAITING_FOR_CLEARANCE", "CAN_START"}
      /\ s # "CAN_START" => Leads(t, h)
  BY <1>1, <1>6
<1> HIDE DEF s
<1> QED BY <1>1, <1>2, <1>5, <1>6, <1>7, <1>8, <1>9, Asks


LEMMA AllOutStep ==
  ASSUME IInv, Troubles = {}, NEW t \in Trains, AllOut(t) PROVE IInv'
<1>1. /\ Idle /\ state[t] = "LEAVING_DEPOT" /\ state' = [state EXCEPT ![t] = "DRIVING"] /\ out' = [out EXCEPT ![t] = FALSE]
      /\ UNCHANGED <<route, ri, bi, nextStop, nextRes, resv, signal, events>>
  BY DEF AllOut, Moving, SyncStep
<1>2. Types /\ TrainInv(t)
  BY DEF IInv
<1>3. Types'
  <2>1. "DRIVING" \in States
    BY DEF States
  <2> QED BY <1>1, <1>2, <2>1 DEF Types
<1>4. state'[t] = "DRIVING" /\ out'[t] = FALSE
  BY <1>1, <1>2 DEF Types
<1>5. Shape(t)' /\ OnPath(t)' /\ Under(t)' = Under(t) /\ Held(t, Grant(t))' /\ Leads(t, Grant(t))'
  BY <1>1, <1>2, <1>4 DEF TrainInv, Shape, OnPath, Under, Driving, Held, Leads, Mine, Grant
<1>6. OnTrack(t)' /\ NoStray(t)' /\ ~Searching(t)'
  BY <1>1, <1>2, <1>4, <1>5 DEF TrainInv, OnTrack, NoStray, Searching
<1>7. TrainInv(t)'
  BY <1>4, <1>5, <1>6 DEF TrainInv, Searching
<1>8. \A u \in Trains : u # t => Unmoved(u) /\ ~Searching(u)
  BY <1>1, <1>2, OthersRest DEF Unmoved, Types
<1>9. OwnTiles(t)
  BY <1>1 DEF OwnTiles
<1> QED BY <1>1, <1>3, <1>5, <1>7, <1>8, <1>9, TrainStep

LEMMA HopTailStep ==
  ASSUME IInv, Troubles = {}, NEW t \in Trains, HopTail(t) PROVE IInv'
<1> DEFINE y == At(route[t], bi[t] - 1)
           C == Count(route[t])
<1>1. /\ Idle /\ state[t] \in {"DRIVING", "LEAVING_DEPOT"} /\ Length[t] > 0 /\ ri[t] - bi[t] = Length[t]
      /\ resv' = [resv EXCEPT ![y] = Nobody] /\ bi' = [bi EXCEPT ![t] = @ + 1]
      /\ UNCHANGED <<state, route, ri, out, nextStop, nextRes, signal, events>>
  BY DEF HopTail, Moving, SyncStep
<1>2. Types /\ Shape(t) /\ TrainInv(t) /\ Driving(t) /\ ~Searching(t) /\ state[t] # "INITIAL"
  BY <1>1 DEF IInv, TrainInv, Driving, Searching
<1>3. /\ C \in Nat /\ ri[t] \in Nat /\ bi[t] \in Nat /\ Length[t] \in Nat /\ 1 <= bi[t] /\ ri[t] <= C
      /\ bi'[t] = bi[t] + 1 /\ bi[t] + 1 <= ri[t] /\ bi[t] + 1 \in Nat
  <2>1. C \in Nat /\ ri[t] \in Nat /\ bi[t] \in Nat /\ Length[t] \in Nat /\ 1 <= bi[t] /\ ri[t] <= C
    BY <1>2, RouteTiles DEF Shape
  <2>2. bi'[t] = bi[t] + 1
    BY <1>1, <1>2 DEF Types
  <2> QED BY <1>1, <2>1, <2>2
<1>4. Types'
  BY <1>1, <1>2, <1>3 DEF Types
<1>5. Shape(t)'
  <2>1. ri[t] - (bi[t] + 1) <= Length[t] /\ 1 <= bi[t] + 1
    BY <1>1, <1>3
  <2> QED BY <1>1, <1>2, <1>3, <2>1 DEF Shape
<1>6. y \in Tiles /\ y \in Under(t) /\ (y \in Depots \/ resv[y] = t)
  <2>1. bi[t] - 1 \in (bi[t] - 1)..(ri[t] - 1)
    BY <1>3
  <2>2. y \in Tiles /\ y \in Under(t)
    BY <1>2, <2>1, UnderIs DEF Under
  <2> QED BY <1>2, <2>2 DEF TrainInv, OnTrack, Searching
<1>7. \A x \in Tiles : resv'[x] = IF x = y THEN Nobody ELSE resv[x]
  BY <1>1, <1>2 DEF Types
<1>8. /\ Under(t)' \subseteq Under(t) /\ y \notin Under(t)'
      /\ \A x \in Under(t) : x = y \/ x \in Under(t)'
  <2>1. Under(t)' = {At(route[t], i) : i \in bi[t]..(ri[t] - 1)}
    BY <1>1, <1>2, <1>3 DEF Under
  <2>2. Under(t) = {At(route[t], i) : i \in (bi[t] - 1)..(ri[t] - 1)}
    BY <1>2 DEF Under
  <2>3. \A i \in bi[t]..(ri[t] - 1) : i \in (bi[t] - 1)..(ri[t] - 1) /\ i # bi[t] - 1
    BY <1>3
  <2>4. \A i \in (bi[t] - 1)..(ri[t] - 1) : i = bi[t] - 1 \/ i \in bi[t]..(ri[t] - 1)
    BY <1>3
  <2>5. \A i \in (bi[t] - 1)..(ri[t] - 1) : i \in 0..(C - 1)
    BY <1>3
  <2>6. bi[t] - 1 \in 0..(C - 1)
    BY <1>3
  <2>7. \A i \in bi[t]..(ri[t] - 1) : At(route[t], i) # y
    BY <1>2, <2>3, <2>5, <2>6 DEF Shape
  <2> QED BY <2>1, <2>2, <2>3, <2>4, <2>7
<1>9. OnTrack(t)'
  <2> SUFFICES ASSUME NEW x \in Under(t)' \ Depots PROVE resv'[x] = t
    BY DEF OnTrack
  <2>1. x \in Under(t) /\ x # y /\ x \in Tiles
    BY <1>2, <1>8, UnderIs
  <2>2. resv[x] = t
    BY <1>2, <2>1 DEF TrainInv, OnTrack, Searching
  <2> QED BY <1>7, <2>1, <2>2
<1>10. NoStray(t)'
  <2> SUFFICES ASSUME NEW x \in Tiles, resv'[x] = t
               PROVE  x \in Under(t)' \/ \E i \in ri[t]..(C - 1) : x = At(route[t], i)
    BY <1>1, <1>2 DEF NoStray, Searching
  <2>1. x # y /\ resv[x] = t
    BY <1>7, RailAssumption
  <2>2. x \in Under(t) \/ \E i \in ri[t]..(C - 1) : x = At(route[t], i)
    BY <1>2, <2>1 DEF TrainInv, NoStray
  <2> QED BY <1>8, <2>1, <2>2
<1>11. Held(t, Grant(t))'
  <2> SUFFICES ASSUME NEW i \in ri[t]..(C - 1), i < nextRes[t]
               PROVE  At(route[t], i) \in Depots \/ resv'[At(route[t], i)] = t
    BY <1>1 DEF Held, Mine, Grant
  <2>1. At(route[t], i) \in Tiles /\ At(route[t], i) # y
    BY <1>2, <1>6, UnderIs
  <2>2. At(route[t], i) \in Depots \/ resv[At(route[t], i)] = t
    BY <1>2 DEF TrainInv, Held, Mine, Grant
  <2> QED BY <1>7, <2>1, <2>2
<1>12. OnPath(t)' /\ Leads(t, Grant(t))' /\ ~Searching(t)'
  BY <1>1, <1>2 DEF TrainInv, OnPath, Leads, Grant, Searching
<1>13. TrainInv(t)'
  BY <1>5, <1>9, <1>10, <1>11, <1>12 DEF TrainInv
<1>14. \A u \in Trains : u # t => Unmoved(u) /\ ~Searching(u)
  BY <1>1, <1>2, OthersRest DEF Unmoved, Types
<1>15. OwnTiles(t)
  BY <1>6, <1>7 DEF OwnTiles
<1> QED BY <1>1, <1>4, <1>8, <1>13, <1>14, <1>15, TrainStep

LEMMA ReleasedIs ==
  ASSUME Types, NEW t \in Trains, Shape(t)
  PROVE  LET h == Unreserved(Grant(t), t, route[t], bi[t], TRUE)
         IN  /\ h \in Granted
             /\ \A x \in Tiles : \/ h.resv[x] = resv[x]
                                 \/ resv[x] \in {t, Nobody} /\ h.resv[x] \in {t, Nobody}
             /\ \A i \in bi[t]..(Count(route[t]) - 1) : h.resv[At(route[t], i)] # t
             /\ \A x \in Tiles : h.resv[x] = t => resv[x] = t
<1> DEFINE C == Count(route[t])
           h == Unreserved(Grant(t), t, route[t], bi[t], TRUE)
<1>1. Grant(t) \in Granted /\ Grant(t).resv = resv
  BY GrantIs
<1>2. bi[t] \in Nat /\ bi[t] <= C /\ C \in Nat /\ C - 1 \in 0..INVALID_INDEX
  BY Counts, RouteTiles DEF Shape
<1>3. CASE bi[t] < C
  <2>1. /\ h \in Granted /\ Only(t, Grant(t), h, bi[t])
        /\ TRUE => \A i \in bi[t]..(C - 1) : h.resv[At(route[t], i)] # t
    BY <1>1, <1>2, <1>3, UnreservedIs
  <2> HIDE DEF h
  <2>2. \A x \in Tiles : \/ h.resv[x] = resv[x]
                         \/ /\ resv[x] \in {t, Nobody} /\ h.resv[x] \in {t, Nobody}
                            /\ \E i \in bi[t]..(C - 1) : x = At(route[t], i)
    BY <1>1, <2>1 DEF Only
  <2> QED BY <2>1, <2>2 DEF h
<1>4. CASE ~(bi[t] < C)
  <2>1. h = [Grant(t) EXCEPT !.res = C - 1]
    BY <1>2, <1>4 DEF Unreserved
  <2> HIDE DEF h
  <2>2. h \in Granted /\ h.resv = resv
    BY <1>1, <1>2, <2>1, WithIndex
  <2>3. \A i : i \notin bi[t]..(C - 1)
    BY <1>2, <1>4
  <2> QED BY <2>2, <2>3 DEF h
<1> QED BY <1>3, <1>4

LEMMA BeginSearchStep ==
  ASSUME IInv, NEW t \in Trains, BeginSearch(t) PROVE IInv'
<1> DEFINE C == Count(route[t])
           u == Unreserved(Grant(t), t, route[t], bi[t], TRUE)
           h == Released(t)
<1>1. /\ Idle /\ state[t] \in {"ROUTING_1", "NO_ROUTE"} /\ state' = [state EXCEPT ![t] = "SEARCHING"] /\ Keep(t, h)
      /\ UNCHANGED <<route, ri, bi, out, signal, events>>
  BY DEF BeginSearch
<1>2. Types /\ Shape(t) /\ TrainInv(t) /\ ~Driving(t) /\ ~Searching(t)
  BY <1>1 DEF IInv, TrainInv, Driving, Searching
<1>3. /\ h \in Granted /\ h.res = 0
      /\ h.resv = IF ri[t] < C THEN u.resv ELSE resv
  <2>1. Grant(t) \in Granted /\ Grant(t).resv = resv /\ u \in Granted
    BY <1>2, GrantIs, ReleasedIs
  <2>2. 0 \in 0..INVALID_INDEX
    BY DEF INVALID_INDEX
  <2>3. h = [IF ri[t] < C THEN u ELSE Grant(t) EXCEPT !.res = 0]
    BY DEF Released
  <2> HIDE DEF u, h
  <2> QED BY <2>1, <2>2, <2>3, WithIndex
<1>4. /\ \A x \in Tiles : u.resv[x] = resv[x] \/ (resv[x] \in {t, Nobody} /\ u.resv[x] \in {t, Nobody})
      /\ \A i \in bi[t]..(C - 1) : u.resv[At(route[t], i)] # t
      /\ \A x \in Tiles : u.resv[x] = t => resv[x] = t
  BY <1>2, ReleasedIs
<1> HIDE DEF u, h
<1>5. resv' = h.resv /\ nextRes'[t] = 0 /\ \A v \in Trains : v # t => nextStop'[v] = nextStop[v] /\ nextRes'[v] = nextRes[v]
  BY <1>1, <1>2, <1>3, KeepIs
<1>6. Types'
  <2>1. "SEARCHING" \in States
    BY DEF States
  <2> QED BY <1>1, <1>2, <1>3, <2>1, KeepIs DEF Types
<1>7. state'[t] = "SEARCHING" /\ Under(t)' = Under(t) /\ Shape(t)'
  <2>1. state'[t] = "SEARCHING"
    BY <1>1, <1>2 DEF Types
  <2> QED BY <1>1, <1>2, <2>1 DEF Under, Shape
<1>8. C \in Nat /\ ri[t] \in Nat /\ bi[t] \in Nat /\ bi[t] <= ri[t] /\ ri[t] <= C
  BY <1>2, RouteTiles DEF Shape
<1>9. \A x \in Under(t) \ Depots : resv[x] = t
  BY <1>1, <1>2 DEF TrainInv, OnTrack
<1>10. OnTrack(t)'
  <2> SUFFICES ASSUME NEW x \in Under(t), x \notin Depots
               PROVE  resv'[x] = t \/ (resv'[x] = Nobody /\ ri[t] < C)
    BY <1>1, <1>7 DEF OnTrack
  <2>1. x \in Tiles /\ resv[x] = t
    BY <1>2, <1>9, UnderIs
  <2> QED BY <1>3, <1>4, <1>5, <2>1
<1>11. NoStray(t)'
  <2> SUFFICES ASSUME NEW x \in Tiles, resv'[x] = t PROVE x \in Under(t)
    BY <1>7 DEF NoStray
  <2>1. resv[x] = t
    BY <1>3, <1>4, <1>5
  <2>2. x \in Under(t) \/ \E i \in ri[t]..(C - 1) : x = At(route[t], i)
    BY <1>2, <2>1 DEF TrainInv, NoStray
  <2>3. ASSUME NEW i \in ri[t]..(C - 1), x = At(route[t], i) PROVE FALSE
    <3>1. i \in bi[t]..(C - 1) /\ ri[t] < C
      BY <1>8
    <3> QED BY <1>3, <1>4, <1>5, <2>3, <3>1
  <2> QED BY <2>2, <2>3
<1>12. TrainInv(t)'
  BY <1>5, <1>7, <1>10, <1>11 DEF TrainInv, Driving
<1>13. \A v \in Trains : v # t => Unmoved(v) /\ ~Searching(v)
  BY <1>1, <1>2, <1>5, OthersRest DEF Unmoved, Types
<1>14. OwnTiles(t)
  BY <1>3, <1>4, <1>5 DEF OwnTiles
<1> QED BY <1>1, <1>6, <1>7, <1>12, <1>13, <1>14, TrainStep


LEMMA HopHeadStep ==
  ASSUME IInv, Troubles = {}, WellSignalled, NEW t \in Trains, NEW in \in Inputs, HopHead(t, in) PROVE IInv'
<1> DEFINE a == Enter(t, Grant(t), in)
           C == Count(route[t])
           y == At(route[t], ri[t])
           left == IF Length[t] = 0 THEN [a.g EXCEPT !.resv[Pos(t)] = Nobody] ELSE a.g
           h == IF CanReserve(left, t, y) THEN Taken(left, t, {y}) ELSE left
<1>1. /\ Idle /\ state[t] \in {"DRIVING", "LEAVING_DEPOT"} /\ ri[t] < C /\ (Length[t] = 0 \/ ri[t] - bi[t] < Length[t])
      /\ a.ok /\ Keep(t, h)
      /\ ri' = [ri EXCEPT ![t] = @ + 1] /\ bi' = [bi EXCEPT ![t] = IF Length[t] = 0 THEN @ + 1 ELSE @]
      /\ UNCHANGED <<state, route, out, signal, events>>
  BY DEF HopHead, Moving, SyncStep
<1>2. Types /\ Shape(t) /\ TrainInv(t) /\ Driving(t) /\ ~Searching(t) /\ state[t] # "INITIAL" /\ state[t] # "PLACED" /\ state[t] # "CAN_START"
  BY <1>1 DEF IInv, TrainInv, Driving, Searching
<1>3. /\ a.g \in Granted /\ Only(t, Grant(t), a.g, ri[t]) /\ Held(t, a.g) /\ Leads(t, a.g)
      /\ CanReserve(a.g, t, y)
  BY <1>1, <1>2, EnterHolds
<1>4. /\ \A x \in Tiles : a.g.resv[x] = resv[x] \/ (a.g.resv[x] \in {t, Nobody} /\ resv[x] \in {t, Nobody})
      /\ \A x \in Under(t) \ Depots : a.g.resv[x] = t /\ resv[x] = t
      /\ \A x \in Tiles : a.g.resv[x] = t => x \in Under(t) \/ \E i \in ri[t]..(C - 1) : x = At(route[t], i)
  BY <1>2, <1>3, AheadOnly
<1> HIDE DEF a
<1>5. /\ C \in Nat /\ ri[t] \in Nat /\ bi[t] \in Nat /\ Length[t] \in Nat /\ 1 <= bi[t] /\ bi[t] <= ri[t] /\ ri[t] <= C
      /\ ri[t] - bi[t] <= Length[t] /\ ri[t] \in ri[t]..(C - 1)
      /\ ri'[t] = ri[t] + 1 /\ bi'[t] = IF Length[t] = 0 THEN bi[t] + 1 ELSE bi[t]
  <2>1. /\ C \in Nat /\ ri[t] \in Nat /\ bi[t] \in Nat /\ Length[t] \in Nat /\ 1 <= bi[t] /\ bi[t] <= ri[t] /\ ri[t] <= C
        /\ ri[t] - bi[t] <= Length[t]
    BY <1>2, RouteTiles DEF Shape
  <2>2. ri'[t] = ri[t] + 1 /\ bi'[t] = IF Length[t] = 0 THEN bi[t] + 1 ELSE bi[t]
    BY <1>1, <1>2 DEF Types
  <2> QED BY <1>1, <2>1, <2>2
<1>6. /\ y \in Tiles /\ y \notin Under(t) /\ Pos(t) \in Under(t) /\ Pos(t) \in Tiles /\ y # Pos(t) /\ Under(t) \subseteq Tiles
      /\ \A i \in ri[t]..(C - 1) : At(route[t], i) \in Tiles \ Under(t)
  BY <1>2, <1>5, UnderIs
<1>7. /\ left \in Granted /\ left.stop = a.g.stop /\ left.res = a.g.res
      /\ \A x \in Tiles : left.resv[x] = IF Length[t] = 0 /\ x = Pos(t) THEN Nobody ELSE a.g.resv[x]
  <2>1. a.g.resv \in [Tiles -> Trains \cup {Nobody}]
    BY <1>3 DEF Granted
  <2>2. CASE Length[t] = 0
    <3>1. left = [a.g EXCEPT !.resv = [@ EXCEPT ![Pos(t)] = Nobody]]
      BY <2>2
    <3>2. [a.g.resv EXCEPT ![Pos(t)] = Nobody] \in [Tiles -> Trains \cup {Nobody}]
      BY <2>1
    <3> QED BY <1>3, <2>1, <2>2, <3>1, <3>2 DEF Granted
  <2> QED BY <1>3, <2>2
<1> HIDE DEF left
<1>8. /\ h \in Granted /\ h.stop = a.g.stop /\ h.res = a.g.res
      /\ \A x \in Tiles : h.resv[x] = IF x = y THEN t ELSE IF Length[t] = 0 /\ x = Pos(t) THEN Nobody ELSE a.g.resv[x]
  <2>1. CanReserve(left, t, y)
    BY <1>3, <1>6, <1>7 DEF CanReserve
  <2>2. h = Taken(left, t, {y})
    BY <2>1
  <2> HIDE DEF h
  <2> QED BY <1>7, <2>2, TakenIs
<1> HIDE DEF h
<1>9. /\ resv' = h.resv /\ nextStop'[t] = h.stop /\ nextRes'[t] = h.res
      /\ \A u \in Trains : u # t => nextStop'[u] = nextStop[u] /\ nextRes'[u] = nextRes[u]
  BY <1>1, <1>2, <1>8, KeepIs
<1>10. Types'
  <2>1. ri' \in [Trains -> Nat] /\ bi' \in [Trains -> Nat]
    BY <1>1, <1>2, <1>5 DEF Types
  <2> QED BY <1>1, <1>2, <1>8, <2>1, KeepIs DEF Types
<1>11. Shape(t)'
  <2>1. /\ 1 <= bi'[t] /\ bi'[t] <= ri[t] + 1 /\ ri[t] + 1 <= C /\ (ri[t] + 1) - bi'[t] <= Length[t]
    BY <1>1, <1>5
  <2> QED BY <1>1, <1>2, <1>5, <2>1 DEF Shape
<1>12. /\ y \in Under(t)'
       /\ \A x \in Under(t)' : x = y \/ (x \in Under(t) /\ Length[t] # 0)
       /\ Length[t] # 0 => Under(t) \subseteq Under(t)'
       /\ Length[t] = 0 => Under(t) \subseteq {Pos(t)}
  <2>1. Under(t)' = {At(route[t], i) : i \in (bi'[t] - 1)..ri[t]}
    BY <1>1, <1>2, <1>5 DEF Under
  <2>2. Under(t) = {At(route[t], i) : i \in (bi[t] - 1)..(ri[t] - 1)}
    BY <1>2 DEF Under
  <2>3. ri[t] \in (bi'[t] - 1)..ri[t]
    BY <1>5
  <2>4. \A i \in (bi'[t] - 1)..ri[t] : i = ri[t] \/ (i \in (bi[t] - 1)..(ri[t] - 1) /\ Length[t] # 0)
    BY <1>5
  <2>5. Length[t] # 0 => \A i \in (bi[t] - 1)..(ri[t] - 1) : i \in (bi'[t] - 1)..ri[t]
    BY <1>5
  <2>6. Length[t] = 0 => \A i \in (bi[t] - 1)..(ri[t] - 1) : i = ri[t] - 1
    BY <1>5
  <2>7. Pos(t) = At(route[t], ri[t] - 1)
    BY <1>2, RouteTiles
  <2> QED BY <2>1, <2>2, <2>3, <2>4, <2>5, <2>6, <2>7
<1>13. OnTrack(t)'
  <2> SUFFICES ASSUME NEW x \in Under(t)' \ Depots PROVE resv'[x] = t
    BY DEF OnTrack
  <2>1. CASE x = y
    BY <1>6, <1>8, <1>9, <2>1
  <2>2. CASE x \in Under(t) /\ Length[t] # 0
    <3>1. x \in Tiles /\ a.g.resv[x] = t
      BY <1>4, <1>6, <2>2
    <3> QED BY <1>8, <1>9, <2>2, <3>1
  <2> QED BY <1>12, <2>1, <2>2
<1>14. NoStray(t)'
  <2> SUFFICES ASSUME NEW x \in Tiles, resv'[x] = t
               PROVE  x \in Under(t)' \/ \E i \in (ri[t] + 1)..(C - 1) : x = At(route[t], i)
    BY <1>1, <1>2, <1>5 DEF NoStray, Searching
  <2>1. CASE x = y
    BY <1>12, <2>1
  <2>2. CASE x # y
    <3>1. ~(Length[t] = 0 /\ x = Pos(t)) /\ a.g.resv[x] = t
      BY <1>8, <1>9, <2>2, RailAssumption
    <3>2. CASE x \in Under(t)
      BY <1>12, <3>1, <3>2
    <3>3. ASSUME NEW i \in ri[t]..(C - 1), x = At(route[t], i)
          PROVE  \E j \in (ri[t] + 1)..(C - 1) : x = At(route[t], j)
      <4>1. i # ri[t]
        BY <2>2, <3>3
      <4>2. i \in (ri[t] + 1)..(C - 1)
        BY <1>5, <4>1
      <4> QED BY <3>3, <4>2
    <3> QED BY <1>4, <3>1, <3>2, <3>3
  <2> QED BY <2>1, <2>2
<1>15. /\ \A i \in ri'[t]..(C - 1) : i \in ri[t]..(C - 1)
       /\ \A i \in (ri'[t] - 1)..(C - 1) : i \in (ri[t] - 1)..(C - 1)
       /\ \A n : ri'[t] < n /\ n = C => ri[t] < n
  BY <1>5
<1>16. Held(t, Grant(t))'
  <2> SUFFICES ASSUME NEW i \in ri'[t]..(C - 1), i < h.res
               PROVE  At(route[t], i) \in Depots \/ h.resv[At(route[t], i)] = t
    BY <1>1, <1>9 DEF Held, Mine, Grant
  <2>1. At(route[t], i) \in Tiles /\ At(route[t], i) # Pos(t)
    BY <1>6, <1>15
  <2>2. At(route[t], i) \in Depots \/ a.g.resv[At(route[t], i)] = t
    BY <1>3, <1>8, <1>15 DEF Held, Mine
  <2> QED BY <1>8, <2>1, <2>2
<1>17. Leads(t, Grant(t))'
  <2> SUFFICES /\ \A i \in ri'[t]..(C - 1) : i < h.stop => i < h.res
               /\ h.stop = C /\ ri'[t] < h.stop => At(route[t], h.stop - 1) \in Crossings
    BY <1>1, <1>9 DEF Leads, Grant
  <2> QED BY <1>3, <1>8, <1>15 DEF Leads
<1>18. OnPath(t)'
  <2>1. PICK p \in Paths : \A i \in (ri[t] - 1)..(C - 1) :
          LET j == i + 1 + Len(p) - C IN j \in DOMAIN p /\ At(route[t], i) = p[j]
    BY <1>2 DEF TrainInv, OnPath
  <2>2. \A i \in (ri'[t] - 1)..(C - 1) :
          LET j == i + 1 + Len(p) - C IN j \in DOMAIN p /\ At(route[t], i) = p[j]
    BY <1>15, <2>1
  <2> QED BY <1>1, <2>2 DEF OnPath
<1>19. TrainInv(t)'
  <2>1. ~Searching(t)'
    BY <1>1, <1>2 DEF Searching
  <2> QED BY <1>11, <1>13, <1>14, <1>16, <1>17, <1>18, <2>1 DEF TrainInv
<1>20. \A u \in Trains : u # t => Unmoved(u) /\ ~Searching(u)
  BY <1>1, <1>2, <1>9, OthersRest DEF Unmoved, Types
<1>21. OwnTiles(t)
  <2> SUFFICES ASSUME NEW x \in Tiles
               PROVE  h.resv[x] = resv[x] \/ (h.resv[x] \in {t, Nobody} /\ (x \in Depots \/ resv[x] \in {t, Nobody}))
    BY <1>9 DEF OwnTiles
  <2>1. CASE x = y
    BY <1>3, <1>4, <1>8, <2>1 DEF CanReserve
  <2>2. CASE x # y /\ Length[t] = 0 /\ x = Pos(t)
    BY <1>4, <1>6, <1>8, <2>2
  <2>3. CASE x # y /\ ~(Length[t] = 0 /\ x = Pos(t))
    BY <1>4, <1>8, <2>3
  <2> QED BY <2>1, <2>2, <2>3
<1>22. \A x \in Under(t)' : x \in Depots \/ x \in Under(t) \/ resv'[x] = t
  BY <1>13, <1>1, <1>2 DEF OnTrack
<1> QED BY <1>1, <1>10, <1>19, <1>20, <1>21, <1>22, TrainStep

LEMMA ArriveStep ==
  ASSUME IInv, Troubles = {}, NEW t \in Trains, Arrive(t) PROVE IInv'
<1> DEFINE C == Count(route[t])
           g == Unreserved(Grant(t), t, route[t], bi[t], TRUE)
           h == [g EXCEPT !.resv = [x \in Tiles |-> IF x \in Under(t) THEN Nobody ELSE @[x]]]
<1>1. Idle /\ state[t] \in {"DRIVING", "LEAVING_DEPOT"} /\ ri[t] = C /\ UNCHANGED <<signal, events>>
  BY DEF Arrive, Moving, SyncStep
<1>2. Types /\ Shape(t) /\ TrainInv(t) /\ ~Searching(t) /\ state[t] # "INITIAL"
  BY <1>1 DEF IInv, TrainInv, Searching
<1>3. CASE Pos(t) \notin Depots
  <2> DEFINE s == IF Pos(t) \in Halts THEN "LOADING" ELSE "ROUTING_1"
  <2>1. state' = [state EXCEPT ![t] = s] /\ Keep(t, Grant(t)) /\ UNCHANGED <<route, ri, bi, out>>
    BY <1>2, <1>3 DEF Arrive, Types
  <2>2. UNCHANGED <<nextStop, nextRes, resv>>
    BY <1>2, <2>1, GrantIs
  <2>3. s \in {"ROUTING_1", "NO_ROUTE", "LOADING"} /\ state[t] # "PLACED" /\ events' \in 0..MaxEvents
    BY <1>1, <1>2 DEF Types
  <2> HIDE DEF s
  <2> QED BY <1>1, <2>1, <2>2, <2>3, Rests
<1>4. CASE Pos(t) \in Depots
  <2>1. /\ state' = [state EXCEPT ![t] = "INITIAL"] /\ Keep(t, h)
        /\ route' = [route EXCEPT ![t] = <<Pos(t)>>]
        /\ ri' = [ri EXCEPT ![t] = 1] /\ bi' = [bi EXCEPT ![t] = 1] /\ out' = [out EXCEPT ![t] = FALSE]
    BY <1>4 DEF Arrive
  <2>2. /\ g \in Granted
        /\ \A x \in Tiles : g.resv[x] = resv[x] \/ (resv[x] \in {t, Nobody} /\ g.resv[x] \in {t, Nobody})
        /\ \A x \in Tiles : g.resv[x] = t => resv[x] = t
    BY <1>2, ReleasedIs
  <2> HIDE DEF g
  <2>3. h \in Granted /\ \A x \in Tiles : h.resv[x] = IF x \in Under(t) THEN Nobody ELSE g.resv[x]
    BY <2>2 DEF Granted
  <2> HIDE DEF h
  <2>4. resv' = h.resv /\ \A u \in Trains : u # t => nextStop'[u] = nextStop[u] /\ nextRes'[u] = nextRes[u]
    BY <1>2, <2>1, <2>3, KeepIs
  <2>5. Pos(t) \in Tiles /\ Under(t) \subseteq Tiles
    BY <1>2, UnderIs
  <2>6. Types'
    <3>1. "INITIAL" \in States
      BY DEF States
    <3> QED BY <1>1, <1>2, <2>1, <2>3, <2>5, <3>1, KeepIs DEF Types
  <2>7. /\ state'[t] = "INITIAL" /\ route'[t] = <<Pos(t)>> /\ ri'[t] = 1 /\ bi'[t] = 1 /\ out'[t] = FALSE
    BY <1>2, <2>1 DEF Types
  <2>8. Shape(t)'
    <3>1. Count(route'[t]) = 1 /\ At(route'[t], 0) = Pos(t) /\ 1 < INVALID_INDEX
      BY <2>7 DEF Count, At, INVALID_INDEX
    <3>2. Length[t] \in Nat
      BY RailAssumption
    <3>3. \A i, j \in 0..(Count(route'[t]) - 1) : i = j
      BY <3>1
    <3>4. 1 - 1 <= Length[t]
      BY <3>2
    <3> QED BY <1>4, <2>7, <3>1, <3>3, <3>4 DEF Shape
  <2>9. \A x \in Tiles : resv'[x] # t
    <3> SUFFICES ASSUME NEW x \in Tiles, h.resv[x] = t PROVE FALSE
      BY <2>4
    <3>1. x \notin Under(t) /\ resv[x] = t
      BY <2>2, <2>3, RailAssumption
    <3>2. \A i : i \notin ri[t]..(C - 1)
      BY <1>1, <1>2, RouteTiles
    <3> QED BY <1>2, <3>1, <3>2 DEF TrainInv, NoStray
  <2>10. TrainInv(t)'
    BY <2>7, <2>8, <2>9 DEF TrainInv, OnTrack, NoStray, Searching, Driving
  <2>11. \A u \in Trains : u # t => Unmoved(u) /\ ~Searching(u)
    BY <1>1, <1>2, <2>1, <2>4, OthersRest DEF Unmoved, Types
  <2>12. OwnTiles(t)
    <3>1. \A x \in Under(t) \ Depots : resv[x] = t
      BY <1>2 DEF TrainInv, OnTrack, Searching
    <3> QED BY <2>2, <2>3, <2>4, <3>1 DEF OwnTiles
  <2>13. \A x \in Under(t)' : x \in Depots \/ x \in Under(t) \/ resv'[x] = t
    BY <2>7 DEF Under
  <2> QED BY <1>1, <2>6, <2>10, <2>11, <2>12, <2>13, TrainStep
<1> QED BY <1>3, <1>4


LEMMA CutIs ==
  ASSUME NEW S, NEW p \in Seq(S), NEW a \in Nat, NEW b \in Nat, 1 <= a, a <= b + 1, b <= Len(p)
  PROVE  LET q == SubSeq(p, a, b)
         IN  q \in Seq(S) /\ Len(q) = b - a + 1 /\ \A i \in 1..Len(q) : q[i] = p[a + i - 1]
OBVIOUS

LEMMA JoinIs ==
  ASSUME NEW S, NEW p \in Seq(S), NEW q \in Seq(S)
  PROVE  LET j == p \o q
         IN  /\ j \in Seq(S) /\ Len(j) = Len(p) + Len(q)
             /\ \A i \in 1..Len(j) : j[i] = IF i <= Len(p) THEN p[i] ELSE q[i - Len(p)]
OBVIOUS

(* A new route of a train is the rest of a path, from where its first vehicle is *)
LEMMA RoutesAre ==
  ASSUME NEW t \in Trains, NEW r \in Routes(t)
  PROVE  /\ r \in Seq(Tiles) /\ Count(r) \in Nat /\ Count(r) > 1 /\ Length[t] + Count(r) < INVALID_INDEX
         /\ \A i, j \in 0..(Count(r) - 1) : At(r, i) = At(r, j) => i = j
         /\ At(r, 0) = Pos(t) /\ \A i \in 0..(Count(r) - 1) : At(r, i) \in Tiles
         /\ \E p \in Paths : /\ Len(p) \in Nat
                             /\ \A i \in 0..(Count(r) - 1) : LET j == i + 1 + Len(p) - Count(r)
                                                             IN  j \in DOMAIN p /\ At(r, i) = p[j]
<1>a. PICK p \in Paths : \E k \in 1..(Len(p) - 1) : r = SubSeq(p, k, Len(p))
  BY DEF Routes, Roads
<1>1. PICK k \in 1..(Len(p) - 1) : r = SubSeq(p, k, Len(p))
  BY <1>a
<1>2. /\ p \in Seq(Tiles) /\ Len(p) > 1 /\ Len(p) \in Nat /\ Length[t] + Len(p) < INVALID_INDEX /\ Length[t] \in Nat
      /\ \A i, j \in 1..Len(p) : p[i] = p[j] => i = j
  BY RailAssumption DEF IsInjective
<1>3. r \in Seq(Tiles) /\ Len(r) = Len(p) - k + 1 /\ \A i \in 1..Len(r) : r[i] = p[k + i - 1]
  BY <1>1, <1>2
<1>4. r[1] = Pos(t)
  BY DEF Routes
<1> DEFINE C == Len(r)
<1>5. C \in Nat /\ C > 1 /\ Length[t] + C < INVALID_INDEX
  BY <1>1, <1>2, <1>3 DEF INVALID_INDEX
<1>6. \A i \in 0..(C - 1) : /\ i + 1 \in 1..C /\ k + i \in 1..Len(p)
                            /\ r[i + 1] = p[k + i] /\ i + 1 + Len(p) - C = k + i /\ p[k + i] \in Tiles
  <2> SUFFICES ASSUME NEW i \in 0..(C - 1)
               PROVE  /\ i + 1 \in 1..C /\ k + i \in 1..Len(p)
                      /\ r[i + 1] = p[k + i] /\ i + 1 + Len(p) - C = k + i /\ p[k + i] \in Tiles
    OBVIOUS
  <2>1. i + 1 \in 1..C /\ k + i \in 1..Len(p) /\ i + 1 + Len(p) - C = k + i /\ k + (i + 1) - 1 = k + i
    BY <1>2, <1>3, <1>5
  <2>2. r[i + 1] = p[k + i]
    BY <1>3, <2>1
  <2> QED BY <1>2, <2>1, <2>2
<1>7. \A i, j \in 0..(C - 1) : r[i + 1] = r[j + 1] => i = j
  <2> SUFFICES ASSUME NEW i \in 0..(C - 1), NEW j \in 0..(C - 1), r[i + 1] = r[j + 1] PROVE i = j
    OBVIOUS
  <2>1. k + i = k + j
    BY <1>2, <1>6
  <2> QED BY <1>1, <2>1
<1>8. \A i \in 0..(C - 1) : LET j == i + 1 + Len(p) - C IN j \in DOMAIN p /\ r[i + 1] = p[j]
  BY <1>2, <1>6
<1> HIDE DEF C
<1>9. r[0 + 1] = Pos(t)
  BY <1>4
<1> QED BY <1>2, <1>3, <1>5, <1>6, <1>7, <1>8, <1>9 DEF C, Count, At

(* What is under a train that searches is its own or nobody's *)
LEMMA SearchHolds ==
  ASSUME IInv, NEW t \in Trains, state[t] = "SEARCHING"
  PROVE  /\ Types /\ Shape(t) /\ TrainInv(t) /\ Searching(t) /\ nextRes[t] = 0 /\ Under(t) \subseteq Tiles
         /\ \A x \in Under(t) \ Depots : resv[x] \in {t, Nobody}
         /\ \A x \in Tiles : resv[x] = t => x \in Under(t)
<1>1. Types /\ Shape(t) /\ TrainInv(t) /\ Searching(t)
  BY DEF IInv, TrainInv, Searching
<1> QED BY <1>1, UnderIs DEF TrainInv, OnTrack, NoStray

LEMMA PlaceInDepotStep ==
  ASSUME IInv, NEW t \in Trains, NEW r \in Routes(t), PlaceInDepot(t, r) PROVE IInv'
<1>1. /\ state[t] = "SEARCHING" /\ Pos(t) \in Depots /\ state' = [state EXCEPT ![t] = "CAN_START"]
      /\ route' = [route EXCEPT ![t] = r] /\ ri' = [ri EXCEPT ![t] = 1] /\ bi' = [bi EXCEPT ![t] = 1]
      /\ out' = [out EXCEPT ![t] = TRUE]
      /\ resv' = [x \in Tiles |-> IF x = Pos(t) THEN t ELSE IF x \in Under(t) THEN Nobody ELSE resv[x]]
      /\ UNCHANGED <<nextStop, nextRes, signal, events>>
  BY DEF PlaceInDepot
<1>2. /\ Types /\ Searching(t) /\ nextRes[t] = 0 /\ Under(t) \subseteq Tiles
      /\ \A x \in Under(t) \ Depots : resv[x] \in {t, Nobody}
      /\ \A x \in Tiles : resv[x] = t => x \in Under(t)
  BY <1>1, SearchHolds
<1>3. /\ r \in Seq(Tiles) /\ Count(r) \in Nat /\ Count(r) > 1 /\ Length[t] + Count(r) < INVALID_INDEX
      /\ \A i, j \in 0..(Count(r) - 1) : At(r, i) = At(r, j) => i = j
      /\ At(r, 0) = Pos(t)
      /\ \E p \in Paths : \A i \in 0..(Count(r) - 1) : LET j == i + 1 + Len(p) - Count(r)
                                                       IN  j \in DOMAIN p /\ At(r, i) = p[j]
  BY RoutesAre
<1>4. Types'
  <2>1. "CAN_START" \in States
    BY DEF States
  <2>2. resv' \in [Tiles -> Trains \cup {Nobody}]
    BY <1>1, <1>2 DEF Types
  <2> QED BY <1>1, <1>2, <1>3, <2>1, <2>2 DEF Types
<1>5. state'[t] = "CAN_START" /\ route'[t] = r /\ ri'[t] = 1 /\ bi'[t] = 1 /\ out'[t] = TRUE
  BY <1>1, <1>2 DEF Types
<1>6. Shape(t)'
  <2>1. Count(r) < INVALID_INDEX /\ 1 - 1 <= Length[t] /\ 1 <= Count(r) /\ Count(r) > 0
    BY <1>3, RailAssumption DEF INVALID_INDEX
  <2> QED BY <1>1, <1>3, <1>5, <2>1 DEF Shape
<1>7. OnPath(t)'
  BY <1>3, <1>5 DEF OnPath
<1>8. Under(t)' = {Pos(t)}
  <2>1. \A i : i \in (1 - 1)..(1 - 1) <=> i = 0
    OBVIOUS
  <2> QED BY <1>3, <1>5, <2>1 DEF Under
<1>9. OnTrack(t)' /\ NoStray(t)'
  <2>1. \A x \in Tiles : resv'[x] = t => x = Pos(t)
    BY <1>1, <1>2, RailAssumption
  <2> QED BY <1>1, <1>5, <1>8, <2>1 DEF OnTrack, NoStray
<1>10. Held(t, Grant(t))'
  <2>1. \A i \in 1..(Count(r) - 1) : ~(i < 0)
    OBVIOUS
  <2> QED BY <1>1, <1>2, <1>5, <2>1 DEF Held, Grant
<1>11. TrainInv(t)'
  BY <1>5, <1>6, <1>7, <1>9, <1>10 DEF TrainInv, Searching
<1>12. \A u \in Trains : u # t => Unmoved(u) /\ ~Searching(u)
  BY <1>1, <1>2, OthersRest DEF Unmoved, Types
<1>13. OwnTiles(t)
  BY <1>1, <1>2 DEF OwnTiles
<1>14. \A x \in Under(t)' : x \in Depots \/ x \in Under(t) \/ resv'[x] = t
  BY <1>1, <1>8
<1> QED BY <1>1, <1>4, <1>11, <1>12, <1>13, <1>14, TrainStep

LEMMA PlaceAnewStep ==
  ASSUME IInv, Troubles = {}, NEW t \in Trains, NEW r \in Routes(t), PlaceAnew(t, r) PROVE IInv'
<1> DEFINE lag == IF out[t] THEN Length[t] ELSE ri[t] - bi[t]
<1>1. lag \in Nat /\ lag <= Length[t]
  BY RouteTiles DEF IInv, TrainInv, Shape
<1>2. /\ state[t] = "SEARCHING" /\ lag < Count(r) /\ TilesOf(r, 0, Lesser(lag, Count(r) - 1)) \subseteq Under(t)
      /\ state' = [state EXCEPT ![t] = "PLACED"]
      /\ route' = [route EXCEPT ![t] = r] /\ ri' = [ri EXCEPT ![t] = Lesser(lag + 1, Count(r))] /\ bi' = [bi EXCEPT ![t] = 1]
      /\ out' = [out EXCEPT ![t] = FALSE]
      /\ resv' = [x \in Tiles |-> IF x \in Under(t) THEN Nobody ELSE resv[x]]
      /\ UNCHANGED <<nextStop, nextRes, signal, events>>
  BY DEF PlaceAnew
<1> HIDE DEF lag
<1>3. /\ Types /\ Searching(t) /\ nextRes[t] = 0 /\ Under(t) \subseteq Tiles
      /\ \A x \in Under(t) \ Depots : resv[x] \in {t, Nobody}
      /\ \A x \in Tiles : resv[x] = t => x \in Under(t)
  BY <1>2, SearchHolds
<1>4. /\ r \in Seq(Tiles) /\ Count(r) \in Nat /\ Count(r) > 1 /\ Length[t] + Count(r) < INVALID_INDEX
      /\ \A i, j \in 0..(Count(r) - 1) : At(r, i) = At(r, j) => i = j
      /\ \E p \in Paths : /\ Len(p) \in Nat
                          /\ \A i \in 0..(Count(r) - 1) : LET j == i + 1 + Len(p) - Count(r)
                                                          IN  j \in DOMAIN p /\ At(r, i) = p[j]
  BY RoutesAre
<1>5. Lesser(lag + 1, Count(r)) = lag + 1 /\ Lesser(lag, Count(r) - 1) = lag
  BY <1>1, <1>2, <1>4 DEF Lesser
<1>6. Types'
  <2>1. "PLACED" \in States /\ lag + 1 \in Nat
    BY <1>1 DEF States
  <2>2. resv' \in [Tiles -> Trains \cup {Nobody}]
    BY <1>2, <1>3 DEF Types
  <2> QED BY <1>2, <1>3, <1>4, <1>5, <2>1, <2>2 DEF Types
<1>7. state'[t] = "PLACED" /\ route'[t] = r /\ ri'[t] = lag + 1 /\ bi'[t] = 1 /\ out'[t] = FALSE
  BY <1>2, <1>3, <1>5 DEF Types
<1>8. Shape(t)'
  <2>1. Count(r) < INVALID_INDEX /\ (lag + 1) - 1 <= Length[t] /\ 1 <= lag + 1 /\ lag + 1 <= Count(r) /\ Count(r) > 0
    BY <1>1, <1>2, <1>4, RailAssumption DEF INVALID_INDEX
  <2> QED BY <1>4, <1>7, <2>1 DEF Shape
<1>9. OnPath(t)'
  <2>1. \A i \in ((lag + 1) - 1)..(Count(r) - 1) : i \in 0..(Count(r) - 1)
    BY <1>1, <1>4
  <2> QED BY <1>4, <1>7, <2>1 DEF OnPath
<1>10. Under(t)' \subseteq Under(t)
  <2>1. Under(t)' = {At(r, i) : i \in (1 - 1)..((lag + 1) - 1)}
    BY <1>7 DEF Under
  <2>2. TilesOf(r, 0, lag) = {At(r, i) : i \in 0..lag}
    BY DEF TilesOf
  <2>3. \A i \in (1 - 1)..((lag + 1) - 1) : i \in 0..lag
    BY <1>1
  <2> QED BY <1>2, <1>5, <2>1, <2>2, <2>3
<1>11. OnTrack(t)' /\ NoStray(t)'
  <2>1. \A x \in Tiles : resv'[x] # t
    BY <1>2, <1>3, RailAssumption
  <2>2. \A x \in Under(t)' : resv'[x] = Nobody
    BY <1>2, <1>3, <1>10
  <2> QED BY <1>7, <2>1, <2>2 DEF OnTrack, NoStray
<1>12. TrainInv(t)'
  BY <1>2, <1>3, <1>7, <1>8, <1>9, <1>11 DEF TrainInv, Searching, Driving
<1>13. \A u \in Trains : u # t => Unmoved(u) /\ ~Searching(u)
  BY <1>2, <1>3, OthersRest DEF Unmoved, Types
<1>14. OwnTiles(t)
  BY <1>2, <1>3 DEF OwnTiles
<1> QED BY <1>2, <1>6, <1>10, <1>12, <1>13, <1>14, TrainStep

LEMMA PlaceAheadStep ==
  ASSUME IInv, NEW t \in Trains, NEW r \in Routes(t), PlaceAhead(t, r) PROVE IInv'
<1> DEFINE b == SubSeq(route[t], bi[t], ri[t] - 1)
           q == b \o r
           lag == ri[t] - bi[t]
           C == Count(r)
<1>1. /\ state[t] = "SEARCHING" /\ ~out[t] /\ ~Turns(t, r) /\ state' = [state EXCEPT ![t] = "PLACED"]
      /\ route' = [route EXCEPT ![t] = q] /\ ri' = [ri EXCEPT ![t] = lag + 1] /\ bi' = [bi EXCEPT ![t] = 1]
      /\ UNCHANGED <<out, nextStop, nextRes, resv, signal, events>>
  BY DEF PlaceAhead
<1>2. /\ Types /\ Shape(t) /\ TrainInv(t) /\ Searching(t) /\ nextRes[t] = 0 /\ Under(t) \subseteq Tiles
      /\ \A x \in Under(t) \ Depots : resv[x] \in {t, Nobody}
      /\ \A x \in Tiles : resv[x] = t => x \in Under(t)
  BY <1>1, SearchHolds
<1>3. /\ r \in Seq(Tiles) /\ C \in Nat /\ C > 1 /\ Length[t] + C < INVALID_INDEX
      /\ \A i, j \in 0..(C - 1) : At(r, i) = At(r, j) => i = j
      /\ At(r, 0) = Pos(t) /\ \A i \in 0..(C - 1) : At(r, i) \in Tiles
      /\ \E p \in Paths : /\ Len(p) \in Nat
                          /\ \A i \in 0..(C - 1) : LET j == i + 1 + Len(p) - C
                                                   IN  j \in DOMAIN p /\ At(r, i) = p[j]
  BY RoutesAre
<1>4. /\ ri[t] \in Nat /\ bi[t] \in Nat /\ 1 <= bi[t] /\ bi[t] <= ri[t] /\ ri[t] <= Count(route[t]) /\ Count(route[t]) \in Nat
      /\ lag \in Nat /\ lag <= Length[t] /\ Length[t] \in Nat /\ lag + C \in Nat
      /\ Pos(t) = At(route[t], ri[t] - 1)
  <2>1. /\ ri[t] \in Nat /\ bi[t] \in Nat /\ 1 <= bi[t] /\ bi[t] <= ri[t] /\ ri[t] <= Count(route[t]) /\ Count(route[t]) \in Nat
        /\ ri[t] - bi[t] <= Length[t] /\ Length[t] \in Nat /\ Pos(t) = At(route[t], ri[t] - 1)
    BY <1>2, RouteTiles DEF Shape
  <2> QED BY <1>3, <2>1
<1>5. b \in Seq(Tiles) /\ Len(b) = lag /\ \A i \in 1..lag : b[i] = route[t][bi[t] + i - 1]
  <2>1. route[t] \in Seq(Tiles) /\ ri[t] <= Len(route[t])
    BY <1>2, <1>4 DEF Types, Count
  <2>2. ri[t] - 1 \in Nat /\ bi[t] <= (ri[t] - 1) + 1 /\ ri[t] - 1 <= Len(route[t]) /\ (ri[t] - 1) - bi[t] + 1 = lag
    BY <1>4, <2>1
  <2> DEFINE e == ri[t] - 1
  <2>3. e \in Nat /\ bi[t] <= e + 1 /\ e <= Len(route[t]) /\ e - bi[t] + 1 = lag /\ bi[t] \in Nat /\ 1 <= bi[t]
    BY <1>4, <2>2
  <2>4. b = SubSeq(route[t], bi[t], e)
    BY DEF b
  <2> HIDE DEF b, e, lag
  <2>5. b \in Seq(Tiles) /\ Len(b) = e - bi[t] + 1 /\ \A i \in 1..Len(b) : b[i] = route[t][bi[t] + i - 1]
    BY <2>1, <2>3, <2>4, CutIs
  <2> QED BY <2>3, <2>5
<1> HIDE DEF b
<1>6. q \in Seq(Tiles) /\ Len(q) = lag + C /\ \A i \in 1..(lag + C) : q[i] = IF i <= lag THEN b[i] ELSE r[i - lag]
  <2>1. q \in Seq(Tiles) /\ Len(q) = Len(b) + Len(r) /\ \A i \in 1..Len(q) : q[i] = IF i <= Len(b) THEN b[i] ELSE r[i - Len(b)]
    BY <1>3, <1>5, JoinIs
  <2> HIDE DEF q, lag
  <2> QED BY <1>5, <2>1 DEF Count
<1> HIDE DEF q
<1>7. \A i \in 0..(lag + C - 1) : /\ i < lag => At(q, i) = At(route[t], bi[t] - 1 + i)
                                  /\ i >= lag => At(q, i) = At(r, i - lag)
  <2> SUFFICES ASSUME NEW i \in 0..(lag + C - 1)
               PROVE  /\ i < lag => q[i + 1] = route[t][(bi[t] - 1 + i) + 1]
                      /\ i >= lag => q[i + 1] = r[(i - lag) + 1]
    BY DEF At
  <2>1. i + 1 \in 1..(lag + C)
    BY <1>3, <1>4
  <2>2. CASE i < lag
    <3>1. i + 1 <= lag /\ i + 1 \in 1..lag /\ bi[t] + (i + 1) - 1 = (bi[t] - 1 + i) + 1
      BY <1>4, <2>2
    <3>2. q[i + 1] = route[t][bi[t] + (i + 1) - 1]
      BY <1>5, <1>6, <2>1, <3>1
    <3> QED BY <1>4, <2>2, <3>1, <3>2
  <2>3. CASE i >= lag
    <3>1. ~(i + 1 <= lag) /\ (i + 1) - lag = (i - lag) + 1
      BY <1>4, <2>3
    <3>2. q[i + 1] = r[(i + 1) - lag]
      BY <1>6, <2>1, <3>1
    <3> QED BY <1>4, <2>3, <3>1, <3>2
  <2> QED BY <1>4, <2>2, <2>3
<1> HIDE DEF lag
<1>8. At(q, lag) = Pos(t) /\ lag \in 0..(lag + C - 1)
  <2>1. lag \in 0..(lag + C - 1) /\ lag >= lag /\ lag - lag = 0
    BY <1>3, <1>4
  <2> QED BY <1>3, <1>7, <2>1
<1>9. \A i \in 0..lag : /\ At(q, i) = At(route[t], bi[t] - 1 + i) /\ At(q, i) \in Under(t)
                        /\ bi[t] - 1 + i \in 0..(Count(route[t]) - 1)
  <2> SUFFICES ASSUME NEW i \in 0..lag
               PROVE  /\ At(q, i) = At(route[t], bi[t] - 1 + i) /\ At(q, i) \in Under(t)
                      /\ bi[t] - 1 + i \in 0..(Count(route[t]) - 1)
    OBVIOUS
  <2>1. bi[t] - 1 + i \in (bi[t] - 1)..(ri[t] - 1) /\ bi[t] - 1 + i \in 0..(Count(route[t]) - 1)
    BY <1>4 DEF lag
  <2>2. At(q, i) = At(route[t], bi[t] - 1 + i)
    <3>1. CASE i < lag
      <4>1. i \in 0..(lag + C - 1)
        BY <1>3, <1>4
      <4> QED BY <1>7, <3>1, <4>1
    <3>2. CASE i = lag
      <4>1. bi[t] - 1 + lag = ri[t] - 1
        BY <1>4 DEF lag
      <4> QED BY <1>4, <1>8, <3>2, <4>1
    <3> QED BY <1>4, <3>1, <3>2
  <2>3. At(q, i) \in Under(t)
    BY <1>1, <2>1, <2>2 DEF Under
  <2> QED BY <2>1, <2>2, <2>3
<1>10. \A i \in (lag + 1)..(lag + C - 1) : At(q, i) = At(r, i - lag) /\ At(q, i) \notin Under(t) /\ i - lag \in 0..(C - 1)
  <2> SUFFICES ASSUME NEW i \in (lag + 1)..(lag + C - 1)
               PROVE  At(q, i) = At(r, i - lag) /\ At(q, i) \notin Under(t) /\ i - lag \in 0..(C - 1)
    OBVIOUS
  <2>1. i \in 0..(lag + C - 1) /\ i >= lag /\ i - lag \in 1..(C - 1) /\ i - lag \in 0..(C - 1)
    BY <1>3, <1>4
  <2>2. At(q, i) = At(r, i - lag)
    BY <1>7, <2>1
  <2>3. At(r, i - lag) \notin Under(t)
    BY <1>1, <2>1 DEF Turns
  <2> QED BY <2>1, <2>2, <2>3
<1>11. ASSUME NEW i \in 0..(lag + C - 1), NEW j \in 0..(lag + C - 1), At(q, i) = At(q, j) PROVE i = j
  <2>1. (i \in 0..lag \/ i \in (lag + 1)..(lag + C - 1)) /\ (j \in 0..lag \/ j \in (lag + 1)..(lag + C - 1))
    BY <1>3, <1>4
  <2>2. CASE i \in 0..lag /\ j \in 0..lag
    <3>1. bi[t] - 1 + i = bi[t] - 1 + j
      BY <1>2, <1>9, <1>11, <2>2 DEF Shape
    <3> QED BY <1>4, <3>1
  <2>3. CASE i \in (lag + 1)..(lag + C - 1) /\ j \in (lag + 1)..(lag + C - 1)
    <3>1. i - lag = j - lag
      BY <1>3, <1>10, <1>11, <2>3
    <3> QED BY <1>4, <3>1
  <2> QED BY <1>9, <1>10, <1>11, <2>1, <2>2, <2>3
<1>12. state'[t] = "PLACED" /\ route'[t] = q /\ ri'[t] = lag + 1 /\ bi'[t] = 1 /\ out'[t] = FALSE
  BY <1>1, <1>2 DEF Types, lag, q
<1>13. Types'
  <2>1. "PLACED" \in States /\ lag + 1 \in Nat
    BY <1>4 DEF States
  <2> QED BY <1>1, <1>2, <1>6, <2>1 DEF Types, lag
<1>14. Count(q) = lag + C
  BY <1>6 DEF Count
<1>15. Shape(t)'
  <2>1. /\ Count(q) > 0 /\ Count(q) < INVALID_INDEX
        /\ (lag + 1) - 1 <= Length[t] /\ 1 <= lag + 1 /\ lag + 1 <= Count(q)
    BY <1>3, <1>4, <1>14 DEF INVALID_INDEX
  <2>2. \A i, j \in 0..(Count(q) - 1) : At(q, i) = At(q, j) => i = j
    <3>1. \A i \in 0..(Count(q) - 1) : i \in 0..(lag + C - 1)
      BY <1>3, <1>4, <1>14
    <3> QED BY <1>11, <3>1
  <2> HIDE DEF C
  <2> QED BY <1>12, <2>1, <2>2 DEF Shape
<1>16. OnPath(t)'
  <2>1. PICK p \in Paths : /\ Len(p) \in Nat
                           /\ \A i \in 0..(C - 1) : LET j == i + 1 + Len(p) - C
                                                    IN  j \in DOMAIN p /\ At(r, i) = p[j]
    BY <1>3
  <2>2. ASSUME NEW i \in ((lag + 1) - 1)..(lag + C - 1)
        PROVE  LET j == i + 1 + Len(p) - (lag + C) IN j \in DOMAIN p /\ At(q, i) = p[j]
    <3>1. /\ i - lag \in 0..(C - 1) /\ i \in 0..(lag + C - 1) /\ i >= lag
          /\ i + 1 + Len(p) - (lag + C) = (i - lag) + 1 + Len(p) - C
      BY <1>3, <1>4, <2>1
    <3>2. At(q, i) = At(r, i - lag)
      BY <1>7, <3>1
    <3> QED BY <2>1, <3>1, <3>2
  <2>3. \A i \in (ri'[t] - 1)..(Count(q) - 1) : LET j == i + 1 + Len(p) - Count(q) IN j \in DOMAIN p /\ At(q, i) = p[j]
    <3>1. \A i \in (ri'[t] - 1)..(Count(q) - 1) : i \in ((lag + 1) - 1)..(lag + C - 1)
      BY <1>3, <1>4, <1>12, <1>14
    <3> QED BY <1>14, <2>2, <3>1
  <2> HIDE DEF C
  <2> QED BY <1>12, <2>3 DEF OnPath
<1>17. Under(t)' = Under(t)
  <2>1. Under(t)' = {At(q, i) : i \in (1 - 1)..((lag + 1) - 1)}
    BY <1>12 DEF Under
  <2>2. Under(t) = {At(route[t], i) : i \in (bi[t] - 1)..(ri[t] - 1)}
    BY <1>1 DEF Under
  <2>3. \A i \in (1 - 1)..((lag + 1) - 1) : i \in 0..lag
    BY <1>4
  <2>4. \A i \in (bi[t] - 1)..(ri[t] - 1) : /\ i - (bi[t] - 1) \in 0..lag /\ i - (bi[t] - 1) \in (1 - 1)..((lag + 1) - 1)
                                            /\ bi[t] - 1 + (i - (bi[t] - 1)) = i
    BY <1>4 DEF lag
  <2>5. \A i \in (bi[t] - 1)..(ri[t] - 1) : At(route[t], i) = At(q, i - (bi[t] - 1))
    BY <1>9, <2>4
  <2>6. Under(t) \subseteq Under(t)'
    BY <2>1, <2>2, <2>4, <2>5
  <2>7. Under(t)' \subseteq Under(t)
    BY <1>9, <2>1, <2>3
  <2> QED BY <2>6, <2>7
<1>18. OnTrack(t)' /\ NoStray(t)'
  BY <1>1, <1>2, <1>12, <1>17 DEF OnTrack, NoStray
<1>19. TrainInv(t)'
  BY <1>1, <1>2, <1>12, <1>15, <1>16, <1>18 DEF TrainInv, Searching, Driving
<1>20. \A u \in Trains : u # t => Unmoved(u) /\ ~Searching(u)
  BY <1>1, <1>2, OthersRest DEF Unmoved, Types
<1>21. OwnTiles(t)
  BY <1>1 DEF OwnTiles
<1> QED BY <1>1, <1>13, <1>17, <1>19, <1>20, <1>21, TrainStep

LEMMA RemoveSignalStep ==
  ASSUME IInv, NEW x \in Tiles, RemoveSignal(x) PROVE IInv'
<1>1. /\ signal' = [signal EXCEPT ![x] = "none"] /\ events < MaxEvents /\ events' = events + 1
      /\ UNCHANGED <<state, route, ri, bi, out, nextStop, nextRes, resv>>
  BY DEF RemoveSignal
<1>2. Types'
  BY <1>1, RailAssumption DEF IInv, Types
<1>3. Signals'
  <2>1. PICK plan \in Plans : signal \in [Tiles -> Kinds] /\ \A y \in Tiles : signal[y] \in {plan[y], "none"}
    BY DEF IInv, Signals
  <2>2. signal' \in [Tiles -> Kinds] /\ \A y \in Tiles : signal'[y] \in {plan[y], "none"}
    BY <1>1, <2>1 DEF Kinds
  <2> QED BY <2>2 DEF Signals
<1>4. \A u \in Trains : TrainInv(u)'
  <2> SUFFICES ASSUME NEW u \in Trains PROVE TrainInv(u)'
    OBVIOUS
  <2>1. TrainInv(u)
    BY DEF IInv
  <2> QED BY <1>1, <2>1 DEF TrainInv, Shape, Searching, Driving, OnPath, OnTrack, NoStray, Under, Held, Leads, Mine, Grant
<1>5. OneSearches' /\ Exclusive'
  BY <1>1 DEF IInv, OneSearches, Exclusive, Searching, Under
<1> QED BY <1>2, <1>3, <1>4, <1>5 DEF IInv


------------------------------------------------------------------------------
(* Saving and loading *)

(* An order of the trains has each of them *)
LEMMA OrderIs ==
  ASSUME NEW order \in SetToSeqs(Trains)
  PROVE  /\ Len(order) \in Nat /\ DOMAIN order = 1..Len(order)
         /\ \A i \in 1..Len(order) : order[i] \in Trains
         /\ \A t \in Trains : \E i \in 1..Len(order) : order[i] = t
<1> DEFINE n == Cardinality(Trains)
<1>1. n \in Nat
  BY RailAssumption, FS_CardinalityType
<1>2. order \in [1..n -> Trains] /\ \A i, j \in 1..n : i # j => order[i] # order[j]
  BY DEF SetToSeqs
<1>3. order \in Injection(1..n, Trains)
  BY <1>2 DEF Injection, IsInjective
<1>4. Cardinality(1..n) = n
  <2>1. Cardinality(1..n) = IF 1 > n THEN 0 ELSE n - 1 + 1
    BY <1>1, FS_Interval
  <2> QED BY <1>1, <2>1
<1>5. order \in Surjection(1..n, Trains)
  BY <1>3, <1>4, RailAssumption, FS_Injection
<1>6. Len(order) = n /\ DOMAIN order = 1..n
  BY <1>1, <1>2
<1> HIDE DEF n
<1> QED BY <1>1, <1>2, <1>5, <1>6 DEF Surjection

(* What a train reserves again is what it had, as far as no depot is concerned *)
LEMMA ClaimIs ==
  ASSUME IInv, Idle, NEW t \in Trains
  PROVE  /\ state[t] # "INITIAL" => Under(t) \subseteq Claim(t)
         /\ Driving(t) => \A i \in ri[t]..(Count(route[t]) - 1) : i < nextRes[t] => At(route[t], i) \in Claim(t)
         /\ \A x \in Claim(t) : /\ x \in Tiles /\ (x \in Depots \/ resv[x] = t) /\ state[t] # "INITIAL"
                                /\ x \in Under(t) \/ \E i \in ri[t]..(Count(route[t]) - 1) : x = At(route[t], i)
<1> DEFINE C == Count(route[t])
           way == bi[t]..(Lesser(nextRes[t], C) - 1)
<1>1. Types /\ Shape(t) /\ TrainInv(t) /\ ~Searching(t)
  BY DEF IInv, TrainInv, Idle, Searching
<1>2. /\ C \in Nat /\ ri[t] \in Nat /\ bi[t] \in Nat /\ 1 <= bi[t] /\ bi[t] <= ri[t] /\ ri[t] <= C /\ nextRes[t] \in Nat
  <2>1. nextRes[t] \in Nat
    <3>1. nextRes[t] \in 0..INVALID_INDEX
      BY <1>1 DEF Types
    <3> QED BY <3>1 DEF INVALID_INDEX
  <2> QED BY <1>1, <2>1, RouteTiles DEF Shape
<1>3. Claim(t) = IF Driving(t) THEN Under(t) \cup {At(route[t], i) : i \in way} ELSE Under(t)
  <2>1. Claim(t) = Under(t) \cup (IF Driving(t) THEN {At(route[t], i) : i \in way} ELSE {})
    BY DEF Claim, TilesOf, Driving
  <2> QED BY <2>1
<1>4. ASSUME Driving(t), NEW i \in ri[t]..(C - 1), i < nextRes[t] PROVE i \in way
  BY <1>2, <1>4 DEF Lesser
<1>5. ASSUME NEW x \in Under(t)
      PROVE  /\ x \in Tiles /\ (x \in Depots \/ resv[x] = t) /\ state[t] # "INITIAL"
  <2>1. state[t] # "INITIAL" /\ x \in Tiles
    BY <1>1, UnderIs DEF Under
  <2> QED BY <1>1, <2>1 DEF TrainInv, OnTrack, Searching
<1>6. ASSUME Driving(t), NEW i \in way
      PROVE  /\ At(route[t], i) \in Tiles /\ (At(route[t], i) \in Depots \/ resv[At(route[t], i)] = t) /\ state[t] # "INITIAL"
             /\ At(route[t], i) \in Under(t) \/ i \in ri[t]..(C - 1)
  <2>1. i < nextRes[t] /\ i < C /\ i \in Int /\ bi[t] <= i
    BY <1>2 DEF Lesser
  <2>2. state[t] # "INITIAL"
    BY <1>6 DEF Driving
  <2>3. CASE i < ri[t]
    <3>1. i \in (bi[t] - 1)..(ri[t] - 1)
      BY <1>2, <2>1, <2>3
    <3>2. At(route[t], i) \in Under(t)
      BY <2>2, <3>1 DEF Under
    <3> QED BY <1>5, <3>2
  <2>4. CASE ~(i < ri[t])
    <3>1. i \in ri[t]..(C - 1)
      BY <1>2, <2>1, <2>4
    <3>2. At(route[t], i) \in Tiles
      BY <1>1, <3>1, UnderIs
    <3>3. At(route[t], i) \in Depots \/ resv[At(route[t], i)] = t
      BY <1>1, <1>6, <2>1, <3>1 DEF TrainInv, Held, Mine, Grant
    <3> QED BY <2>2, <3>1, <3>2, <3>3
  <2> QED BY <2>3, <2>4
<1> HIDE DEF way
<1> QED BY <1>3, <1>4, <1>5, <1>6

LEMMA ReclaimedIs ==
  ASSUME IInv, Idle, NEW order \in SetToSeqs(Trains)
  PROVE  /\ Reclaimed(order) \in [Tiles -> Trains \cup {Nobody}]
         /\ \A x \in Tiles, t \in Trains : Reclaimed(order)[x] = t => x \in Claim(t)
         /\ \A t \in Trains : \A x \in Claim(t) \ Depots : Reclaimed(order)[x] = t
<1> DEFINE R == Reclaimed(order)
           I(x) == {i \in 1..Len(order) : x \in Claim(order[i])}
<1>1. /\ Len(order) \in Nat /\ DOMAIN order = 1..Len(order)
      /\ \A i \in 1..Len(order) : order[i] \in Trains
      /\ \A t \in Trains : \E i \in 1..Len(order) : order[i] = t
  BY OrderIs
<1>2. R = [x \in Tiles |-> IF I(x) = {} THEN Nobody ELSE order[FirstIndex(I(x))]]
  BY <1>1 DEF Reclaimed
<1>3. \A x \in Tiles : I(x) # {} => FirstIndex(I(x)) \in I(x)
  <2> SUFFICES ASSUME NEW x \in Tiles, I(x) # {} PROVE FirstIndex(I(x)) \in I(x)
    OBVIOUS
  <2>1. I(x) \in SUBSET Nat
    BY <1>1
  <2> HIDE DEF I
  <2> QED BY <2>1, FirstIs
<1>4. \A x \in Tiles : \A i \in I(x) : order[i] \in Trains /\ x \in Claim(order[i])
  BY <1>1
<1>5. \A t \in Trains : \A x \in Claim(t) : x \in Tiles /\ I(x) # {} /\ (x \in Depots \/ resv[x] = t)
  <2> SUFFICES ASSUME NEW t \in Trains, NEW x \in Claim(t) PROVE x \in Tiles /\ I(x) # {} /\ (x \in Depots \/ resv[x] = t)
    OBVIOUS
  <2>1. x \in Tiles /\ (x \in Depots \/ resv[x] = t)
    BY ClaimIs
  <2>2. PICK i \in 1..Len(order) : order[i] = t
    BY <1>1
  <2> QED BY <2>1, <2>2
<1> HIDE DEF R, I
<1>6. \A x \in Tiles : (R[x] \in Trains /\ x \in Claim(R[x])) \/ (R[x] = Nobody /\ I(x) = {})
  BY <1>2, <1>3, <1>4
<1>7. R \in [Tiles -> Trains \cup {Nobody}]
  BY <1>2, <1>6
<1>8. \A x \in Tiles, t \in Trains : R[x] = t => x \in Claim(t)
  BY <1>6, RailAssumption
<1>9. \A t \in Trains : \A x \in Claim(t) \ Depots : R[x] = t
  BY <1>5, <1>6
<1> QED BY <1>7, <1>8, <1>9 DEF R

(* What has been loaded keeps the invariant, but for the variables it is in *)
Part(g, t) == [resv |-> g.resv, stop |-> g.stop[t], res |-> g.res[t]]
Restored(g, t) ==
  /\ state[t] # "INITIAL" => \A x \in Under(t) \ Depots : g.resv[x] = t
  /\ \A x \in Tiles : g.resv[x] = t =>
       /\ state[t] # "INITIAL"
       /\ x \in Under(t) \/ \E i \in ri[t]..(Count(route[t]) - 1) : x = At(route[t], i)
  /\ Driving(t) => Held(t, Part(g, t))
  /\ Driving(t) /\ state[t] # "CAN_START" => Leads(t, Part(g, t))
Restores(g) ==
  /\ g \in [resv : [Tiles -> Trains \cup {Nobody}], stop : [Trains -> 0..(INVALID_INDEX + 1)], res : [Trains -> 0..INVALID_INDEX]]
  /\ \A t \in Trains : Restored(g, t)

LEMMA FirstRestores ==
  ASSUME IInv, Idle, NEW order \in SetToSeqs(Trains)
  PROVE  Restores([resv |-> Reclaimed(order), stop |-> nextStop, res |-> nextRes])
<1> DEFINE R == Reclaimed(order)
           g == [resv |-> R, stop |-> nextStop, res |-> nextRes]
<1>1. /\ R \in [Tiles -> Trains \cup {Nobody}]
      /\ \A x \in Tiles, t \in Trains : R[x] = t => x \in Claim(t)
      /\ \A t \in Trains : \A x \in Claim(t) \ Depots : R[x] = t
  BY ReclaimedIs
<1> HIDE DEF R
<1>2. Types
  BY DEF IInv
<1>3. ASSUME NEW t \in Trains PROVE Restored(g, t)
  <2>1. Types /\ TrainInv(t) /\ Shape(t)
    BY DEF IInv, TrainInv
  <2>2. /\ state[t] # "INITIAL" => Under(t) \subseteq Claim(t)
        /\ Driving(t) => \A i \in ri[t]..(Count(route[t]) - 1) : i < nextRes[t] => At(route[t], i) \in Claim(t)
        /\ \A x \in Claim(t) : /\ state[t] # "INITIAL"
                               /\ x \in Under(t) \/ \E i \in ri[t]..(Count(route[t]) - 1) : x = At(route[t], i)
    BY ClaimIs
  <2>3. state[t] # "INITIAL" => \A x \in Under(t) \ Depots : R[x] = t
    BY <1>1, <2>2
  <2>4. Driving(t) => Held(t, Part(g, t))
    BY <1>1, <2>2 DEF Held, Mine, Part
  <2>5. Driving(t) /\ state[t] # "CAN_START" => Leads(t, Part(g, t))
    BY <2>1 DEF TrainInv, Leads, Part, Grant
  <2> QED BY <1>1, <2>2, <2>3, <2>4, <2>5 DEF Restored
<1> QED BY <1>1, <1>2, <1>3 DEF Restores, Types, R


LEMMA RenewedIs ==
  ASSUME IInv, Idle, NEW g, Restores(g), NEW t \in Trains
  PROVE  Restores(Renewed(g, t))
<1> DEFINE r == route[t]
           C == Count(r)
           s == ri[t] - 1
           here == [g EXCEPT !.stop[t] = ri[t]]
           first == [resv |-> g.resv, stop |-> ri[t], res |-> 0]
           own == Reserved(first, t, r, s)
           o == NextObstacle(t, r, s)
           ahead == IF BlockFree(own, t, r, s) THEN StopAt(own, r, o) ELSE own
           new == [resv |-> ahead.resv, stop |-> [here.stop EXCEPT ![t] = ahead.stop], res |-> [g.res EXCEPT ![t] = ahead.res]]
           h == Renewed(g, t)
<1>1. Types /\ Signals /\ Shape(t) /\ TrainInv(t) /\ ~Searching(t)
  BY DEF IInv, TrainInv, Idle, Searching
<1>2. /\ C \in Nat /\ ri[t] \in Nat /\ ri[t] >= 1 /\ ri[t] <= C /\ C < INVALID_INDEX /\ INVALID_INDEX = 1000
      /\ s \in Nat /\ s < C /\ ri[t] - 1 <= s /\ ri[t] \in 0..(INVALID_INDEX + 1)
  BY <1>1, Counts, RouteTiles DEF Shape
<1>3. h = IF state[t] = "INITIAL" \/ g.res[t] # 0 THEN g
          ELSE IF state[t] \notin {"DRIVING", "LEAVING_DEPOT"} \/ ri[t] = C THEN here
          ELSE new
  BY DEF Renewed
<1>4. /\ g.resv \in [Tiles -> Trains \cup {Nobody}] /\ g.stop \in [Trains -> 0..(INVALID_INDEX + 1)]
      /\ g.res \in [Trains -> 0..INVALID_INDEX] /\ \A u \in Trains : Restored(g, u)
      /\ g = [resv |-> g.resv, stop |-> g.stop, res |-> g.res]
  BY DEF Restores
<1> HIDE DEF h, new
(* A stop at the next tile is no promise *)
<1>5. ASSUME NEW k, k.stop = ri[t] PROVE Leads(t, k)
  <2>1. ~(ri[t] < k.stop) /\ \A i \in ri[t]..(C - 1) : ~(i < k.stop)
    BY <1>2, <1>5
  <2> QED BY <2>1 DEF Leads
<1>6. CASE h = g
  BY <1>6 DEF h
<1>7. CASE h = here
  <2>1. /\ here.resv = g.resv /\ here.res = g.res /\ here.stop \in [Trains -> 0..(INVALID_INDEX + 1)]
        /\ here.stop[t] = ri[t] /\ \A u \in Trains : u # t => here.stop[u] = g.stop[u]
        /\ here = [resv |-> here.resv, stop |-> here.stop, res |-> here.res]
    BY <1>2, <1>4
  <2> HIDE DEF here
  <2>2. ASSUME NEW u \in Trains PROVE Restored(here, u)
    <3>1. Restored(g, u)
      BY <1>4
    <3>2. Driving(u) => Held(u, Part(here, u))
      BY <2>1, <3>1 DEF Restored, Held, Mine, Part
    <3>3. CASE u = t
      <4>1. Part(here, u).stop = ri[t]
        BY <2>1, <3>3 DEF Part
      <4>2. Leads(t, Part(here, t))
        BY <1>5, <3>3, <4>1
      <4> QED BY <2>1, <3>1, <3>2, <3>3, <4>2 DEF Restored
    <3>4. CASE u # t
      <4>1. Part(here, u) = Part(g, u)
        BY <2>1, <3>4 DEF Part
      <4> QED BY <2>1, <3>1, <4>1 DEF Restored
    <3> QED BY <3>3, <3>4
  <2> QED BY <1>4, <1>7, <2>1, <2>2 DEF Restores, h
<1>8. CASE h = new /\ state[t] \in {"DRIVING", "LEAVING_DEPOT"}
  <2>1. first \in Granted /\ first.resv = g.resv /\ first.stop = ri[t]
    BY <1>2, <1>4 DEF Granted
  <2> HIDE DEF first
  <2>2. Behind(t, first, s - 1)
    BY <1>2 DEF Behind
  <2>a. s \in Nat /\ ri[t] - 1 <= s /\ s < Count(route[t])
    BY <1>2
  <2>b. Types /\ Signals /\ Shape(t)
    BY <1>1
  <2> HIDE DEF s
  <2>3. /\ own \in Granted /\ own.stop = first.stop /\ Held(t, own)
        /\ BlockFree(first, t, r, s) => /\ o \in 0..INVALID_INDEX
                                        /\ \A k \in Granted : own.res <= k.res => Leads(t, StopAt(k, r, o))
    <3>1. /\ own \in Granted /\ own.stop = first.stop /\ Held(t, own)
          /\ BlockFree(first, t, r, s) => o \in 0..INVALID_INDEX
      BY <2>1, <2>2, <2>a, <2>b, BlockGoesOn
    <3>2. BlockFree(first, t, r, s) => \A k \in Granted : own.res <= k.res => Leads(t, StopAt(k, r, o))
      BY <2>1, <2>2, <2>a, <2>b, BlockGoesOn
    <3> QED BY <3>1, <3>2
  <2>4. Only(t, first, own, From(t, r, s))
    BY <2>1, <2>a, <2>b, ReservedIs
  <2>5. From(t, r, s) = ri[t] /\ BlockEnd(t, r, s) \in Nat /\ BlockEnd(t, r, s) < C
    <3>1. s = ri[t] - 1
      BY DEF s
    <3> QED BY <2>a, <2>b, <3>1, Blocks
  <2> HIDE DEF own, o
  <2>6. own.res <= own.res
    BY <2>3 DEF Granted
  <2>7. \A x \in Tiles : \/ own.resv[x] = g.resv[x]
                         \/ /\ g.resv[x] \in {t, Nobody} /\ own.resv[x] \in {t, Nobody}
                            /\ \E i \in ri[t]..(C - 1) : x = At(r, i)
    BY <2>1, <2>4, <2>5 DEF Only
  <2>8. BlockFree(own, t, r, s) => BlockFree(first, t, r, s)
    <3> SUFFICES ASSUME BlockFree(own, t, r, s), NEW i \in From(t, r, s)..BlockEnd(t, r, s)
                 PROVE  CanReserve(first, t, At(r, i))
      <4>1. BlockFree(own, t, r, s) => s < Count(r)
        BY DEF BlockFree
      <4> QED BY <4>1 DEF BlockFree, TilesOf
    <3>1. i \in ri[t]..(C - 1)
      BY <1>2, <2>5
    <3>2. At(r, i) \in Tiles
      BY <1>1, <3>1, UnderIs
    <3>3. CanReserve(own, t, At(r, i))
      BY DEF BlockFree, TilesOf
    <3> QED BY <2>1, <2>7, <3>2, <3>3 DEF CanReserve
  <2>9. ahead \in Granted /\ ahead.resv = own.resv /\ Held(t, ahead) /\ Leads(t, ahead)
    <3>1. CASE BlockFree(own, t, r, s)
      <4> DEFINE p == StopAt(own, r, o)
      <4>1. p \in Granted /\ p.resv = own.resv /\ p.res = own.res
        BY <1>1, <2>3, <2>8, <3>1, StopIs
      <4>2. Leads(t, p)
        BY <2>3, <2>6, <2>8, <3>1
      <4> HIDE DEF p
      <4>3. Held(t, p)
        BY <2>3, <4>1 DEF Held, Mine
      <4> QED BY <3>1, <4>1, <4>2, <4>3 DEF p
    <3>2. CASE ~BlockFree(own, t, r, s)
      <4>1. Leads(t, own)
        BY <1>5, <2>1, <2>3
      <4> QED BY <2>3, <3>2, <4>1
    <3> QED BY <3>1, <3>2
  <2> HIDE DEF ahead
  <2>10. /\ new.resv = ahead.resv /\ new.stop[t] = ahead.stop /\ new.res[t] = ahead.res
         /\ \A u \in Trains : u # t => new.stop[u] = g.stop[u] /\ new.res[u] = g.res[u]
         /\ new \in [resv : [Tiles -> Trains \cup {Nobody}], stop : [Trains -> 0..(INVALID_INDEX + 1)], res : [Trains -> 0..INVALID_INDEX]]
    <3>1. here.stop \in [Trains -> 0..(INVALID_INDEX + 1)] /\ \A u \in Trains : u # t => here.stop[u] = g.stop[u]
      BY <1>2, <1>4
    <3> HIDE DEF here
    <3> QED BY <1>4, <2>9, <3>1 DEF new, Granted
  <2>11. ASSUME NEW u \in Trains PROVE Restored(new, u)
    <3>1. Restored(g, u) /\ u # Nobody /\ t # Nobody
      BY <1>4, RailAssumption
    <3>2. CASE u = t
      <4>1. Held(t, Part(new, t)) /\ Leads(t, Part(new, t))
        BY <2>9, <2>10 DEF Held, Leads, Mine, Part
      <4>2. \A x \in Under(t) : new.resv[x] = g.resv[x]
        BY <1>1, <2>7, <2>9, <2>10, UnderIs
      <4>3. \A x \in Tiles : new.resv[x] = t => x \in Under(t) \/ \E i \in ri[t]..(C - 1) : x = At(r, i)
        BY <2>7, <2>9, <2>10, <3>1, <3>2 DEF Restored
      <4> QED BY <1>8, <3>1, <3>2, <4>1, <4>2, <4>3 DEF Restored
    <3>3. CASE u # t
      <4>1. \A x \in Tiles : new.resv[x] = u <=> g.resv[x] = u
        BY <2>7, <2>9, <2>10, <3>1, <3>3
      <4>2. Shape(u) /\ Under(u) \subseteq Tiles /\ \A i \in ri[u]..(Count(route[u]) - 1) : At(route[u], i) \in Tiles
        <5>1. Shape(u)
          BY DEF IInv, TrainInv
        <5> QED BY <1>1, <5>1, UnderIs
      <4>3. Driving(u) => Held(u, Part(new, u))
        <5> SUFFICES ASSUME Driving(u), NEW i \in ri[u]..(Count(route[u]) - 1), i < new.res[u]
                     PROVE  At(route[u], i) \in Depots \/ new.resv[At(route[u], i)] = u
          BY DEF Held, Mine, Part
        <5>1. i < g.res[u]
          BY <2>10, <3>3
        <5>2. At(route[u], i) \in Depots \/ g.resv[At(route[u], i)] = u
          BY <3>1, <5>1 DEF Restored, Held, Mine, Part
        <5> QED BY <4>1, <4>2, <5>2
      <4>4. Driving(u) /\ state[u] # "CAN_START" => Leads(u, Part(new, u))
        BY <2>10, <3>1, <3>3 DEF Restored, Leads, Part
      <4>5. state[u] # "INITIAL" => \A x \in Under(u) \ Depots : new.resv[x] = u
        BY <3>1, <4>1, <4>2 DEF Restored
      <4> QED BY <3>1, <4>1, <4>3, <4>4, <4>5 DEF Restored
    <3> QED BY <3>2, <3>3
  <2> QED BY <1>8, <2>10, <2>11 DEF Restores, h
<1> QED BY <1>3, <1>6, <1>7, <1>8

(* Train after train *)
LEMMA LoadedIs ==
  ASSUME IInv, Idle, NEW order \in SetToSeqs(Trains)
  PROVE  LET loaded[i \in 0..Len(order)] ==
               IF i = 0 THEN [resv |-> Reclaimed(order), stop |-> nextStop, res |-> nextRes]
               ELSE Renewed(loaded[i - 1], order[i])
         IN  Restores(loaded[Len(order)])
<1> DEFINE N == Len(order)
           D == 0..N
           start == [resv |-> Reclaimed(order), stop |-> nextStop, res |-> nextRes]
           Body(i, f) == IF i = 0 THEN start ELSE Renewed(f[i - 1], order[i])
           Good(f, k) == f = [i \in D |-> f[i]] /\ \A i \in D : i <= k => f[i] = Body(i, f)
           P == {k \in Nat : \E f : Good(f, k)}
           F == CHOOSE f : f = [i \in D |-> IF i = 0 THEN start ELSE Renewed(f[i - 1], order[i])]
<1>1. N \in Nat /\ \A i \in 1..N : order[i] \in Trains
  BY OrderIs
<1>2. Restores(start)
  BY FirstRestores
<1> HIDE DEF N, start
<1>3. ASSUME NEW i \in D, NEW f, NEW h, i # 0 => f[i - 1] = h[i - 1] PROVE Body(i, f) = Body(i, h)
  BY <1>3
<1> HIDE DEF Body
<1>4. 0 \in P
  <2> DEFINE b == [i \in D |-> i]
             f == [i \in D |-> Body(0, b)]
  <2>1. f = [i \in D |-> f[i]]
    OBVIOUS
  <2>2. \A i \in D : i <= 0 => i = 0
    BY <1>1
  <2>3. 0 \in D
    BY <1>1
  <2>4. Body(0, b) = Body(0, f)
    BY <1>3, <2>3
  <2>5. \A i \in D : i <= 0 => f[i] = Body(i, f)
    BY <2>2, <2>4
  <2>6. Good(f, 0)
    BY <2>1, <2>5
  <2> HIDE DEF Good
  <2> QED BY <2>6
<1>5. ASSUME NEW k \in Nat, k \in P PROVE k + 1 \in P
  <2>1. PICK f : Good(f, k)
    BY <1>5
  <2> DEFINE h == [i \in D |-> IF i = k + 1 THEN Body(i, f) ELSE f[i]]
  <2>2. h = [i \in D |-> h[i]]
    OBVIOUS
  <2>3. \A i \in D : h[i] = IF i = k + 1 THEN Body(i, f) ELSE f[i]
    OBVIOUS
  <2> HIDE DEF h
  <2>4. ASSUME NEW i \in D, i <= k + 1 PROVE h[i] = Body(i, h)
    <3>1. h[i] = Body(i, f)
      <4>1. CASE i = k + 1
        BY <2>3, <4>1
      <4>2. CASE i # k + 1
        <5>1. i <= k
          BY <1>1, <2>4, <4>2
        <5> QED BY <2>1, <2>3, <4>2, <5>1
      <4> QED BY <4>1, <4>2
    <3>2. i # 0 => f[i - 1] = h[i - 1]
      <4> SUFFICES ASSUME i # 0 PROVE f[i - 1] = h[i - 1]
        OBVIOUS
      <4>1. i - 1 \in D /\ i - 1 # k + 1
        BY <1>1, <2>4
      <4> QED BY <2>3, <4>1
    <3> QED BY <1>3, <3>1, <3>2
  <2>5. Good(h, k + 1)
    BY <2>2, <2>4
  <2> HIDE DEF Good
  <2> QED BY <2>5
<1>6. \A k \in Nat : k \in P
  <2> HIDE DEF P
  <2> QED BY <1>4, <1>5, SetInduction
<1>7. \E f : f = [i \in D |-> Body(i, f)]
  <2>1. PICK f : Good(f, N)
    BY <1>1, <1>6
  <2>2. \A i \in D : f[i] = Body(i, f)
    <3>1. \A i \in D : i <= N
      BY <1>1
    <3> QED BY <2>1, <3>1
  <2>3. f = [i \in D |-> Body(i, f)]
    BY <2>1, <2>2
  <2> QED BY <2>3
<1>8. F = [i \in D |-> Body(i, F)]
  BY <1>7 DEF Body
<1> HIDE DEF F
<1>9. F[0] = start /\ \A i \in D : i # 0 => F[i] = Renewed(F[i - 1], order[i])
  <2>1. 0 \in D
    BY <1>1
  <2>2. \A i \in D : F[i] = Body(i, F)
    BY <1>8
  <2> QED BY <2>1, <2>2 DEF Body
<1> DEFINE Q == {k \in Nat : k <= N => Restores(F[k])}
<1>10. 0 \in Q
  BY <1>2, <1>9
<1>11. ASSUME NEW k \in Nat, k \in Q PROVE k + 1 \in Q
  <2> SUFFICES ASSUME k + 1 <= N PROVE Restores(F[k + 1])
    OBVIOUS
  <2>1. k + 1 \in D /\ k + 1 # 0 /\ (k + 1) - 1 = k /\ k <= N /\ k + 1 \in 1..N
    BY <1>1
  <2>2. F[k + 1] = Renewed(F[k], order[k + 1])
    <3>1. F[k + 1] = Renewed(F[(k + 1) - 1], order[k + 1])
      BY <1>9, <2>1
    <3> QED BY <2>1, <3>1
  <2>3. Restores(F[k]) /\ order[k + 1] \in Trains
    BY <1>1, <1>11, <2>1
  <2> QED BY <2>2, <2>3, RenewedIs
<1>12. \A k \in Nat : k \in Q
  <2> HIDE DEF Q
  <2> QED BY <1>10, <1>11, SetInduction
<1>13. Restores(F[N])
  BY <1>1, <1>12
<1> QED BY <1>13 DEF F, N, start

LEMMA SaveAndLoadStep ==
  ASSUME IInv, NEW order \in SetToSeqs(Trains), SaveAndLoad(order) PROVE IInv'
<1>1. PICK g : /\ Restores(g)
               /\ Idle /\ events < MaxEvents /\ resv' = g.resv /\ nextStop' = g.stop /\ nextRes' = g.res
               /\ events' = events + 1 /\ UNCHANGED <<state, route, ri, bi, out, signal>>
  <2>1. Idle
    BY DEF SaveAndLoad
  <2> QED BY <2>1, LoadedIs DEF SaveAndLoad
<1>2. Types /\ \A u, v \in Trains : ~Searching(u)
  BY <1>1 DEF IInv, Idle, Searching
<1>3. Types'
  BY <1>1, <1>2, RailAssumption DEF Types, Restores
<1>4. Signals' /\ OneSearches' /\ Exclusive'
  BY <1>1 DEF IInv, Signals, OneSearches, Exclusive, Searching, Under
<1>5. ASSUME NEW t \in Trains PROVE TrainInv(t)'
  <2>1. TrainInv(t) /\ Restored(g, t) /\ ~Searching(t)
    BY <1>1, <1>2 DEF IInv, Restores
  <2>2. Under(t)' = Under(t) /\ (Driving(t)' <=> Driving(t)) /\ ~Searching(t)'
    BY <1>1, <2>1 DEF Under, Driving, Searching
  <2>3. Grant(t)' = Part(g, t)
    BY <1>1 DEF Grant, Part
  <2>4. Shape(t)' /\ (Driving(t) \/ state[t] = "PLACED" => OnPath(t)')
    BY <1>1, <2>1 DEF TrainInv, Shape, OnPath
  <2>5. OnTrack(t)' /\ NoStray(t)'
    BY <1>1, <2>1, <2>2 DEF Restored, OnTrack, NoStray
  <2>6. Driving(t) => Held(t, Grant(t))'
    BY <1>1, <2>1, <2>3 DEF Restored, Held, Mine, Part, Grant
  <2>7. Driving(t) /\ state[t] # "CAN_START" => Leads(t, Grant(t))'
    BY <1>1, <2>1, <2>3 DEF Restored, Leads, Part, Grant
  <2> QED BY <1>1, <2>2, <2>4, <2>5, <2>6, <2>7 DEF TrainInv
<1> QED BY <1>3, <1>4, <1>5 DEF IInv

------------------------------------------------------------------------------
(* The invariant *)

LEMMA InitHolds == Init => IInv
<1> SUFFICES ASSUME Init PROVE IInv
  OBVIOUS
<1>1. ASSUME NEW t \in Trains
      PROVE  /\ state[t] = "INITIAL" /\ route[t] = <<Home[t]>> /\ Home[t] \in Depots /\ Home[t] \in Tiles
             /\ ri[t] = 1 /\ bi[t] = 1 /\ out[t] = FALSE /\ Length[t] \in Nat /\ t # Nobody
             /\ Count(route[t]) = 1 /\ At(route[t], 0) = Home[t] /\ Under(t) = {} /\ ~Driving(t) /\ ~Searching(t)
  BY RailAssumption DEF Init, Count, At, Under, Driving, Searching
<1>2. Types
  <2>1. \A t \in Trains : <<Home[t]>> \in Seq(Tiles)
    <3> SUFFICES ASSUME NEW t \in Trains PROVE <<Home[t]>> \in Seq(Tiles)
      OBVIOUS
    <3>1. Home[t] \in Tiles
      BY RailAssumption
    <3> HIDE RailAssumption
    <3> QED BY <3>1
  <2>2. "INITIAL" \in States /\ 0 \in 0..(INVALID_INDEX + 1) /\ 0 \in 0..INVALID_INDEX /\ 0 \in 0..MaxEvents
    BY RailAssumption DEF States, INVALID_INDEX
  <2> QED BY <2>1, <2>2 DEF Init, Types
<1>3. Signals
  BY RailAssumption DEF Init, Signals
<1>4. OneSearches /\ Exclusive
  BY <1>1 DEF OneSearches, Exclusive
<1>5. ASSUME NEW t \in Trains PROVE TrainInv(t)
  <2>1. Shape(t)
    <3>1. /\ Count(route[t]) = 1 /\ ri[t] = 1 /\ bi[t] = 1 /\ out[t] = FALSE /\ Length[t] \in Nat
          /\ At(route[t], 0) \in Depots
      BY <1>1
    <3>2. \A i, j \in 0..(Count(route[t]) - 1) : i = j
      BY <3>1
    <3> QED BY <3>1, <3>2 DEF Shape, INVALID_INDEX
  <2>2. OnTrack(t) /\ NoStray(t)
    BY <1>1 DEF OnTrack, NoStray, Init
  <2> QED BY <1>1, <2>1, <2>2 DEF TrainInv
<1> QED BY <1>2, <1>3, <1>4, <1>5 DEF IInv

LEMMA StutterHolds == IInv /\ UNCHANGED vars => IInv'
<1> SUFFICES ASSUME IInv, UNCHANGED vars PROVE IInv'
  OBVIOUS
<1>1. /\ state' = state /\ route' = route /\ ri' = ri /\ bi' = bi /\ out' = out /\ nextStop' = nextStop
      /\ nextRes' = nextRes /\ resv' = resv /\ signal' = signal /\ events' = events
  BY DEF vars
<1>2. Types' /\ Signals' /\ OneSearches' /\ Exclusive'
  <2>1. Types' /\ Signals'
    BY <1>1 DEF IInv, Types, Signals
  <2>2. \A t \in Trains : Under(t)' = Under(t) /\ (Searching(t)' <=> Searching(t))
    BY <1>1 DEF Under, Searching
  <2> QED BY <2>1, <2>2 DEF IInv, OneSearches, Exclusive
<1>3. ASSUME NEW t \in Trains PROVE TrainInv(t)'
  <2>1. TrainInv(t)
    BY DEF IInv
  <2>2. Shape(t)' /\ (OnPath(t) => OnPath(t)') /\ OnTrack(t)' /\ NoStray(t)'
    BY <1>1, <2>1 DEF TrainInv, Shape, OnPath, OnTrack, NoStray, Under, Searching
  <2>3. (Driving(t)' <=> Driving(t)) /\ (Searching(t)' <=> Searching(t)) /\ Grant(t)' = Grant(t)
    BY <1>1 DEF Driving, Searching, Grant
  <2>4. /\ Held(t, Grant(t)) => Held(t, Grant(t))'
        /\ Leads(t, Grant(t)) => Leads(t, Grant(t))'
    BY <1>1 DEF Held, Mine, Leads, Grant
  <2> QED BY <1>1, <2>1, <2>2, <2>3, <2>4 DEF TrainInv
<1> QED BY <1>2, <1>3 DEF IInv

LEMMA NextHolds ==
  ASSUME Troubles = {}, WellSignalled
  PROVE  IInv /\ [Next]_vars => IInv'
<1> SUFFICES ASSUME IInv, [Next]_vars PROVE IInv'
  OBVIOUS
<1>1. ASSUME NEW t \in Trains, Start(t) \/ BeginSearch(t) \/ NoRoute(t) \/ Loaded(t) PROVE IInv'
  BY <1>1, StartStep, BeginSearchStep, NoRouteStep, LoadedStep
<1>2. ASSUME NEW t \in Trains, HopTail(t) \/ AllOut(t) \/ Arrive(t) \/ Reroute(t) PROVE IInv'
  BY <1>2, HopTailStep, AllOutStep, ArriveStep, RerouteStep
<1>3. ASSUME NEW t \in Trains, NEW r \in Routes(t), PlaceInDepot(t, r) \/ PlaceAhead(t, r) \/ PlaceAnew(t, r)
      PROVE  IInv'
  BY <1>3, PlaceInDepotStep, PlaceAheadStep, PlaceAnewStep
<1>4. ASSUME NEW t \in Trains, NEW in \in Inputs,
             Depart(t, in) \/ TryStart(t, in) \/ HopHead(t, in) \/ Wait(t, in)
      PROVE  IInv'
  BY <1>4, DepartStep, TryStartStep, HopHeadStep, WaitStep
<1>5. ASSUME NEW x \in Tiles, RemoveSignal(x) PROVE IInv'
  BY <1>5, RemoveSignalStep
<1>6. ASSUME NEW order \in SetToSeqs(Trains), SaveAndLoad(order) PROVE IInv'
  BY <1>6, SaveAndLoadStep
<1>7. CASE UNCHANGED vars
  BY <1>7, StutterHolds
<1> QED BY <1>1, <1>2, <1>3, <1>4, <1>5, <1>6, <1>7 DEF Next

(* On a well signalled line, and when none of the Troubles happens, every state the trains reach   *)
(* satisfies the invariant: for any number of trains of any length, on any lines                   *)
THEOREM Invariant ==
  ASSUME Troubles = {}, WellSignalled
  PROVE  Spec => []IInv
<1>1. Init => IInv
  BY InitHolds
<1>2. IInv /\ [Next]_vars => IInv'
  BY NextHolds
<1> QED BY <1>1, <1>2, PTL DEF Spec

(* The variables keep their types: the vehicles of a train stay on its route, the first before the *)
(* last by no more than the train is long, and the indices in their range                          *)
THEOREM TypesHold ==
  ASSUME Troubles = {}, WellSignalled
  PROVE  Spec => []TypeOK
<1>1. IInv => TypeOK
  BY RailAssumption DEF IInv, Types, Signals, TrainInv, Shape, TypeOK
<1> QED BY <1>1, Invariant, PTL

(* No two trains are on a tile, and what is under a train is reserved for it: through searches for *)
(* a way, trains that turn, depots, stops, signals that are taken away, and loading the world      *)
THEOREM TrainsNeverCollide ==
  ASSUME Troubles = {}, WellSignalled
  PROVE  Spec => []NoCollision
<1>1. IInv => NoCollision
  <2> SUFFICES ASSUME IInv PROVE OccupiedIsReserved
    BY DEF IInv, NoCollision
  <2> QED BY DEF IInv, TrainInv, OnTrack, OccupiedIsReserved
<1> QED BY <1>1, Invariant, PTL

(* A train that drives holds every tile up to where it stops next: what the signals, the priority  *)
(* and pre-signals, the crossings and the save have granted it is enough                           *)
THEOREM DrivingHoldsItsWay ==
  ASSUME Troubles = {}, WellSignalled
  PROVE  Spec => []WayIsReserved
<1>1. IInv => WayIsReserved
  <2> SUFFICES ASSUME IInv, NEW t \in Trains, state[t] = "DRIVING", ri[t] <= nextStop[t],
                      NEW i \in ri[t]..Lesser(nextStop[t] - 1, Count(route[t]) - 1),
                      At(route[t], i) \notin Depots
               PROVE  resv[At(route[t], i)] = t
    BY DEF WayIsReserved, TilesOf
  <2>1. Driving(t) /\ Types /\ Shape(t) /\ Held(t, Grant(t)) /\ Leads(t, Grant(t))
    BY DEF Driving, IInv, TrainInv
  <2>2. Count(route[t]) \in Nat /\ ri[t] \in Nat /\ nextStop[t] \in Nat
    <3>1. nextStop[t] \in 0..(INVALID_INDEX + 1)
      BY <2>1 DEF Types
    <3> QED BY <2>1, <3>1, RouteTiles DEF INVALID_INDEX
  <2>3. i \in ri[t]..(Count(route[t]) - 1) /\ i < nextStop[t]
    BY <2>2 DEF Lesser
  <2>4. i < nextRes[t]
    BY <2>1, <2>3 DEF Leads, Grant
  <2> QED BY <2>1, <2>3, <2>4 DEF Held, Mine, Grant
<1> QED BY <1>1, Invariant, PTL

(* No tile stays reserved behind a train, or on a way that it has given up                         *)
THEOREM NothingStrayIsReserved ==
  ASSUME Troubles = {}, WellSignalled
  PROVE  Spec => []NoStrayReservation
<1>1. IInv => NoStrayReservation
  <2> SUFFICES ASSUME IInv, NEW x \in Tiles, resv[x] # Nobody
               PROVE  LET t == resv[x]
                      IN  \/ x \in Under(t)
                          \/ \E i \in ri[t]..(Count(route[t]) - 1) : At(route[t], i) = x
    BY DEF NoStrayReservation
  <2>1. resv[x] \in Trains
    BY DEF IInv, Types
  <2>2. NoStray(resv[x])
    BY <2>1 DEF IInv, TrainInv
  <2> QED BY <2>2 DEF NoStray
<1> QED BY <1>1, Invariant, PTL
=============================================================================
