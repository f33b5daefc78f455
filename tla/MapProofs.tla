--------------------------------- MODULE MapProofs ---------------------------------
(***************************************************************************)
(* Proofs about the map and what stands on it.                             *)
(*                                                                         *)
(* The hexagon of map_shape_t, for every size of its sides and every width *)
(* of a coordinate: the turn of a map; the ranges, names and measures of   *)
(* the world of Surface; that this world turns rigidly.                    *)
(*                                                                         *)
(* A level crossing, for every set of cars and trains and any number of    *)
(* tracks.  What holds for any number of tracks: the vehicle that          *)
(* requested last may pass, and a crossing is closed only for a train.     *)
(* That the two ways exclude each other needs trains that all use one      *)
(* track: then the reservation of the track, and not the crossing, keeps a *)
(* second train from asking (Alone), and a granted train finds the         *)
(* crossing closed (GrantedIsSafe).                                        *)
(*                                                                         *)
(* A factory, for any number of goods and any stores.  Types and bounds of *)
(* the stocks carry each other (Stores): a step of production is one of    *)
(* seven control types, and each of them makes no more than there is room  *)
(* for (Makes).  The caches need the bounds: a store that is full is       *)
(* exactly full, so what a control type registers is what became empty or  *)
(* full (Counts).                                                          *)
(***************************************************************************)
EXTENDS Surface, Crossing, Factory, FiniteSetTheorems, TLAPS

(* Values that fit are kept by the conversion to sint16 *)
LEMMA ShortFits ==
  ASSUME NEW n \in Int, -MaxCoord <= n, n < MaxCoord
  PROVE  Short(n) = n
PROOF
<1>1. MaxCoord \in Nat \ {0}
  BY CoordAssumption
<1> DEFINE a == n + MaxCoord
           b == 2 * MaxCoord
<1>2. a \in Nat /\ b \in Nat \ {0} /\ a < b
  BY <1>1
<1>3. a % b = a
  BY <1>2, SMT
<1>4. QED
  BY <1>1, <1>3 DEF Short

(* The low bits of a value do not depend on where a carry was lost *)
LEMMA ShortWraps ==
  ASSUME NEW n \in Int, MaxCoord <= n, n < 3 * MaxCoord
  PROVE  Short(n) = n - 2 * MaxCoord
PROOF
<1>1. MaxCoord \in Nat \ {0}
  BY CoordAssumption
<1> DEFINE a == n + MaxCoord
           b == 2 * MaxCoord
<1>2. a \in Nat /\ b \in Nat \ {0} /\ b <= a /\ a < 2 * b
  BY <1>1
<1>3. a % b = a - b
  BY <1>2, SMT
<1>4. QED
  BY <1>1, <1>3 DEF Short

(* A coordinate that falls below a short by less than its range comes back one range higher *)
LEMMA ShortWrapsBack ==
  ASSUME NEW n \in Int, -3 * MaxCoord <= n, n < -MaxCoord
  PROVE  Short(n) = n + 2 * MaxCoord
PROOF
<1>1. MaxCoord \in Nat \ {0}
  BY CoordAssumption
<1> DEFINE a == n + MaxCoord
           b == 2 * MaxCoord
<1>2. a \in Int /\ b \in Nat \ {0} /\ -b <= a /\ a < 0
  BY <1>1
<1>3. a % b = a + b
  BY <1>2, SMT
<1>4. QED
  BY <1>1, <1>3 DEF Short

(* A shape is its three sides, each a positive number *)
LEMMA ShapeSides ==
  ASSUME NEW s \in Shape
  PROVE  /\ s.w \in Nat \ {0} /\ s.h \in Nat \ {0} /\ s.d \in Nat \ {0}
         /\ s = [w |-> s.w, h |-> s.h, d |-> s.d]
         /\ s.w + s.d - 1 <= MaxCoord - 2 /\ s.h + s.d - 1 <= MaxCoord - 2
         /\ MaxCoord \in Nat
BY CoordAssumption DEF Shape, SizeQ, SizeR, MaxExtent

(* Containment written out in the sides *)
LEMMA ContainsSides ==
  ASSUME NEW s \in Shape, NEW k \in Tile
  PROVE  Contains(s, k) <=> /\ k.x >= 0 /\ k.y >= 0
                            /\ k.x <= s.w + s.d - 2 /\ k.y <= s.h + s.d - 2
                            /\ k.x + k.y >= s.d - 1
                            /\ k.x + k.y <= s.w + s.h + s.d - 3
PROOF
<1>1. k.x \in Int /\ k.y \in Int
  BY DEF Tile
<1>2. QED
  BY <1>1, ShapeSides DEF Contains, SizeQ, SizeR, CutLo, CutHi

-----------------------------------------------------------------------------
(* Rotation *)

(* A shape that can be turned is one again after a step *)
THEOREM RotatedShape ==
  ASSUME NEW s \in Shape, Turnable(s)
  PROVE  /\ Rotated(s) \in Shape /\ Turnable(Rotated(s))
         /\ Rotated(Rotated(Rotated(s))) = s
PROOF
<1>1. s.w + s.h - 1 <= MaxCoord - 2
  BY DEF Turnable, MaxExtent
<1>2. QED
  BY <1>1, ShapeSides DEF Shape, Rotated, SizeQ, SizeR, MaxExtent, Turnable

(* The step that rotate_tile takes in 16 bit arithmetic is the exact one for  *)
(* every tile of the map, although q + r alone may not fit                    *)
THEOREM RotateTileExact ==
  ASSUME NEW s \in Shape, Turnable(s), NEW k \in Tile, Contains(s, k)
  PROVE  RotateTile(s, k) = [x |-> s.h + s.d - 2 - k.y, y |-> k.x + k.y - (s.d - 1)]
PROOF
<1> DEFINE M == MaxCoord
<1>1. /\ s.w \in Nat \ {0} /\ s.h \in Nat \ {0} /\ s.d \in Nat \ {0} /\ M \in Nat
      /\ s.w + s.d <= M - 1 /\ s.h + s.d <= M - 1 /\ s.w + s.h <= M - 1
  BY ShapeSides DEF Turnable, MaxExtent
<1>2. /\ k.x \in Int /\ k.y \in Int /\ k.x >= 0 /\ k.y >= 0
      /\ k.x <= s.w + s.d - 2 /\ k.y <= s.h + s.d - 2
      /\ k.x + k.y >= s.d - 1 /\ k.x + k.y <= s.w + s.h + s.d - 3
  BY ContainsSides DEF Tile
<1>3. Short(-k.y) = -k.y
  BY <1>1, <1>2, ShortFits
<1>4. Short(s.h + s.d - 2) = s.h + s.d - 2 /\ Short(1 - s.d) = 1 - s.d
  BY <1>1, ShortFits
<1>5. Short(-k.y + (s.h + s.d - 2)) = s.h + s.d - 2 - k.y
  BY <1>1, <1>2, ShortFits
<1>6. Short(Short(k.x + k.y) + (1 - s.d)) = k.x + k.y - (s.d - 1)
  <2>1. CASE k.x + k.y < M
    <3>1. Short(k.x + k.y) = k.x + k.y
      BY <1>1, <1>2, <2>1, ShortFits
    <3>2. Short(k.x + k.y + (1 - s.d)) = k.x + k.y + (1 - s.d)
      BY <1>1, <1>2, <2>1, ShortFits
    <3>3. QED
      BY <1>1, <1>2, <3>1, <3>2
  <2>2. CASE k.x + k.y >= M
    <3>1. Short(k.x + k.y) = k.x + k.y - 2 * M
      BY <1>1, <1>2, <2>2, ShortWraps
    <3> DEFINE n == k.x + k.y - 2 * M + (1 - s.d)
    <3>2. n \in Int /\ -3 * M <= n /\ n < -M
      BY <1>1, <1>2, <2>2
    <3>3. Short(n) = n + 2 * M
      BY <3>2, ShortWrapsBack
    <3>4. QED
      BY <1>1, <1>2, <3>1, <3>3
  <2>3. QED
    BY <1>1, <1>2, <2>1, <2>2
<1>7. QED
  BY <1>3, <1>4, <1>5, <1>6 DEF RotateTile, AxialRotate, RotateShift, Add, Koord

(* The tiles of a map and those of the rotated map correspond one to one *)
THEOREM RotateKeepsMap ==
  ASSUME NEW s \in Shape, Turnable(s), NEW k \in Tile, Contains(s, k)
  PROVE  RotateTile(s, k) \in Tile /\ Contains(Rotated(s), RotateTile(s, k))
PROOF
<1> DEFINE k1 == RotateTile(s, k)
<1>1. k1 = [x |-> s.h + s.d - 2 - k.y, y |-> k.x + k.y - (s.d - 1)]
  BY RotateTileExact
<1>2. /\ k.x \in Int /\ k.y \in Int /\ k.x >= 0 /\ k.y >= 0
      /\ k.x <= s.w + s.d - 2 /\ k.y <= s.h + s.d - 2
      /\ k.x + k.y >= s.d - 1 /\ k.x + k.y <= s.w + s.h + s.d - 3
  BY ContainsSides DEF Tile
<1>3. k1 \in Tile
  BY <1>1, <1>2, ShapeSides DEF Tile
<1>4. Rotated(s) \in Shape /\ Rotated(s) = [w |-> s.d, h |-> s.w, d |-> s.h]
  BY RotatedShape DEF Rotated
<1>5. QED
  BY <1>1, <1>2, <1>3, <1>4, ShapeSides, ContainsSides

(* A rotation step (map_shape_t::rotate_tile) sends no two tiles of the map to one *)
THEOREM RotateInjective ==
  ASSUME NEW s \in Shape, Turnable(s), NEW k \in Tile, NEW k1 \in Tile,
         Contains(s, k), Contains(s, k1), RotateTile(s, k) = RotateTile(s, k1)
  PROVE  k = k1
PROOF
<1>1. s.h + s.d - 2 - k.y = s.h + s.d - 2 - k1.y /\ k.x + k.y - (s.d - 1) = k1.x + k1.y - (s.d - 1)
  BY RotateTileExact
<1>2. k.x = k1.x /\ k.y = k1.y
  BY <1>1, ShapeSides DEF Tile
<1>3. QED
  BY <1>2 DEF Tile

(* Every tile of the turned map is the turned place of a tile of the old one *)
THEOREM RotateOnto ==
  ASSUME NEW s \in Shape, Turnable(s), NEW k1 \in Tile, Contains(Rotated(s), k1)
  PROVE  \E k \in Tile : Contains(s, k) /\ RotateTile(s, k) = k1
PROOF
<1> DEFINE k == [x |-> k1.x + k1.y - (s.h - 1), y |-> s.h + s.d - 2 - k1.x]
<1>1. Rotated(s) \in Shape /\ Rotated(s) = [w |-> s.d, h |-> s.w, d |-> s.h]
  BY RotatedShape DEF Rotated
<1>2. /\ k1.x \in Int /\ k1.y \in Int /\ k1.x >= 0 /\ k1.y >= 0
      /\ k1.x <= s.d + s.h - 2 /\ k1.y <= s.w + s.h - 2
      /\ k1.x + k1.y >= s.h - 1 /\ k1.x + k1.y <= s.w + s.h + s.d - 3
  BY <1>1, ShapeSides, ContainsSides DEF Tile
<1>3. k \in Tile
  BY <1>2, ShapeSides DEF Tile
<1>4. Contains(s, k)
  BY <1>2, <1>3, ShapeSides, ContainsSides
<1>5. RotateTile(s, k) = [x |-> s.h + s.d - 2 - k.y, y |-> k.x + k.y - (s.d - 1)]
  BY <1>3, <1>4, RotateTileExact
<1>6. s.h + s.d - 2 - k.y = k1.x /\ k.x + k.y - (s.d - 1) = k1.y
  <2>1. k.x = k1.x + k1.y - (s.h - 1) /\ k.y = s.h + s.d - 2 - k1.x
    OBVIOUS
  <2>2. k1.x \in Int /\ k1.y \in Int /\ s.h \in Int /\ s.d \in Int
    BY <1>2, ShapeSides
  <2> HIDE DEF k
  <2>3. QED
    BY <2>1, <2>2
<1>7. k1 = [x |-> k1.x, y |-> k1.y]
  BY DEF Tile
<1>8. QED
  BY <1>3, <1>4, <1>5, <1>6, <1>7

(* Three steps are the point reflection onto the same shape; six are nothing *)
THEOREM HalfTurn ==
  ASSUME NEW s \in Shape, Turnable(s), NEW k \in Tile, Contains(s, k)
  PROVE  LET s1 == Rotated(s)
             s2 == Rotated(s1)
         IN  RotateTile(s2, RotateTile(s1, RotateTile(s, k)))
               = [x |-> SizeQ(s) - 1 - k.x, y |-> SizeR(s) - 1 - k.y]
PROOF
<1> DEFINE s1 == Rotated(s)
           s2 == Rotated(s1)
           k1 == RotateTile(s, k)
           k2 == RotateTile(s1, k1)
<1>1. k.x \in Int /\ k.y \in Int /\ s.w \in Nat /\ s.h \in Nat /\ s.d \in Nat
  BY ShapeSides DEF Tile
<1>2. k1 \in Tile /\ Contains(s1, k1) /\ s1 \in Shape /\ Turnable(s1)
  BY RotateKeepsMap, RotatedShape
<1>3. k2 \in Tile /\ Contains(s2, k2) /\ s2 \in Shape /\ Turnable(s2)
  BY <1>2, RotateKeepsMap, RotatedShape
<1>4. k1 = [x |-> s.h + s.d - 2 - k.y, y |-> k.x + k.y - (s.d - 1)]
  BY RotateTileExact
<1>5. k2 = [x |-> s1.h + s1.d - 2 - k1.y, y |-> k1.x + k1.y - (s1.d - 1)]
  BY <1>2, RotateTileExact
<1>6. RotateTile(s2, k2) = [x |-> s2.h + s2.d - 2 - k2.y, y |-> k2.x + k2.y - (s2.d - 1)]
  BY <1>3, RotateTileExact
<1>7. /\ s1.w = s.d /\ s1.h = s.w /\ s1.d = s.h
      /\ s2.w = s.h /\ s2.h = s.d /\ s2.d = s.w
  BY DEF Rotated
<1>8. k1.x = s.h + s.d - 2 - k.y /\ k1.y = k.x + k.y - (s.d - 1)
  BY <1>4
<1>9. k2.x = s1.h + s1.d - 2 - k1.y /\ k2.y = k1.x + k1.y - (s1.d - 1)
  BY <1>5
<1> HIDE DEF s1, s2, k1, k2
<1>10. k1.x \in Int /\ k1.y \in Int /\ k2.x \in Int /\ k2.y \in Int
  BY <1>2, <1>3 DEF Tile
<1>11. /\ s2.h + s2.d - 2 - k2.y = s.w + s.d - 1 - 1 - k.x
       /\ k2.x + k2.y - (s2.d - 1) = s.h + s.d - 1 - 1 - k.y
  BY <1>1, <1>7, <1>8, <1>9, <1>10
<1> DEFINE q == SizeQ(s) - 1 - k.x
           r == SizeR(s) - 1 - k.y
<1>12. s2.h + s2.d - 2 - k2.y = q /\ k2.x + k2.y - (s2.d - 1) = r
  BY <1>1, <1>11 DEF SizeQ, SizeR, q, r
<1> HIDE DEF q, r
<1>13. RotateTile(s2, k2) = [x |-> q, y |-> r]
  BY <1>6, <1>12
<1>14. QED
  BY <1>13 DEF s1, s2, k1, k2, q, r

-----------------------------------------------------------------------------
(* Ranges *)

(* Half rounds down *)
LEMMA HalfBounds ==
  ASSUME NEW n \in Int
  PROVE  Half(n) \in Int /\ 2 * Half(n) <= n /\ n <= 2 * Half(n) + 1
BY DEF Half

(* A tile of the map is within the sides of its hexagon *)
LEMMA TileSides ==
  ASSUME NEW s \in Shape, NEW k \in Tiles(s)
  PROVE  /\ k \in Tile /\ k.x \in Int /\ k.y \in Int /\ k = [x |-> k.x, y |-> k.y]
         /\ k.x >= 0 /\ k.y >= 0 /\ k.x <= s.w + s.d - 2 /\ k.y <= s.h + s.d - 2
         /\ k.x + k.y >= s.d - 1 /\ k.x + k.y <= s.w + s.h + s.d - 3
BY ShapeSides DEF Tiles, Contains, SizeQ, SizeR, CutLo, CutHi, Tile

(* The extents and cuts of a valid shape *)
LEMMA Sizes ==
  ASSUME NEW s \in Shape
  PROVE  /\ SizeQ(s) = s.w + s.d - 1 /\ SizeR(s) = s.h + s.d - 1
         /\ CutLo(s) = s.d - 1 /\ CutHi(s) = s.w + s.h + s.d - 3
BY ShapeSides DEF SizeQ, SizeR, CutLo, CutHi

(* The rows and columns the loops of the world run over hold the tiles of the map and no others *)
LEMMA Rows ==
  ASSUME NEW s \in Shape
  PROVE  /\ \A k \in Tiles(s) : QBegin(s, k.y) <= k.x /\ k.x < QEnd(s, k.y)
         /\ \A r \in 0..(SizeR(s) - 1) : \A q \in QBegin(s, r)..(QEnd(s, r) - 1) :
              Contains(s, [x |-> q, y |-> r])
         /\ \A q \in 0..(SizeQ(s) - 1), r \in 0..(SizeR(s) - 1) :
              RBegin(s, q) <= r /\ r < REnd(s, q) <=> Contains(s, [x |-> q, y |-> r])
<1>1. \A k \in Tiles(s) : QBegin(s, k.y) <= k.x /\ k.x < QEnd(s, k.y)
  BY ShapeSides, TileSides, Sizes DEF QBegin, QEnd, Larger, Smaller
<1>2. ASSUME NEW r \in 0..(SizeR(s) - 1), NEW q \in QBegin(s, r)..(QEnd(s, r) - 1)
      PROVE  Contains(s, [x |-> q, y |-> r])
  BY ShapeSides, Sizes DEF QBegin, QEnd, Larger, Smaller, Contains
<1>3. ASSUME NEW q \in 0..(SizeQ(s) - 1), NEW r \in 0..(SizeR(s) - 1)
      PROVE  RBegin(s, q) <= r /\ r < REnd(s, q) <=> Contains(s, [x |-> q, y |-> r])
  BY ShapeSides, Sizes DEF RBegin, REnd, Larger, Smaller, Contains
<1> QED BY <1>1, <1>2, <1>3

(* What a larger map adds to a row or a column begins where the old one ends *)
LEMMA Added ==
  ASSUME NEW s \in Shape, NEW old \in Shape \cup {None}, Grows(old, s), NEW k \in Tiles(s)
  PROVE  /\ k.x >= AddedQBegin(s, old, k.y) <=> ~Contains(old, k)
         /\ k.y >= AddedRBegin(s, old, k.x) <=> ~Contains(old, k)
<1>1. CASE old = None
  BY <1>1, ShapeSides, TileSides, Sizes
  DEF None, Contains, AddedQBegin, AddedRBegin, SizeQ, SizeR, QBegin, RBegin, Larger, CutLo, CutHi
<1>2. CASE old # None
  <2>1. old \in Shape /\ s.d = old.d /\ s.w >= old.w /\ s.h >= old.h
    BY <1>2 DEF Grows
  <2>2. /\ SizeQ(old) = old.w + old.d - 1 /\ SizeR(old) = old.h + old.d - 1
        /\ CutLo(old) = old.d - 1 /\ CutHi(old) = old.w + old.h + old.d - 3
        /\ old.w \in Nat /\ old.h \in Nat /\ old.d \in Nat
    BY <2>1, Sizes, ShapeSides
  <2> QED BY <2>1, <2>2, ShapeSides, TileSides, Sizes
      DEF Contains, AddedQBegin, AddedRBegin, QBegin, QEnd, RBegin, REnd, Larger, Smaller
<1> QED BY <1>1, <1>2

(* The band at the far sides begins where far_q_begin says *)
LEMMA FarBand ==
  ASSUME NEW s \in Shape, NEW band \in 0..4, NEW k \in Tiles(s)
  PROVE  k.x >= FarQBegin(s, k.y, band) <=>
           \/ k.x > SizeQ(s) - 1 - band \/ k.y > SizeR(s) - 1 - band
           \/ k.x + k.y > CutHi(s) - band
BY ShapeSides, TileSides, Sizes DEF FarQBegin, QBegin, Larger, Smaller

(* A height map image gives back the shape it was cut for, and every tile its row *)
LEMMA Relief ==
  ASSUME NEW s \in Shape
  PROVE  /\ FromImageSize(ImageCols(s), ImageRows(s), s.d) = s
         /\ \A k \in Tiles(s) :
              /\ ImageRow(s, k.x, k.y) \in 0..(ImageRows(s) - 1)
              /\ TileRow(s, k.x, ImageRow(s, k.x, k.y)) = k.y
<1>1. /\ s.w \in Nat \ {0} /\ s.h \in Nat \ {0} /\ s.d \in Nat \ {0} /\ s = [w |-> s.w, h |-> s.h, d |-> s.d]
      /\ SizeQ(s) = s.w + s.d - 1 /\ CutLo(s) = s.d - 1
  BY ShapeSides, Sizes
<1> DEFINE v == Half(s.w + s.d - 1)
<1>2. v \in Int /\ 2 * v <= s.w + s.d - 1 /\ s.w + s.d - 1 <= 2 * v + 1
  BY <1>1, HalfBounds
<1>3. ImageCols(s) = s.w + s.d - 1 /\ ImageRows(s) = s.h + v
  BY <1>1 DEF ImageCols, ImageRows
<1>4. FromImageSize(ImageCols(s), ImageRows(s), s.d) = [w |-> s.w + s.d - 1 - s.d + 1, h |-> s.h + v - v, d |-> s.d]
  BY <1>1, <1>2, <1>3 DEF FromImageSize
<1> HIDE DEF v
<1>5. FromImageSize(ImageCols(s), ImageRows(s), s.d) = s
  BY <1>1, <1>2, <1>4
<1>6. ASSUME NEW k \in Tiles(s)
      PROVE  /\ ImageRow(s, k.x, k.y) \in 0..(ImageRows(s) - 1)
             /\ TileRow(s, k.x, ImageRow(s, k.x, k.y)) = k.y
  <2> DEFINE u == Half(k.x - (s.d - 1))
  <2>1. k.x \in Int /\ k.y \in Int
    BY TileSides
  <2>2. u \in Int /\ 2 * u <= k.x - (s.d - 1) /\ k.x - (s.d - 1) <= 2 * u + 1
    BY <1>1, <2>1, HalfBounds
  <2>3. ImageRow(s, k.x, k.y) = k.y + u /\ TileRow(s, k.x, ImageRow(s, k.x, k.y)) = k.y + u - u
    BY <1>1, <2>1, <2>2 DEF ImageRow, TileRow
  <2> HIDE DEF u
  <2>4. k.y + u >= 0 /\ k.y + u <= s.h + v - 1
    BY <1>1, <1>2, <2>1, <2>2, TileSides
  <2> QED BY <1>1, <1>2, <1>3, <2>1, <2>2, <2>3, <2>4
<1> QED BY <1>5, <1>6

(* Around the map every coordinate fits *)
LEMMA NearFits ==
  ASSUME NEW s \in Shape, NEW k \in Tiles(s), NEW dx \in -2..2, NEW dy \in -2..2
  PROVE  Koord(k.x + dx, k.y + dy) = [x |-> k.x + dx, y |-> k.y + dy]
<1>1. k.x \in Int /\ k.y \in Int /\ -MaxCoord <= k.x + dx /\ k.x + dx < MaxCoord
      /\ -MaxCoord <= k.y + dy /\ k.y + dy < MaxCoord
  BY ShapeSides, TileSides
<1>2. Short(k.x + dx) = k.x + dx /\ Short(k.y + dy) = k.y + dy
  BY <1>1, ShortFits
<1> QED BY <1>2 DEF Koord

(* The grid slots that a map fills have those of all corners of its tiles *)
LEMMA Filled ==
  ASSUME NEW s \in Shape, NEW k \in Tiles(s), NEW c \in Directions
  PROVE  SlotNearMap(s, Canonical(Vertex(k, c)).tile)
<1>1. PICK dx \in -2..2, dy \in -2..2 :
        /\ Canonical(Vertex(k, c)).tile = [x |-> k.x + dx, y |-> k.y + dy]
        /\ dx + dy >= -1 /\ dx + dy <= 0
  <2>1. \A dx, dy \in -2..2 : Add(k, [x |-> dx, y |-> dy]) = [x |-> k.x + dx, y |-> k.y + dy]
    BY NearFits DEF Add
  <2>2. k = [x |-> k.x + 0, y |-> k.y + 0]
    BY TileSides
  <2>3. c \in {0, 1, 2, 3, 4, 5}
    BY DEF Directions
  <2>4. CASE c \in {0, 1}
    <3>1. Canonical(Vertex(k, c)).tile = k
      BY <2>4 DEF Canonical, Vertex, E, SE, SW, W, NW, NE
    <3> QED BY <2>2, <3>1
  <2>5. CASE c = 2
    BY <2>1, <2>5 DEF Canonical, Vertex, E, SE, SW, W, NW, NE
  <2>6. CASE c = 3
    BY <2>1, <2>6 DEF Canonical, Vertex, E, SE, SW, W, NW, NE
  <2>7. CASE c = 4
    BY <2>1, <2>7 DEF Canonical, Vertex, E, SE, SW, W, NW, NE
  <2>8. CASE c = 5
    BY <2>1, <2>8 DEF Canonical, Vertex, E, SE, SW, W, NW, NE
  <2> QED BY <2>3, <2>4, <2>5, <2>6, <2>7, <2>8
<1> QED BY <1>1, ShapeSides, TileSides, Sizes DEF SlotNearMap

(* Worlds whose third extent fits as well, which enlarge_map does not look at: a rotation step
   takes any other out of what 16 bits hold *)
AllTurnable == \A s \in Worlds : Turnable(s)
(* The inductive invariant of the turning world: its shape stays valid and can be turned again *)
ShapeInv == shape \in Shape /\ Turnable(shape)

(* Whatever is turned and raised, the world has a valid shape that can be turned again, as
   karte_t::rotate90 takes for granted after its first step. *)
LEMMA ShapeSound == ASSUME AllTurnable PROVE SurfaceSpec => []ShapeInv
<1>1. SurfaceInit => ShapeInv
  BY AllTurnable, SurfaceAssumption DEF SurfaceInit, ShapeInv, AllTurnable
<1>2. ShapeInv /\ [SurfaceNext]_surfaceVars => ShapeInv'
  <2> SUFFICES ASSUME ShapeInv, [SurfaceNext]_surfaceVars PROVE ShapeInv'
    OBVIOUS
  <2>1. CASE RotateStep
    BY <2>1, RotatedShape DEF RotateStep, ShapeInv
  <2>2. CASE UNCHANGED shape
    BY <2>2 DEF ShapeInv, Turnable
  <2> QED BY <2>1, <2>2 DEF SurfaceNext, SetHeight, Rotate90, surfaceVars
<1> QED BY <1>1, <1>2, PTL DEF SurfaceSpec

(* For every size of map: the loops of karte_t over rows, columns, bands at the far side, what
   an enlargement adds and the rows of a height map image run over exactly the tiles they are
   meant for, and the grid slots that are filled include those of every corner of a tile. *)
THEOREM RangesHold == ASSUME AllTurnable PROVE SurfaceSpec => []Ranges
<1>1. ShapeInv => Ranges
  <2> SUFFICES ASSUME shape \in Shape PROVE Ranges
    BY DEF ShapeInv
  <2>1. \A old \in Worlds \cup {None} : Grows(old, shape) =>
       \A k \in Tiles(shape) :
         /\ k.x >= AddedQBegin(shape, old, k.y) <=> ~Contains(old, k)
         /\ k.y >= AddedRBegin(shape, old, k.x) <=> ~Contains(old, k)
    BY Added, SurfaceAssumption
  <2> QED BY <2>1, Rows, FarBand, Relief, Filled DEF Ranges
<1> QED BY <1>1, ShapeSound, PTL

-----------------------------------------------------------------------------
(* Vertices *)

(* The canonical name of the corners of a tile, relative to it *)
NameX == [c \in Directions |-> <<0, 0, -1, -1, -1, 0>>[c + 1]]
NameY == [c \in Directions |-> <<0, 0, 1, 0, 0, -1>>[c + 1]]
Shifted(k, dx, dy) == [x |-> k.x + dx, y |-> k.y + dy]

(* The tables of the six directions *)
LEMMA SixDirections ==
  /\ \A c \in Directions : c \in {0, 1, 2, 3, 4, 5}
  /\ NameX[0] = 0 /\ NameX[1] = 0 /\ NameX[2] = -1 /\ NameX[3] = -1 /\ NameX[4] = -1 /\ NameX[5] = 0
  /\ NameY[0] = 0 /\ NameY[1] = 0 /\ NameY[2] = 1 /\ NameY[3] = 0 /\ NameY[4] = 0 /\ NameY[5] = -1
  /\ CornerX[0] = 2 /\ CornerX[1] = 1 /\ CornerX[2] = -1 /\ CornerX[3] = -2 /\ CornerX[4] = -1 /\ CornerX[5] = 1
  /\ CornerY[0] = 0 /\ CornerY[1] = 1 /\ CornerY[2] = 1 /\ CornerY[3] = 0 /\ CornerY[4] = -1 /\ CornerY[5] = -1
  /\ Neighbour(0) = [x |-> 1, y |-> 0] /\ Neighbour(1) = [x |-> 0, y |-> 1]
  /\ Neighbour(2) = [x |-> -1, y |-> 1] /\ Neighbour(3) = [x |-> -1, y |-> 0]
  /\ Neighbour(4) = [x |-> 0, y |-> -1] /\ Neighbour(5) = [x |-> 1, y |-> -1]
BY DEF Directions, NameX, NameY, CornerX, CornerY, Neighbour, NeighbourX, NeighbourY

(* Near the map the canonical name of a corner is the one without lost carries *)
LEMMA CanonicalNear ==
  ASSUME NEW s \in Shape, NEW k \in Tiles(s), NEW dx \in -1..1, NEW dy \in -1..1, NEW c \in Directions
  PROVE  Canonical(Vertex(Shifted(k, dx, dy), c)) = Vertex(Shifted(k, dx + NameX[c], dy + NameY[c]), c % 2)
<1> DEFINE t == Shifted(k, dx, dy)
<1>1. k.x \in Int /\ k.y \in Int
  BY TileSides
<1>2. ASSUME NEW ex \in -1..1, NEW ey \in -1..1
      PROVE  Add(t, [x |-> ex, y |-> ey]) = Shifted(k, dx + ex, dy + ey)
  <2>1. dx + ex \in -2..2 /\ dy + ey \in -2..2 /\ t.x + ex = k.x + (dx + ex) /\ t.y + ey = k.y + (dy + ey)
    BY <1>1 DEF Shifted
  <2> QED BY <2>1, NearFits DEF Add, Shifted
<1>3. CASE c = 0
  BY <1>1, <1>3, SixDirections DEF Canonical, Vertex, Shifted, E, SE, SW, W, NW, NE
<1>4. CASE c = 1
  BY <1>1, <1>4, SixDirections DEF Canonical, Vertex, Shifted, E, SE, SW, W, NW, NE
<1>5. CASE c = 2
  <2>1. Add(t, [x |-> -1, y |-> 1]) = Shifted(k, dx + NameX[c], dy + NameY[c])
    BY <1>2, <1>5, SixDirections
  <2> QED BY <1>5, <2>1 DEF Canonical, Vertex, E, SE, SW, W, NW, NE
<1>6. CASE c = 3
  <2>1. Add(t, [x |-> -1, y |-> 0]) = Shifted(k, dx + NameX[c], dy + NameY[c])
    BY <1>2, <1>6, SixDirections
  <2> QED BY <1>6, <2>1 DEF Canonical, Vertex, E, SE, SW, W, NW, NE
<1>7. CASE c = 4
  <2>1. Add(t, [x |-> -1, y |-> 0]) = Shifted(k, dx + NameX[c], dy + NameY[c])
    BY <1>2, <1>7, SixDirections
  <2> QED BY <1>7, <2>1 DEF Canonical, Vertex, E, SE, SW, W, NW, NE
<1>8. CASE c = 5
  <2>1. Add(t, [x |-> 0, y |-> -1]) = Shifted(k, dx + NameX[c], dy + NameY[c])
    BY <1>2, <1>8, SixDirections
  <2> QED BY <1>8, <2>1 DEF Canonical, Vertex, E, SE, SW, W, NW, NE
<1> QED BY <1>3, <1>4, <1>5, <1>6, <1>7, <1>8, SixDirections

(* The canonical name of a corner of a tile of the map *)
LEMMA CanonicalIs ==
  ASSUME NEW s \in Shape, NEW k \in Tiles(s), NEW c \in Directions
  PROVE  Canonical(Vertex(k, c)) = Vertex(Shifted(k, NameX[c], NameY[c]), c % 2)
<1>1. k.x \in Int /\ k.y \in Int /\ k = Shifted(k, 0, 0)
  BY TileSides DEF Shifted
<1>2. NameX[c] \in -1..1 /\ NameY[c] \in -1..1
  BY SixDirections
<1>3. 0 + NameX[c] = NameX[c] /\ 0 + NameY[c] = NameY[c]
  BY <1>2
<1> QED BY <1>1, <1>3, CanonicalNear

(* The other two owners of a corner *)
LEMMA OwnersAre ==
  ASSUME NEW s \in Shape, NEW k \in Tiles(s), NEW c \in Directions
  PROVE  LET d == Neighbour((c + 5) % 6)
             e == Neighbour(c)
         IN  Owners(Vertex(k, c)) = {Vertex(k, c), Vertex(Shifted(k, d.x, d.y), (c + 2) % 6),
                                     Vertex(Shifted(k, e.x, e.y), (c + 4) % 6)}
<1>1. \A i \in Directions : Neighbour(i).x \in -1..1 /\ Neighbour(i).y \in -1..1
  BY SixDirections
<1>2. c \in Directions /\ (c + 5) % 6 \in Directions
  BY DEF Directions
<1>3. ASSUME NEW i \in Directions PROVE Add(k, Neighbour(i)) = Shifted(k, Neighbour(i).x, Neighbour(i).y)
  <2>1. Neighbour(i).x \in -2..2 /\ Neighbour(i).y \in -2..2
    BY <1>1
  <2> QED BY <2>1, NearFits DEF Add, Shifted
<1> QED BY <1>2, <1>3 DEF Owners, Vertex

(* The three tiles at a corner give it one canonical name, which is one of theirs *)
LEMMA OneName ==
  ASSUME NEW s \in Shape, NEW k \in Tiles(s), NEW c \in Directions
  PROVE  /\ \A o \in Owners(Vertex(k, c)) : Canonical(o) = Canonical(Vertex(k, c))
         /\ Canonical(Vertex(k, c)) \in Owners(Vertex(k, c))
<1>1. k.x \in Int /\ k.y \in Int /\ k = Shifted(k, 0, 0)
  BY TileSides DEF Shifted
<1>2. c \in {0, 1, 2, 3, 4, 5}
  BY SixDirections
<1> DEFINE d == Neighbour((c + 5) % 6)
           e == Neighbour(c)
           c2 == (c + 2) % 6
           c4 == (c + 4) % 6
<1>3. /\ c2 \in Directions /\ c4 \in Directions /\ c2 % 2 = c % 2 /\ c4 % 2 = c % 2
      /\ d.x \in -1..1 /\ d.y \in -1..1 /\ e.x \in -1..1 /\ e.y \in -1..1
      /\ d.x + NameX[c2] = NameX[c] /\ d.y + NameY[c2] = NameY[c]
      /\ e.x + NameX[c4] = NameX[c] /\ e.y + NameY[c4] = NameY[c]
      /\ \/ c = c % 2 /\ NameX[c] = 0 /\ NameY[c] = 0
         \/ c2 = c % 2 /\ NameX[c] = d.x /\ NameY[c] = d.y
         \/ c4 = c % 2 /\ NameX[c] = e.x /\ NameY[c] = e.y
  <2>1. CASE c = 0
    BY <2>1, SixDirections DEF Directions
  <2>2. CASE c = 1
    BY <2>2, SixDirections DEF Directions
  <2>3. CASE c = 2
    BY <2>3, SixDirections DEF Directions
  <2>4. CASE c = 3
    BY <2>4, SixDirections DEF Directions
  <2>5. CASE c = 4
    BY <2>5, SixDirections DEF Directions
  <2>6. CASE c = 5
    BY <2>6, SixDirections DEF Directions
  <2> QED BY <1>2, <2>1, <2>2, <2>3, <2>4, <2>5, <2>6
<1>4. Owners(Vertex(k, c)) = {Vertex(k, c), Vertex(Shifted(k, d.x, d.y), c2), Vertex(Shifted(k, e.x, e.y), c4)}
  BY OwnersAre
<1> HIDE DEF d, e, c2, c4
<1>5. Canonical(Vertex(k, c)) = Vertex(Shifted(k, NameX[c], NameY[c]), c % 2)
  BY CanonicalIs
<1>6. /\ Canonical(Vertex(Shifted(k, d.x, d.y), c2)) = Vertex(Shifted(k, d.x + NameX[c2], d.y + NameY[c2]), c2 % 2)
      /\ Canonical(Vertex(Shifted(k, e.x, e.y), c4)) = Vertex(Shifted(k, e.x + NameX[c4], e.y + NameY[c4]), c4 % 2)
  BY <1>3, CanonicalNear
<1>7. /\ Canonical(Vertex(Shifted(k, d.x, d.y), c2)) = Canonical(Vertex(k, c))
      /\ Canonical(Vertex(Shifted(k, e.x, e.y), c4)) = Canonical(Vertex(k, c))
  BY <1>3, <1>5, <1>6
<1> QED BY <1>1, <1>3, <1>4, <1>5, <1>7

(* A corner and its canonical name are the same point, and the name has a slot *)
LEMMA SamePos ==
  ASSUME NEW s \in Shape, NEW k \in Tiles(s), NEW c \in Directions
  PROVE  /\ Pos(Canonical(Vertex(k, c))) = Pos(Vertex(k, c))
         /\ Canonical(Vertex(k, c)) \in Slots(s)
<1>1. k.x \in Int /\ k.y \in Int /\ k.x >= 0 /\ k.y >= 0 /\ k.x <= s.w + s.d - 2 /\ k.y <= s.h + s.d - 2
  BY TileSides
<1>2. c \in {0, 1, 2, 3, 4, 5}
  BY SixDirections
<1>3. Canonical(Vertex(k, c)) = Vertex(Shifted(k, NameX[c], NameY[c]), c % 2)
  BY CanonicalIs
<1>4. /\ NameX[c] \in -1..0 /\ NameY[c] \in -1..1 /\ c % 2 \in {0, 1}
      /\ 3 * NameX[c] + CornerX[c % 2] = CornerX[c]
      /\ 2 * NameY[c] + NameX[c] + CornerY[c % 2] = CornerY[c]
      /\ CornerX[c] \in Int /\ CornerY[c] \in Int /\ CornerX[c % 2] \in Int /\ CornerY[c % 2] \in Int
  <2>1. CASE c = 0
    BY <2>1, SixDirections
  <2>2. CASE c = 1
    BY <2>2, SixDirections
  <2>3. CASE c = 2
    BY <2>3, SixDirections
  <2>4. CASE c = 3
    BY <2>4, SixDirections
  <2>5. CASE c = 4
    BY <2>5, SixDirections
  <2>6. CASE c = 5
    BY <2>6, SixDirections
  <2> QED BY <1>2, <2>1, <2>2, <2>3, <2>4, <2>5, <2>6
<1>5. Pos(Canonical(Vertex(k, c))) = Pos(Vertex(k, c))
  BY <1>1, <1>3, <1>4 DEF Pos, Vertex, Shifted
<1>6. Shifted(k, NameX[c], NameY[c]) \in SlotTiles(s)
  BY <1>1, <1>4, ShapeSides, Sizes DEF Shifted, SlotTiles
<1> QED BY <1>3, <1>4, <1>5, <1>6 DEF Slots, Vertex, E, SE

(* A canonical name is known from where the vertex is *)
LEMMA PosNames ==
  ASSUME NEW s \in Shape, NEW u \in Slots(s), NEW v \in Slots(s)
  PROVE  Pos(u) = Pos(v) => u = v
<1>1. /\ u.tile.x \in Int /\ u.tile.y \in Int /\ v.tile.x \in Int /\ v.tile.y \in Int
      /\ u.corner \in {0, 1} /\ v.corner \in {0, 1}
      /\ u = [tile |-> [x |-> u.tile.x, y |-> u.tile.y], corner |-> u.corner]
      /\ v = [tile |-> [x |-> v.tile.x, y |-> v.tile.y], corner |-> v.corner]
  BY DEF Slots, SlotTiles, E, SE
<1>2. /\ \A c \in {0, 1} : CornerX[c] = 2 - c /\ CornerY[c] = c
  BY SixDirections
<1>3. ASSUME Pos(u) = Pos(v)
      PROVE  /\ 3 * u.tile.x + (2 - u.corner) = 3 * v.tile.x + (2 - v.corner)
             /\ 2 * u.tile.y + u.tile.x + u.corner = 2 * v.tile.y + v.tile.x + v.corner
  BY <1>1, <1>2, <1>3 DEF Pos
<1>4. Pos(u) = Pos(v) => u.tile.x = v.tile.x /\ u.tile.y = v.tile.y /\ u.corner = v.corner
  BY <1>1, <1>3
<1> QED BY <1>1, <1>4

(* Columns of a row are told apart by an index of both *)
LEMMA RowsApart ==
  ASSUME NEW n \in Nat, NEW a \in 0..(n - 1), NEW b \in 0..(n - 1), NEW i \in Nat, NEW j \in Nat, i < j
  PROVE  a + i * n < b + j * n
<1>1. j = i + (j - i) /\ j - i >= 1 /\ j - i \in Nat
  OBVIOUS
<1>2. j * n = i * n + (j - i) * n
  BY <1>1
<1>3. (j - i) * n >= n
  <2> DEFINE m == j - i
  <2>1. m \in Nat /\ m >= 1
    BY <1>1
  <2> HIDE DEF m
  <2>2. m = 1 + (m - 1) /\ m - 1 \in Nat
    BY <2>1
  <2>3. m * n = n + (m - 1) * n /\ (m - 1) * n \in Nat
    BY <2>1, <2>2
  <2> QED BY <2>1, <2>3 DEF m
<1>4. i * n \in Nat /\ j * n \in Nat /\ (j - i) * n \in Int
  BY <1>1
<1> QED BY <1>2, <1>3, <1>4

(* Every slot has a number of the array, and no two have the same *)
LEMMA SlotsApart ==
  ASSUME NEW s \in Shape, NEW u \in Slots(s), NEW v \in Slots(s)
  PROVE  /\ SlotIndex(u, SizeQ(s)) \in SlotNrs(s)
         /\ SlotIndex(u, SizeQ(s)) = SlotIndex(v, SizeQ(s)) => u = v
<1> DEFINE n == SizeQ(s) + 1
           m == SizeR(s) + 2
           i == u.tile.y + 1
           j == v.tile.y + 1
           a == u.tile.x + 1
           b == v.tile.x + 1
<1>1. SizeQ(s) \in Nat /\ SizeR(s) \in Nat
  BY ShapeSides, Sizes
<1>2. /\ n \in Nat /\ m \in Nat /\ a \in 0..(n - 1) /\ b \in 0..(n - 1) /\ i \in 0..(m - 1) /\ j \in 0..(m - 1)
      /\ u.corner \in {0, 1} /\ v.corner \in {0, 1}
      /\ u = [tile |-> [x |-> u.tile.x, y |-> u.tile.y], corner |-> u.corner]
      /\ v = [tile |-> [x |-> v.tile.x, y |-> v.tile.y], corner |-> v.corner]
      /\ u.tile.x = a - 1 /\ v.tile.x = b - 1 /\ u.tile.y = i - 1 /\ v.tile.y = j - 1
  BY <1>1 DEF Slots, SlotTiles, E, SE
<1>3. /\ SlotIndex(u, SizeQ(s)) = (a + i * n) * 2 + u.corner
      /\ SlotIndex(v, SizeQ(s)) = (b + j * n) * 2 + v.corner
      /\ SlotCount(SizeQ(s), SizeR(s)) = n * m * 2
  BY <1>2 DEF SlotIndex, SlotCount, SE
<1> HIDE DEF n, m, i, j, a, b
<1>4. i * n \in Nat /\ j * n \in Nat /\ n * m \in Nat
  BY <1>2
<1>5. a + i * n < n * m
  <2>1. n = 0 \/ 0 \in 0..(n - 1)
    BY <1>2
  <2>2. a + i * n < 0 + m * n
    BY <1>2, <2>1, RowsApart
  <2>3. m * n = n * m
    BY <1>2
  <2> QED BY <1>2, <1>4, <2>2, <2>3
<1>6. SlotIndex(u, SizeQ(s)) \in SlotNrs(s)
  <2> DEFINE p == i * n
             t == n * m
  <2>1. p \in Nat /\ t \in Nat /\ a + p < t
    BY <1>4, <1>5
  <2>2. SlotIndex(u, SizeQ(s)) = (a + p) * 2 + u.corner /\ SlotCount(SizeQ(s), SizeR(s)) = t * 2
    BY <1>3
  <2> HIDE DEF p, t
  <2> QED BY <1>2, <2>1, <2>2 DEF SlotNrs
<1>7. ASSUME SlotIndex(u, SizeQ(s)) = SlotIndex(v, SizeQ(s)) PROVE u = v
  <2> DEFINE p == i * n
             q == j * n
  <2>1. a + p = b + q /\ u.corner = v.corner
    <3>1. p \in Nat /\ q \in Nat /\ (a + p) * 2 + u.corner = (b + q) * 2 + v.corner
      BY <1>3, <1>4, <1>7
    <3> HIDE DEF p, q
    <3> QED BY <1>2, <3>1
  <2>2. i = j
    <3>1. i < j => a + i * n < b + j * n
      BY <1>2, RowsApart
    <3>2. j < i => b + j * n < a + i * n
      BY <1>2, RowsApart
    <3>3. a + p \in Int /\ b + q \in Int
      BY <1>2, <1>4
    <3> HIDE DEF p, q
    <3> QED BY <1>2, <2>1, <3>1, <3>2, <3>3 DEF p, q
  <2>3. p = q /\ p \in Nat
    BY <1>4, <2>2
  <2> HIDE DEF p, q
  <2>4. a = b
    BY <1>2, <2>1, <2>3
  <2> QED BY <1>2, <2>1, <2>2, <2>4
<1> QED BY <1>6, <1>7

(* One side length, in the units of Pos *)
LEMMA OneSide ==
  ASSUME NEW x \in Int, NEW y \in Int
  PROVE  x * x + 3 * (y * y) = 4 <=>
           (y = 0 /\ x \in {-2, 2}) \/ (y \in {-1, 1} /\ x \in {-1, 1})
<1>1. x * x \in Nat /\ y * y \in Nat
  OBVIOUS
<1>2. (x >= 3 \/ x <= -3) => x * x >= 9
  OBVIOUS
<1>3. (y >= 2 \/ y <= -2) => y * y >= 4
  OBVIOUS
<1>4. CASE x \in -2..2 /\ y \in -1..1
  <2>1. x \in {-2, -1, 0, 1, 2} /\ y \in {-1, 0, 1}
    BY <1>4
  <2> QED BY <2>1
<1>5. CASE x \notin -2..2 \/ y \notin -1..1
  <2>1. (x >= 3 \/ x <= -3) \/ (y >= 2 \/ y <= -2)
    BY <1>5
  <2>2. x * x + 3 * (y * y) > 4
    BY <1>1, <1>2, <1>3, <2>1
  <2> QED BY <1>5, <2>2
<1> QED BY <1>4, <1>5

(* Tile and corner of a vertex *)
LEMMA VertexFields == \A t, c : Vertex(t, c).tile = t /\ Vertex(t, c).corner = c
BY DEF Vertex

(* Where the neighbours of a corner are, relative to its tile *)
Beside(c) ==
  IF c % 2 = 0
  THEN {[dx |-> NameX[c], dy |-> NameY[c], e |-> 1], [dx |-> NameX[c], dy |-> NameY[c] - 1, e |-> 1],
        [dx |-> NameX[c] + 1, dy |-> NameY[c] - 1, e |-> 1]}
  ELSE {[dx |-> NameX[c], dy |-> NameY[c], e |-> 0], [dx |-> NameX[c] - 1, dy |-> NameY[c] + 1, e |-> 0],
        [dx |-> NameX[c], dy |-> NameY[c] + 1, e |-> 0]}

(* The code's neighbours of a vertex, relative to its tile *)
LEMMA NeighboursBeside ==
  ASSUME NEW s \in Shape, NEW k \in Tiles(s), NEW c \in Directions
  PROVE  VertexNeighbours(Vertex(k, c)) = {Vertex(Shifted(k, n.dx, n.dy), n.e) : n \in Beside(c)}
<1> DEFINE x == NameX[c]
           y == NameY[c]
           t == Canonical(Vertex(k, c)).tile
<1>1. k.x \in Int /\ k.y \in Int /\ c \in {0, 1, 2, 3, 4, 5}
  BY TileSides, SixDirections
<1>2. t = Shifted(k, x, y) /\ Canonical(Vertex(k, c)).corner = c % 2
  BY CanonicalIs, VertexFields
<1>3. x \in -1..0 /\ y \in -1..1 /\ c % 2 \in {0, 1}
  BY <1>1, SixDirections
<1>4. ASSUME NEW dx \in -2..2, NEW dy \in -2..2
      PROVE  Koord(k.x + dx, k.y + dy) = Shifted(k, dx, dy)
  BY <1>4, NearFits DEF Shifted
<1>5. t.x = k.x + x /\ t.y = k.y + y
  BY <1>2 DEF Shifted
<1> HIDE DEF x, y, t
<1>6. CASE c % 2 = 0
  <2>1. Koord(t.x, t.y - 1) = Shifted(k, x, y - 1)
    <3>1. x \in -2..2 /\ y - 1 \in -2..2 /\ t.x = k.x + x /\ t.y - 1 = k.y + (y - 1)
      BY <1>1, <1>3, <1>5
    <3> QED BY <1>4, <3>1
  <2>2. Koord(t.x + 1, t.y - 1) = Shifted(k, x + 1, y - 1)
    <3>1. x + 1 \in -2..2 /\ y - 1 \in -2..2 /\ t.x + 1 = k.x + (x + 1) /\ t.y - 1 = k.y + (y - 1)
      BY <1>1, <1>3, <1>5
    <3> QED BY <1>4, <3>1
  <2>3. VertexNeighbours(Vertex(k, c)) =
          {Vertex(t, 1), Vertex(Koord(t.x, t.y - 1), 1), Vertex(Koord(t.x + 1, t.y - 1), 1)}
    BY <1>2, <1>6 DEF VertexNeighbours, E, SE, t
  <2> DEFINE n1 == [dx |-> x, dy |-> y, e |-> 1]
             n2 == [dx |-> x, dy |-> y - 1, e |-> 1]
             n3 == [dx |-> x + 1, dy |-> y - 1, e |-> 1]
             at(n) == Vertex(Shifted(k, n.dx, n.dy), n.e)
  <2>4. Beside(c) = {n1, n2, n3}
    BY <1>6, <1>3 DEF Beside, x, y
  <2>5. /\ at(n1) = Vertex(t, 1) /\ at(n2) = Vertex(Koord(t.x, t.y - 1), 1) /\ at(n3) = Vertex(Koord(t.x + 1, t.y - 1), 1)
    BY <1>2, <2>1, <2>2
  <2> HIDE DEF n1, n2, n3, at
  <2>6. {at(n) : n \in Beside(c)} = {at(n1), at(n2), at(n3)}
    BY <2>4
  <2> QED BY <2>3, <2>5, <2>6 DEF at
<1>7. CASE c % 2 = 1
  <2>1. Koord(t.x - 1, t.y + 1) = Shifted(k, x - 1, y + 1)
    <3>1. x - 1 \in -2..2 /\ y + 1 \in -2..2 /\ t.x - 1 = k.x + (x - 1) /\ t.y + 1 = k.y + (y + 1)
      BY <1>1, <1>3, <1>5
    <3> QED BY <1>4, <3>1
  <2>2. Koord(t.x, t.y + 1) = Shifted(k, x, y + 1)
    <3>1. x \in -2..2 /\ y + 1 \in -2..2 /\ t.x = k.x + x /\ t.y + 1 = k.y + (y + 1)
      BY <1>1, <1>3, <1>5
    <3> QED BY <1>4, <3>1
  <2>3. VertexNeighbours(Vertex(k, c)) =
          {Vertex(t, 0), Vertex(Koord(t.x - 1, t.y + 1), 0), Vertex(Koord(t.x, t.y + 1), 0)}
    BY <1>2, <1>7 DEF VertexNeighbours, E, SE, t
  <2> DEFINE n1 == [dx |-> x, dy |-> y, e |-> 0]
             n2 == [dx |-> x - 1, dy |-> y + 1, e |-> 0]
             n3 == [dx |-> x, dy |-> y + 1, e |-> 0]
             at(n) == Vertex(Shifted(k, n.dx, n.dy), n.e)
  <2>4. Beside(c) = {n1, n2, n3}
    BY <1>7, <1>3 DEF Beside, x, y
  <2>5. /\ at(n1) = Vertex(t, 0) /\ at(n2) = Vertex(Koord(t.x - 1, t.y + 1), 0) /\ at(n3) = Vertex(Koord(t.x, t.y + 1), 0)
    BY <1>2, <2>1, <2>2
  <2> HIDE DEF n1, n2, n3, at
  <2>6. {at(n) : n \in Beside(c)} = {at(n1), at(n2), at(n3)}
    BY <2>4
  <2> QED BY <2>3, <2>5, <2>6 DEF at
<1> QED BY <1>3, <1>6, <1>7

(* The code's neighbours of a vertex are the vertices one side of a hexagon away *)
LEMMA NeighboursOneSideAway ==
  ASSUME NEW s \in Shape, NEW k \in Tiles(s), NEW c \in Directions
  PROVE  VertexNeighbours(Vertex(k, c))
           = {u \in Around(Vertex(k, c)) : SquaredLength(Pos(u), Pos(Vertex(k, c))) = 4}
<1> DEFINE v == Vertex(k, c)
<1>1. k.x \in Int /\ k.y \in Int /\ c \in {0, 1, 2, 3, 4, 5}
  BY TileSides, SixDirections
<1>2. ASSUME NEW dx \in -2..2, NEW dy \in -2..2, NEW e \in {0, 1}
      PROVE  SquaredLength(Pos(Vertex(Shifted(k, dx, dy), e)), Pos(v)) = 4
               <=> [dx |-> dx, dy |-> dy, e |-> e] \in Beside(c)
  <2> DEFINE a == 3 * dx + CornerX[e] - CornerX[c]
             b == 2 * dy + dx + CornerY[e] - CornerY[c]
  <2>1. /\ CornerX[e] \in Int /\ CornerY[e] \in Int /\ CornerX[c] \in Int /\ CornerY[c] \in Int
        /\ CornerX[e] = 2 - e /\ CornerY[e] = e
    BY <1>1, SixDirections
  <2>2. /\ a \in Int /\ b \in Int
        /\ Pos(Vertex(Shifted(k, dx, dy), e)).x - Pos(v).x = a
        /\ Pos(Vertex(Shifted(k, dx, dy), e)).y - Pos(v).y = b
    <3>1. /\ Pos(Vertex(Shifted(k, dx, dy), e)).x = 3 * (k.x + dx) + CornerX[e]
          /\ Pos(Vertex(Shifted(k, dx, dy), e)).y = 2 * (k.y + dy) + (k.x + dx) + CornerY[e]
      BY DEF Pos, Vertex, Shifted
    <3>2. Pos(v).x = 3 * k.x + CornerX[c] /\ Pos(v).y = 2 * k.y + k.x + CornerY[c]
      BY DEF Pos, Vertex
    <3> QED BY <1>1, <2>1, <3>1, <3>2
  <2>3. SquaredLength(Pos(Vertex(Shifted(k, dx, dy), e)), Pos(v)) = a * a + 3 * b * b
    BY <2>2 DEF SquaredLength
  <2>4. a * a + 3 * b * b = a * a + 3 * (b * b)
    BY <2>2
  <2>5. SquaredLength(Pos(Vertex(Shifted(k, dx, dy), e)), Pos(v)) = 4 <=>
          (b = 0 /\ a \in {-2, 2}) \/ (b \in {-1, 1} /\ a \in {-1, 1})
    <3> HIDE DEF a, b
    <3>1. a * a + 3 * (b * b) = 4 <=> (b = 0 /\ a \in {-2, 2}) \/ (b \in {-1, 1} /\ a \in {-1, 1})
      BY <2>2, OneSide
    <3> QED BY <2>3, <2>4, <3>1
  <2>6. [dx |-> dx, dy |-> dy, e |-> e] \in Beside(c) <=>
          IF c % 2 = 0
          THEN e = 1 /\ \/ dx = NameX[c] /\ dy = NameY[c]
                        \/ dx = NameX[c] /\ dy = NameY[c] - 1
                        \/ dx = NameX[c] + 1 /\ dy = NameY[c] - 1
          ELSE e = 0 /\ \/ dx = NameX[c] /\ dy = NameY[c]
                        \/ dx = NameX[c] - 1 /\ dy = NameY[c] + 1
                        \/ dx = NameX[c] /\ dy = NameY[c] + 1
    BY DEF Beside
  <2>7. CASE c = 0
    BY <2>1, <2>5, <2>6, <2>7, SixDirections
  <2>8. CASE c = 1
    BY <2>1, <2>5, <2>6, <2>8, SixDirections
  <2>9. CASE c = 2
    BY <2>1, <2>5, <2>6, <2>9, SixDirections
  <2>10. CASE c = 3
    BY <2>1, <2>5, <2>6, <2>10, SixDirections
  <2>11. CASE c = 4
    BY <2>1, <2>5, <2>6, <2>11, SixDirections
  <2>12. CASE c = 5
    BY <2>1, <2>5, <2>6, <2>12, SixDirections
  <2> QED BY <1>1, <2>7, <2>8, <2>9, <2>10, <2>11, <2>12
<1>3. VertexNeighbours(v) = {Vertex(Shifted(k, n.dx, n.dy), n.e) : n \in Beside(c)}
  BY NeighboursBeside
<1>4. ASSUME NEW n \in Beside(c)
      PROVE  n.dx \in -2..2 /\ n.dy \in -2..2 /\ n.e \in {0, 1} /\ n = [dx |-> n.dx, dy |-> n.dy, e |-> n.e]
  <2>1. NameX[c] \in -1..0 /\ NameY[c] \in -1..1
    BY <1>1, SixDirections
  <2>2. c % 2 = 0 => NameY[c] \in 0..1
    BY <1>1, SixDirections
  <2>3. c % 2 # 0 => NameY[c] \in -1..0
    BY <1>1, SixDirections
  <2> QED BY <2>1, <2>2, <2>3 DEF Beside
<1>5. Around(v) = {Vertex(Shifted(k, dx, dy), e) : dx \in -2..2, dy \in -2..2, e \in {0, 1}}
  <2>1. ASSUME NEW u \in Around(v)
        PROVE  \E dx \in -2..2, dy \in -2..2, e \in {0, 1} : u = Vertex(Shifted(k, dx, dy), e)
    <3>1. /\ u.tile.x \in (k.x - 2)..(k.x + 2) /\ u.tile.y \in (k.y - 2)..(k.y + 2) /\ u.corner \in {0, 1}
          /\ u = [tile |-> [x |-> u.tile.x, y |-> u.tile.y], corner |-> u.corner]
      BY DEF Around, Vertex, E, SE
    <3>2. /\ u.tile.x - k.x \in -2..2 /\ u.tile.y - k.y \in -2..2
          /\ k.x + (u.tile.x - k.x) = u.tile.x /\ k.y + (u.tile.y - k.y) = u.tile.y
      BY <1>1, <3>1
    <3>3. u = Vertex(Shifted(k, u.tile.x - k.x, u.tile.y - k.y), u.corner)
      BY <3>1, <3>2 DEF Vertex, Shifted
    <3> QED BY <3>1, <3>2, <3>3
  <2>2. ASSUME NEW dx \in -2..2, NEW dy \in -2..2, NEW e \in {0, 1}
        PROVE  Vertex(Shifted(k, dx, dy), e) \in Around(v)
    <3>1. k.x + dx \in (k.x - 2)..(k.x + 2) /\ k.y + dy \in (k.y - 2)..(k.y + 2)
      BY <1>1
    <3> QED BY <3>1 DEF Around, Vertex, Shifted, E, SE
  <2> QED BY <2>1, <2>2
<1> HIDE DEF v
<1>6. \A u \in VertexNeighbours(v) : u \in Around(v) /\ SquaredLength(Pos(u), Pos(v)) = 4
  <2>1. ASSUME NEW n \in Beside(c)
        PROVE  LET u == Vertex(Shifted(k, n.dx, n.dy), n.e)
               IN  u \in Around(v) /\ SquaredLength(Pos(u), Pos(v)) = 4
    <3>1. n.dx \in -2..2 /\ n.dy \in -2..2 /\ n.e \in {0, 1} /\ [dx |-> n.dx, dy |-> n.dy, e |-> n.e] \in Beside(c)
      BY <1>4
    <3>2. SquaredLength(Pos(Vertex(Shifted(k, n.dx, n.dy), n.e)), Pos(v)) = 4
      BY <1>2, <3>1
    <3> QED BY <1>5, <3>1, <3>2
  <2> QED BY <1>3, <2>1
<1>7. \A u \in Around(v) : SquaredLength(Pos(u), Pos(v)) = 4 => u \in VertexNeighbours(v)
  <2>1. ASSUME NEW dx \in -2..2, NEW dy \in -2..2, NEW e \in {0, 1},
               SquaredLength(Pos(Vertex(Shifted(k, dx, dy), e)), Pos(v)) = 4
        PROVE  Vertex(Shifted(k, dx, dy), e) \in VertexNeighbours(v)
    <3> DEFINE n == [dx |-> dx, dy |-> dy, e |-> e]
    <3>1. n \in Beside(c) /\ n.dx = dx /\ n.dy = dy /\ n.e = e
      BY <1>2, <2>1
    <3> HIDE DEF n
    <3> QED BY <1>3, <3>1
  <2> QED BY <1>5, <2>1
<1> QED BY <1>6, <1>7 DEF v

(* For every size of map: each corner of a tile has one name whichever of its three tiles asks,
   a slot of the height grid within its array that no other corner shares, and as neighbours the
   vertices one side of a hexagon away. *)
THEOREM NamesHold == ASSUME AllTurnable PROVE SurfaceSpec => []VertexNames
<1>1. ShapeInv => VertexNames
  <2> SUFFICES ASSUME shape \in Shape,
                      NEW v \in [tile : Tiles(shape), corner : Directions]
               PROVE  /\ \A o \in Owners(v) : Canonical(o) = Canonical(v)
                      /\ Canonical(v) \in Slots(shape) \cap Owners(v)
                      /\ Slot(shape, v) \in SlotNrs(shape)
                      /\ \A u \in [tile : Tiles(shape), corner : Directions] :
                           Slot(shape, u) = Slot(shape, v) <=> Pos(u) = Pos(v)
                      /\ VertexNeighbours(v) = {u \in Around(v) : SquaredLength(Pos(u), Pos(v)) = 4}
    BY DEF ShapeInv, VertexNames
  <2>1. ASSUME NEW u \in [tile : Tiles(shape), corner : Directions]
        PROVE  u.tile \in Tiles(shape) /\ u.corner \in Directions /\ u = Vertex(u.tile, u.corner)
    BY DEF Vertex
  <2>2. ASSUME NEW u \in [tile : Tiles(shape), corner : Directions]
        PROVE  Canonical(u) \in Slots(shape) /\ Pos(Canonical(u)) = Pos(u)
    BY <2>1, SamePos
  <2>3. ASSUME NEW u \in [tile : Tiles(shape), corner : Directions]
        PROVE  Slot(shape, u) = Slot(shape, v) <=> Pos(u) = Pos(v)
    <3>1. Slot(shape, u) = Slot(shape, v) => Canonical(u) = Canonical(v)
      BY <2>2, SlotsApart DEF Slot
    <3>2. Pos(u) = Pos(v) => Canonical(u) = Canonical(v)
      BY <2>2, PosNames
    <3> QED BY <2>2, <3>1, <3>2 DEF Slot
  <2>4. Slot(shape, v) \in SlotNrs(shape)
    BY <2>2, SlotsApart DEF Slot
  <2>5. (\A o \in Owners(v) : Canonical(o) = Canonical(v)) /\ Canonical(v) \in Owners(v)
    BY <2>1, OneName
  <2>6. VertexNeighbours(v) = {u \in Around(v) : SquaredLength(Pos(u), Pos(v)) = 4}
    BY <2>1, NeighboursOneSideAway
  <2> QED BY <2>2, <2>3, <2>4, <2>5, <2>6
<1> QED BY <1>1, ShapeSound, PTL

-----------------------------------------------------------------------------
(* Measures *)

(* The distance to the edge is the smallest of the distances to the six sides *)
LEMMA EdgeIs ==
  ASSUME NEW s \in Shape, NEW k \in Tile
  PROVE  /\ EdgeDistance(s, k) \in Int /\ EdgeDistance(s, k) \in Sides(s, k)
         /\ \A m \in Sides(s, k) : EdgeDistance(s, k) <= m
         /\ Sides(s, k) = {k.x, k.y, s.w + s.d - 2 - k.x, s.h + s.d - 2 - k.y,
                           k.x + k.y - (s.d - 1), s.w + s.h + s.d - 3 - k.x - k.y}
<1>1. k.x \in Int /\ k.y \in Int /\ s.w \in Nat /\ s.h \in Nat /\ s.d \in Nat
  BY ShapeSides DEF Tile
<1>2. Sides(s, k) = {k.x, k.y, s.w + s.d - 2 - k.x, s.h + s.d - 2 - k.y,
                     k.x + k.y - (s.d - 1), s.w + s.h + s.d - 3 - k.x - k.y}
  <2>1. s.w + s.d - 1 - 1 - k.x = s.w + s.d - 2 - k.x /\ s.h + s.d - 1 - 1 - k.y = s.h + s.d - 2 - k.y
    BY <1>1
  <2>2. /\ SizeQ(s) = s.w + s.d - 1 /\ SizeR(s) = s.h + s.d - 1
        /\ CutLo(s) = s.d - 1 /\ CutHi(s) = s.w + s.h + s.d - 3
    BY Sizes
  <2>3. /\ SizeQ(s) - 1 - k.x = s.w + s.d - 2 - k.x /\ SizeR(s) - 1 - k.y = s.h + s.d - 2 - k.y
        /\ k.x + k.y - CutLo(s) = k.x + k.y - (s.d - 1)
        /\ CutHi(s) - k.x - k.y = s.w + s.h + s.d - 3 - k.x - k.y
    BY <1>1, <2>2
  <2> QED BY <2>3 DEF Sides
<1>3. \A a, b, c, d, e, f \in Int : \E n \in {a, b, c, d, e, f} : \A m \in {a, b, c, d, e, f} : n <= m
  <2>1. \A a, b \in Int : \E n \in {a, b} : n <= a /\ n <= b
    OBVIOUS
  <2> SUFFICES ASSUME NEW a \in Int, NEW b \in Int, NEW c \in Int, NEW d \in Int, NEW e \in Int, NEW f \in Int
               PROVE  \E n \in {a, b, c, d, e, f} : \A m \in {a, b, c, d, e, f} : n <= m
    OBVIOUS
  <2>2. PICK p \in {a, b} : p <= a /\ p <= b
    BY <2>1
  <2>3. PICK q \in {p, c} : q <= p /\ q <= c
    BY <2>1, <2>2
  <2>4. PICK r \in {q, d} : r <= q /\ r <= d
    BY <2>1, <2>2, <2>3
  <2>5. PICK t \in {r, e} : t <= r /\ t <= e
    BY <2>1, <2>2, <2>3, <2>4
  <2>6. PICK u \in {t, f} : u <= t /\ u <= f
    BY <2>1, <2>2, <2>3, <2>4, <2>5
  <2>7. u \in {a, b, c, d, e, f}
    BY <2>2, <2>3, <2>4, <2>5, <2>6
  <2>8. u <= a /\ u <= b /\ u <= c /\ u <= d /\ u <= e /\ u <= f
    BY <2>2, <2>3, <2>4, <2>5, <2>6
  <2> QED BY <2>7, <2>8
<1>4. \E n \in Sides(s, k) : \A m \in Sides(s, k) : n <= m
  <2>1. /\ s.w + s.d - 2 - k.x \in Int /\ s.h + s.d - 2 - k.y \in Int
        /\ k.x + k.y - (s.d - 1) \in Int /\ s.w + s.h + s.d - 3 - k.x - k.y \in Int
    BY <1>1
  <2> QED BY <1>1, <1>2, <1>3, <2>1
<1>5. EdgeDistance(s, k) \in Sides(s, k) /\ \A m \in Sides(s, k) : EdgeDistance(s, k) <= m
  BY <1>4 DEF EdgeDistance
<1>6. EdgeDistance(s, k) \in Int
  BY <1>1, <1>2, <1>5
<1> QED BY <1>2, <1>5, <1>6

(* A disc is a hexagon of its own *)
LEMMA DiscIs ==
  ASSUME NEW n \in Nat
  PROVE  Disc(n) = {d \in [x : -n..n, y : -n..n] : -n <= d.x + d.y /\ d.x + d.y <= n}
<1>1. ASSUME NEW d \in [x : -n..n, y : -n..n]
      PROVE  MinDx(d.y, n) <= d.x /\ d.x <= MaxDx(d.y, n) <=> -n <= d.x + d.y /\ d.x + d.y <= n
  BY DEF MinDx, MaxDx
<1> QED BY <1>1 DEF Disc

(* A disc of the distance to the edge fits into the map, and the next larger one does not *)
LEMMA Edges ==
  ASSUME NEW s \in Shape, NEW k \in Tile
  PROVE  LET n == EdgeDistance(s, k)
         IN  /\ n >= 0 <=> Contains(s, k)
             /\ n >= 0 => /\ \A e \in Disc(n) : Contains(s, Add(k, e))
                          /\ \E e \in Disc(n + 1) : ~Contains(s, Add(k, e))
<1> DEFINE n == EdgeDistance(s, k)
<1>1. /\ k.x \in Int /\ k.y \in Int /\ s.w \in Nat \ {0} /\ s.h \in Nat \ {0} /\ s.d \in Nat \ {0}
      /\ MaxCoord \in Nat /\ s.w + s.d - 1 <= MaxCoord - 2 /\ s.h + s.d - 1 <= MaxCoord - 2
  BY ShapeSides DEF Tile
<1>2. /\ n \in Int
      /\ n <= k.x /\ n <= k.y /\ n <= s.w + s.d - 2 - k.x /\ n <= s.h + s.d - 2 - k.y
      /\ n <= k.x + k.y - (s.d - 1) /\ n <= s.w + s.h + s.d - 3 - k.x - k.y
      /\ \/ n = k.x \/ n = k.y \/ n = s.w + s.d - 2 - k.x \/ n = s.h + s.d - 2 - k.y
         \/ n = k.x + k.y - (s.d - 1) \/ n = s.w + s.h + s.d - 3 - k.x - k.y
  <2>1. /\ EdgeDistance(s, k) \in Int /\ EdgeDistance(s, k) \in Sides(s, k)
        /\ \A m \in Sides(s, k) : EdgeDistance(s, k) <= m
        /\ Sides(s, k) = {k.x, k.y, s.w + s.d - 2 - k.x, s.h + s.d - 2 - k.y,
                           k.x + k.y - (s.d - 1), s.w + s.h + s.d - 3 - k.x - k.y}
    BY EdgeIs
  <2> HIDE DEF n
  <2> QED BY <2>1 DEF n
<1> HIDE DEF n
<1>3. n >= 0 <=> Contains(s, k)
  BY <1>1, <1>2, ContainsSides
<1>4. ASSUME n >= 0, NEW e, e.x \in -(n + 1)..(n + 1), e.y \in -(n + 1)..(n + 1)
      PROVE  Add(k, e) = Shifted(k, e.x, e.y) /\ Add(k, e) \in Tile
  <2>1. /\ -MaxCoord <= k.x + e.x /\ k.x + e.x < MaxCoord /\ k.x + e.x \in Int
        /\ -MaxCoord <= k.y + e.y /\ k.y + e.y < MaxCoord /\ k.y + e.y \in Int
    BY <1>1, <1>2, <1>4
  <2>2. Short(k.x + e.x) = k.x + e.x /\ Short(k.y + e.y) = k.y + e.y
    BY <2>1, ShortFits
  <2> QED BY <2>1, <2>2 DEF Add, Koord, Shifted, Tile
<1>5. ASSUME n >= 0, NEW e \in Disc(n) PROVE Contains(s, Add(k, e))
  <2>1. /\ e.x \in -n..n /\ e.y \in -n..n /\ -n <= e.x + e.y /\ e.x + e.y <= n
    BY <1>2, <1>5, DiscIs
  <2>2. Add(k, e) = Shifted(k, e.x, e.y) /\ Add(k, e) \in Tile
    BY <1>2, <1>4, <1>5, <2>1
  <2>3. Shifted(k, e.x, e.y).x = k.x + e.x /\ Shifted(k, e.x, e.y).y = k.y + e.y
    BY DEF Shifted
  <2> QED BY <1>1, <1>2, <2>1, <2>2, <2>3, ContainsSides
<1>6. ASSUME n >= 0 PROVE \E e \in Disc(n + 1) : ~Contains(s, Add(k, e))
  <2>1. ASSUME NEW dx \in -(n + 1)..(n + 1), NEW dy \in -(n + 1)..(n + 1),
               -(n + 1) <= dx + dy, dx + dy <= n + 1,
               \/ k.x + dx < 0 \/ k.y + dy < 0 \/ k.x + dx > s.w + s.d - 2 \/ k.y + dy > s.h + s.d - 2
               \/ k.x + dx + (k.y + dy) < s.d - 1 \/ k.x + dx + (k.y + dy) > s.w + s.h + s.d - 3
        PROVE  \E e \in Disc(n + 1) : ~Contains(s, Add(k, e))
    <3> DEFINE e == [x |-> dx, y |-> dy]
    <3>1. e \in Disc(n + 1) /\ e.x = dx /\ e.y = dy
      BY <1>2, <1>6, <2>1, DiscIs
    <3> HIDE DEF e
    <3>2. Add(k, e) = Shifted(k, dx, dy) /\ Add(k, e) \in Tile
      BY <1>4, <1>6, <3>1
    <3>3. Shifted(k, dx, dy).x = k.x + dx /\ Shifted(k, dx, dy).y = k.y + dy
      BY DEF Shifted
    <3>4. ~Contains(s, Add(k, e))
      BY <1>1, <2>1, <3>2, <3>3, ContainsSides
    <3> QED BY <3>1, <3>4
  <2> DEFINE m == n + 1
  <2>2. /\ m \in Int /\ 0 \in -m..m /\ m \in -m..m /\ -m \in -m..m
        /\ -m <= 0 + -m /\ 0 + -m <= m /\ -m <= -m + 0 /\ -m + 0 <= m
        /\ -m <= 0 + m /\ 0 + m <= m /\ -m <= m + 0 /\ m + 0 <= m
    BY <1>2, <1>6
  <2>3. CASE n = k.x
    BY <1>1, <2>1, <2>2, <2>3
  <2>4. CASE n = k.y
    BY <1>1, <2>1, <2>2, <2>4
  <2>5. CASE n = s.w + s.d - 2 - k.x
    BY <1>1, <2>1, <2>2, <2>5
  <2>6. CASE n = s.h + s.d - 2 - k.y
    BY <1>1, <2>1, <2>2, <2>6
  <2>7. CASE n = k.x + k.y - (s.d - 1)
    BY <1>1, <2>1, <2>2, <2>7
  <2>8. CASE n = s.w + s.h + s.d - 3 - k.x - k.y
    BY <1>1, <2>1, <2>2, <2>8
  <2> QED BY <1>2, <2>3, <2>4, <2>5, <2>6, <2>7, <2>8
<1> QED BY <1>3, <1>5, <1>6 DEF n

(* The tile closest to one outside is on the map, and a tile of the map is its own *)
LEMMA ClosestContained ==
  ASSUME NEW s \in Shape, NEW k \in Tile
  PROVE  Contains(s, Closest(s, k)) /\ (Contains(s, k) => Closest(s, k) = k)
<1> DEFINE x == Clamp(k.x, 0, SizeQ(s) - 1)
           y == Clamp(k.y, 0, SizeR(s) - 1)
           below == Larger(CutLo(s) - (x + y), 0)
           x1 == x + Half(below + 1)
           y1 == y + Half(below)
           above == Larger(x1 + y1 - CutHi(s), 0)
           x2 == x1 - Half(above + 1)
           y2 == y1 - Half(above)
<1>1. /\ k.x \in Int /\ k.y \in Int /\ s.w \in Nat \ {0} /\ s.h \in Nat \ {0} /\ s.d \in Nat \ {0}
      /\ MaxCoord \in Nat /\ s.w + s.d - 1 <= MaxCoord - 2 /\ s.h + s.d - 1 <= MaxCoord - 2
      /\ SizeQ(s) = s.w + s.d - 1 /\ SizeR(s) = s.h + s.d - 1
      /\ CutLo(s) = s.d - 1 /\ CutHi(s) = s.w + s.h + s.d - 3
  BY ShapeSides, Sizes DEF Tile
<1>2. /\ x \in 0..(s.w + s.d - 2) /\ y \in 0..(s.h + s.d - 2)
      /\ k.x \in 0..(s.w + s.d - 2) => x = k.x
      /\ k.y \in 0..(s.h + s.d - 2) => y = k.y
  BY <1>1 DEF Clamp
<1> HIDE DEF x, y
<1>3. /\ below \in Nat /\ below = IF s.d - 1 > x + y THEN s.d - 1 - (x + y) ELSE 0
  BY <1>1, <1>2 DEF Larger
<1>4. /\ Half(below) \in Int /\ 2 * Half(below) <= below /\ below <= 2 * Half(below) + 1
      /\ Half(below + 1) \in Int /\ 2 * Half(below + 1) <= below + 1 /\ below + 1 <= 2 * Half(below + 1) + 1
  <2> HIDE DEF below
  <2>1. below \in Int /\ below + 1 \in Int
    BY <1>3
  <2>2. Half(below) \in Int /\ 2 * Half(below) <= below /\ below <= 2 * Half(below) + 1
    BY <2>1, HalfBounds
  <2>3. Half(below + 1) \in Int /\ 2 * Half(below + 1) <= below + 1 /\ below + 1 <= 2 * Half(below + 1) + 1
    BY <2>1, HalfBounds
  <2> QED BY <2>2, <2>3
<1> HIDE DEF below
<1>5. Half(below) + Half(below + 1) = below
  BY <1>3, <1>4
<1>6. /\ x1 \in Int /\ y1 \in Int /\ x1 + y1 = x + y + below
      /\ x1 >= 0 /\ y1 >= 0 /\ x1 <= s.w + s.d - 2 /\ y1 <= s.h + s.d - 2
      /\ x1 + y1 >= s.d - 1 /\ (below > 0 => x1 + y1 = s.d - 1)
      /\ (below = 0 => x1 = x /\ y1 = y)
  <2> DEFINE g == Half(below)
             f == Half(below + 1)
  <2>1. /\ f \in Int /\ g \in Int /\ f + g = below /\ 2 * g <= below /\ below <= 2 * g + 1
        /\ x1 = x + f /\ y1 = y + g
    BY <1>4, <1>5
  <2> HIDE DEF f, g, x1, y1
  <2> QED BY <1>1, <1>2, <1>3, <2>1
<1> HIDE DEF x1, y1
<1>7. /\ above \in Nat /\ above = IF x1 + y1 > s.w + s.h + s.d - 3 THEN x1 + y1 - (s.w + s.h + s.d - 3) ELSE 0
  BY <1>1, <1>6 DEF Larger
<1>8. /\ Half(above) \in Int /\ 2 * Half(above) <= above /\ above <= 2 * Half(above) + 1
      /\ Half(above + 1) \in Int /\ 2 * Half(above + 1) <= above + 1 /\ above + 1 <= 2 * Half(above + 1) + 1
  <2> HIDE DEF above
  <2>1. above \in Int /\ above + 1 \in Int
    BY <1>7
  <2>2. Half(above) \in Int /\ 2 * Half(above) <= above /\ above <= 2 * Half(above) + 1
    BY <2>1, HalfBounds
  <2>3. Half(above + 1) \in Int /\ 2 * Half(above + 1) <= above + 1 /\ above + 1 <= 2 * Half(above + 1) + 1
    BY <2>1, HalfBounds
  <2> QED BY <2>2, <2>3
<1> HIDE DEF above
<1>9. Half(above) + Half(above + 1) = above
  <2> DEFINE g == Half(above)
             f == Half(above + 1)
  <2>1. f \in Int /\ g \in Int /\ 2 * g <= above /\ above <= 2 * g + 1 /\ 2 * f <= above + 1 /\ above + 1 <= 2 * f + 1
    BY <1>8
  <2> HIDE DEF f, g
  <2>2. g + f = above
    BY <1>7, <2>1
  <2> QED BY <2>2 DEF f, g
<1>10. /\ x2 \in Int /\ y2 \in Int
       /\ x2 >= 0 /\ y2 >= 0 /\ x2 <= s.w + s.d - 2 /\ y2 <= s.h + s.d - 2
       /\ x2 + y2 >= s.d - 1 /\ x2 + y2 <= s.w + s.h + s.d - 3
       /\ (above = 0 => x2 = x1 /\ y2 = y1)
  <2> DEFINE g == Half(above)
             f == Half(above + 1)
  <2>1. /\ f \in Int /\ g \in Int /\ f + g = above /\ 2 * g <= above /\ above <= 2 * g + 1
        /\ x2 = x1 - f /\ y2 = y1 - g
    BY <1>8, <1>9
  <2> HIDE DEF f, g, x2, y2
  <2> QED BY <1>1, <1>6, <1>7, <2>1
<1> HIDE DEF x2, y2
<1>11. Closest(s, k) = Koord(x2, y2)
  BY DEF Closest, x, y, below, x1, y1, above, x2, y2
<1>12. Koord(x2, y2) = [x |-> x2, y |-> y2]
  <2>1. Short(x2) = x2 /\ Short(y2) = y2
    BY <1>1, <1>10, ShortFits
  <2> QED BY <2>1 DEF Koord
<1>13. Contains(s, Closest(s, k))
  BY <1>1, <1>10, <1>11, <1>12, ContainsSides DEF Tile
<1>14. ASSUME Contains(s, k) PROVE Closest(s, k) = k
  <2>1. /\ k.x >= 0 /\ k.y >= 0 /\ k.x <= s.w + s.d - 2 /\ k.y <= s.h + s.d - 2
        /\ k.x + k.y >= s.d - 1 /\ k.x + k.y <= s.w + s.h + s.d - 3
    BY <1>14, ContainsSides
  <2>2. x = k.x /\ y = k.y
    BY <1>1, <1>2, <2>1
  <2>3. below = 0 /\ x1 = k.x /\ y1 = k.y
    BY <1>1, <1>3, <1>6, <2>1, <2>2
  <2>4. x2 = k.x /\ y2 = k.y
    BY <1>1, <1>7, <1>10, <2>1, <2>3
  <2> QED BY <1>11, <1>12, <2>4 DEF Tile
<1> QED BY <1>13, <1>14

(* A disc is what is no further away than its radius *)
LEMMA DiscDistance ==
  ASSUME NEW n \in 0..3
  PROVE  Disc(n) = {d \in [x : -4..4, y : -4..4] : Distance(Origin, d) <= n}
<1>1. ASSUME NEW d \in [x : -4..4, y : -4..4]
      PROVE  Distance(Origin, d) <= n <=> d.x \in -n..n /\ d.y \in -n..n /\ d.x + d.y \in -n..n
  <2> DEFINE a == 0 - d.x
             b == 0 - d.y
             m == Abs(a) + Abs(a + b) + Abs(b)
  <2>1. a \in Int /\ b \in Int /\ m \in Int /\ Distance(Origin, d) = Half(m)
    BY <1>1 DEF Distance, Origin, Abs
  <2>2. Half(m) \in Int /\ 2 * Half(m) <= m /\ m <= 2 * Half(m) + 1
    BY <2>1, HalfBounds
  <2>3. Half(m) <= n <=> m <= 2 * n + 1
    <3> HIDE DEF m
    <3> QED BY <2>1, <2>2
  <2>4. m <= 2 * n + 1 <=> a \in -n..n /\ b \in -n..n /\ a + b \in -n..n
    BY <2>1 DEF Abs
  <2>5. a \in -n..n /\ b \in -n..n /\ a + b \in -n..n <=> d.x \in -n..n /\ d.y \in -n..n /\ d.x + d.y \in -n..n
    BY <1>1
  <2> QED BY <2>1, <2>3, <2>4, <2>5
<1>2. ASSUME NEW d \in Disc(n) PROVE d \in [x : -4..4, y : -4..4] /\ Distance(Origin, d) <= n
  <2>1. d \in [x : -n..n, y : -n..n] /\ d.x + d.y \in -n..n
    BY DiscIs
  <2>2. d \in [x : -4..4, y : -4..4]
    BY <2>1
  <2> QED BY <1>1, <2>1, <2>2
<1>3. ASSUME NEW d \in [x : -4..4, y : -4..4], Distance(Origin, d) <= n PROVE d \in Disc(n)
  <2>1. d.x \in -n..n /\ d.y \in -n..n /\ d.x + d.y \in -n..n
    BY <1>1, <1>3
  <2>2. d \in [x : -n..n, y : -n..n]
    BY <2>1
  <2> QED BY <2>1, <2>2, DiscIs
<1> QED BY <1>2, <1>3

(* Absolute values *)
LEMMA AbsCases == \A n \in Int : Abs(n) \in Nat /\ (n >= 0 => Abs(n) = n) /\ (n <= 0 => Abs(n) = -n)
BY DEF Abs

(* The distance is the largest of the differences in the three directions *)
LEMMA DistanceIs ==
  ASSUME NEW a \in Tile, NEW b \in Tile, NEW n \in Int
  PROVE  /\ Distance(a, b) \in Int
         /\ Distance(a, b) <= n <=> /\ -n <= a.x - b.x /\ a.x - b.x <= n /\ -n <= a.y - b.y /\ a.y - b.y <= n
                                    /\ -n <= a.x - b.x + (a.y - b.y) /\ a.x - b.x + (a.y - b.y) <= n
<1> DEFINE x == a.x - b.x
           y == a.y - b.y
           m == Abs(x) + Abs(x + y) + Abs(y)
<1>1. x \in Int /\ y \in Int /\ x + y \in Int
  BY DEF Tile
<1>2. Distance(a, b) = Half(m)
  BY DEF Distance
<1> HIDE DEF x, y
<1>3. m \in Int /\ (m <= 2 * n + 1 <=> -n <= x /\ x <= n /\ -n <= y /\ y <= n /\ -n <= x + y /\ x + y <= n)
  BY <1>1 DEF Abs
<1> HIDE DEF m
<1>4. Half(m) \in Int /\ 2 * Half(m) <= m /\ m <= 2 * Half(m) + 1
  BY <1>3, HalfBounds
<1>5. Half(m) <= n <=> m <= 2 * n + 1
  BY <1>3, <1>4
<1> QED BY <1>2, <1>3, <1>4, <1>5 DEF x, y

(* What a clamped value is *)
LEMMA ClampCases ==
  \A n, lo, hi \in Int : \/ n <= lo /\ Clamp(n, lo, hi) = lo
                         \/ n >= hi /\ Clamp(n, lo, hi) = hi
                         \/ Clamp(n, lo, hi) = n
BY DEF Clamp

(* The nearest tile of a footprint *)
LEMMA Nearest ==
  ASSUME NEW p \in Tile, NEW pos \in Tile, NEW size \in [x : Nat \ {0}, y : Nat \ {0}]
  PROVE  LET d == DistanceToRect(p, pos, size)
         IN  /\ \E k \in Rect(pos, size) : Distance(p, k) = d
             /\ \A k \in Rect(pos, size) : Distance(p, k) >= d
<1> DEFINE x == Clamp(p.x, pos.x, pos.x + size.x - 1)
           y == Clamp(p.y, pos.y, pos.y + size.y - 1)
           near == [x |-> x, y |-> y]
<1>1. /\ p.x \in Int /\ p.y \in Int /\ pos.x \in Int /\ pos.y \in Int
      /\ size.x \in Nat \ {0} /\ size.y \in Nat \ {0}
  BY DEF Tile
<1>2. x \in pos.x..(pos.x + size.x - 1) /\ y \in pos.y..(pos.y + size.y - 1)
  BY <1>1 DEF Clamp
<1>3. near \in Rect(pos, size) /\ near \in Tile /\ DistanceToRect(p, pos, size) = Distance(p, near)
  BY <1>1, <1>2 DEF Rect, Tile, DistanceToRect
<1>4. ASSUME NEW k \in Rect(pos, size) PROVE Distance(p, k) >= Distance(p, near)
  <2>1. k.x \in pos.x..(pos.x + size.x - 1) /\ k.y \in pos.y..(pos.y + size.y - 1) /\ k \in Tile
    BY <1>1 DEF Rect, Tile
  <2> DEFINE n == Distance(p, k)
  <2>2. /\ n \in Int /\ -n <= p.x - k.x /\ p.x - k.x <= n /\ -n <= p.y - k.y /\ p.y - k.y <= n
        /\ -n <= p.x - k.x + (p.y - k.y) /\ p.x - k.x + (p.y - k.y) <= n
    <3>1. n \in Int /\ n <= n
      BY <2>1, DistanceIs
    <3> QED BY <2>1, <3>1, DistanceIs
  <2> HIDE DEF n
  <2>3. /\ (p.x <= pos.x /\ x = pos.x) \/ (p.x >= pos.x + size.x - 1 /\ x = pos.x + size.x - 1) \/ x = p.x
        /\ (p.y <= pos.y /\ y = pos.y) \/ (p.y >= pos.y + size.y - 1 /\ y = pos.y + size.y - 1) \/ y = p.y
    <3>1. pos.x + size.x - 1 \in Int /\ pos.y + size.y - 1 \in Int
      BY <1>1
    <3> DEFINE hx == pos.x + size.x - 1
               hy == pos.y + size.y - 1
    <3>2. hx \in Int /\ hy \in Int
      BY <3>1
    <3>3. x = Clamp(p.x, pos.x, hx) /\ y = Clamp(p.y, pos.y, hy)
      OBVIOUS
    <3> HIDE DEF hx, hy, x, y
    <3>4. (p.x <= pos.x /\ x = pos.x) \/ (p.x >= hx /\ x = hx) \/ x = p.x
      BY <1>1, <3>2, <3>3, ClampCases
    <3>5. (p.y <= pos.y /\ y = pos.y) \/ (p.y >= hy /\ y = hy) \/ y = p.y
      BY <1>1, <3>2, <3>3, ClampCases
    <3> QED BY <3>4, <3>5 DEF hx, hy
  <2> HIDE DEF x, y
  <2>4. /\ -n <= p.x - x /\ p.x - x <= n /\ -n <= p.y - y /\ p.y - y <= n
        /\ -n <= p.x - x + (p.y - y) /\ p.x - x + (p.y - y) <= n
    BY <1>1, <1>2, <2>1, <2>2, <2>3
  <2>5. near.x = x /\ near.y = y
    OBVIOUS
  <2>6. Distance(p, near) <= n /\ Distance(p, near) \in Int
    BY <1>3, <2>2, <2>4, <2>5, DistanceIs
  <2> QED BY <2>2, <2>6 DEF n
<1> QED BY <1>3, <1>4

(* The number of sixth turns between two directions, from their scalar product *)
LEMMA Turns ==
  ASSUME NEW i \in Directions, NEW j \in Directions
  PROVE  TurnSteps(Neighbour(i), Neighbour(j)) = Angle(i, j)
<1> DEFINE dot == DotX2(Neighbour(i), Neighbour(j))
<1>1. dot = CASE Angle(i, j) = 0 -> 2 [] Angle(i, j) = 1 -> 1 [] Angle(i, j) = 2 -> -1 [] OTHER -> -2
  <2> USE DEF DotX2, Angle, Abs
  <2>1. CASE i = 0
    BY <2>1, SixDirections
  <2>2. CASE i = 1
    BY <2>2, SixDirections
  <2>3. CASE i = 2
    BY <2>3, SixDirections
  <2>4. CASE i = 3
    BY <2>4, SixDirections
  <2>5. CASE i = 4
    BY <2>5, SixDirections
  <2>6. CASE i = 5
    BY <2>6, SixDirections
  <2> QED BY <2>1, <2>2, <2>3, <2>4, <2>5, <2>6, SixDirections
<1>2. Angle(i, j) \in 0..3
  BY SixDirections DEF Angle, Abs
<1> HIDE DEF dot
<1>3. TurnSteps(Neighbour(i), Neighbour(j)) = CASE dot = 2 -> 0 [] dot = 1 -> 1 [] dot = -1 -> 2 [] OTHER -> 3
  BY DEF TurnSteps, dot
<1> QED BY <1>1, <1>2, <1>3

(* What a disc has before each of its rows, as a recurrence *)
RowsOf(n, f) == f = [k \in 0..(2 * n + 1) |-> IF k = 0 THEN 0 ELSE f[k - 1] + RowLength(k - 1 - n, n)]

(* BeforeRow is the function its recurrence defines, where there is one *)
LEMMA BeforeRowIs ==
  ASSUME NEW n, NEW f, RowsOf(n, f)
  PROVE  RowsOf(n, BeforeRow(n))
BY DEF RowsOf, BeforeRow

(* The rows follow each other, and every index of the disc is in one *)
RowsHold(n, b) ==
  /\ b[0] = 0 /\ b[2 * n + 1] = DiscSize(n)
  /\ \A k \in 0..(2 * n + 1) : b[k] \in Nat
  /\ \A k \in 0..(2 * n) : b[k + 1] = b[k] + RowLength(k - n, n)
  /\ \A k, l \in 0..(2 * n + 1) : k < l => b[k] < b[l]
  /\ \A i \in 0..(DiscSize(n) - 1) : \E k \in 0..(2 * n) : b[k] <= i /\ i < b[k + 1]

(* The discs of the radii 0 to 3 *)
LEMMA RowsOfNone == RowsHold(0, BeforeRow(0))
<1> DEFINE f == [k \in 0..1 |-> <<0, 1>>[k + 1]]
           b == BeforeRow(0)
<1>1. f[0] = 0 /\ f[1] = 1
  OBVIOUS
<1>2. RowsOf(0, f)
  <2>1. \A k \in 0..1 : k \in {0, 1}
    OBVIOUS
  <2>2. \A k \in 0..1 : f[k] = IF k = 0 THEN 0 ELSE f[k - 1] + RowLength(k - 1 - 0, 0)
    BY <1>1, <2>1 DEF RowLength, Abs
  <2> QED BY <2>2 DEF RowsOf
<1>3. RowsOf(0, b)
  BY <1>2, BeforeRowIs
<1> HIDE DEF f, b
<1>4. b[0] = 0 /\ \A k \in 1..1 : b[k] = b[k - 1] + RowLength(k - 1 - 0, 0)
  BY <1>3 DEF RowsOf
<1>5. b[0] = 0 /\ b[1] = b[0] + 1
  BY <1>4 DEF RowLength, Abs
<1>6. b[0] = 0 /\ b[1] = 1
  BY <1>5
<1>7. \A k \in 0..1 : k \in {0, 1}
  OBVIOUS
<1>8. DiscSize(0) = 1
  BY DEF DiscSize
<1>9. \A k \in 0..1 : b[k] \in Nat
  BY <1>6, <1>7
<1>10. \A k \in 0..0 : b[k + 1] = b[k] + RowLength(k - 0, 0)
  BY <1>6, <1>7 DEF RowLength, Abs
<1>11. \A k, l \in 0..1 : k < l => b[k] < b[l]
  BY <1>6, <1>7
<1>12. \A i \in 0..0 : \E k \in 0..0 : b[k] <= i /\ i < b[k + 1]
  <2>1. 0 \in 0..0 /\ 0 + 1 = 1
    OBVIOUS
  <2> QED BY <1>6, <2>1
<1> QED BY <1>6, <1>8, <1>9, <1>10, <1>11, <1>12 DEF RowsHold, b

(* The rows of the disc of radius one *)
LEMMA RowsOfOne == RowsHold(1, BeforeRow(1))
<1> DEFINE f == [k \in 0..3 |-> <<0, 2, 5, 7>>[k + 1]]
           b == BeforeRow(1)
<1>1. f[0] = 0 /\ f[1] = 2 /\ f[2] = 5 /\ f[3] = 7
  OBVIOUS
<1>2. RowsOf(1, f)
  <2>1. \A k \in 0..3 : k \in {0, 1, 2, 3}
    OBVIOUS
  <2>2. \A k \in 0..3 : f[k] = IF k = 0 THEN 0 ELSE f[k - 1] + RowLength(k - 1 - 1, 1)
    BY <1>1, <2>1 DEF RowLength, Abs
  <2> QED BY <2>2 DEF RowsOf
<1>3. RowsOf(1, b)
  BY <1>2, BeforeRowIs
<1> HIDE DEF f, b
<1>4. b[0] = 0 /\ \A k \in 1..3 : b[k] = b[k - 1] + RowLength(k - 1 - 1, 1)
  BY <1>3 DEF RowsOf
<1>5. b[0] = 0 /\ b[1] = b[0] + 2 /\ b[2] = b[1] + 3 /\ b[3] = b[2] + 2
  BY <1>4 DEF RowLength, Abs
<1>6. b[0] = 0 /\ b[1] = 2 /\ b[2] = 5 /\ b[3] = 7
  BY <1>5
<1>7. \A k \in 0..3 : k \in {0, 1, 2, 3}
  OBVIOUS
<1>8. DiscSize(1) = 7
  BY DEF DiscSize
<1>9. \A k \in 0..3 : b[k] \in Nat
  BY <1>6, <1>7
<1>10. \A k \in 0..2 : b[k + 1] = b[k] + RowLength(k - 1, 1)
  BY <1>6, <1>7 DEF RowLength, Abs
<1>11. \A k, l \in 0..3 : k < l => b[k] < b[l]
  BY <1>6, <1>7
<1>12. \A i \in 0..6 : \E k \in 0..2 : b[k] <= i /\ i < b[k + 1]
  <2>1. 0 \in 0..2 /\ 0 + 1 = 1 /\ 1 \in 0..2 /\ 1 + 1 = 2 /\ 2 \in 0..2 /\ 2 + 1 = 3
    OBVIOUS
  <2> QED BY <1>6, <2>1
<1> QED BY <1>6, <1>8, <1>9, <1>10, <1>11, <1>12 DEF RowsHold, b

(* The rows of the disc of radius two *)
LEMMA RowsOfTwo == RowsHold(2, BeforeRow(2))
<1> DEFINE f == [k \in 0..5 |-> <<0, 3, 7, 12, 16, 19>>[k + 1]]
           b == BeforeRow(2)
<1>1. f[0] = 0 /\ f[1] = 3 /\ f[2] = 7 /\ f[3] = 12 /\ f[4] = 16 /\ f[5] = 19
  OBVIOUS
<1>2. RowsOf(2, f)
  <2>1. \A k \in 0..5 : k \in {0, 1, 2, 3, 4, 5}
    OBVIOUS
  <2>2. \A k \in 0..5 : f[k] = IF k = 0 THEN 0 ELSE f[k - 1] + RowLength(k - 1 - 2, 2)
    BY <1>1, <2>1 DEF RowLength, Abs
  <2> QED BY <2>2 DEF RowsOf
<1>3. RowsOf(2, b)
  BY <1>2, BeforeRowIs
<1> HIDE DEF f, b
<1>4. b[0] = 0 /\ \A k \in 1..5 : b[k] = b[k - 1] + RowLength(k - 1 - 2, 2)
  BY <1>3 DEF RowsOf
<1>5. b[0] = 0 /\ b[1] = b[0] + 3 /\ b[2] = b[1] + 4 /\ b[3] = b[2] + 5 /\ b[4] = b[3] + 4 /\ b[5] = b[4] + 3
  BY <1>4 DEF RowLength, Abs
<1>6. b[0] = 0 /\ b[1] = 3 /\ b[2] = 7 /\ b[3] = 12 /\ b[4] = 16 /\ b[5] = 19
  BY <1>5
<1>7. \A k \in 0..5 : k \in {0, 1, 2, 3, 4, 5}
  OBVIOUS
<1>8. DiscSize(2) = 19
  BY DEF DiscSize
<1>9. \A k \in 0..5 : b[k] \in Nat
  BY <1>6, <1>7
<1>10. \A k \in 0..4 : b[k + 1] = b[k] + RowLength(k - 2, 2)
  BY <1>6, <1>7 DEF RowLength, Abs
<1>11. \A k, l \in 0..5 : k < l => b[k] < b[l]
  BY <1>6, <1>7
<1>12. \A i \in 0..18 : \E k \in 0..4 : b[k] <= i /\ i < b[k + 1]
  <2>1. 0 \in 0..4 /\ 0 + 1 = 1 /\ 1 \in 0..4 /\ 1 + 1 = 2 /\ 2 \in 0..4 /\ 2 + 1 = 3 /\ 3 \in 0..4 /\ 3 + 1 = 4 /\ 4 \in 0..4 /\ 4 + 1 = 5
    OBVIOUS
  <2> QED BY <1>6, <2>1
<1> QED BY <1>6, <1>8, <1>9, <1>10, <1>11, <1>12 DEF RowsHold, b

(* The rows of the disc of radius three *)
LEMMA RowsOfThree == RowsHold(3, BeforeRow(3))
<1> DEFINE f == [k \in 0..7 |-> <<0, 4, 9, 15, 22, 28, 33, 37>>[k + 1]]
           b == BeforeRow(3)
<1>1. f[0] = 0 /\ f[1] = 4 /\ f[2] = 9 /\ f[3] = 15 /\ f[4] = 22 /\ f[5] = 28 /\ f[6] = 33 /\ f[7] = 37
  OBVIOUS
<1>2. RowsOf(3, f)
  <2>1. \A k \in 0..7 : k \in {0, 1, 2, 3, 4, 5, 6, 7}
    OBVIOUS
  <2>2. \A k \in 0..7 : f[k] = IF k = 0 THEN 0 ELSE f[k - 1] + RowLength(k - 1 - 3, 3)
    BY <1>1, <2>1 DEF RowLength, Abs
  <2> QED BY <2>2 DEF RowsOf
<1>3. RowsOf(3, b)
  BY <1>2, BeforeRowIs
<1> HIDE DEF f, b
<1>4. b[0] = 0 /\ \A k \in 1..7 : b[k] = b[k - 1] + RowLength(k - 1 - 3, 3)
  BY <1>3 DEF RowsOf
<1>5. b[0] = 0 /\ b[1] = b[0] + 4 /\ b[2] = b[1] + 5 /\ b[3] = b[2] + 6 /\ b[4] = b[3] + 7 /\ b[5] = b[4] + 6 /\ b[6] = b[5] + 5 /\ b[7] = b[6] + 4
  BY <1>4 DEF RowLength, Abs
<1>6. b[0] = 0 /\ b[1] = 4 /\ b[2] = 9 /\ b[3] = 15 /\ b[4] = 22 /\ b[5] = 28 /\ b[6] = 33 /\ b[7] = 37
  BY <1>5
<1>7. \A k \in 0..7 : k \in {0, 1, 2, 3, 4, 5, 6, 7}
  OBVIOUS
<1>8. DiscSize(3) = 37
  BY DEF DiscSize
<1>9. \A k \in 0..7 : b[k] \in Nat
  BY <1>6, <1>7
<1>10. \A k \in 0..6 : b[k + 1] = b[k] + RowLength(k - 3, 3)
  BY <1>6, <1>7 DEF RowLength, Abs
<1>11. \A k, l \in 0..7 : k < l => b[k] < b[l]
  BY <1>6, <1>7
<1>12. \A i \in 0..36 : \E k \in 0..6 : b[k] <= i /\ i < b[k + 1]
  <2>1. 0 \in 0..6 /\ 0 + 1 = 1 /\ 1 \in 0..6 /\ 1 + 1 = 2 /\ 2 \in 0..6 /\ 2 + 1 = 3 /\ 3 \in 0..6 /\ 3 + 1 = 4 /\ 4 \in 0..6 /\ 4 + 1 = 5 /\ 5 \in 0..6 /\ 5 + 1 = 6 /\ 6 \in 0..6 /\ 6 + 1 = 7
    OBVIOUS
  <2> QED BY <1>6, <2>1
<1> QED BY <1>6, <1>8, <1>9, <1>10, <1>11, <1>12 DEF RowsHold, b

(* Counting through a disc gives each of its tiles once *)
LEMMA DiscRuns ==
  ASSUME NEW n \in 0..3
  PROVE  /\ {DiscAt(n, i) : i \in 0..(DiscSize(n) - 1)} = Disc(n)
         /\ \A i, j \in 0..(DiscSize(n) - 1) : DiscAt(n, i) = DiscAt(n, j) => i = j
<1> DEFINE b == BeforeRow(n)
           S == DiscSize(n)
<1>1. RowsHold(n, b)
  BY RowsOfNone, RowsOfOne, RowsOfTwo, RowsOfThree
<1> HIDE DEF b
<1>2. /\ b[0] = 0 /\ b[2 * n + 1] = S /\ S \in Nat
      /\ \A k \in 0..(2 * n + 1) : b[k] \in Nat
      /\ \A k \in 0..(2 * n) : b[k + 1] = b[k] + RowLength(k - n, n)
      /\ \A k, l \in 0..(2 * n + 1) : k < l => b[k] < b[l]
      /\ \A i \in 0..(S - 1) : \E k \in 0..(2 * n) : b[k] <= i /\ i < b[k + 1]
  BY <1>1 DEF RowsHold, DiscSize
<1> HIDE DEF S
<1>3. ASSUME NEW i \in 0..(S - 1), NEW k \in 0..(2 * n), b[k] <= i, i < b[k + 1],
             NEW l \in 0..(2 * n), b[l] <= i, i < b[l + 1]
      PROVE  k = l
  <2>1. ASSUME NEW x \in 0..(2 * n), NEW y \in 0..(2 * n), x < y PROVE b[x + 1] <= b[y]
    <3>1. x + 1 \in 0..(2 * n + 1) /\ y \in 0..(2 * n + 1) /\ (x + 1 = y \/ x + 1 < y)
      BY <2>1
    <3>2. x + 1 < y => b[x + 1] < b[y]
      BY <1>2, <3>1
    <3>3. b[x + 1] \in Nat /\ b[y] \in Nat
      BY <1>2, <3>1
    <3> QED BY <3>1, <3>2, <3>3
  <2>2. b[k] \in Nat /\ b[l] \in Nat /\ b[k + 1] \in Nat /\ b[l + 1] \in Nat
    BY <1>2
  <2>3. k < l => FALSE
    BY <1>3, <2>1, <2>2
  <2>4. l < k => FALSE
    BY <1>3, <2>1, <2>2
  <2> QED BY <2>3, <2>4
<1> DEFINE row(i) == CHOOSE k \in 0..(2 * n) : b[k] <= i /\ i < b[k + 1]
<1>4. ASSUME NEW i \in 0..(S - 1)
      PROVE  row(i) \in 0..(2 * n) /\ b[row(i)] <= i /\ i < b[row(i) + 1]
  BY <1>2
<1>5. \A i : DiscAt(n, i) = [x |-> MinDx(row(i) - n, n) + i - b[row(i)], y |-> row(i) - n]
  BY DEF DiscAt, b
<1> HIDE DEF row
<1>6. ASSUME NEW i \in 0..(S - 1) PROVE DiscAt(n, i) \in Disc(n)
  <2> DEFINE k == row(i)
             c == i - b[k]
             y == k - n
  <2>1. k \in 0..(2 * n) /\ b[k] \in Nat /\ b[k + 1] = b[k] + RowLength(y, n) /\ b[k] <= i /\ i < b[k + 1]
    BY <1>2, <1>4
  <2>2. y \in -n..n /\ RowLength(y, n) \in Nat /\ c \in 0..(RowLength(y, n) - 1)
        /\ MinDx(y, n) + i - b[k] = MinDx(y, n) + c
    <3>1. y \in -n..n
      BY <2>1
    <3>2. RowLength(y, n) \in Nat /\ MinDx(y, n) \in Int
      BY <3>1 DEF RowLength, Abs, MinDx
    <3> HIDE DEF y, k
    <3> QED BY <2>1, <3>1, <3>2
  <2>3. DiscAt(n, i) = [x |-> MinDx(y, n) + c, y |-> y]
    BY <1>5, <2>2
  <2> HIDE DEF y, c, k
  <2>4. /\ MinDx(y, n) + c \in -n..n /\ MinDx(y, n) <= MinDx(y, n) + c /\ MinDx(y, n) + c <= MaxDx(y, n)
    BY <2>2 DEF MinDx, MaxDx, RowLength, Abs
  <2> QED BY <2>2, <2>3, <2>4 DEF Disc
<1>7. ASSUME NEW d \in Disc(n) PROVE \E i \in 0..(S - 1) : DiscAt(n, i) = d
  <2> DEFINE k == d.y + n
             c == d.x - MinDx(d.y, n)
             i == b[k] + c
  <2>1. /\ d.x \in -n..n /\ d.y \in -n..n /\ MinDx(d.y, n) <= d.x /\ d.x <= MaxDx(d.y, n)
        /\ d = [x |-> d.x, y |-> d.y]
    BY DEF Disc
  <2>2. /\ k \in 0..(2 * n) /\ k - n = d.y /\ MinDx(d.y, n) \in Int
        /\ RowLength(d.y, n) \in Nat /\ c \in 0..(RowLength(d.y, n) - 1)
    BY <2>1 DEF MinDx, MaxDx, RowLength, Abs
  <2> HIDE DEF k
  <2>3. b[k] \in Nat /\ b[k + 1] \in Nat /\ b[k + 1] = b[k] + RowLength(d.y, n) /\ b[k + 1] <= S
    <3>1. b[k] \in Nat /\ b[k + 1] \in Nat /\ b[k + 1] = b[k] + RowLength(k - n, n)
      BY <1>2, <2>2
    <3>2. k + 1 = 2 * n + 1 \/ k + 1 < 2 * n + 1
      BY <2>2
    <3>3. k + 1 \in 0..(2 * n + 1) /\ 2 * n + 1 \in 0..(2 * n + 1)
      BY <2>2
    <3>4. k + 1 < 2 * n + 1 => b[k + 1] < b[2 * n + 1]
      BY <1>2, <3>3
    <3> QED BY <1>2, <2>2, <3>1, <3>2, <3>4
  <2> HIDE DEF c
  <2>4. i \in 0..(S - 1) /\ b[k] <= i /\ i < b[k + 1] /\ i - b[k] = c
    BY <1>2, <2>2, <2>3
  <2>5. row(i) = k
    <3> HIDE DEF i
    <3> QED BY <1>3, <1>4, <2>2, <2>4
  <2> HIDE DEF i
  <2>6. MinDx(d.y, n) + i - b[k] = d.x
    BY <2>1, <2>2, <2>3, <2>4 DEF c
  <2>7. DiscAt(n, i) = d
    BY <1>5, <2>1, <2>2, <2>5, <2>6
  <2> QED BY <2>4, <2>7
<1>8. ASSUME NEW i \in 0..(S - 1), NEW j \in 0..(S - 1), DiscAt(n, i) = DiscAt(n, j) PROVE i = j
  <2>1. row(i) \in 0..(2 * n) /\ row(j) \in 0..(2 * n)
    BY <1>4
  <2>2. /\ row(i) - n = row(j) - n
        /\ MinDx(row(i) - n, n) + i - b[row(i)] = MinDx(row(j) - n, n) + j - b[row(j)]
    BY <1>5, <1>8
  <2>3. row(i) = row(j)
    BY <2>1, <2>2
  <2>4. b[row(i)] \in Nat /\ MinDx(row(i) - n, n) \in Int
    BY <1>2, <2>1 DEF MinDx
  <2> QED BY <2>2, <2>3, <2>4
<1>9. {DiscAt(n, i) : i \in 0..(S - 1)} = Disc(n)
  BY <1>6, <1>7
<1> QED BY <1>8, <1>9 DEF S

(* For every size of map: the distance to the edge, the closest tile of the map, the distance to
   a footprint, the discs of the radii 0 to 3 and the turn between two directions are what
   their definitions on the hexagonal grid say. *)
THEOREM MeasuresHold == ASSUME AllTurnable PROVE SurfaceSpec => []Measures
<1>1. ShapeInv => Measures
  <2> SUFFICES ASSUME shape \in Shape PROVE Measures
    BY DEF ShapeInv
  <2>1. Margin(shape) \subseteq Tile
    BY ShapeSides, Sizes DEF Margin, Tile
  <2>2. ASSUME NEW k \in Margin(shape)
        PROVE  LET n == EdgeDistance(shape, k)
               IN  /\ n >= 0 <=> Contains(shape, k)
                   /\ n >= 0 => /\ \A e \in Disc(n) : Contains(shape, Add(k, e))
                                /\ \E e \in Disc(n + 1) : ~Contains(shape, Add(k, e))
                   /\ Contains(shape, Closest(shape, k))
                   /\ Contains(shape, k) => Closest(shape, k) = k
    BY <2>1, Edges, ClosestContained
  <2>3. ASSUME NEW p \in [x : -2..3, y : -2..3], NEW size \in [x : 1..2, y : 1..2]
        PROVE  LET d == DistanceToRect(p, Origin, size)
               IN  /\ \E k \in Rect(Origin, size) : Distance(p, k) = d
                   /\ \A k \in Rect(Origin, size) : Distance(p, k) >= d
    <3>1. p \in Tile /\ Origin \in Tile /\ size \in [x : Nat \ {0}, y : Nat \ {0}]
      BY DEF Tile, Origin
    <3> QED BY <3>1, Nearest
  <2> QED BY <2>2, <2>3, DiscDistance, DiscRuns, Turns DEF Measures
<1> QED BY <1>1, ShapeSound, PTL

-----------------------------------------------------------------------------
(* The turn of the plane *)

(* One step of TurnPoint *)
Turn(p) == [x |-> (p.x - 3 * p.y) \div 2, y |-> (p.x + p.y) \div 2]

(* Points the plane is turned about: both coordinates even, or both odd *)
Even(n) == 2 * Half(n) = n
Point == {p \in Tile : Even(p.x - p.y)}

(* What is even *)
LEMMA EvenHalves ==
  ASSUME NEW n \in Int
  PROVE  Even(n) <=> \E m \in Int : n = 2 * m
BY DEF Even, Half

(* A turn takes points to points, without rounding *)
LEMMA TurnIs ==
  ASSUME NEW p \in Point
  PROVE  /\ Turn(p) \in Point
         /\ 2 * Turn(p).x = p.x - 3 * p.y /\ 2 * Turn(p).y = p.x + p.y
<1>1. p.x \in Int /\ p.y \in Int
  BY DEF Point, Tile
<1>2. PICK m \in Int : p.x - p.y = 2 * m
  BY <1>1, EvenHalves DEF Point
<1>3. p.x - 3 * p.y = 2 * (m - p.y) /\ p.x + p.y = 2 * (m + p.y)
  BY <1>1, <1>2
<1>4. Turn(p).x = m - p.y /\ Turn(p).y = m + p.y
  <2>1. Turn(p).x = (p.x - 3 * p.y) \div 2 /\ Turn(p).y = (p.x + p.y) \div 2
    BY DEF Turn
  <2>2. \A a \in Int : (2 * a) \div 2 = a
    OBVIOUS
  <2>3. m - p.y \in Int /\ m + p.y \in Int
    BY <1>1
  <2> QED BY <1>3, <2>1, <2>2, <2>3
<1>5. Turn(p).x - Turn(p).y = 2 * (-p.y)
  BY <1>1, <1>4
<1>6. Even(Turn(p).x - Turn(p).y)
  <2>1. -p.y \in Int /\ Turn(p).x - Turn(p).y \in Int
    BY <1>1, <1>4
  <2> QED BY <1>5, <2>1, EvenHalves
<1>7. Turn(p) \in Tile
  BY <1>1, <1>4 DEF Turn, Tile
<1> QED BY <1>1, <1>3, <1>4, <1>6, <1>7 DEF Point

(* No two points are turned to the same one *)
LEMMA TurnApart ==
  ASSUME NEW p \in Point, NEW p1 \in Point
  PROVE  Turn(p) = Turn(p1) <=> p = p1
<1>1. ASSUME Turn(p) = Turn(p1) PROVE p = p1
  <2>1. p.x - 3 * p.y = p1.x - 3 * p1.y /\ p.x + p.y = p1.x + p1.y
    BY <1>1, TurnIs
  <2>2. p.x \in Int /\ p.y \in Int /\ p1.x \in Int /\ p1.y \in Int
    BY DEF Point, Tile
  <2>3. p.x = p1.x /\ p.y = p1.y
    BY <2>1, <2>2
  <2> QED BY <2>3 DEF Point, Tile
<1> QED BY <1>1

(* Three turns are the reflection about the centre, six are nothing *)
LEMMA ThreeTurns ==
  ASSUME NEW p \in Point
  PROVE  Turn(Turn(Turn(p))) \in Point /\ Turn(Turn(Turn(p))).x = -p.x /\ Turn(Turn(Turn(p))).y = -p.y
<1> DEFINE a == Turn(p)
           b == Turn(a)
           c == Turn(b)
<1>1. a \in Point /\ 2 * a.x = p.x - 3 * p.y /\ 2 * a.y = p.x + p.y
  BY TurnIs
<1> HIDE DEF a
<1>2. b \in Point /\ 2 * b.x = a.x - 3 * a.y /\ 2 * b.y = a.x + a.y
  BY <1>1, TurnIs
<1> HIDE DEF b
<1>3. c \in Point /\ 2 * c.x = b.x - 3 * b.y /\ 2 * c.y = b.x + b.y
  BY <1>2, TurnIs
<1> HIDE DEF c
<1>4. /\ p.x \in Int /\ p.y \in Int /\ a.x \in Int /\ a.y \in Int /\ b.x \in Int /\ b.y \in Int
      /\ c.x \in Int /\ c.y \in Int
  BY <1>1, <1>2, <1>3 DEF Point, Tile
<1>5. c.x = -p.x /\ c.y = -p.y
  BY <1>1, <1>2, <1>3, <1>4
<1> QED BY <1>3, <1>5 DEF a, b, c

(* Six turns bring a point back to where it was *)
LEMMA SixTurns ==
  ASSUME NEW p \in Point
  PROVE  Turn(Turn(Turn(Turn(Turn(Turn(p)))))) = p
<1> DEFINE c == Turn(Turn(Turn(p)))
           f == Turn(Turn(Turn(c)))
<1>1. c \in Point /\ c.x = -p.x /\ c.y = -p.y
  BY ThreeTurns
<1> HIDE DEF c
<1>2. f \in Point /\ f.x = -c.x /\ f.y = -c.y
  BY <1>1, ThreeTurns
<1> HIDE DEF f
<1>3. f.x = p.x /\ f.y = p.y
  BY <1>1, <1>2 DEF Point, Tile
<1>4. f = p
  BY <1>2, <1>3 DEF Point, Tile
<1> QED BY <1>4 DEF f, c

(* The points a point is turned to *)
Orbit(p) == <<p, Turn(p), Turn(Turn(p)), Turn(Turn(Turn(p))), Turn(Turn(Turn(Turn(p)))),
              Turn(Turn(Turn(Turn(Turn(p)))))>>

(* TurnPoint as a recurrence *)
TurnsOf(p, n, f) == f = [i \in 0..n |-> IF i = 0 THEN p ELSE Turn(f[i - 1])]

(* TurnPoint(p, n) is n turns of p, written out: the recurrence has the orbit as its solution *)
LEMMA TurnPointIs ==
  ASSUME NEW p, NEW n \in 0..5
  PROVE  TurnPoint(p, n) = Orbit(p)[n + 1]
<1> DEFINE o == Orbit(p)
           f == [i \in 0..n |-> o[i + 1]]
           g == CHOOSE g : TurnsOf(p, n, g)
<1>1. /\ o[1] = p /\ o[2] = Turn(o[1]) /\ o[3] = Turn(o[2]) /\ o[4] = Turn(o[3])
      /\ o[5] = Turn(o[4]) /\ o[6] = Turn(o[5])
  BY DEF Orbit
<1> HIDE DEF o
<1>2. n \in {0, 1, 2, 3, 4, 5} /\ \A i \in 0..n : i \in {0, 1, 2, 3, 4, 5}
  OBVIOUS
<1>3. ASSUME NEW i \in 0..n, i # 0 PROVE f[i] = Turn(f[i - 1])
  <2>1. i \in {1, 2, 3, 4, 5} /\ i - 1 \in 0..n /\ f[i] = o[i + 1] /\ f[i - 1] = o[i - 1 + 1]
    BY <1>3
  <2>2. o[i + 1] = Turn(o[i - 1 + 1])
    <3>1. i = 1 \/ i = 2 \/ i = 3 \/ i = 4 \/ i = 5
      BY <2>1
    <3> QED BY <1>1, <3>1
  <2> QED BY <2>1, <2>2
<1>4. f[0] = p
  BY <1>1
<1>5. TurnsOf(p, n, f)
  BY <1>3, <1>4 DEF TurnsOf
<1> HIDE DEF f
<1>6. TurnsOf(p, n, g)
  BY <1>5
<1>7. TurnPoint(p, n) = g[n]
  BY DEF TurnPoint, TurnsOf, Turn
<1> HIDE DEF g
<1>8. g[0] = p /\ \A i \in 1..n : g[i] = Turn(g[i - 1])
  BY <1>6 DEF TurnsOf
<1>9. g[n] = o[n + 1]
  <2>1. CASE n = 0
    BY <1>1, <1>8, <2>1
  <2>2. CASE n = 1
    BY <1>1, <1>8, <2>2
  <2>3. CASE n = 2
    BY <1>1, <1>8, <2>3
  <2>4. CASE n = 3
    BY <1>1, <1>8, <2>4
  <2>5. CASE n = 4
    BY <1>1, <1>8, <2>5
  <2>6. CASE n = 5
    BY <1>1, <1>8, <2>6
  <2> QED BY <1>2, <2>1, <2>2, <2>3, <2>4, <2>5, <2>6
<1> QED BY <1>7, <1>9 DEF o

(* A step more *)
LEMMA TurnPointStep ==
  ASSUME NEW p \in Point, NEW n \in 0..5
  PROVE  /\ TurnPoint(p, n) \in Point
         /\ TurnPoint(p, 0) = p
         /\ TurnPoint(p, (n + 1) % 6) = Turn(TurnPoint(p, n))
<1> DEFINE o == Orbit(p)
<1>1. /\ o[1] = p /\ o[2] = Turn(o[1]) /\ o[3] = Turn(o[2]) /\ o[4] = Turn(o[3])
      /\ o[5] = Turn(o[4]) /\ o[6] = Turn(o[5]) /\ Turn(o[6]) = p
  BY SixTurns DEF Orbit
<1>2. \A i \in 0..5 : TurnPoint(p, i) = o[i + 1]
  BY TurnPointIs
<1> HIDE DEF o
<1>3. /\ o[1] \in Point /\ o[2] \in Point /\ o[3] \in Point /\ o[4] \in Point
      /\ o[5] \in Point /\ o[6] \in Point
  BY <1>1, TurnIs
<1>4. /\ TurnPoint(p, 0) = o[1] /\ TurnPoint(p, 1) = o[2] /\ TurnPoint(p, 2) = o[3]
      /\ TurnPoint(p, 3) = o[4] /\ TurnPoint(p, 4) = o[5] /\ TurnPoint(p, 5) = o[6]
  BY <1>2
<1>5. n \in {0, 1, 2, 3, 4, 5}
  OBVIOUS
<1> QED BY <1>1, <1>3, <1>4, <1>5

-----------------------------------------------------------------------------
(* A step of the map is a turn of the plane *)

(* The turned shape and its sides *)
LEMMA RotatedSides ==
  ASSUME NEW s \in Shape, Turnable(s)
  PROVE  /\ Rotated(s) \in Shape /\ Turnable(Rotated(s))
         /\ Rotated(s).w = s.d /\ Rotated(s).h = s.w /\ Rotated(s).d = s.h
BY RotatedShape DEF Rotated

(* Also for the tiles around the map the 16 bit arithmetic of a step loses nothing *)
LEMMA RotateNear ==
  ASSUME NEW s \in Shape, Turnable(s), NEW a \in Int, NEW b \in Int,
         -1 <= a, a <= s.w + s.d - 1, -1 <= b, b <= s.h + s.d - 1,
         s.d - 2 <= a + b, a + b <= s.w + s.h + s.d - 2
  PROVE  RotateTile(s, [x |-> a, y |-> b]) = [x |-> s.h + s.d - 2 - b, y |-> a + b - (s.d - 1)]
<1> DEFINE M == MaxCoord
<1>1. /\ s.w \in Nat \ {0} /\ s.h \in Nat \ {0} /\ s.d \in Nat \ {0} /\ M \in Nat
      /\ s.w + s.d <= M - 1 /\ s.h + s.d <= M - 1 /\ s.w + s.h <= M - 1
  BY ShapeSides DEF Turnable, MaxExtent
<1>2. Short(-b) = -b
  BY <1>1, ShortFits
<1>3. Short(s.h + s.d - 2) = s.h + s.d - 2 /\ Short(1 - s.d) = 1 - s.d
  BY <1>1, ShortFits
<1>4. Short(-b + (s.h + s.d - 2)) = s.h + s.d - 2 - b
  BY <1>1, ShortFits
<1>5. Short(Short(a + b) + (1 - s.d)) = a + b - (s.d - 1)
  <2>1. CASE a + b < M
    <3>1. Short(a + b) = a + b
      BY <1>1, <2>1, ShortFits
    <3>2. Short(a + b + (1 - s.d)) = a + b + (1 - s.d)
      BY <1>1, <2>1, ShortFits
    <3> QED BY <1>1, <3>1, <3>2
  <2>2. CASE a + b >= M
    <3>1. Short(a + b) = a + b - 2 * M
      BY <1>1, <2>2, ShortWraps
    <3> DEFINE n == a + b - 2 * M + (1 - s.d)
    <3>2. n \in Int /\ -3 * M <= n /\ n < -M
      BY <1>1, <2>2
    <3>3. Short(n) = n + 2 * M
      BY <3>2, ShortWrapsBack
    <3> QED BY <1>1, <3>1, <3>3
  <2> QED BY <1>1, <2>1, <2>2
<1> QED BY <1>2, <1>3, <1>4, <1>5 DEF RotateTile, AxialRotate, RotateShift, Add, Koord

(* Tiles as the loops over the map know them *)
LEMMA TilesAre ==
  ASSUME NEW s \in Shape
  PROVE  \A k : k \in Tiles(s) <=> k \in Tile /\ Contains(s, k)
<1>1. ASSUME NEW k \in Tile, Contains(s, k) PROVE k \in Tiles(s)
  BY <1>1, ShapeSides DEF Tiles, Tile, Contains, SizeQ, SizeR
<1>2. ASSUME NEW k \in Tiles(s) PROVE k \in Tile /\ Contains(s, k)
  BY TileSides DEF Tiles
<1> QED BY <1>1, <1>2

(* A step takes tiles of the map to tiles of the turned map *)
LEMMA TurnedTile ==
  ASSUME NEW s \in Shape, Turnable(s), NEW k \in Tiles(s)
  PROVE  /\ RotateTile(s, k) \in Tiles(Rotated(s))
         /\ RotateTile(s, k) = [x |-> s.h + s.d - 2 - k.y, y |-> k.x + k.y - (s.d - 1)]
BY TilesAre, RotatedSides, RotateKeepsMap, RotateTileExact

(* A corner and the one it is turned to have stored names that the step maps to each other *)
LEMMA RotatedCorner ==
  ASSUME NEW s \in Shape, Turnable(s), NEW k \in Tiles(s), NEW c \in Directions
  PROVE  Canonical(RotateVertex(s, Canonical(Vertex(k, c)))) = Canonical(Vertex(RotateTile(s, k), (c + 1) % 6))
<1> DEFINE to == Rotated(s)
           k1 == RotateTile(s, k)
           nx == NameX[c]
           ny == NameY[c]
           e == c % 2
           n == (c + 1) % 6
           near == Shifted(k, nx, ny)
<1>1. to \in Shape /\ k1 \in Tiles(to) /\ k1.x = s.h + s.d - 2 - k.y /\ k1.y = k.x + k.y - (s.d - 1)
  BY RotatedSides, TurnedTile
<1>2. /\ k.x \in Int /\ k.y \in Int /\ k.x >= 0 /\ k.y >= 0 /\ k.x <= s.w + s.d - 2 /\ k.y <= s.h + s.d - 2
      /\ k.x + k.y >= s.d - 1 /\ k.x + k.y <= s.w + s.h + s.d - 3
      /\ s.w \in Nat /\ s.h \in Nat /\ s.d \in Nat
  BY TileSides, ShapeSides
<1>3. c \in {0, 1, 2, 3, 4, 5}
  BY SixDirections
<1>4. /\ nx \in -1..0 /\ ny \in -1..1 /\ nx + ny \in -1..0 /\ e \in {0, 1}
      /\ e + 1 \in Directions /\ (e + 1) % 6 = e + 1 /\ n \in Directions
      /\ 0 - ny \in -1..1 /\ nx + ny \in -1..1
      /\ 0 - ny + NameX[e + 1] = NameX[n] /\ nx + ny + NameY[e + 1] = NameY[n]
      /\ (e + 1) % 2 = (n) % 2
  <2>1. CASE c = 0
    <3>1. nx = 0 /\ ny = 0 /\ e = 0 /\ n = 1
      BY <2>1, SixDirections
    <3> HIDE DEF nx, ny, e, n
    <3>2. e + 1 = 1 /\ 0 - ny = 0 /\ nx + ny = 0 /\ 1 % 6 = 1 /\ 1 % 2 = 1 /\ 1 % 2 = 1
      BY <3>1
    <3>3. /\ NameX[1] = 0 /\ NameX[1] = 0 /\ NameY[1] = 0 /\ NameY[1] = 0
          /\ 1 \in Directions /\ 1 \in Directions
      BY SixDirections DEF Directions
    <3> QED BY <3>1, <3>2, <3>3
  <2>2. CASE c = 1
    <3>1. nx = 0 /\ ny = 0 /\ e = 1 /\ n = 2
      BY <2>2, SixDirections
    <3> HIDE DEF nx, ny, e, n
    <3>2. e + 1 = 2 /\ 0 - ny = 0 /\ nx + ny = 0 /\ 2 % 6 = 2 /\ 2 % 2 = 0 /\ 2 % 2 = 0
      BY <3>1
    <3>3. /\ NameX[2] = -1 /\ NameX[2] = -1 /\ NameY[2] = 1 /\ NameY[2] = 1
          /\ 2 \in Directions /\ 2 \in Directions
      BY SixDirections DEF Directions
    <3> QED BY <3>1, <3>2, <3>3
  <2>3. CASE c = 2
    <3>1. nx = -1 /\ ny = 1 /\ e = 0 /\ n = 3
      BY <2>3, SixDirections
    <3> HIDE DEF nx, ny, e, n
    <3>2. e + 1 = 1 /\ 0 - ny = -1 /\ nx + ny = 0 /\ 1 % 6 = 1 /\ 1 % 2 = 1 /\ 3 % 2 = 1
      BY <3>1
    <3>3. /\ NameX[1] = 0 /\ NameX[3] = -1 /\ NameY[1] = 0 /\ NameY[3] = 0
          /\ 1 \in Directions /\ 3 \in Directions
      BY SixDirections DEF Directions
    <3> QED BY <3>1, <3>2, <3>3
  <2>4. CASE c = 3
    <3>1. nx = -1 /\ ny = 0 /\ e = 1 /\ n = 4
      BY <2>4, SixDirections
    <3> HIDE DEF nx, ny, e, n
    <3>2. e + 1 = 2 /\ 0 - ny = 0 /\ nx + ny = -1 /\ 2 % 6 = 2 /\ 2 % 2 = 0 /\ 4 % 2 = 0
      BY <3>1
    <3>3. /\ NameX[2] = -1 /\ NameX[4] = -1 /\ NameY[2] = 1 /\ NameY[4] = 0
          /\ 2 \in Directions /\ 4 \in Directions
      BY SixDirections DEF Directions
    <3> QED BY <3>1, <3>2, <3>3
  <2>5. CASE c = 4
    <3>1. nx = -1 /\ ny = 0 /\ e = 0 /\ n = 5
      BY <2>5, SixDirections
    <3> HIDE DEF nx, ny, e, n
    <3>2. e + 1 = 1 /\ 0 - ny = 0 /\ nx + ny = -1 /\ 1 % 6 = 1 /\ 1 % 2 = 1 /\ 5 % 2 = 1
      BY <3>1
    <3>3. /\ NameX[1] = 0 /\ NameX[5] = 0 /\ NameY[1] = 0 /\ NameY[5] = -1
          /\ 1 \in Directions /\ 5 \in Directions
      BY SixDirections DEF Directions
    <3> QED BY <3>1, <3>2, <3>3
  <2>6. CASE c = 5
    <3>1. nx = 0 /\ ny = -1 /\ e = 1 /\ n = 0
      BY <2>6, SixDirections
    <3> HIDE DEF nx, ny, e, n
    <3>2. e + 1 = 2 /\ 0 - ny = 1 /\ nx + ny = -1 /\ 2 % 6 = 2 /\ 2 % 2 = 0 /\ 0 % 2 = 0
      BY <3>1
    <3>3. /\ NameX[2] = -1 /\ NameX[0] = 0 /\ NameY[2] = 1 /\ NameY[0] = 0
          /\ 2 \in Directions /\ 0 \in Directions
      BY SixDirections DEF Directions
    <3> QED BY <3>1, <3>2, <3>3
  <2> QED BY <1>3, <2>1, <2>2, <2>3, <2>4, <2>5, <2>6
<1>5. Canonical(Vertex(k, c)) = Vertex(near, e)
  BY CanonicalIs
<1> HIDE DEF to, k1, nx, ny, e, n
<1>6. RotateTile(s, near) = Shifted(k1, 0 - ny, nx + ny)
  <2> DEFINE a == k.x + nx
             b == k.y + ny
  <2>1. /\ a \in Int /\ b \in Int /\ -1 <= a /\ a <= s.w + s.d - 1 /\ -1 <= b /\ b <= s.h + s.d - 1
        /\ s.d - 2 <= a + b /\ a + b <= s.w + s.h + s.d - 2
        /\ s.h + s.d - 2 - b = k1.x + (0 - ny) /\ a + b - (s.d - 1) = k1.y + (nx + ny)
    BY <1>1, <1>2, <1>4
  <2>2. near = [x |-> a, y |-> b]
    BY DEF Shifted
  <2> HIDE DEF a, b
  <2>3. RotateTile(s, near) = [x |-> s.h + s.d - 2 - b, y |-> a + b - (s.d - 1)]
    BY <2>1, <2>2, RotateNear
  <2> QED BY <2>1, <2>3 DEF Shifted
<1>7. RotateVertex(s, Vertex(near, e)) = Vertex(RotateTile(s, near), e + 1)
  <2>1. Vertex(near, e).tile = near /\ Vertex(near, e).corner = e
    BY VertexFields
  <2>2. \A t, d : Vertex(t, d).tile = t /\ Vertex(t, d).corner = d
    BY VertexFields
  <2> QED BY <1>4, <2>1, <2>2 DEF RotateVertex, AxialRotateVertex, RotateTile
<1>8. Canonical(Vertex(Shifted(k1, 0 - ny, nx + ny), e + 1))
        = Vertex(Shifted(k1, 0 - ny + NameX[e + 1], nx + ny + NameY[e + 1]), (e + 1) % 2)
  BY <1>1, <1>4, CanonicalNear
<1>9. Canonical(Vertex(k1, n)) = Vertex(Shifted(k1, NameX[n], NameY[n]), (n) % 2)
  BY <1>1, <1>4, CanonicalIs
<1> QED BY <1>4, <1>5, <1>6, <1>7, <1>8, <1>9 DEF k1, n

(* In the plane the step is a turn about the centre of the map *)
LEMMA StepTurns ==
  ASSUME NEW s \in Shape, Turnable(s), NEW x \in Int, NEW y \in Int, NEW u \in Int, NEW v \in Int,
         \* <<u, v>> is <<x, y>> turned about the origin
         2 * u = x - 3 * y, 2 * v = x + y
  PROVE  LET p == [x |-> x, y |-> y]
             p1 == [x |-> u + 3 * (s.h + s.d - 2), y |-> v + (s.h + s.d - 2) - 2 * (s.d - 1)]
         IN  /\ FromCentre(s, p) \in Point /\ FromCentre(Rotated(s), p1) \in Point
             /\ FromCentre(Rotated(s), p1) = Turn(FromCentre(s, p))
<1> DEFINE p == [x |-> x, y |-> y]
           p1 == [x |-> u + 3 * (s.h + s.d - 2), y |-> v + (s.h + s.d - 2) - 2 * (s.d - 1)]
           q == s.w + s.d - 2
           r == s.h + s.d - 2
           t == s.w + s.h - 2
           a == FromCentre(s, p)
           b == FromCentre(Rotated(s), p1)
<1>1. s.w \in Int /\ s.h \in Int /\ s.d \in Int
  BY ShapeSides
<1>2. q \in Int /\ r \in Int /\ t \in Int /\ 2 * (s.d - 1) = q + r - t
  BY <1>1
<1>3. /\ SizeQ(s) - 1 = q /\ SizeR(s) - 1 = r
      /\ SizeQ(Rotated(s)) - 1 = r /\ SizeR(Rotated(s)) - 1 = t
  BY <1>1, RotatedSides, Sizes
<1>4. /\ p.x = x /\ p.y = y /\ p1.x = u + 3 * r /\ p1.y = v + t - q
  BY <1>1, <1>2
<1> HIDE DEF p, p1, q, r, t
<1>5. /\ a = [x |-> 2 * x - 3 * q, y |-> 2 * y - (2 * r + q)]
      /\ b = [x |-> 2 * (u + 3 * r) - 3 * r, y |-> 2 * (v + t - q) - (2 * t + r)]
  BY <1>2, <1>3, <1>4 DEF FromCentre
<1>6. /\ a.x = 2 * x - 3 * q /\ a.y = 2 * y - 2 * r - q /\ a \in Tile
      /\ b.x = 2 * u + 3 * r /\ b.y = 2 * v - 2 * q - r /\ b \in Tile
  BY <1>2, <1>5 DEF Tile
<1> HIDE DEF a, b
<1>7. a \in Point
  <2>1. x - y + r - q \in Int /\ a.x - a.y = 2 * (x - y + r - q) /\ a.x - a.y \in Int
    BY <1>2, <1>6
  <2> QED BY <1>6, <2>1, EvenHalves DEF Point
<1>8. b \in Point
  <2>1. u - v + 2 * r + q \in Int /\ b.x - b.y = 2 * (u - v + 2 * r + q) /\ b.x - b.y \in Int
    BY <1>2, <1>6
  <2> QED BY <1>6, <2>1, EvenHalves DEF Point
<1>9. Turn(a) \in Point /\ 2 * Turn(a).x = a.x - 3 * a.y /\ 2 * Turn(a).y = a.x + a.y
  BY <1>7, TurnIs
<1>10. a.x - 3 * a.y = 2 * b.x /\ a.x + a.y = 2 * b.y
  BY <1>2, <1>6
<1>11. Turn(a).x = b.x /\ Turn(a).y = b.y
  <2>1. Turn(a).x \in Int /\ Turn(a).y \in Int /\ b.x \in Int /\ b.y \in Int
    BY <1>6, <1>9 DEF Point, Tile
  <2>2. 2 * Turn(a).x = 2 * b.x /\ 2 * Turn(a).y = 2 * b.y
    BY <1>9, <1>10
  <2> QED BY <2>1, <2>2
<1>12. Turn(a) = b
  BY <1>6, <1>9, <1>11 DEF Point, Tile
<1> QED BY <1>7, <1>8, <1>12 DEF a, b, p, p1

(* So are the tiles and the corners of a map *)
LEMMA TilesTurn ==
  ASSUME NEW s \in Shape, Turnable(s), NEW k \in Tiles(s)
  PROVE  /\ FromCentre(s, Centre(k)) \in Point
         /\ FromCentre(Rotated(s), Centre(RotateTile(s, k))) = Turn(FromCentre(s, Centre(k)))
<1> DEFINE x == 3 * k.x
           y == 2 * k.y + k.x
           u == 0 - 3 * k.y
           v == 2 * k.x + k.y
           k1 == RotateTile(s, k)
<1>1. /\ k.x \in Int /\ k.y \in Int /\ s.h \in Int /\ s.d \in Int
      /\ k1.x = s.h + s.d - 2 - k.y /\ k1.y = k.x + k.y - (s.d - 1)
  BY TileSides, TurnedTile, ShapeSides
<1> HIDE DEF k1
<1>2. x \in Int /\ y \in Int /\ u \in Int /\ v \in Int /\ 2 * u = x - 3 * y /\ 2 * v = x + y
  BY <1>1
<1>3. Centre(k) = [x |-> x, y |-> y]
  BY DEF Centre
<1>4. Centre(k1) = [x |-> u + 3 * (s.h + s.d - 2), y |-> v + (s.h + s.d - 2) - 2 * (s.d - 1)]
  <2>1. 3 * k1.x = u + 3 * (s.h + s.d - 2) /\ 2 * k1.y + k1.x = v + (s.h + s.d - 2) - 2 * (s.d - 1)
    BY <1>1
  <2> HIDE DEF u, v
  <2> QED BY <2>1 DEF Centre
<1> HIDE DEF x, y, u, v
<1> QED BY <1>2, <1>3, <1>4, StepTurns DEF k1

(* Corner c of a tile turns into corner c + 1 of the turned tile *)
LEMMA CornersTurn ==
  ASSUME NEW s \in Shape, Turnable(s), NEW k \in Tiles(s), NEW c \in Directions
  PROVE  /\ FromCentre(s, Pos(Vertex(k, c))) \in Point
         /\ FromCentre(Rotated(s), Pos(Vertex(RotateTile(s, k), (c + 1) % 6)))
              = Turn(FromCentre(s, Pos(Vertex(k, c))))
<1> DEFINE n == (c + 1) % 6
           x == 3 * k.x + CornerX[c]
           y == 2 * k.y + k.x + CornerY[c]
           u == CornerX[n] - 3 * k.y
           v == 2 * k.x + k.y + CornerY[n]
           k1 == RotateTile(s, k)
<1>1. /\ k.x \in Int /\ k.y \in Int /\ s.h \in Int /\ s.d \in Int
      /\ k1.x = s.h + s.d - 2 - k.y /\ k1.y = k.x + k.y - (s.d - 1)
  BY TileSides, TurnedTile, ShapeSides
<1> HIDE DEF k1
<1>2. /\ CornerX[c] \in Int /\ CornerY[c] \in Int /\ CornerX[n] \in Int /\ CornerY[n] \in Int
      /\ 2 * CornerX[n] = CornerX[c] - 3 * CornerY[c] /\ 2 * CornerY[n] = CornerX[c] + CornerY[c]
  <2>1. CASE c = 0
    BY <2>1, SixDirections
  <2>2. CASE c = 1
    BY <2>2, SixDirections
  <2>3. CASE c = 2
    BY <2>3, SixDirections
  <2>4. CASE c = 3
    BY <2>4, SixDirections
  <2>5. CASE c = 4
    BY <2>5, SixDirections
  <2>6. CASE c = 5
    BY <2>6, SixDirections
  <2> QED BY <2>1, <2>2, <2>3, <2>4, <2>5, <2>6, SixDirections
<1> HIDE DEF n
<1>3. x \in Int /\ y \in Int /\ u \in Int /\ v \in Int /\ 2 * u = x - 3 * y /\ 2 * v = x + y
  <2> DEFINE a == CornerX[c]
             b == CornerY[c]
             d == CornerX[n]
             e == CornerY[n]
  <2>1. a \in Int /\ b \in Int /\ d \in Int /\ e \in Int /\ 2 * d = a - 3 * b /\ 2 * e = a + b
    BY <1>2
  <2>2. x = 3 * k.x + a /\ y = 2 * k.y + k.x + b /\ u = d - 3 * k.y /\ v = 2 * k.x + k.y + e
    OBVIOUS
  <2> HIDE DEF a, b, d, e, x, y, u, v
  <2>3. x \in Int /\ y \in Int /\ u \in Int /\ v \in Int
    BY <1>1, <2>1, <2>2
  <2>4. x - 3 * y = a - 3 * b - 6 * k.y /\ x + y = 4 * k.x + 2 * k.y + a + b
    BY <1>1, <2>1, <2>2
  <2>5. 2 * u = 2 * d - 6 * k.y /\ 2 * v = 4 * k.x + 2 * k.y + 2 * e
    BY <1>1, <2>1, <2>2
  <2> QED BY <1>1, <2>1, <2>3, <2>4, <2>5
<1>4. Pos(Vertex(k, c)) = [x |-> x, y |-> y]
  BY DEF Pos, Vertex
<1>5. Pos(Vertex(k1, n)) = [x |-> u + 3 * (s.h + s.d - 2), y |-> v + (s.h + s.d - 2) - 2 * (s.d - 1)]
  <2>1. /\ 3 * k1.x + CornerX[n] = u + 3 * (s.h + s.d - 2)
        /\ 2 * k1.y + k1.x + CornerY[n] = v + (s.h + s.d - 2) - 2 * (s.d - 1)
    BY <1>1, <1>2
  <2> HIDE DEF u, v
  <2> QED BY <2>1 DEF Pos, Vertex
<1> HIDE DEF x, y, u, v
<1> QED BY <1>3, <1>4, <1>5, StepTurns DEF k1, n

-----------------------------------------------------------------------------
(* The arrays *)

(* Every tile of the map has a cell of its own inside the array *)
LEMMA CellsApart ==
  ASSUME NEW s \in Shape, NEW k \in Tiles(s), NEW k1 \in Tiles(s)
  PROVE  CellNr(s, k) \in Cells(s) /\ (CellNr(s, k) = CellNr(s, k1) => k = k1)
<1> DEFINE n == SizeQ(s)
           m == SizeR(s)
<1>1. /\ n \in Nat /\ m \in Nat /\ k.x \in 0..(n - 1) /\ k1.x \in 0..(n - 1) /\ 0 \in 0..(n - 1)
      /\ k.y \in Nat /\ k1.y \in Nat /\ k.y < m /\ k.x \in Nat /\ k1.x \in Nat
      /\ k = [x |-> k.x, y |-> k.y] /\ k1 = [x |-> k1.x, y |-> k1.y]
  BY TileSides, ShapeSides, Sizes
<1>2. CellNr(s, k) = k.x + k.y * n /\ CellNr(s, k1) = k1.x + k1.y * n /\ Cells(s) = 0..(n * m - 1)
  BY DEF CellNr, Cells
<1> HIDE DEF n, m
<1>3. k.x + k.y * n < 0 + m * n
  BY <1>1, RowsApart
<1>4. k.y * n \in Nat /\ k1.y * n \in Nat /\ m * n \in Nat /\ m * n = n * m
  BY <1>1
<1>5. CellNr(s, k) \in Cells(s)
  <2> DEFINE p == k.y * n
             t == n * m
  <2>1. p \in Nat /\ t \in Nat /\ k.x + p < t
    BY <1>1, <1>3, <1>4
  <2>2. CellNr(s, k) = k.x + p /\ Cells(s) = 0..(t - 1)
    BY <1>2
  <2> HIDE DEF p, t
  <2> QED BY <1>1, <2>1, <2>2
<1>6. ASSUME CellNr(s, k) = CellNr(s, k1) PROVE k = k1
  <2> DEFINE p == k.y * n
             q == k1.y * n
  <2>1. k.x + p = k1.x + q /\ p \in Nat /\ q \in Nat
    BY <1>2, <1>4, <1>6
  <2>2. k.y < k1.y => k.x + p < k1.x + q
    BY <1>1, RowsApart
  <2>3. k1.y < k.y => k1.x + q < k.x + p
    BY <1>1, RowsApart
  <2>4. k.y = k1.y
    <3> HIDE DEF p, q
    <3> QED BY <1>1, <2>1, <2>2, <2>3
  <2>5. p = q
    BY <2>4
  <2> HIDE DEF p, q
  <2>6. k.x = k1.x
    BY <1>1, <2>1, <2>5
  <2> QED BY <1>1, <2>4, <2>6
<1> QED BY <1>5, <1>6

(* Two corners share a slot exactly when they are one vertex *)
LEMMA SameSlot ==
  ASSUME NEW s \in Shape, NEW k \in Tiles(s), NEW c \in Directions, NEW k1 \in Tiles(s), NEW c1 \in Directions
  PROVE  /\ Slot(s, Vertex(k, c)) \in SlotNrs(s)
         /\ Slot(s, Vertex(k, c)) = Slot(s, Vertex(k1, c1)) <=> Pos(Vertex(k, c)) = Pos(Vertex(k1, c1))
         /\ Slot(s, Vertex(k, c)) = Slot(s, Vertex(k1, c1)) =>
              Canonical(Vertex(k, c)) = Canonical(Vertex(k1, c1))
<1> DEFINE u == Canonical(Vertex(k, c))
           v == Canonical(Vertex(k1, c1))
<1>1. /\ u \in Slots(s) /\ Pos(u) = Pos(Vertex(k, c))
      /\ v \in Slots(s) /\ Pos(v) = Pos(Vertex(k1, c1))
  BY SamePos
<1>2. Slot(s, Vertex(k, c)) = SlotIndex(u, SizeQ(s)) /\ Slot(s, Vertex(k1, c1)) = SlotIndex(v, SizeQ(s))
  BY DEF Slot
<1> HIDE DEF u, v
<1>3. /\ SlotIndex(u, SizeQ(s)) \in SlotNrs(s)
      /\ SlotIndex(u, SizeQ(s)) = SlotIndex(v, SizeQ(s)) => u = v
  BY <1>1, SlotsApart
<1>4. Pos(u) = Pos(v) => u = v
  BY <1>1, PosNames
<1> QED BY <1>1, <1>2, <1>3, <1>4 DEF u, v

(* A tile has its corners also by their stored names *)
LEMMA OwnerOfName ==
  ASSUME NEW s \in Shape, NEW k \in Tiles(s), NEW c \in Directions
  PROVE  Vertex(k, c) \in Owners(Canonical(Vertex(k, c)))
<1> DEFINE t == Shifted(k, NameX[c], NameY[c])
<1>1. k.x \in Int /\ k.y \in Int /\ k = [x |-> k.x, y |-> k.y] /\ c \in {0, 1, 2, 3, 4, 5}
  BY TileSides, SixDirections
<1>2. Canonical(Vertex(k, c)) = Vertex(t, c % 2)
  BY CanonicalIs
<1>3. ASSUME NEW e \in Directions, Neighbour(e).x + NameX[c] = 0, Neighbour(e).y + NameY[c] = 0
      PROVE  Add(t, Neighbour(e)) = k
  <2>1. t.x + Neighbour(e).x = k.x + 0 /\ t.y + Neighbour(e).y = k.y + 0
    <3>1. NameX[c] \in Int /\ NameY[c] \in Int /\ Neighbour(e).x \in Int /\ Neighbour(e).y \in Int
      BY <1>1, SixDirections
    <3> QED BY <1>1, <1>3, <3>1 DEF Shifted
  <2>2. Koord(k.x + 0, k.y + 0) = [x |-> k.x + 0, y |-> k.y + 0]
    <3>1. 0 \in -2..2
      OBVIOUS
    <3> QED BY <3>1, NearFits
  <2>3. Add(t, Neighbour(e)) = Koord(k.x + 0, k.y + 0)
    BY <2>1 DEF Add
  <2>4. k.x + 0 = k.x /\ k.y + 0 = k.y
    BY <1>1
  <2> QED BY <1>1, <2>2, <2>3, <2>4
<1>4. Owners(Vertex(t, c % 2)) =
        {Vertex(t, c % 2), Vertex(Add(t, Neighbour(((c % 2) + 5) % 6)), ((c % 2) + 2) % 6),
         Vertex(Add(t, Neighbour(c % 2)), ((c % 2) + 4) % 6)}
  BY VertexFields DEF Owners
<1> HIDE DEF t
<1>5. CASE c = 0
  <2>1. t = k /\ c % 2 = c
    BY <1>1, <1>5, SixDirections DEF t, Shifted
  <2> QED BY <1>2, <1>4, <2>1
<1>6. CASE c = 1
  <2>1. t = k /\ c % 2 = c
    BY <1>1, <1>6, SixDirections DEF t, Shifted
  <2> QED BY <1>2, <1>4, <2>1
<1>7. CASE c = 2
  <2>1. c % 2 = 0 /\ (0 + 5) % 6 = 5 /\ (0 + 2) % 6 = 2 /\ 5 \in Directions
    BY <1>7 DEF Directions
  <2>2. Add(t, Neighbour(5)) = k
    BY <1>3, <1>7, <2>1, SixDirections
  <2> QED BY <1>2, <1>4, <1>7, <2>1, <2>2
<1>8. CASE c = 3
  <2>1. c % 2 = 1 /\ (1 + 5) % 6 = 0 /\ (1 + 2) % 6 = 3 /\ 0 \in Directions
    BY <1>8 DEF Directions
  <2>2. Add(t, Neighbour(0)) = k
    BY <1>3, <1>8, <2>1, SixDirections
  <2> QED BY <1>2, <1>4, <1>8, <2>1, <2>2
<1>9. CASE c = 4
  <2>1. c % 2 = 0 /\ (0 + 4) % 6 = 4 /\ 0 \in Directions
    BY <1>9 DEF Directions
  <2>2. Add(t, Neighbour(0)) = k
    BY <1>3, <1>9, <2>1, SixDirections
  <2> QED BY <1>2, <1>4, <1>9, <2>1, <2>2
<1>10. CASE c = 5
  <2>1. c % 2 = 1 /\ (1 + 4) % 6 = 5 /\ 1 \in Directions
    BY <1>10 DEF Directions
  <2>2. Add(t, Neighbour(1)) = k
    BY <1>3, <1>10, <2>1, SixDirections
  <2> QED BY <1>2, <1>4, <1>10, <2>1, <2>2
<1> QED BY <1>1, <1>5, <1>6, <1>7, <1>8, <1>9, <1>10

(* A point is known from where it is seen from the centre *)
LEMMA FromCentreApart ==
  ASSUME NEW s \in Shape, NEW p \in Tile, NEW p1 \in Tile
  PROVE  FromCentre(s, p) = FromCentre(s, p1) <=> p = p1
<1>1. p.x \in Int /\ p.y \in Int /\ p1.x \in Int /\ p1.y \in Int /\ SizeQ(s) \in Int /\ SizeR(s) \in Int
      /\ p = [x |-> p.x, y |-> p.y] /\ p1 = [x |-> p1.x, y |-> p1.y]
  BY ShapeSides, Sizes DEF Tile
<1>2. ASSUME FromCentre(s, p) = FromCentre(s, p1) PROVE p = p1
  <2>1. /\ 2 * p.x - 3 * (SizeQ(s) - 1) = 2 * p1.x - 3 * (SizeQ(s) - 1)
        /\ 2 * p.y - (2 * (SizeR(s) - 1) + SizeQ(s) - 1) = 2 * p1.y - (2 * (SizeR(s) - 1) + SizeQ(s) - 1)
    BY <1>2 DEF FromCentre
  <2>2. p.x = p1.x /\ p.y = p1.y
    BY <1>1, <2>1
  <2> QED BY <1>1, <2>2
<1> QED BY <1>2

(* A corner is somewhere in the plane *)
LEMMA CornerPoint ==
  ASSUME NEW s \in Shape, NEW k \in Tiles(s), NEW c \in Directions
  PROVE  Pos(Vertex(k, c)) \in Tile
<1>1. k.x \in Int /\ k.y \in Int /\ CornerX[c] \in Int /\ CornerY[c] \in Int
  BY TileSides, SixDirections
<1> QED BY <1>1 DEF Pos, Vertex, Tile

(* A slot that a step moves is the stored name of a corner of a tile *)
LEMMA MovedIsCorner ==
  ASSUME NEW s \in Shape, NEW v \in Slots(s), ContainsVertex(s, v)
  PROVE  \E k \in Tiles(s), c \in Directions : v = Canonical(Vertex(k, c))
<1> DEFINE t == v.tile
           e == v.corner
<1>1. /\ t.x \in Int /\ t.y \in Int /\ t = [x |-> t.x, y |-> t.y] /\ e \in {0, 1} /\ v = Vertex(t, e)
      /\ t.x >= -1 /\ t.x <= SizeQ(s) - 1 /\ t.y >= -1 /\ t.y <= SizeR(s)
      /\ SizeQ(s) \in Nat /\ SizeR(s) \in Nat /\ SizeQ(s) <= MaxCoord - 2 /\ SizeR(s) <= MaxCoord - 2
      /\ MaxCoord \in Nat
  BY ShapeSides, Sizes DEF Slots, SlotTiles, Vertex, E, SE
<1>2. ASSUME NEW dx \in -1..1, NEW dy \in -1..1
      PROVE  Add(t, [x |-> dx, y |-> dy]) = [x |-> t.x + dx, y |-> t.y + dy]
  <2>1. /\ t.x + dx \in Int /\ -MaxCoord <= t.x + dx /\ t.x + dx < MaxCoord
        /\ t.y + dy \in Int /\ -MaxCoord <= t.y + dy /\ t.y + dy < MaxCoord
    BY <1>1
  <2>2. Short(t.x + dx) = t.x + dx /\ Short(t.y + dy) = t.y + dy
    BY <2>1, ShortFits
  <2> QED BY <2>2 DEF Add, Koord
<1>3. Owners(v) = {Vertex(t, e), Vertex(Add(t, Neighbour((e + 5) % 6)), (e + 2) % 6),
                   Vertex(Add(t, Neighbour(e)), (e + 4) % 6)}
  BY <1>1 DEF Owners
<1>4. PICK o \in Owners(v) : Contains(s, o.tile)
  BY DEF ContainsVertex
<1> HIDE DEF t, e
\* the corner c of a tile dx and dy further is the vertex
<1>5. ASSUME NEW c \in Directions, NEW dx \in -1..1, NEW dy \in -1..1,
             dx + NameX[c] = 0, dy + NameY[c] = 0, c % 2 = e,
             o = Vertex([x |-> t.x + dx, y |-> t.y + dy], c)
      PROVE  \E k \in Tiles(s), d \in Directions : v = Canonical(Vertex(k, d))
  <2> DEFINE k == [x |-> t.x + dx, y |-> t.y + dy]
  <2>1. o.tile = k /\ k \in Tile /\ k.x = t.x + dx /\ k.y = t.y + dy
    BY <1>1, <1>5, VertexFields DEF Tile
  <2>2. k \in Tiles(s)
    BY <1>4, <2>1, TilesAre
  <2>3. NameX[c] \in Int /\ NameY[c] \in Int
    BY SixDirections
  <2>4. k.x + NameX[c] = t.x /\ k.y + NameY[c] = t.y
    BY <1>1, <1>5, <2>1, <2>3
  <2>5. Shifted(k, NameX[c], NameY[c]) = t
    BY <1>1, <2>4 DEF Shifted
  <2>6. Canonical(Vertex(k, c)) = Vertex(t, e)
    BY <1>5, <2>2, <2>5, CanonicalIs
  <2> QED BY <1>1, <2>2, <2>6
<1>6. t = [x |-> t.x + 0, y |-> t.y + 0]
  BY <1>1
<1>7. CASE o = Vertex(t, e)
  <2>1. e \in Directions /\ 0 + NameX[e] = 0 /\ 0 + NameY[e] = 0 /\ e % 2 = e /\ 0 \in -1..1
    BY <1>1, SixDirections DEF Directions
  <2> QED BY <1>5, <1>6, <1>7, <2>1
<1>8. CASE o = Vertex(Add(t, Neighbour((e + 5) % 6)), (e + 2) % 6)
  <2>1. CASE e = 0
    <3>1. /\ (e + 5) % 6 = 5 /\ (e + 2) % 6 = 2 /\ 2 \in Directions /\ 2 % 2 = e
          /\ 1 \in -1..1 /\ -1 \in -1..1
      BY <2>1 DEF Directions
    <3>2. o = Vertex([x |-> t.x + 1, y |-> t.y + -1], 2)
      BY <1>2, <1>8, <3>1, SixDirections
    <3>3. 1 + NameX[2] = 0 /\ -1 + NameY[2] = 0
      BY SixDirections
    <3> QED BY <1>5, <3>1, <3>2, <3>3
  <2>2. CASE e = 1
    <3>1. /\ (e + 5) % 6 = 0 /\ (e + 2) % 6 = 3 /\ 3 \in Directions /\ 3 % 2 = e
          /\ 1 \in -1..1 /\ 0 \in -1..1
      BY <2>2 DEF Directions
    <3>2. o = Vertex([x |-> t.x + 1, y |-> t.y + 0], 3)
      BY <1>2, <1>8, <3>1, SixDirections
    <3>3. 1 + NameX[3] = 0 /\ 0 + NameY[3] = 0
      BY SixDirections
    <3> QED BY <1>5, <3>1, <3>2, <3>3
  <2> QED BY <1>1, <2>1, <2>2
<1>9. CASE o = Vertex(Add(t, Neighbour(e)), (e + 4) % 6)
  <2>1. CASE e = 0
    <3>1. (e + 4) % 6 = 4 /\ 4 \in Directions /\ 4 % 2 = e /\ 1 \in -1..1 /\ 0 \in -1..1
      BY <2>1 DEF Directions
    <3>2. o = Vertex([x |-> t.x + 1, y |-> t.y + 0], 4)
      BY <1>2, <1>9, <2>1, <3>1, SixDirections
    <3>3. 1 + NameX[4] = 0 /\ 0 + NameY[4] = 0
      BY SixDirections
    <3> QED BY <1>5, <3>1, <3>2, <3>3
  <2>2. CASE e = 1
    <3>1. (e + 4) % 6 = 5 /\ 5 \in Directions /\ 5 % 2 = e /\ 1 \in -1..1 /\ 0 \in -1..1
      BY <2>2 DEF Directions
    <3>2. o = Vertex([x |-> t.x + 0, y |-> t.y + 1], 5)
      BY <1>2, <1>9, <2>2, <3>1, SixDirections
    <3>3. 0 + NameX[5] = 0 /\ 1 + NameY[5] = 0
      BY SixDirections
    <3> QED BY <1>5, <3>1, <3>2, <3>3
  <2> QED BY <1>1, <2>1, <2>2
<1> QED BY <1>3, <1>4, <1>7, <1>8, <1>9

(* A step moves every cell of the map to the cell of the turned tile, and fills no other *)
LEMMA PlanTurns ==
  ASSUME shape \in Shape, Turnable(shape)
  PROVE  LET to == Rotated(shape)
             new == TurnedPlan(shape, to)
         IN  /\ \A k \in Tiles(shape) : new[CellNr(to, RotateTile(shape, k))] = plan[CellNr(shape, k)]
             /\ \A n \in Cells(to) : new[n] # NoGround => \E k \in Tiles(to) : CellNr(to, k) = n
<1> DEFINE to == Rotated(shape)
           moves == {<<CellNr(to, RotateTile(shape, k)), plan[CellNr(shape, k)]>> : k \in Tiles(shape)}
           moved == {m[1] : m \in moves}
           new == TurnedPlan(shape, to)
<1>1. new = [n \in Cells(to) |-> IF n \in moved THEN (CHOOSE m \in moves : m[1] = n)[2] ELSE NoGround]
  BY DEF TurnedPlan
<1>2. to \in Shape /\ \A k \in Tiles(shape) : RotateTile(shape, k) \in Tiles(to)
  BY RotatedSides, TurnedTile
<1> HIDE DEF to, new
<1>3. ASSUME NEW k \in Tiles(shape) PROVE new[CellNr(to, RotateTile(shape, k))] = plan[CellNr(shape, k)]
  <2> DEFINE n == CellNr(to, RotateTile(shape, k))
             here == plan[CellNr(shape, k)]
             own == <<n, here>>
             m == CHOOSE m \in moves : m[1] = n
  <2>1. own \in moves /\ own[1] = n /\ own[2] = here
    OBVIOUS
  <2>2. m \in moves /\ m[1] = n
    <3> HIDE DEF own, n, here, moves
    <3> QED BY <2>1
  <2>3. n \in moved
    <3> HIDE DEF own, n, here, moves
    <3> QED BY <2>1
  <2>4. n \in Cells(to)
    BY <1>2, CellsApart
  <2>5. PICK k1 \in Tiles(shape) : m = <<CellNr(to, RotateTile(shape, k1)), plan[CellNr(shape, k1)]>>
    BY <2>2
  <2> HIDE DEF m
  <2>6. CellNr(to, RotateTile(shape, k1)) = n /\ m[2] = plan[CellNr(shape, k1)]
    BY <2>2, <2>5
  <2>7. RotateTile(shape, k1) = RotateTile(shape, k)
    BY <1>2, <2>6, CellsApart
  <2>8. k1 = k
    BY <2>7, TilesAre, RotateInjective
  <2>9. new[n] = m[2]
    <3> HIDE DEF n, moves, moved
    <3> QED BY <1>1, <2>3, <2>4 DEF m
  <2> QED BY <2>6, <2>8, <2>9
<1>4. ASSUME NEW n \in Cells(to), new[n] # NoGround PROVE \E k \in Tiles(to) : CellNr(to, k) = n
  <2>1. n \in moved
    BY <1>1, <1>4
  <2> QED BY <1>2, <2>1
<1> QED BY <1>3, <1>4 DEF to, new

(* A step moves the height of every corner to the corner it is turned to *)
LEMMA HeightsTurn ==
  ASSUME shape \in Shape, Turnable(shape)
  PROVE  LET to == Rotated(shape)
             new == TurnedHeights(shape, to)
         IN  /\ new \in [SlotNrs(to) -> {0, 1}]
             /\ \A k \in Tiles(shape), c \in Directions :
                  new[Slot(to, Vertex(RotateTile(shape, k), (c + 1) % 6))] = 1
                    <=> hgts[Slot(shape, Vertex(k, c))] = 1
<1> DEFINE to == Rotated(shape)
           moving == {v \in Slots(shape) : ContainsVertex(shape, v)}
           moves == {<<Slot(to, RotateVertex(shape, v)), hgts[SlotIndex(v, SizeQ(shape))]>> : v \in moving}
           raised == {m[1] : m \in {m \in moves : m[2] = 1}}
           new == TurnedHeights(shape, to)
<1>1. new = [n \in SlotNrs(to) |-> IF n \in raised THEN 1 ELSE 0]
  BY DEF TurnedHeights, TurnedHeightsOf, Groundwater
<1>2. to \in Shape /\ \A k \in Tiles(shape) : RotateTile(shape, k) \in Tiles(to)
  BY RotatedSides, TurnedTile
<1>3. new \in [SlotNrs(to) -> {0, 1}]
  BY <1>1
<1>4. \A c \in Directions : (c + 1) % 6 \in Directions
  BY DEF Directions
<1>5. ASSUME NEW k \in Tiles(shape), NEW c \in Directions
      PROVE  LET v == Canonical(Vertex(k, c))
             IN  /\ v \in moving /\ SlotIndex(v, SizeQ(shape)) = Slot(shape, Vertex(k, c))
                 /\ Slot(to, RotateVertex(shape, v)) = Slot(to, Vertex(RotateTile(shape, k), (c + 1) % 6))
  <2> DEFINE v == Canonical(Vertex(k, c))
  <2>1. v \in Slots(shape)
    BY SamePos
  <2>2. Vertex(k, c) \in Owners(v) /\ Contains(shape, Vertex(k, c).tile)
    BY OwnerOfName, TilesAre, VertexFields
  <2>3. ContainsVertex(shape, v)
    BY <2>2 DEF ContainsVertex
  <2>4. Slot(to, RotateVertex(shape, v)) = Slot(to, Vertex(RotateTile(shape, k), (c + 1) % 6))
    BY RotatedCorner DEF Slot
  <2> QED BY <2>1, <2>3, <2>4 DEF Slot
<1> HIDE DEF to, new
<1>6. ASSUME NEW k \in Tiles(shape), NEW c \in Directions
      PROVE  LET n == Slot(to, Vertex(RotateTile(shape, k), (c + 1) % 6))
             IN  n \in SlotNrs(to) /\ (n \in raised <=> hgts[Slot(shape, Vertex(k, c))] = 1)
  <2> DEFINE n == Slot(to, Vertex(RotateTile(shape, k), (c + 1) % 6))
             v == Canonical(Vertex(k, c))
  <2>1. n \in SlotNrs(to)
    BY <1>2, <1>4, SameSlot
  <2>2. <<n, hgts[Slot(shape, Vertex(k, c))]>> \in moves
    <3>1. /\ v \in moving /\ SlotIndex(v, SizeQ(shape)) = Slot(shape, Vertex(k, c))
          /\ Slot(to, RotateVertex(shape, v)) = n
      BY <1>5
    <3> HIDE DEF v, n, moving
    <3> QED BY <3>1
  <2>3. hgts[Slot(shape, Vertex(k, c))] = 1 => n \in raised
    <3> DEFINE m == <<n, hgts[Slot(shape, Vertex(k, c))]>>
    <3>1. m \in moves /\ m[1] = n /\ m[2] = hgts[Slot(shape, Vertex(k, c))]
      BY <2>2
    <3> HIDE DEF m, n, moves
    <3> QED BY <3>1
  <2>4. ASSUME n \in raised PROVE hgts[Slot(shape, Vertex(k, c))] = 1
    <3>1. PICK m \in moves : m[2] = 1 /\ m[1] = n
      BY <2>4
    <3>2. PICK u \in moving : m = <<Slot(to, RotateVertex(shape, u)), hgts[SlotIndex(u, SizeQ(shape))]>>
      OBVIOUS
    <3>3. PICK k1 \in Tiles(shape), c1 \in Directions : u = Canonical(Vertex(k1, c1))
      BY MovedIsCorner
    <3>4. Slot(to, Vertex(RotateTile(shape, k1), (c1 + 1) % 6)) = n
      BY <1>5, <3>1, <3>2, <3>3
    <3> DEFINE q == Pos(Vertex(RotateTile(shape, k1), (c1 + 1) % 6))
    <3>5. q = Pos(Vertex(RotateTile(shape, k), (c + 1) % 6))
      BY <1>2, <1>4, <3>4, SameSlot
    <3>6. Turn(FromCentre(shape, Pos(Vertex(k1, c1)))) = Turn(FromCentre(shape, Pos(Vertex(k, c))))
      BY <3>5, CornersTurn
    <3>7. FromCentre(shape, Pos(Vertex(k1, c1))) = FromCentre(shape, Pos(Vertex(k, c)))
      BY <3>6, CornersTurn, TurnApart
    <3>8. Pos(Vertex(k1, c1)) = Pos(Vertex(k, c))
      BY <3>7, CornerPoint, FromCentreApart
    <3>9. Slot(shape, Vertex(k1, c1)) = Slot(shape, Vertex(k, c))
      BY <3>8, SameSlot
    <3> QED BY <1>5, <3>1, <3>2, <3>3, <3>9
  <2> QED BY <2>1, <2>3, <2>4
<1> QED BY <1>1, <1>3, <1>6 DEF to, new

-----------------------------------------------------------------------------
(* The rigid world *)

(* Whatever was turned, the world was made for the same shape *)
LEMMA BeforeStep ==
  ASSUME NEW s \in Shape, Turnable(s), NEW n \in 0..5
  PROVE  /\ Before(s, n) \in Shape /\ Before(s, 0) = s
         /\ Before(Rotated(s), (n + 1) % 6) = Before(s, n)
<1>1. /\ Rotated(s) \in Shape /\ Turnable(Rotated(s)) /\ Rotated(Rotated(s)) \in Shape
      /\ Rotated(Rotated(Rotated(s))) = s
  BY RotatedShape
<1>2. n \in {0, 1, 2, 3, 4, 5}
  OBVIOUS
<1>3. CASE n = 0 \/ n = 3
  <2>1. n % 3 = 0 /\ ((n + 1) % 6) % 3 = 1
    BY <1>3
  <2> QED BY <1>1, <2>1 DEF Before
<1>4. CASE n = 1 \/ n = 4
  <2>1. n % 3 = 1 /\ ((n + 1) % 6) % 3 = 2
    BY <1>4
  <2> QED BY <1>1, <2>1 DEF Before
<1>5. CASE n = 2 \/ n = 5
  <2>1. n % 3 = 2 /\ ((n + 1) % 6) % 3 = 0
    BY <1>5
  <2> QED BY <1>1, <2>1 DEF Before
<1> QED BY <1>2, <1>3, <1>4, <1>5 DEF Before

(* The three parts of RigidWorld: the grounds, the cells off the map, the heights *)
GroundsTurned ==
  \A k \in Tiles(shape) :
    LET home == plan[CellNr(shape, k)]
        made == Before(shape, rotation)
    IN  /\ home \in Tiles(made)
        /\ FromCentre(shape, Centre(k)) = TurnPoint(FromCentre(made, Centre(home)), rotation)
NothingBeside ==
  \A n \in Cells(shape) :
    plan[n] # NoGround => \E k \in Tiles(shape) : CellNr(shape, k) = n
HeightsTurned ==
  \A k \in Tiles(shape), c \in Directions :
    LET turned == (rotation + 6 - hill.rotation) % 6
        raised == FromCentre(Before(shape, turned), hill.pos)
    IN  hgts[Slot(shape, Vertex(k, c))] = 1 <=>
          /\ hill # NoHill
          /\ FromCentre(shape, Pos(Vertex(k, c))) = TurnPoint(raised, turned)

(* A hill was raised at a point of the plane *)
HillSound ==
  hill # NoHill =>
    /\ hill.rotation \in 0..5 /\ hill.pos \in Tile
    /\ FromCentre(Before(shape, (rotation + 6 - hill.rotation) % 6), hill.pos) \in Point

(* The inductive invariant of the world and its arrays *)
WorldInv ==
  /\ ShapeInv /\ rotation \in 0..5 /\ hgts \in [SlotNrs(shape) -> {0, 1}]
  /\ HillSound /\ GroundsTurned /\ NothingBeside /\ HeightsTurned

(* So is the centre of a tile *)
LEMMA CentrePoint ==
  ASSUME NEW s \in Shape, Turnable(s), NEW k \in Tiles(s)
  PROVE  FromCentre(s, Centre(k)) \in Point
BY TilesTurn

(* A new world has every ground at home and no hill *)
LEMMA WorldInit == ASSUME AllTurnable PROVE SurfaceInit => WorldInv
<1> SUFFICES ASSUME SurfaceInit PROVE WorldInv
  OBVIOUS
<1>1. shape \in Shape /\ Turnable(shape)
  BY AllTurnable, SurfaceAssumption DEF SurfaceInit, AllTurnable
<1>2. hgts \in [SlotNrs(shape) -> {0, 1}] /\ rotation = 0 /\ hill = NoHill
  BY DEF SurfaceInit, Groundwater
<1>3. ASSUME NEW k \in Tiles(shape) PROVE plan[CellNr(shape, k)] = k
  <2>1. CellNr(shape, k) \in Cells(shape)
    BY <1>1, CellsApart
  <2> DEFINE n == CellNr(shape, k)
             k1 == CHOOSE k1 \in Tiles(shape) : CellNr(shape, k1) = n
  <2>2. k1 \in Tiles(shape) /\ CellNr(shape, k1) = n
    OBVIOUS
  <2>3. plan[n] = k1
    BY <2>1 DEF SurfaceInit
  <2> HIDE DEF k1
  <2>4. k1 = k
    BY <1>1, <2>2, CellsApart
  <2> QED BY <2>3, <2>4
<1>4. GroundsTurned
  <2> SUFFICES ASSUME NEW k \in Tiles(shape)
               PROVE  FromCentre(shape, Centre(k)) = TurnPoint(FromCentre(shape, Centre(k)), 0)
    BY <1>1, <1>2, <1>3, BeforeStep DEF GroundsTurned
  <2> QED BY <1>1, CentrePoint, TurnPointStep
<1>5. NothingBeside
  BY DEF NothingBeside, SurfaceInit
<1>6. HeightsTurned
  <2> SUFFICES ASSUME NEW k \in Tiles(shape), NEW c \in Directions
               PROVE  hgts[Slot(shape, Vertex(k, c))] # 1
    BY <1>2 DEF HeightsTurned
  <2>1. Slot(shape, Vertex(k, c)) \in SlotNrs(shape)
    BY <1>1, SameSlot
  <2> QED BY <2>1 DEF SurfaceInit, Groundwater
<1> QED BY <1>1, <1>2, <1>4, <1>5, <1>6 DEF WorldInv, ShapeInv, HillSound

(* Raising a corner raises no other *)
LEMMA RaiseKeeps ==
  ASSUME WorldInv, NEW k0 \in Tiles(shape), NEW c0 \in Directions, SetHeight(k0, c0)
  PROVE  WorldInv'
<1>1. /\ shape \in Shape /\ Turnable(shape) /\ rotation \in 0..5 /\ hgts \in [SlotNrs(shape) -> {0, 1}]
      /\ hill = NoHill /\ UNCHANGED <<shape, rotation, plan>>
      /\ hgts' = [hgts EXCEPT ![Slot(shape, Vertex(k0, c0))] = 1]
      /\ hill' = [pos |-> Pos(Vertex(k0, c0)), rotation |-> rotation]
  BY DEF WorldInv, ShapeInv, SetHeight
<1>2. Slot(shape, Vertex(k0, c0)) \in SlotNrs(shape)
  BY <1>1, SameSlot
<1>3. hgts' \in [SlotNrs(shape') -> {0, 1}]
  BY <1>1, <1>2
<1>4. (rotation + 6 - rotation) % 6 = 0
  BY <1>1
<1>5. hill' # NoHill /\ hill'.rotation = rotation /\ hill'.pos = Pos(Vertex(k0, c0))
  BY <1>1 DEF NoHill
<1>6. FromCentre(shape, Pos(Vertex(k0, c0))) \in Point /\ Pos(Vertex(k0, c0)) \in Tile
  BY <1>1, CornersTurn, CornerPoint
<1>7. HillSound'
  BY <1>1, <1>4, <1>5, <1>6, BeforeStep DEF HillSound
<1>8. HeightsTurned'
  <2> SUFFICES ASSUME NEW k \in Tiles(shape), NEW c \in Directions
               PROVE  hgts'[Slot(shape, Vertex(k, c))] = 1 <=>
                        FromCentre(shape, Pos(Vertex(k, c)))
                          = TurnPoint(FromCentre(Before(shape, 0), Pos(Vertex(k0, c0))), 0)
    BY <1>1, <1>4, <1>5 DEF HeightsTurned
  <2>1. TurnPoint(FromCentre(Before(shape, 0), Pos(Vertex(k0, c0))), 0) = FromCentre(shape, Pos(Vertex(k0, c0)))
    BY <1>1, <1>6, BeforeStep, TurnPointStep
  <2>2. Slot(shape, Vertex(k, c)) \in SlotNrs(shape) /\ hgts[Slot(shape, Vertex(k, c))] # 1
    BY <1>1, SameSlot DEF WorldInv, HeightsTurned
  <2>3. hgts'[Slot(shape, Vertex(k, c))] = 1 <=> Slot(shape, Vertex(k, c)) = Slot(shape, Vertex(k0, c0))
    BY <1>1, <1>2, <2>2
  <2>4. Slot(shape, Vertex(k, c)) = Slot(shape, Vertex(k0, c0)) <=> Pos(Vertex(k, c)) = Pos(Vertex(k0, c0))
    BY <1>1, SameSlot
  <2>5. Pos(Vertex(k, c)) \in Tile
    BY <1>1, CornerPoint
  <2> QED BY <1>1, <1>6, <2>1, <2>3, <2>4, <2>5, FromCentreApart
<1>9. GroundsTurned' /\ NothingBeside' /\ ShapeInv'
  BY <1>1 DEF WorldInv, GroundsTurned, NothingBeside, ShapeInv
<1> QED BY <1>1, <1>3, <1>7, <1>8, <1>9 DEF WorldInv

(* A step turns everything *)
LEMMA StepKeeps ==
  ASSUME WorldInv, RotateStep
  PROVE  WorldInv'
<1> DEFINE to == Rotated(shape)
           turned == (rotation + 6 - hill.rotation) % 6
           raised == FromCentre(Before(shape, turned), hill.pos)
<1>1. /\ shape \in Shape /\ Turnable(shape) /\ rotation \in 0..5
      /\ shape' = to /\ rotation' = (rotation + 1) % 6 /\ hill' = hill
      /\ plan' = TurnedPlan(shape, to) /\ hgts' = TurnedHeights(shape, to)
  BY DEF WorldInv, ShapeInv, RotateStep
<1>2. to \in Shape /\ Turnable(to) /\ rotation' \in 0..5
  BY <1>1, RotatedSides
<1>3. ASSUME NEW k1 \in Tiles(to)
      PROVE  \E k \in Tiles(shape) : RotateTile(shape, k) = k1
  BY <1>1, <1>2, TilesAre, RotateOnto
<1>4. Before(to, rotation') = Before(shape, rotation) /\ Before(shape, rotation) \in Shape
  BY <1>1, BeforeStep
<1>5. GroundsTurned'
  <2> SUFFICES ASSUME NEW k1 \in Tiles(to)
               PROVE  LET home == plan'[CellNr(to, k1)]
                          made == Before(to, rotation')
                      IN  /\ home \in Tiles(made)
                          /\ FromCentre(to, Centre(k1)) = TurnPoint(FromCentre(made, Centre(home)), rotation')
    BY <1>1 DEF GroundsTurned
  <2>1. PICK k \in Tiles(shape) : RotateTile(shape, k) = k1
    BY <1>3
  <2> DEFINE home == plan[CellNr(shape, k)]
             made == Before(shape, rotation)
             p == FromCentre(made, Centre(home))
  <2>2. plan'[CellNr(to, k1)] = home
    BY <1>1, <2>1, PlanTurns
  <2>3. home \in Tiles(made) /\ FromCentre(shape, Centre(k)) = TurnPoint(p, rotation)
    BY DEF WorldInv, GroundsTurned
  <2>4. Turnable(made) /\ made \in Shape
    BY <1>1, <1>4, RotatedShape DEF Before
  <2> HIDE DEF home, made
  <2>5. p \in Point
    BY <2>3, <2>4, CentrePoint
  <2>6. TurnPoint(p, rotation') = Turn(TurnPoint(p, rotation))
    BY <1>1, <2>5, TurnPointStep
  <2>7. FromCentre(to, Centre(k1)) = Turn(FromCentre(shape, Centre(k)))
    BY <1>1, <2>1, TilesTurn
  <2> QED BY <1>4, <2>2, <2>3, <2>6, <2>7 DEF made
<1>6. NothingBeside'
  BY <1>1, PlanTurns DEF NothingBeside
<1>7. hgts' \in [SlotNrs(shape') -> {0, 1}]
  BY <1>1, HeightsTurn
<1>8. ASSUME hill # NoHill
      PROVE  /\ turned \in 0..5 /\ (rotation' + 6 - hill.rotation) % 6 = (turned + 1) % 6
             /\ raised \in Point /\ hill.rotation \in 0..5 /\ hill.pos \in Tile
             /\ Before(to, (turned + 1) % 6) = Before(shape, turned)
  <2>1. hill.rotation \in 0..5 /\ hill.pos \in Tile /\ raised \in Point
    BY <1>8 DEF WorldInv, HillSound
  <2>2. turned \in 0..5 /\ (rotation' + 6 - hill.rotation) % 6 = (turned + 1) % 6
    <3>1. ASSUME NEW m \in 0..5, NEW n \in 0..5
          PROVE  /\ (m + 6 - n) % 6 \in 0..5
                 /\ (((m + 1) % 6) + 6 - n) % 6 = (((m + 6 - n) % 6) + 1) % 6
      OBVIOUS
    <3> QED BY <1>1, <2>1, <3>1
  <2> HIDE DEF turned, raised
  <2>3. Before(to, (turned + 1) % 6) = Before(shape, turned)
    BY <1>1, <2>2, BeforeStep
  <2> QED BY <2>1, <2>2, <2>3
<1>9. HillSound'
  BY <1>1, <1>8 DEF HillSound
<1>10. HeightsTurned'
  <2> SUFFICES ASSUME NEW k1 \in Tiles(to), NEW c1 \in Directions
               PROVE  hgts'[Slot(to, Vertex(k1, c1))] = 1 <=>
                        /\ hill # NoHill
                        /\ FromCentre(to, Pos(Vertex(k1, c1)))
                             = TurnPoint(FromCentre(Before(to, (rotation' + 6 - hill.rotation) % 6), hill.pos),
                                         (rotation' + 6 - hill.rotation) % 6)
    BY <1>1 DEF HeightsTurned
  <2>1. PICK k \in Tiles(shape) : RotateTile(shape, k) = k1
    BY <1>3
  <2>2. PICK c \in Directions : (c + 1) % 6 = c1
    <3>1. (c1 + 5) % 6 \in Directions /\ (((c1 + 5) % 6) + 1) % 6 = c1
      BY DEF Directions
    <3> QED BY <3>1
  <2>3. hgts'[Slot(to, Vertex(k1, c1))] = 1 <=> hgts[Slot(shape, Vertex(k, c))] = 1
    BY <1>1, <2>1, <2>2, HeightsTurn
  <2> DEFINE p == FromCentre(shape, Pos(Vertex(k, c)))
  <2>4. hgts[Slot(shape, Vertex(k, c))] = 1 <=> hill # NoHill /\ p = TurnPoint(raised, turned)
    BY DEF WorldInv, HeightsTurned
  <2>5. p \in Point /\ FromCentre(to, Pos(Vertex(k1, c1))) = Turn(p)
    BY <1>1, <2>1, <2>2, CornersTurn
  <2> HIDE DEF p
  <2>6. ASSUME hill # NoHill
        PROVE  Turn(p) = TurnPoint(raised, (turned + 1) % 6) <=> p = TurnPoint(raised, turned)
    <3>1. turned \in 0..5 /\ raised \in Point
      BY <1>8, <2>6
    <3> HIDE DEF turned, raised
    <3>2. TurnPoint(raised, turned) \in Point /\ TurnPoint(raised, (turned + 1) % 6) = Turn(TurnPoint(raised, turned))
      BY <3>1, TurnPointStep
    <3> QED BY <2>5, <3>2, TurnApart
  <2>7. ASSUME hill # NoHill
        PROVE  TurnPoint(FromCentre(Before(to, (rotation' + 6 - hill.rotation) % 6), hill.pos),
                         (rotation' + 6 - hill.rotation) % 6) = TurnPoint(raised, (turned + 1) % 6)
    BY <1>8, <2>7
  <2> HIDE DEF turned, raised
  <2> QED BY <2>3, <2>4, <2>5, <2>6, <2>7
<1> QED BY <1>1, <1>2, <1>5, <1>6, <1>7, <1>9, <1>10 DEF WorldInv, ShapeInv

(* For every size of map: however often karte_t::rotate90_step turns the world, each ground and the
   raised corner are where a turn of the plane about the map's centre puts them, no tile is lost or
   doubled, no cell off the map is filled and no other corner is raised, by any of its names. *)
THEOREM WorldIsRigid == ASSUME AllTurnable PROVE SurfaceSpec => []RigidWorld
<1>1. WorldInv /\ [SurfaceNext]_surfaceVars => WorldInv'
  <2> SUFFICES ASSUME WorldInv, [SurfaceNext]_surfaceVars PROVE WorldInv'
    OBVIOUS
  <2>1. CASE \E k \in Tiles(shape), c \in Directions : SetHeight(k, c)
    BY <2>1, RaiseKeeps
  <2>2. CASE RotateStep
    BY <2>2, StepKeeps
  <2>3. CASE UNCHANGED <<shape, rotation, plan, hgts, hill>>
    BY <2>3 DEF WorldInv, ShapeInv, HillSound, GroundsTurned, NothingBeside, HeightsTurned
  <2> QED BY <2>1, <2>2, <2>3 DEF SurfaceNext, Rotate90, surfaceVars
<1>2. WorldInv => RigidWorld
  BY DEF WorldInv, GroundsTurned, NothingBeside, HeightsTurned, RigidWorld
<1> QED BY <1>1, <1>2, WorldInit, PTL DEF SurfaceSpec

-----------------------------------------------------------------------------
(* The level crossing *)

(* The lists of the logic hold the vehicles on the crossing *)
ListsAgree == on_way1 = CarsOn /\ on_way2 = TrainsOn

(* One train at a time has the tile of a track *)
Alone == \A t, u \in Trains :
           Track[t] = Track[u] /\ train[t] # "away" /\ train[u] # "away" => t = u

(* All trains use one track, and nothing is built beside it for a train with permission *)
OneTrack == MayRebuild = FALSE /\ \A t, u \in Trains : Track[t] = Track[u]

GrantedIsSafe ==
  OneTrack => \A t \in Trains : train[t] \in {"granted", "on"} =>
                                  state = "closed" /\ on_way1 = {}

CrossingInv == /\ CrossingTypeOK /\ ListsAgree /\ Alone
        /\ RequesterMayPass /\ ClosedForTrain /\ GrantedIsSafe

-----------------------------------------------------------------------------

LEMMA InitInv ==
  ASSUME CrossingInit
  PROVE  CrossingInv
<1>1. CrossingTypeOK
  BY CrossingAssumption DEF CrossingInit, CrossingTypeOK
<1>2. ListsAgree
  BY DEF CrossingInit, ListsAgree, CarsOn, TrainsOn
<1>3. Alone /\ RequesterMayPass /\ ClosedForTrain
  BY DEF CrossingInit, Alone, RequesterMayPass, ClosedForTrain
<1>4. GrantedIsSafe
  BY DEF CrossingInit, GrantedIsSafe
<1> QED BY <1>1, <1>2, <1>3, <1>4 DEF CrossingInv

(* The vehicles on the crossing after a car or a train has moved *)
LEMMA CarMoves ==
  ASSUME CrossingTypeOK, NEW c \in Cars, NEW k \in 0..Tracks, tile' = [tile EXCEPT ![c] = k]
  PROVE  CarsOn' = IF k = 0 THEN CarsOn \ {c} ELSE CarsOn \cup {c}
BY DEF CrossingTypeOK, CarsOn

LEMMA TrainMoves ==
  ASSUME CrossingTypeOK, NEW t \in Trains, NEW has \in {"away", "reserved", "granted", "on"},
         train' = [train EXCEPT ![t] = has]
  PROVE  TrainsOn' = IF has = "on" THEN TrainsOn \cup {t} ELSE TrainsOn \ {t}
BY DEF CrossingTypeOK, TrainsOn

(* A car on the crossing needs the crossing to be open, or to be on it *)
LEMMA CarInv ==
  ASSUME CrossingInv, NEW c \in Cars, CarEnter(c) \/ CarAdvance(c) \/ CarLeave(c)
  PROVE  CrossingInv'
<1>1. Tracks \in Nat \ {0}
  BY CrossingAssumption
<1>2. UNCHANGED <<request_close, on_way2, train>>
  BY DEF CarEnter, CarAdvance, CarLeave
<1>3. \/ /\ tile' = [tile EXCEPT ![c] = 1] /\ on_way1' = on_way1 \cup {c}
         /\ state' = state /\ (state = "open" \/ c \in on_way1)
      \/ /\ tile' = [tile EXCEPT ![c] = tile[c] + 1] /\ tile[c] \in 1..(Tracks - 1)
         /\ on_way1' = on_way1 \cup {c}
         /\ state' = IF state = "request" /\ on_way1 \subseteq {c} THEN "closed" ELSE state
      \/ /\ tile' = [tile EXCEPT ![c] = 0] /\ on_way1' = on_way1 \ {c}
         /\ state' = IF state = "request" /\ on_way1 \subseteq {c} THEN "closed" ELSE state
  BY DEF CarEnter, CarAdvance, CarLeave, MayCross, AddCar, ReleaseCar
<1>4. \E k \in 0..Tracks : /\ tile' = [tile EXCEPT ![c] = k]
                           /\ on_way1' = IF k = 0 THEN on_way1 \ {c} ELSE on_way1 \cup {c}
                           /\ k # 0 => state = "open" \/ c \in on_way1
  <2>1. CASE CarAdvance(c)
    <3>1. tile[c] + 1 \in 0..Tracks /\ tile[c] + 1 # 0
      BY <1>1, <2>1 DEF CarAdvance
    <3>2. c \in on_way1
      BY <2>1 DEF CrossingInv, ListsAgree, CarsOn, CarAdvance
    <3> QED BY <2>1, <3>1, <3>2 DEF CarAdvance
  <2>2. CASE CarEnter(c)
    <3>1. 1 \in 0..Tracks
      BY <1>1
    <3>2. tile' = [tile EXCEPT ![c] = 1] /\ on_way1' = on_way1 \cup {c}
      BY <2>2 DEF CarEnter, AddCar
    <3>3. state = "open" \/ c \in on_way1
      BY <2>2 DEF CarEnter, MayCross
    <3>4. 1 # 0
      OBVIOUS
    <3> QED BY <3>1, <3>2, <3>3, <3>4
  <2>3. CASE CarLeave(c)
    <3>1. 0 \in 0..Tracks
      BY <1>1
    <3> QED BY <2>3, <3>1 DEF CarLeave, ReleaseCar
  <2> QED BY <2>1, <2>2, <2>3
<1>5. PICK k \in 0..Tracks : /\ tile' = [tile EXCEPT ![c] = k]
                             /\ on_way1' = IF k = 0 THEN on_way1 \ {c} ELSE on_way1 \cup {c}
                             /\ k # 0 => state = "open" \/ c \in on_way1
  BY <1>4
<1>6. CarsOn' = IF k = 0 THEN CarsOn \ {c} ELSE CarsOn \cup {c}
  BY <1>5, CarMoves DEF CrossingInv
<1>7. /\ state \in {"open", "request", "closed"} /\ state' \in {"open", "request", "closed"}
      /\ state = "open" <=> state' = "open"
      /\ state = "closed" => state' = "closed"
  BY <1>3 DEF CrossingInv, CrossingTypeOK
<1>8. CrossingTypeOK'
  BY <1>2, <1>5, <1>7 DEF CrossingInv, CrossingTypeOK
<1>9. ListsAgree'
  BY <1>2, <1>5, <1>6 DEF CrossingInv, ListsAgree, TrainsOn
<1>10. state = "closed" /\ on_way1 = {} => state' = "closed" /\ on_way1' = {}
  BY <1>5, <1>7
<1>11. RequesterMayPass'
  BY <1>2, <1>9, <1>10 DEF CrossingInv, RequesterMayPass, ListsAgree
<1>12. Alone' /\ ClosedForTrain'
  BY <1>2, <1>7 DEF CrossingInv, Alone, ClosedForTrain
<1>13. GrantedIsSafe'
  BY <1>2, <1>10 DEF CrossingInv, GrantedIsSafe, OneTrack
<1> QED BY <1>8, <1>9, <1>11, <1>12, <1>13 DEF CrossingInv

LEMMA ReserveBlockInv ==
  ASSUME CrossingInv, NEW t \in Trains, ReserveBlock(t)
  PROVE  CrossingInv'
<1>1. /\ train[t] = "away" /\ train' = [train EXCEPT ![t] = "reserved"]
      /\ \A u \in Trains : Track[u] = Track[t] => train[u] = "away"
      /\ UNCHANGED <<state, request_close, on_way1, on_way2, tile>>
  BY DEF ReserveBlock
<1>2. train'[t] = "reserved" /\ \A u \in Trains \ {t} : train'[u] = train[u]
  BY <1>1 DEF CrossingInv, CrossingTypeOK
<1>3. CrossingTypeOK'
  BY <1>1 DEF CrossingInv, CrossingTypeOK
<1>4. TrainsOn' = TrainsOn \ {t} /\ CarsOn' = CarsOn
  BY <1>1, TrainMoves DEF CrossingInv, CarsOn
<1>5. ListsAgree'
  BY <1>1, <1>4 DEF CrossingInv, ListsAgree, TrainsOn
<1>6. Alone'
  BY <1>1, <1>2 DEF CrossingInv, Alone
<1>7. RequesterMayPass'
  BY <1>1, <1>2, <1>4 DEF CrossingInv, CrossingTypeOK, RequesterMayPass
<1>8. ClosedForTrain'
  BY <1>2 DEF ClosedForTrain
<1>9. GrantedIsSafe'
  BY <1>1, <1>2 DEF CrossingInv, GrantedIsSafe, OneTrack
<1> QED BY <1>3, <1>5, <1>6, <1>7, <1>8, <1>9 DEF CrossingInv

LEMMA TrainRequestInv ==
  ASSUME CrossingInv, NEW t \in Trains, TrainRequest(t)
  PROVE  CrossingInv'
<1>1. train[t] = "reserved" /\ UNCHANGED <<on_way1, on_way2, tile>>
  BY DEF TrainRequest
<1>2. CASE on_way1 # {} /\ state' = "request" /\ UNCHANGED <<request_close, train>>
  <2>1. CrossingTypeOK' /\ ListsAgree' /\ Alone'
    BY <1>1, <1>2 DEF CrossingInv, CrossingTypeOK, ListsAgree, Alone, CarsOn, TrainsOn
  <2>2. request_close = NoVehicle
    BY <1>2 DEF CrossingInv, RequesterMayPass, ListsAgree
  <2>3. RequesterMayPass' /\ ClosedForTrain'
    BY <1>1, <1>2, <2>2 DEF RequesterMayPass, ClosedForTrain
  <2>4. GrantedIsSafe'
    BY <1>2 DEF CrossingInv, GrantedIsSafe, OneTrack
  <2> QED BY <2>1, <2>3, <2>4 DEF CrossingInv
<1>3. CASE /\ on_way1 = {} /\ request_close' = t /\ state' = "closed"
           /\ train' = [train EXCEPT ![t] = "granted"]
  <2>1. train'[t] = "granted" /\ \A u \in Trains \ {t} : train'[u] = train[u]
    BY <1>3 DEF CrossingInv, CrossingTypeOK
  <2>2. CrossingTypeOK'
    BY <1>1, <1>3 DEF CrossingInv, CrossingTypeOK
  <2>3. TrainsOn' = TrainsOn \ {t} /\ CarsOn' = CarsOn
    BY <1>1, <1>3, TrainMoves DEF CrossingInv, CarsOn
  <2>4. ListsAgree'
    BY <1>1, <2>3 DEF CrossingInv, ListsAgree, TrainsOn
  <2>5. Alone'
    BY <1>1, <2>1 DEF CrossingInv, Alone
  <2>6. RequesterMayPass'
    BY <1>1, <1>3, <2>1, <2>4 DEF RequesterMayPass, ListsAgree
  <2>7. ClosedForTrain'
    BY <2>1 DEF ClosedForTrain
  <2>8. GrantedIsSafe'
    BY <1>1, <1>3 DEF GrantedIsSafe
  <2> QED BY <2>2, <2>4, <2>5, <2>6, <2>7, <2>8 DEF CrossingInv
<1> QED BY <1>2, <1>3 DEF TrainRequest, RequestCrossing

LEMMA TrainEnterInv ==
  ASSUME CrossingInv, NEW t \in Trains, TrainEnter(t)
  PROVE  CrossingInv'
<1>1. /\ train[t] = "granted" /\ train' = [train EXCEPT ![t] = "on"]
      /\ on_way2' = on_way2 \cup {t} /\ state' = "closed"
      /\ request_close' = IF request_close = t THEN NoVehicle ELSE request_close
      /\ UNCHANGED <<on_way1, tile>>
  BY DEF TrainEnter, AddTrain
<1>2. train'[t] = "on" /\ \A u \in Trains \ {t} : train'[u] = train[u]
  BY <1>1 DEF CrossingInv, CrossingTypeOK
<1>3. CrossingTypeOK'
  BY <1>1 DEF CrossingInv, CrossingTypeOK
<1>4. TrainsOn' = TrainsOn \cup {t} /\ CarsOn' = CarsOn
  BY <1>1, TrainMoves DEF CrossingInv, CarsOn
<1>5. ListsAgree'
  BY <1>1, <1>4 DEF CrossingInv, ListsAgree
<1>6. Alone'
  BY <1>1, <1>2 DEF CrossingInv, Alone
<1>7. RequesterMayPass'
  BY <1>1, <1>2, <1>4 DEF CrossingInv, CrossingTypeOK, RequesterMayPass
<1>8. ClosedForTrain'
  BY <1>2 DEF ClosedForTrain
<1>9. GrantedIsSafe'
  BY <1>1, <1>2 DEF CrossingInv, GrantedIsSafe, OneTrack
<1> QED BY <1>3, <1>5, <1>6, <1>7, <1>8, <1>9 DEF CrossingInv

(* The crossing opens unless another train is on it or was the last to ask *)
LEMMA ReleaseInv ==
  ASSUME CrossingInv, NEW t \in Trains, TrainLeave(t) \/ Unreserve(t)
  PROVE  CrossingInv'
<1>1. /\ train[t] # "away" /\ train' = [train EXCEPT ![t] = "away"]
      /\ on_way2' = on_way2 \ {t}
      /\ request_close' = IF request_close = t THEN NoVehicle ELSE request_close
      /\ state' = IF on_way2 \subseteq {t} /\ request_close \in {t, NoVehicle}
                  THEN "open" ELSE state
      /\ UNCHANGED <<on_way1, tile>>
  BY DEF TrainLeave, Unreserve, ReleaseTrain
<1>2. train'[t] = "away" /\ \A u \in Trains \ {t} : train'[u] = train[u]
  BY <1>1 DEF CrossingInv, CrossingTypeOK
<1>3. CrossingTypeOK'
  BY <1>1 DEF CrossingInv, CrossingTypeOK
<1>4. TrainsOn' = TrainsOn \ {t} /\ CarsOn' = CarsOn
  BY <1>1, TrainMoves DEF CrossingInv, CarsOn
<1>5. ListsAgree'
  BY <1>1, <1>4 DEF CrossingInv, ListsAgree
<1>6. Alone'
  BY <1>2 DEF CrossingInv, Alone
<1>7. RequesterMayPass'
  <2> SUFFICES ASSUME request_close' # NoVehicle
               PROVE  state' = "closed" /\ CarsOn' = {} /\ train'[request_close'] = "granted"
    BY DEF RequesterMayPass
  <2>1. request_close' = request_close /\ request_close \notin {t, NoVehicle}
    BY <1>1
  <2>2. request_close \in Trains \ {t}
    BY <2>1 DEF CrossingInv, CrossingTypeOK
  <2> QED BY <1>1, <1>2, <1>4, <2>1, <2>2 DEF CrossingInv, RequesterMayPass
<1>8. ClosedForTrain'
  <2> SUFFICES ASSUME state' # "open" PROVE \E u \in Trains : train'[u] # "away"
    BY DEF ClosedForTrain
  <2>1. CASE \E u \in on_way2 : u # t
    BY <1>2, <2>1 DEF CrossingInv, ListsAgree, TrainsOn
  <2>2. CASE request_close \notin {t, NoVehicle}
    <3>1. request_close \in Trains \ {t} /\ train[request_close] = "granted"
      BY <2>2 DEF CrossingInv, CrossingTypeOK, RequesterMayPass
    <3> QED BY <1>2, <3>1
  <2> QED BY <1>1, <2>1, <2>2
<1>9. GrantedIsSafe'
  <2> SUFFICES ASSUME OneTrack, NEW u \in Trains, train'[u] \in {"granted", "on"}
               PROVE  FALSE
    BY DEF GrantedIsSafe, OneTrack
  <2>1. u # t /\ train[u] # "away"
    BY <1>2
  <2> QED BY <1>1, <2>1 DEF CrossingInv, Alone, OneTrack
<1> QED BY <1>3, <1>5, <1>6, <1>7, <1>8, <1>9 DEF CrossingInv

LEMMA LoadInv ==
  ASSUME CrossingInv, LoadCrossing \/ Rebuild
  PROVE  CrossingInv'
<1>1. /\ on_way1' = CarsOn /\ on_way2' = TrainsOn /\ request_close' = NoVehicle
      /\ UNCHANGED <<tile, train>>
      /\ \/ state' = IF TrainsOn = {} THEN state ELSE "closed"
         \/ /\ MayRebuild \/ \A t \in Trains : train[t] # "granted"
            /\ state' = IF TrainsOn = {} THEN "open" ELSE "closed"
  BY DEF LoadCrossing, Rebuild
<1>2. CarsOn' = CarsOn /\ TrainsOn' = TrainsOn
  BY <1>1 DEF CarsOn, TrainsOn
<1>3. CrossingTypeOK'
  BY <1>1 DEF CrossingInv, CrossingTypeOK, CarsOn, TrainsOn
<1>4. ListsAgree' /\ Alone'
  BY <1>1, <1>2 DEF CrossingInv, ListsAgree, Alone
<1>5. RequesterMayPass'
  BY <1>1 DEF RequesterMayPass
<1>6. ClosedForTrain'
  BY <1>1 DEF CrossingInv, ClosedForTrain, TrainsOn
<1>7. GrantedIsSafe'
  <2> SUFFICES ASSUME OneTrack, NEW t \in Trains, train'[t] \in {"granted", "on"}
               PROVE  state' = "closed" /\ on_way1' = {}
    BY DEF GrantedIsSafe, OneTrack
  <2>1. state = "closed" /\ on_way1 = {} /\ on_way1' = on_way1
    BY <1>1 DEF CrossingInv, GrantedIsSafe, ListsAgree
  <2>2. CASE train[t] = "on"
    BY <1>1, <2>1, <2>2 DEF TrainsOn
  <2>3. CASE train[t] = "granted"
    BY <1>1, <2>1, <2>3 DEF OneTrack
  <2> QED BY <1>1, <2>1, <2>2, <2>3
<1> QED BY <1>3, <1>4, <1>5, <1>6, <1>7 DEF CrossingInv

LEMMA NextInv ==
  ASSUME CrossingInv, [CrossingNext]_crossingVars
  PROVE  CrossingInv'
<1>1. CASE UNCHANGED crossingVars
  BY <1>1 DEF crossingVars, CrossingInv, CrossingTypeOK, ListsAgree, Alone, RequesterMayPass, ClosedForTrain,
              GrantedIsSafe, OneTrack, CarsOn, TrainsOn
<1>2. CASE LoadCrossing \/ Rebuild
  BY <1>2, LoadInv
<1>3. CASE \E c \in Cars : CarEnter(c) \/ CarAdvance(c) \/ CarLeave(c)
  BY <1>3, CarInv
<1>4. CASE \E t \in Trains : \/ ReserveBlock(t) \/ TrainRequest(t) \/ TrainEnter(t)
                             \/ TrainLeave(t) \/ Unreserve(t)
  BY <1>4, ReserveBlockInv, TrainRequestInv, TrainEnterInv, ReleaseInv
<1> QED BY <1>1, <1>2, <1>3, <1>4 DEF CrossingNext

(* The inductive invariant holds in every behavior of the crossing *)
THEOREM Invariance == CrossingSpec => []CrossingInv
<1>1. CrossingInit => CrossingInv
  BY InitInv
<1>2. CrossingInv /\ [CrossingNext]_crossingVars => CrossingInv'
  BY NextInv
<1> QED BY <1>1, <1>2, PTL DEF CrossingSpec

-----------------------------------------------------------------------------

(* The state, the lists and the positions keep their types *)
THEOREM CrossingTypes == CrossingSpec => []CrossingTypeOK
BY Invariance, PTL DEF CrossingInv

(* The vehicle that requested last finds the crossing closed and empty, for  *)
(* any number of tracks                                                      *)
THEOREM RequesterPasses == CrossingSpec => []RequesterMayPass
BY Invariance, PTL DEF CrossingInv

(* A crossing that is not open is so for a train on its way or on it         *)
THEOREM NotClosedForNothing == CrossingSpec => []ClosedForTrain
BY Invariance, PTL DEF CrossingInv

(* With a single track, and nothing built meanwhile, cars and trains are     *)
(* never on the crossing together: request_crossing keeps its promise        *)
THEOREM WaysExclude ==
  ASSUME OneTrack
  PROVE  CrossingSpec => []Exclusive
<1>1. CrossingInv => Exclusive
  BY DEF CrossingInv, GrantedIsSafe, ListsAgree, Exclusive, TrainsOn
<1> QED BY <1>1, Invariance, PTL

-----------------------------------------------------------------------------
(* Sums, greatest and least elements: what the library's operators yield *)

(* Induction over the numbers, without an operator as a parameter *)
LEMMA Inductive ==
  ASSUME NEW P, 0 \in P, \A n \in Nat : n \in P => n + 1 \in P
  PROVE  \A n \in Nat : n \in P
<1> SUFFICES ASSUME NEW n \in Nat, n \notin P PROVE FALSE
  OBVIOUS
<1> DEFINE S == {m \in 0..n : m \notin P}
           f == [m \in S |-> m - 1]
<1>1. IsFiniteSet(S)
  <2>1. IsFiniteSet(0..n)
    BY FS_Interval
  <2> QED BY <2>1, FS_Subset
<1>2. f \in [S -> S]
  <2> SUFFICES ASSUME NEW m \in S PROVE m - 1 \in S
    OBVIOUS
  <2>1. m # 0 /\ m - 1 \in 0..n
    OBVIOUS
  <2>2. m - 1 \in P => (m - 1) + 1 \in P
    BY <2>1
  <2> QED BY <2>1, <2>2
<1>3. f \in Injection(S, S)
  BY <1>2 DEF Injection, IsInjective
<1>4. f \in Surjection(S, S)
  BY <1>1, <1>3, FS_Injection
<1>5. n \in S
  OBVIOUS
<1>6. PICK m \in S : f[m] = n
  BY <1>4, <1>5 DEF Surjection
<1> QED BY <1>6

(* What the library means by a sum: values are taken away one by one *)
Taken(f, g, s) == IF s = {} THEN 0 ELSE LET x == CHOOSE y \in s : TRUE IN f[x] + g[s \ {x}]

LEMMA SumIsTaken ==
  ASSUME NEW f, NEW S
  PROVE  SumFunctionOnSet(f, S) = (CHOOSE g : g = [s \in SUBSET S |-> Taken(f, g, s)])[S]
BY DEF SumFunctionOnSet, FoldFunctionOnSet, MapThenFoldSet, Taken

LEMMA OneLess ==
  ASSUME NEW S, IsFiniteSet(S), NEW s \in SUBSET S, s # {}, NEW n \in Nat, Cardinality(s) <= n + 1
  PROVE  LET x == CHOOSE y \in s : TRUE IN
         x \in s /\ s \ {x} \in SUBSET S /\ Cardinality(s \ {x}) <= n
<1>1. IsFiniteSet(s) /\ Cardinality(s) \in Nat
  BY FS_Subset, FS_CardinalityType
<1> DEFINE x == CHOOSE y \in s : TRUE
<1>2. x \in s
  OBVIOUS
<1> HIDE DEF x
<1>3. Cardinality(s \ {x}) = Cardinality(s) - 1
  BY <1>1, <1>2, FS_RemoveElement
<1> QED BY <1>1, <1>2, <1>3 DEF x

(* A sum of natural numbers is one *)
LEMMA SumType ==
  ASSUME NEW S, IsFiniteSet(S), NEW f, \A x \in S : f[x] \in Nat
  PROVE  SumFunctionOnSet(f, S) \in Nat
<1> DEFINE D(n) == {s \in SUBSET S : Cardinality(s) <= n}
           P == {n \in Nat : \E g \in [D(n) -> Nat] : \A s \in D(n) : g[s] = Taken(f, g, s)}
<1>0. \A s \in SUBSET S : IsFiniteSet(s) /\ Cardinality(s) \in Nat /\ Cardinality(s) <= Cardinality(S)
  BY FS_Subset, FS_CardinalityType
<1>1. D(0) = {{}}
  BY <1>0, FS_EmptySet
<1>2. 0 \in P
  <2> DEFINE g == [s \in D(0) |-> 0]
  <2>1. g \in [D(0) -> Nat] /\ \A s \in D(0) : g[s] = Taken(f, g, s)
    BY <1>1 DEF Taken
  <2> QED BY <2>1
<1>3. ASSUME NEW n \in Nat, n \in P PROVE n + 1 \in P
  <2>1. PICK g \in [D(n) -> Nat] : \A s \in D(n) : g[s] = Taken(f, g, s)
    BY <1>3
  <2>2. D(n) \subseteq D(n + 1)
    BY <1>0
  <2>3. ASSUME NEW s \in D(n + 1) PROVE Taken(f, g, s) \in Nat
    <3>1. CASE s = {}
      BY <3>1 DEF Taken
    <3>2. CASE s # {}
      <4> DEFINE x == CHOOSE y \in s : TRUE
      <4>1. x \in s /\ s \ {x} \in D(n)
        BY <2>3, <3>2, OneLess
      <4> HIDE DEF D
      <4>2. g[s \ {x}] \in Nat /\ f[x] \in Nat
        BY <2>1, <4>1 DEF D
      <4> QED BY <3>2, <4>2 DEF Taken
    <3> QED BY <3>1, <3>2
  <2> DEFINE h == [s \in D(n + 1) |-> Taken(f, g, s)]
  <2>4. h \in [D(n + 1) -> Nat]
    BY <2>3
  <2>5. \A s \in D(n) : h[s] = g[s]
    BY <2>1, <2>2
  <2>6. ASSUME NEW s \in D(n + 1) PROVE h[s] = Taken(f, h, s)
    <3>1. CASE s = {}
      BY <3>1 DEF Taken
    <3>2. CASE s # {}
      <4> DEFINE x == CHOOSE y \in s : TRUE
      <4>1. x \in s /\ s \ {x} \in D(n)
        BY <2>6, <3>2, OneLess
      <4>2. h[s] = f[x] + g[s \ {x}]
        BY <3>2 DEF Taken
      <4> HIDE DEF D, h
      <4>3. h[s \ {x}] = g[s \ {x}]
        BY <2>5, <4>1
      <4> QED BY <3>2, <4>2, <4>3 DEF Taken
    <3> QED BY <3>1, <3>2
  <2> HIDE DEF h, D
  <2> QED BY <2>4, <2>6
<1> HIDE DEF P
<1>4. Cardinality(S) \in P
  <2>1. \A n \in Nat : n \in P
    BY <1>2, <1>3, Inductive
  <2> QED BY <2>1, FS_CardinalityType
<1>5. \E g : g = [s \in SUBSET S |-> Taken(f, g, s)]
  <2>1. D(Cardinality(S)) = SUBSET S
    BY <1>0
  <2> HIDE DEF D
  <2>2. PICK g \in [SUBSET S -> Nat] : \A s \in SUBSET S : g[s] = Taken(f, g, s)
    BY <1>4, <2>1 DEF P
  <2>3. g = [s \in SUBSET S |-> Taken(f, g, s)]
    BY <2>2
  <2> QED BY <2>3
<1> DEFINE h == CHOOSE g : g = [s \in SUBSET S |-> Taken(f, g, s)]
           Q == {n \in Nat : \A s \in D(n) : h[s] \in Nat}
<1>6. \A s \in SUBSET S : h[s] = Taken(f, h, s)
  <2>1. h = [s \in SUBSET S |-> Taken(f, h, s)]
    BY <1>5
  <2> HIDE DEF h
  <2> QED BY <2>1
<1> HIDE DEF h
<1> DEFINE rest(s) == s \ {CHOOSE y \in s : TRUE}
<1>c. h[{}] = 0
  <2>1. h[{}] = Taken(f, h, {})
    BY <1>6
  <2> QED BY <2>1 DEF Taken
<1>d. \A s \in SUBSET S : s # {} => h[s] = f[CHOOSE y \in s : TRUE] + h[rest(s)]
  BY <1>6 DEF Taken
<1>7. 0 \in Q
  BY <1>1, <1>c
<1>8. ASSUME NEW n \in Nat, n \in Q PROVE n + 1 \in Q
  <2> SUFFICES ASSUME NEW s \in D(n + 1) PROVE h[s] \in Nat
    OBVIOUS
  <2>1. CASE s = {}
    BY <2>1, <1>c
  <2>2. CASE s # {}
    <3> DEFINE x == CHOOSE y \in s : TRUE
    <3>1. x \in s /\ s \ {x} \in D(n)
      BY <2>2, OneLess
    <3>2. h[s \ {x}] \in Nat /\ f[x] \in Nat
      BY <1>8, <3>1
    <3>3. h[s] = f[x] + h[s \ {x}]
      BY <1>d, <2>2
    <3> HIDE DEF x
    <3> QED BY <3>2, <3>3
  <2> QED BY <2>1, <2>2
<1>9. h[S] \in Nat
  <2> HIDE DEF Q
  <2>1. \A n \in Nat : n \in Q
    BY <1>7, <1>8, Inductive
  <2>2. S \in D(Cardinality(S))
    BY <1>0
  <2> QED BY <2>1, <2>2, FS_CardinalityType DEF Q
<1> QED BY <1>9, SumIsTaken DEF h

(* A finite set of integers has a greatest and a least element *)
LEMMA GreatestLeast ==
  ASSUME NEW S \in SUBSET Int, IsFiniteSet(S), S # {}
  PROVE  /\ Max(S) \in S /\ \A y \in S : y <= Max(S)
         /\ Min(S) \in S /\ \A y \in S : Min(S) <= y
<1> DEFINE Ends(T) == (\E x \in T : \A y \in T : x >= y) /\ (\E x \in T : \A y \in T : x <= y)
           P == {n \in Nat : \A T \in SUBSET S : Cardinality(T) = n /\ T # {} => Ends(T)}
<1>0. \A T \in SUBSET S : IsFiniteSet(T) /\ Cardinality(T) \in Nat
  BY FS_Subset, FS_CardinalityType
<1>1. 0 \in P
  BY <1>0, FS_EmptySet
<1>2. ASSUME NEW n \in Nat, n \in P PROVE n + 1 \in P
  <2> SUFFICES ASSUME NEW T \in SUBSET S, Cardinality(T) = n + 1, T # {} PROVE Ends(T)
    OBVIOUS
  <2>1. PICK x \in T : TRUE
    OBVIOUS
  <2> DEFINE U == T \ {x}
  <2>2. Cardinality(U) = n /\ U \in SUBSET S
    <3>1. IsFiniteSet(T)
      BY <1>0
    <3>2. Cardinality(T \ {x}) = Cardinality(T) - 1
      BY <2>1, <3>1, FS_RemoveElement
    <3> QED BY <3>2
  <2>3. CASE U = {}
    <3>1. \A y \in T : y = x
      BY <2>3
    <3>2. x \in Int
      OBVIOUS
    <3> QED BY <3>1, <3>2
  <2>4. CASE U # {}
    <3>1. Ends(U)
      BY <1>2, <2>2, <2>4
    <3>2. PICK a \in U : \A y \in U : a >= y
      BY <3>1
    <3>3. PICK b \in U : \A y \in U : b <= y
      BY <3>1
    <3>4. x \in Int /\ a \in Int /\ b \in Int /\ a \in T /\ b \in T /\ \A y \in T : y \in Int /\ (y = x \/ y \in U)
      OBVIOUS
    <3>5. \E z \in T : \A y \in T : z >= y
      <4>1. CASE a >= x
        BY <3>2, <3>4, <4>1
      <4>2. CASE ~(a >= x)
        <5>1. \A y \in T : x >= y
          BY <3>2, <3>4, <4>2
        <5> QED BY <5>1
      <4> QED BY <4>1, <4>2
    <3>6. \E z \in T : \A y \in T : z <= y
      <4>1. CASE b <= x
        BY <3>3, <3>4, <4>1
      <4>2. CASE ~(b <= x)
        <5>1. \A y \in T : x <= y
          BY <3>3, <3>4, <4>2
        <5> QED BY <5>1
      <4> QED BY <4>1, <4>2
    <3> QED BY <3>5, <3>6
  <2> QED BY <2>3, <2>4
<1> HIDE DEF P
<1>3. Cardinality(S) \in P
  <2>1. \A n \in Nat : n \in P
    BY <1>1, <1>2, Inductive
  <2> QED BY <2>1, FS_CardinalityType
<1>4. Ends(S)
  BY <1>3 DEF P
<1> QED BY <1>4 DEF Max, Min

LEMMA OfTwo ==
  ASSUME NEW a \in Int, NEW b \in Int
  PROVE  /\ Max({a, b}) = IF a >= b THEN a ELSE b
         /\ Min({a, b}) = IF a <= b THEN a ELSE b
BY DEF Max, Min

LEMMA LeastOfTwo ==
  ASSUME NEW a \in Nat, NEW b \in Nat
  PROVE  Min({a, b}) \in Nat /\ Min({a, b}) <= a /\ Min({a, b}) <= b /\ Max({a, b}) \in Nat
<1>1. a \in Int /\ b \in Int
  OBVIOUS
<1> QED BY <1>1, OfTwo

(* The values of a function of a finite set are finitely many *)
LEMMA FiniteRange ==
  ASSUME NEW S, IsFiniteSet(S), S # {}, NEW f \in [S -> Int]
  PROVE  /\ Range(f) \in SUBSET Int /\ IsFiniteSet(Range(f)) /\ Range(f) # {}
         /\ \A x \in S : f[x] \in Range(f)
         /\ \A y \in Range(f) : \E x \in S : f[x] = y
<1>1. Range(f) = {f[x] : x \in S}
  BY DEF Range
<1>2. f \in Surjection(S, Range(f))
  BY <1>1 DEF Surjection
<1>3. IsFiniteSet(Range(f))
  BY <1>2, FS_Surjection
<1> QED BY <1>1, <1>3

-----------------------------------------------------------------------------
(* Conversions, rates and capacities *)

LEMMA DivFacts ==
  ASSUME NEW a \in Int, NEW n \in Nat \ {0}
  PROVE  /\ a \div n \in Int
         /\ \A b \in Int : a <= b => a \div n <= b \div n
         /\ \A m \in Int : a <= n * m + n - 1 => a \div n <= m
         /\ \A m \in Int : n * m <= a => m <= a \div n
<1>1. \A b \in Int : a <= b => a \div n <= b \div n
  OBVIOUS
<1>2. \A m \in Int : a <= n * m + n - 1 => a \div n <= m
  OBVIOUS
<1>3. \A m \in Int : n * m <= a => m <= a \div n
  OBVIOUS
<1> QED BY <1>1, <1>2, <1>3

LEMMA Times ==
  ASSUME NEW n \in Nat, NEW a \in Int, NEW b \in Int, a <= b
  PROVE  n * a <= n * b /\ a * n <= b * n /\ n * a \in Int /\ a * n \in Int /\ (a \in Nat => a * n \in Nat /\ n * a \in Nat)
OBVIOUS

LEMMA UnitsFacts ==
  ASSUME NEW g \in Nat
  PROVE  /\ Units(g) \in Nat /\ (g > 0 => Units(g) > 0) /\ (g = 0 => Units(g) = 0)
         /\ \A h \in Nat : g <= h => Units(g) <= Units(h)
<1> DEFINE a == g * Scale + Factor - 1
<1>1. Scale \in Nat \ {0} /\ Factor \in Nat \ {0}
  BY PositiveAssumption
<1>2. g * Scale \in Nat /\ a \in Int /\ (g > 0 => g * Scale >= 1) /\ (g = 0 => g * Scale = 0)
  <2>1. g * Scale \in Nat /\ (g = 0 => g * Scale = 0)
    BY <1>1
  <2>2. ASSUME g > 0 PROVE g * Scale >= 1
    <3>1. 1 * Scale <= g * Scale
      BY <1>1, <2>2, Times
    <3> QED BY <1>1, <3>1
  <2> QED BY <1>1, <2>1, <2>2
<1>3. Units(g) = a \div Factor
  BY DEF Units
<1>4. a >= Factor * 0
  BY <1>1, <1>2
<1>5. a \div Factor >= 0 /\ a \div Factor \in Int
  BY <1>1, <1>2, <1>4, DivFacts
<1>6. ASSUME g > 0 PROVE a \div Factor >= 1
  <2>1. Factor * 1 <= a
    BY <1>1, <1>2, <1>6
  <2> HIDE DEF a
  <2> QED BY <1>1, <1>2, <2>1, DivFacts
<1>7. ASSUME g = 0 PROVE a \div Factor <= 0
  <2>1. a <= Factor * 0 + Factor - 1
    BY <1>1, <1>2, <1>7
  <2> HIDE DEF a
  <2> QED BY <1>1, <1>2, <2>1, DivFacts
<1>8. ASSUME NEW h \in Nat, g <= h PROVE Units(g) <= Units(h)
  <2> DEFINE b == h * Scale + Factor - 1
  <2>1. a <= b /\ b \in Int
    <3>1. g * Scale <= h * Scale /\ h * Scale \in Int
      BY <1>1, <1>8, Times
    <3> QED BY <1>1, <1>2, <3>1
  <2>2. Units(h) = b \div Factor
    BY DEF Units
  <2> HIDE DEF a, b
  <2> QED BY <1>1, <1>2, <1>3, <2>1, <2>2, DivFacts
<1> QED BY <1>3, <1>5, <1>6, <1>7, <1>8

(* Rounding goods down and their units up takes no more than there is *)
LEMMA GoodsFacts ==
  ASSUME NEW u \in Nat
  PROVE  Goods(u) \in Nat /\ \A s \in 0..Goods(u) : Units(s) <= u /\ Units(s) \in Nat
<1>1. Scale \in Nat \ {0} /\ Factor \in Nat \ {0} /\ u * Factor \in Nat
  BY PositiveAssumption
<1>2. Goods(u) \in Nat /\ Goods(u) * Scale <= u * Factor
  <2> DEFINE a == u * Factor
  <2>1. a \in Nat
    BY <1>1
  <2> HIDE DEF a
  <2>2. a \div Scale \in Nat /\ Scale * (a \div Scale) <= a
    BY <1>1, <2>1
  <2>3. Goods(u) = a \div Scale
    BY DEF Goods, a
  <2>4. Goods(u) * Scale = Scale * Goods(u)
    BY <1>1, <2>2, <2>3
  <2> QED BY <2>2, <2>3, <2>4 DEF a
<1>3. ASSUME NEW s \in 0..Goods(u) PROVE Units(s) <= u /\ Units(s) \in Nat
  <2> DEFINE b == s * Scale + Factor - 1
  <2>1. s \in Nat /\ s <= Goods(u)
    BY <1>2
  <2>2. s * Scale <= Goods(u) * Scale /\ s * Scale \in Nat /\ Goods(u) * Scale \in Nat
    BY <1>1, <1>2, <2>1, Times
  <2>3. b <= Factor * u + Factor - 1 /\ b \in Int
    BY <1>1, <1>2, <2>2
  <2>4. Units(s) = b \div Factor
    BY DEF Units
  <2> HIDE DEF b
  <2>5. b \div Factor <= u
    BY <1>1, <2>3, DivFacts
  <2> QED BY <2>1, <2>4, <2>5, UnitsFacts
<1> QED BY <1>2, <1>3

LEMMA Capacities ==
  ASSUME NEW p \in Bases
  PROVE  /\ InMax(p) \in Nat \ {0} /\ OutMax(p) \in Nat \ {0} /\ MinShipment(p) \in Nat
         /\ \A q \in Bases : p <= q => InMax(p) <= InMax(q) /\ OutMax(p) <= OutMax(q)
<1>1. InCapacity \in Nat \ {0} /\ OutCapacity \in Nat \ {0} /\ p \in Nat \ {0}
      /\ ShipmentMax \in Nat \ {0} /\ ShipmentMin \in Nat \ {0}
  BY PositiveAssumption, FactoryAssumption
<1>2. InCapacity * p \in Nat /\ OutCapacity * p \in Nat /\ InCapacity * p > 0 /\ OutCapacity * p > 0
  <2>1. InCapacity * 1 <= InCapacity * p /\ OutCapacity * 1 <= OutCapacity * p
    BY <1>1, Times
  <2>2. InCapacity * p \in Nat /\ OutCapacity * p \in Nat
    BY <1>1
  <2> QED BY <1>1, <2>1, <2>2
<1>3. InMax(p) \in Nat \ {0} /\ OutMax(p) \in Nat \ {0}
  BY <1>2, UnitsFacts DEF InMax, OutMax
<1>4. MinShipment(p) \in Nat
  <2> DEFINE size == Goods(OutMax(p))
  <2>1. size \in Nat
    BY <1>3, GoodsFacts
  <2> HIDE DEF size
  <2>2. size \div ShipmentMin \in Nat
    BY <1>1, <2>1
  <2> DEFINE g == IF size >= ShipmentMax * ShipmentMin THEN ShipmentMax
                  ELSE IF size > ShipmentMin THEN size \div ShipmentMin ELSE 1
  <2>3. g \in Nat
    BY <1>1, <2>2
  <2>4. MinShipment(p) = Units(g)
    BY DEF MinShipment, size
  <2> HIDE DEF g
  <2> QED BY <2>3, <2>4, UnitsFacts
<1>5. ASSUME NEW q \in Bases, p <= q PROVE InMax(p) <= InMax(q) /\ OutMax(p) <= OutMax(q)
  <2>1. q \in Nat
    BY FactoryAssumption
  <2>2. InCapacity * p <= InCapacity * q /\ OutCapacity * p <= OutCapacity * q
        /\ InCapacity * q \in Nat /\ OutCapacity * q \in Nat
    BY <1>1, <1>5, <2>1, Times
  <2> QED BY <1>2, <2>2, UnitsFacts DEF InMax, OutMax
<1> QED BY <1>3, <1>4, <1>5

LEMMA RampType ==
  ASSUME NEW amount \in Int, NEW minimum \in Int, NEW maximum \in Int
  PROVE  Ramp(amount, minimum, maximum) \in Nat
<1>1. WorkOne \in Nat \ {0} /\ WorkMin \in Nat
  BY PositiveAssumption, FactoryAssumption
<1> DEFINE share == ((maximum - amount) * WorkOne) \div (maximum - minimum)
<1>2. CASE minimum >= maximum \/ minimum >= amount
  BY <1>1, <1>2 DEF Ramp
<1>3. CASE ~(minimum >= maximum \/ minimum >= amount) /\ amount < maximum
  <2>1. maximum - minimum \in Nat \ {0} /\ (maximum - amount) \in Nat
    BY <1>3
  <2>2. (maximum - amount) * WorkOne \in Nat
    BY <1>1, <2>1
  <2>3. share \in Nat
    BY <2>1, <2>2
  <2>4. Ramp(amount, minimum, maximum) = Max({share, WorkMin})
    BY <1>3 DEF Ramp
  <2> HIDE DEF share
  <2> QED BY <1>1, <2>3, <2>4, OfTwo
<1>4. CASE ~(minimum >= maximum \/ minimum >= amount) /\ ~(amount < maximum)
  BY <1>4 DEF Ramp
<1> QED BY <1>2, <1>3, <1>4

LEMMA ScaledType ==
  ASSUME NEW prod \in Nat, NEW work \in Nat
  PROVE  Scaled(prod, work) \in Nat
<1>1. WorkOne \in Nat \ {0} /\ prod * work \in Nat
  BY PositiveAssumption
<1>2. prod * work + WorkOne - 1 \in Nat
  BY <1>1
<1> QED BY <1>1, <1>2 DEF Scaled

LEMMA ProratedType ==
  ASSUME NEW o \in Outputs, NEW prod \in Nat, output[o] \in Nat, prodbase \in Bases
  PROVE  /\ Prorated(o, prod) \in Nat /\ Prorated(o, prod) <= prod
         /\ output[o] >= OutMax(prodbase) => Prorated(o, prod) = 0
<1>1. OutMax(prodbase) \in Nat \ {0}
  BY Capacities
<1> DEFINE m == OutMax(prodbase)
           k == output[o]
<1>2. CASE k >= m
  BY <1>2 DEF Prorated
<1>3. CASE ~(k >= m)
  <2>1. m - k \in Nat /\ m - k <= m
    BY <1>1, <1>3
  <2> DEFINE a == prod * (m - k)
  <2>2. a \in Nat /\ a <= prod * m /\ prod * m \in Nat
    BY <1>1, <2>1, Times
  <2>3. a <= m * prod + m - 1
    BY <1>1, <2>2
  <2>4. Prorated(o, prod) \in {a \div m, prod}
    BY <1>3 DEF Prorated
  <2> HIDE DEF a, m
  <2>5. a \div m <= prod /\ a \div m \in Nat
    BY <1>1, <2>2, <2>3, DivFacts DEF m
  <2> QED BY <1>3, <2>4, <2>5 DEF m
<1> QED BY <1>2, <1>3

-----------------------------------------------------------------------------
(* The stocks, and what the control types make of them *)

Stores == TypeOK /\ StocksInBounds

LEMMA Desc ==
  ASSUME TypeOK
  PROVE  /\ desc.jit \in {1, 2} /\ desc.ins \in Nat /\ desc.outs \in Nat /\ desc.shrinks \in BOOLEAN
         /\ CounterSize \in Nat \ {0}
         /\ IsFiniteSet(Inputs) /\ Cardinality(Inputs) = desc.ins
         /\ IsFiniteSet(Outputs) /\ Cardinality(Outputs) = desc.outs
         /\ (desc.ins > 0 => Inputs # {}) /\ (desc.outs > 0 => Outputs # {})
         /\ prodbase \in Bases /\ prodbase \in Nat
         /\ InMax(prodbase) \in Nat \ {0} /\ OutMax(prodbase) \in Nat \ {0} /\ MinShipment(prodbase) \in Nat
<1>1. desc \in [jit : {1, 2}, ins : Nat, outs : Nat, maxTransit : Nat, leak : Nat, shrinks : BOOLEAN]
  BY FactoryAssumption DEF TypeOK
<1>2. CounterSize \in Nat \ {0}
  BY PositiveAssumption
<1>3. desc.ins \in Nat /\ desc.outs \in Nat /\ desc.jit \in {1, 2} /\ desc.shrinks \in BOOLEAN
  BY <1>1
<1>4. /\ IsFiniteSet(1..desc.ins) /\ Cardinality(1..desc.ins) = desc.ins
      /\ IsFiniteSet(1..desc.outs) /\ Cardinality(1..desc.outs) = desc.outs
  <2>1. \A n \in Nat : IsFiniteSet(1..n) /\ Cardinality(1..n) = n
    <3> TAKE n \in Nat
    <3>1. IsFiniteSet(1..n) /\ Cardinality(1..n) = IF 1 > n THEN 0 ELSE n - 1 + 1
      BY FS_Interval
    <3> QED BY <3>1
  <2>2. desc.ins \in Nat /\ desc.outs \in Nat
    BY <1>2, <1>3
  <2> QED BY <2>1, <2>2
<1>5. (desc.ins > 0 => 1 \in 1..desc.ins) /\ (desc.outs > 0 => 1 \in 1..desc.outs)
  BY <1>2, <1>3
<1>6. prodbase \in Bases /\ prodbase \in Nat
  BY FactoryAssumption DEF TypeOK
<1> QED BY <1>2, <1>3, <1>4, <1>5, <1>6, Capacities DEF Inputs, Outputs

(* A factory that keeps its fields, and whose counters have room for all inputs and outputs *)
Countable == ~desc.shrinks /\ desc.ins < CounterSize /\ desc.outs < CounterSize

(* The base for which the stores have to be large enough *)
Largest == IF desc.shrinks THEN Max(Bases) ELSE prodbase

LEMMA LargestIs ==
  ASSUME TypeOK
  PROVE  /\ Largest \in Bases /\ prodbase <= Largest /\ Max(Bases) \in Bases /\ \A p \in Bases : p <= Max(Bases)
         /\ InMax(prodbase) <= InMax(Largest) /\ OutMax(prodbase) <= OutMax(Largest)
         /\ InMax(Largest) \in Nat /\ OutMax(Largest) \in Nat
<1>1. prodbase \in Bases /\ Bases \subseteq Int /\ IsFiniteSet(Bases)
  BY FactoryAssumption DEF TypeOK
<1>2. Max(Bases) \in Bases /\ \A p \in Bases : p <= Max(Bases)
  BY <1>1, GreatestLeast
<1>3. Largest \in Bases /\ prodbase <= Largest
  BY <1>1, <1>2, Desc DEF Largest
<1> QED BY <1>1, <1>2, <1>3, Capacities

LEMMA MostProduced ==
  Max(Prods) \in Nat /\ \A prod \in Prods : prod \in Nat /\ prod <= Max(Prods)
<1>1. Prods \subseteq Nat /\ Prods \in SUBSET Int /\ IsFiniteSet(Prods) /\ Prods # {}
  BY FactoryAssumption
<1> QED BY <1>1, GreatestLeast

LEMMA Stocks ==
  ASSUME Stores
  PROVE  /\ input \in [Inputs -> Nat] /\ output \in [Outputs -> Nat]
         /\ \A i \in Inputs : input[i] <= IF Jit2 THEN InMax(Largest) ELSE Units(FabMaxInput)
         /\ \A o \in Outputs : output[o] <= IF Jit2 THEN OutMax(Largest) ELSE OutMax(Largest) + Max(Prods)
<1>1. input \in [Inputs -> Int] /\ output \in [Outputs -> Int]
  BY DEF Stores, TypeOK
<1>2. /\ \A i \in Inputs : 0 <= input[i] /\ input[i] <= IF Jit2 THEN InMax(Largest) ELSE Units(FabMaxInput)
      /\ \A o \in Outputs : 0 <= output[o] /\ output[o] <= IF Jit2 THEN OutMax(Largest) ELSE OutMax(Largest) + Max(Prods)
  BY DEF Stores, StocksInBounds, Largest
<1> QED BY <1>1, <1>2

(* What a step of production leaves and takes, whatever the control type is *)
Makes(made, prod) ==
  /\ made.input \in [Inputs -> Nat] /\ \A i \in Inputs : made.input[i] <= input[i]
  /\ made.output \in [Outputs -> Nat]
  /\ \A o \in Outputs : made.output[o] <= output[o] \/ made.output[o] <= OutMax(prodbase) + IF Jit2 THEN 0 ELSE prod
  /\ made.want \in Nat /\ made.ins \in Nat /\ made.outs \in Nat

LEMMA MadeIs ==
  ASSUME NEW a, NEW b, NEW c, NEW d, NEW e
  PROVE  LET m == Made(a, b, c, d, e) IN m.input = a /\ m.output = b /\ m.want = c /\ m.ins = d /\ m.outs = e
BY DEF Made

LEMMA NothingMakes ==
  ASSUME Stores, NEW want \in Nat, NEW prod \in Nat
  PROVE  Makes(Nothing(want), prod)
<1>1. input \in [Inputs -> Nat] /\ output \in [Outputs -> Nat]
  BY Stocks
<1>2. \A i \in Inputs : input[i] <= input[i]
  BY <1>1
<1>3. \A o \in Outputs : output[o] <= output[o]
  BY <1>1
<1> QED BY <1>1, <1>2, <1>3, MadeIs DEF Makes, Nothing

LEMMA Rates ==
  ASSUME Stores, NEW prod \in Nat
  PROVE  /\ \A o \in Outputs : OutputRate(o) \in Nat /\ Scaled(prod, OutputRate(o)) \in Nat
         /\ \A i \in Inputs : DemandRate(i) \in Nat /\ Scaled(prod, DemandRate(i)) \in Nat
<1>1. MinShipment(prodbase) * 2 \in Int /\ OutMax(prodbase) \in Int /\ InMax(prodbase) \in Int
      /\ InMax(prodbase) \div 2 \in Int
  BY Desc DEF Stores
<1>2. \A o \in Outputs : OutputRate(o) \in Nat
  <2> TAKE o \in Outputs
  <2>1. output[o] \in Int
    BY Stocks
  <2> QED BY <1>1, <2>1, RampType DEF OutputRate
<1>3. \A i \in Inputs : demand_buffer[i] \in Int
  BY DEF Stores, TypeOK
<1>4. \A i \in Inputs : DemandRate(i) \in Nat
  BY <1>1, <1>3, RampType DEF DemandRate
<1> QED BY <1>2, <1>4, ScaledType

LEMMA ProdClassicMakes ==
  ASSUME Stores, NEW prod \in Nat, ~Jit2
  PROVE  Makes(ProdClassic(prod), prod)
<1>1. input \in [Inputs -> Nat] /\ output \in [Outputs -> Nat]
  BY Stocks
<1>2. ASSUME NEW o \in Outputs
      PROVE  /\ output[o] + Prorated(o, prod) \in Nat
             /\ \/ output[o] + Prorated(o, prod) <= output[o]
                \/ output[o] + Prorated(o, prod) <= OutMax(prodbase) + prod
  <2>1. output[o] \in Nat /\ OutMax(prodbase) \in Nat
    BY <1>1, Desc DEF Stores
  <2>2. Prorated(o, prod) \in Nat /\ Prorated(o, prod) <= prod
        /\ (output[o] >= OutMax(prodbase) => Prorated(o, prod) = 0)
    BY <2>1, ProratedType DEF Stores, TypeOK
  <2> QED BY <2>1, <2>2
<1>3. \A i \in Inputs : input[i] <= input[i]
  BY <1>1
<1> QED BY <1>1, <1>2, <1>3, MadeIs DEF Makes, ProdClassic

LEMMA ConsClassicMakes ==
  ASSUME Stores, NEW prod \in Nat, ~Jit2
  PROVE  Makes(ConsClassic(prod), prod)
<1>1. input \in [Inputs -> Nat] /\ output \in [Outputs -> Nat]
  BY Stocks
<1>2. ASSUME NEW i \in Inputs
      PROVE  LET n == IF input[i] > prod + 1 THEN input[i] - prod ELSE 0 IN n \in Nat /\ n <= input[i]
  BY <1>1
<1>3. \A o \in Outputs : output[o] <= output[o]
  BY <1>1
<1> QED BY <1>1, <1>2, <1>3, MadeIs DEF Makes, ConsClassic

LEMMA FactClassicMakes ==
  ASSUME Stores, NEW prod \in Nat, ~Jit2, desc.ins > 0, desc.outs > 0
  PROVE  Makes(FactClassic(prod), prod)
<1> DEFINE least == Min(Range(input))
           used == [o \in Outputs |-> Min({Prorated(o, prod), least})]
           consumed == Max({0} \cup Range(used))
<1>1. input \in [Inputs -> Nat] /\ output \in [Outputs -> Nat]
  BY Stocks
<1>2. IsFiniteSet(Inputs) /\ Inputs # {} /\ IsFiniteSet(Outputs) /\ Outputs # {} /\ OutMax(prodbase) \in Nat
  BY Desc DEF Stores
<1>3. least \in Nat
  <2>1. input \in [Inputs -> Int]
    BY <1>1
  <2>2. least \in Range(input)
    BY <1>2, <2>1, FiniteRange, GreatestLeast
  <2> QED BY <1>1, <1>2, <2>1, <2>2, FiniteRange
<1> HIDE DEF least
<1>4. ASSUME NEW o \in Outputs
      PROVE  /\ Prorated(o, prod) \in Nat /\ Prorated(o, prod) <= prod
             /\ output[o] >= OutMax(prodbase) => Prorated(o, prod) = 0
             /\ used[o] \in Nat /\ used[o] <= Prorated(o, prod)
  <2>1. /\ Prorated(o, prod) \in Nat /\ Prorated(o, prod) <= prod
        /\ output[o] >= OutMax(prodbase) => Prorated(o, prod) = 0
    BY <1>1, ProratedType DEF Stores, TypeOK
  <2> QED BY <1>3, <2>1, OfTwo
<1>5. used \in [Outputs -> Nat]
  BY <1>4
<1>6. consumed \in Nat
  <2>1. used \in [Outputs -> Int]
    BY <1>5
  <2>2. Range(used) \in SUBSET Int /\ IsFiniteSet(Range(used))
    BY <1>2, <2>1, FiniteRange
  <2>3. {0} \cup Range(used) \in SUBSET Int /\ IsFiniteSet({0} \cup Range(used)) /\ 0 \in {0} \cup Range(used)
    <3> DEFINE R == Range(used)
    <3>1. IsFiniteSet({0}) /\ IsFiniteSet(R)
      BY <2>2, FS_Singleton
    <3> HIDE DEF R
    <3>2. IsFiniteSet({0} \cup R)
      BY <3>1, FS_Union
    <3>3. R \in SUBSET Int
      BY <2>2 DEF R
    <3>4. {0} \cup R \in SUBSET Int /\ 0 \in {0} \cup R
      BY <3>3
    <3> QED BY <3>2, <3>4 DEF R
  <2>4. consumed \in {0} \cup Range(used) /\ 0 <= consumed
    BY <2>3, GreatestLeast
  <2> QED BY <2>3, <2>4
<1> HIDE DEF used, consumed
<1>7. ASSUME NEW i \in Inputs
      PROVE  LET n == IF input[i] > consumed + 1 THEN input[i] - consumed ELSE 0 IN n \in Nat /\ n <= input[i]
  BY <1>1, <1>6
<1>8. ASSUME NEW o \in Outputs
      PROVE  LET n == output[o] + Max({used[o], 0}) IN
             n \in Nat /\ (n <= output[o] \/ n <= OutMax(prodbase) + prod)
  <2>1. Max({used[o], 0}) = used[o]
    BY <1>5, OfTwo
  <2> QED BY <1>1, <1>2, <1>4, <1>5, <2>1
<1>9. FactClassic(prod) = Made([i \in Inputs |-> IF input[i] > consumed + 1 THEN input[i] - consumed ELSE 0],
                               [o \in Outputs |-> output[o] + Max({used[o], 0})], 0, 0, 0)
  BY DEF FactClassic, consumed, used, least
<1> DEFINE in == [i \in Inputs |-> IF input[i] > consumed + 1 THEN input[i] - consumed ELSE 0]
           out == [o \in Outputs |-> output[o] + Max({used[o], 0})]
<1>10. in \in [Inputs -> Nat] /\ \A i \in Inputs : in[i] <= input[i]
  BY <1>7
<1>11. out \in [Outputs -> Nat] /\ \A o \in Outputs : out[o] <= output[o] \/ out[o] <= OutMax(prodbase) + prod
  BY <1>8
<1> HIDE DEF in, out
<1>12. FactClassic(prod) = Made(in, out, 0, 0, 0)
  BY <1>9 DEF in, out
<1> QED BY <1>10, <1>11, <1>12, MadeIs DEF Makes

-----------------------------------------------------------------------------
(* Counting what is empty and full *)

(* A step under just_in_time 2: no store overflows, and the caches count on *)
Counts(made) ==
  /\ EmptyInputs(made.input) = inactive_inputs + made.ins
  /\ FullOutputs(made.output, prodbase) = inactive_outputs + made.outs

(* The caches before the step; no output is above its store *)
Cached ==
  /\ Jit2 /\ inactive_inputs = EmptyInputs(input) /\ inactive_outputs = FullOutputs(output, prodbase)
  /\ \A o \in Outputs : output[o] <= OutMax(prodbase)

LEMMA Empties ==
  ASSUME TypeOK, NEW in \in [Inputs -> Int], NEW out \in [Outputs -> Int], NEW demand \in [Inputs -> Int], NEW p \in Bases
  PROVE  /\ EmptyInputs(in) = Cardinality({i \in Inputs : in[i] <= 0})
         /\ EmptyInputs(in) \in 0..desc.ins
         /\ FullOutputs(out, p) = Cardinality({o \in Outputs : out[o] >= OutMax(p)})
         /\ FullOutputs(out, p) \in 0..desc.outs
         /\ FullDemands(demand, p) = Cardinality({i \in Inputs : demand[i] >= InMax(p)})
         /\ FullDemands(demand, p) \in 0..desc.ins
<1>1. DOMAIN in = Inputs /\ DOMAIN out = Outputs /\ DOMAIN demand = Inputs
  OBVIOUS
<1>2. \A S \in SUBSET Inputs : Cardinality(S) \in 0..desc.ins
  <2> TAKE S \in SUBSET Inputs
  <2>1. IsFiniteSet(S) /\ Cardinality(S) <= desc.ins
    BY Desc, FS_Subset
  <2> QED BY <2>1, FS_CardinalityType, Desc
<1>3. \A S \in SUBSET Outputs : Cardinality(S) \in 0..desc.outs
  <2> TAKE S \in SUBSET Outputs
  <2>1. IsFiniteSet(S) /\ Cardinality(S) <= desc.outs
    BY Desc, FS_Subset
  <2> QED BY <2>1, FS_CardinalityType, Desc
<1>4. /\ {i \in Inputs : in[i] <= 0} \in SUBSET Inputs
      /\ {o \in Outputs : out[o] >= OutMax(p)} \in SUBSET Outputs
      /\ {i \in Inputs : demand[i] >= InMax(p)} \in SUBSET Inputs
  OBVIOUS
<1> QED BY <1>1, <1>2, <1>3, <1>4 DEF EmptyInputs, FullOutputs, FullDemands

(* Those that were counted and those that are new *)
LEMMA Joined ==
  ASSUME NEW S, IsFiniteSet(S), NEW A \in SUBSET S, NEW B \in SUBSET S, NEW C, C = A \cup B, A \cap B = {}
  PROVE  Cardinality(C) = Cardinality(A) + Cardinality(B)
<1>1. IsFiniteSet(A) /\ IsFiniteSet(B)
  BY FS_Subset
<1>2. Cardinality(A \cup B) = Cardinality(A) + Cardinality(B) - Cardinality(A \cap B)
  BY <1>1, FS_Union
<1>3. Cardinality(A \cap B) = 0
  BY FS_EmptySet
<1> QED BY <1>1, <1>2, <1>3, FS_CardinalityType

LEMMA NoneEmpty ==
  ASSUME TypeOK, NEW in \in [Inputs -> Int], EmptyInputs(in) = 0
  PROVE  \A i \in Inputs : in[i] > 0
<1> DEFINE S == {i \in Inputs : in[i] <= 0}
<1>1. Cardinality(S) = 0 /\ IsFiniteSet(S)
  <2>1. DOMAIN in = Inputs
    OBVIOUS
  <2>2. Cardinality(S) = 0
    BY <2>1 DEF EmptyInputs
  <2> QED BY <2>2, Desc, FS_Subset
<1>2. S = {}
  BY <1>1, FS_EmptySet
<1> QED BY <1>2

LEMMA NothingCounts ==
  ASSUME Stores, Cached, NEW want
  PROVE  Counts(Nothing(want))
<1>1. inactive_inputs \in Int /\ inactive_outputs \in Int
  BY DEF Stores, TypeOK
<1> QED BY <1>1, MadeIs DEF Counts, Cached, Nothing

LEMMA ProdManyMakes ==
  ASSUME Stores, NEW prod \in Nat, Jit2, desc.ins = 0
  PROVE  Makes(ProdMany(prod), prod)
<1>1. input \in [Inputs -> Nat] /\ output \in [Outputs -> Nat]
  BY Stocks
<1>2. CASE inactive_outputs = desc.outs
  BY <1>2, NothingMakes DEF ProdMany
<1>3. CASE inactive_outputs # desc.outs
  <2> DEFINE out == [o \in Outputs |-> output[o] + IF o \in Active THEN Min({Scaled(prod, OutputRate(o)), Room(o)}) ELSE 0]
  <2>1. ASSUME NEW o \in Outputs PROVE out[o] \in Nat /\ (out[o] <= output[o] \/ out[o] <= OutMax(prodbase))
    <3>1. output[o] \in Nat /\ OutMax(prodbase) \in Nat /\ Scaled(prod, OutputRate(o)) \in Nat
      BY <1>1, Desc, Rates DEF Stores
    <3>2. Room(o) \in Int /\ output[o] + Room(o) = OutMax(prodbase)
      BY <3>1 DEF Room
    <3>3. CASE o \in Active
      <4>1. Room(o) > 0
        BY <3>3 DEF Active
      <4>2. Min({Scaled(prod, OutputRate(o)), Room(o)}) \in Nat /\ Min({Scaled(prod, OutputRate(o)), Room(o)}) <= Room(o)
        <5> DEFINE a == Scaled(prod, OutputRate(o))
                   b == Room(o)
        <5>1. a \in Nat /\ b \in Nat
          BY <3>1, <3>2, <4>1
        <5> HIDE DEF a, b
        <5>2. Min({a, b}) \in Nat /\ Min({a, b}) <= b
          BY <5>1, LeastOfTwo
        <5> QED BY <5>2 DEF a, b
      <4> QED BY <3>1, <3>2, <3>3, <4>2
    <3>4. CASE o \notin Active
      BY <3>1, <3>4
    <3> QED BY <3>3, <3>4
  <2>2. out \in [Outputs -> Nat]
    BY <2>1
  <2>3. \A i \in Inputs : input[i] <= input[i]
    BY <1>1
  <2>4. ProdMany(prod) = Made(input, out, 0, 0, 0)
    BY <1>3 DEF ProdMany
  <2>5. \A o \in Outputs : out[o] <= output[o] \/ out[o] <= OutMax(prodbase) + 0
    BY <2>1, Desc DEF Stores
  <2> HIDE DEF out
  <2> QED BY <1>1, <2>2, <2>3, <2>4, <2>5, MadeIs DEF Makes
<1> QED BY <1>2, <1>3

LEMMA ConsManyMakes ==
  ASSUME Stores, NEW prod \in Nat, Jit2
  PROVE  Makes(ConsMany(prod), prod) /\ (Cached => Counts(ConsMany(prod)))
<1>1. input \in [Inputs -> Nat] /\ output \in [Outputs -> Nat]
  BY Stocks
<1>2. CASE inactive_inputs = desc.ins
  BY <1>2, NothingMakes, NothingCounts DEF ConsMany
<1>3. CASE inactive_inputs # desc.ins
  <2> DEFINE used == [i \in Inputs |-> IF input[i] > 0 THEN Min({input[i], Scaled(prod, DemandRate(i))}) ELSE 0]
             in == [i \in Inputs |-> input[i] - used[i]]
             Emptied == {i \in Inputs : input[i] > 0 /\ used[i] = input[i]}
  <2>1. ASSUME NEW i \in Inputs
        PROVE  /\ used[i] \in Nat /\ used[i] <= input[i] /\ in[i] \in Nat /\ in[i] <= input[i]
               /\ in[i] <= 0 <=> (input[i] <= 0 \/ i \in Emptied)
    <3>1. input[i] \in Nat /\ Scaled(prod, DemandRate(i)) \in Nat
      BY <1>1, Rates
    <3>2. used[i] \in Nat /\ used[i] <= input[i]
      <4> DEFINE a == input[i]
                 b == Scaled(prod, DemandRate(i))
      <4>1. a \in Nat /\ b \in Nat
        BY <3>1
      <4>2. used[i] = IF a > 0 THEN Min({a, b}) ELSE 0
        OBVIOUS
      <4> HIDE DEF a, b, used
      <4>3. Min({a, b}) \in Nat /\ Min({a, b}) <= a
        BY <4>1, LeastOfTwo
      <4>4. used[i] \in Nat /\ used[i] <= a
        BY <4>1, <4>2, <4>3
      <4> QED BY <4>4 DEF a
    <3> HIDE DEF used
    <3> QED BY <3>1, <3>2
  <2>2. ConsMany(prod) = Made(in, output, prod, Cardinality(Emptied), 0)
    BY <1>3 DEF ConsMany
  <2>3. in \in [Inputs -> Nat] /\ \A i \in Inputs : in[i] <= input[i]
    BY <2>1
  <2>4. Emptied \in SUBSET Inputs /\ IsFiniteSet(Emptied) /\ Cardinality(Emptied) \in Nat
    <3>1. Emptied \in SUBSET Inputs
      OBVIOUS
    <3> HIDE DEF Emptied
    <3> QED BY <3>1, Desc, FS_Subset, FS_CardinalityType DEF Stores
  <2>5. \A o \in Outputs : output[o] <= output[o]
    BY <1>1
  <2>6. Makes(ConsMany(prod), prod)
    <3> HIDE DEF in, Emptied
    <3> QED BY <1>1, <2>2, <2>3, <2>4, <2>5, MadeIs DEF Makes
  <2>7. ASSUME Cached PROVE Counts(ConsMany(prod))
    <3> DEFINE A == {i \in Inputs : input[i] <= 0}
               C == {i \in Inputs : in[i] <= 0}
    <3>1. C = A \cup Emptied /\ A \cap Emptied = {}
      <4>1. \A i \in Inputs : i \in C <=> i \in A \/ i \in Emptied
        BY <2>1
      <4>2. \A i \in Inputs : ~(i \in A /\ i \in Emptied)
        BY <1>1
      <4> HIDE DEF A, Emptied, C
      <4>3. A \subseteq Inputs /\ Emptied \subseteq Inputs /\ C \subseteq Inputs
        BY DEF A, Emptied, C
      <4> QED BY <4>1, <4>2, <4>3
    <3>2. A \in SUBSET Inputs
      OBVIOUS
    <3>3. EmptyInputs(in) = Cardinality(C) /\ EmptyInputs(input) = Cardinality(A)
      BY <1>1, <2>3 DEF EmptyInputs
    <3> HIDE DEF A, C, Emptied, in
    <3>4. Cardinality(C) = Cardinality(A) + Cardinality(Emptied)
      BY <2>4, <3>1, <3>2, Desc, Joined DEF Stores
    <3>5. EmptyInputs(in) = inactive_inputs + Cardinality(Emptied)
      BY <2>7, <3>3, <3>4 DEF Cached
    <3>6. inactive_outputs \in Int
      BY DEF Stores, TypeOK
    <3> QED BY <2>2, <2>7, <3>5, <3>6, MadeIs DEF Counts, Cached
  <2> QED BY <2>6, <2>7
<1> QED BY <1>2, <1>3

-----------------------------------------------------------------------------
(* A factory that makes several goods of several *)

LEMMA SumShare ==
  ASSUME NEW S, IsFiniteSet(S), NEW f \in [S -> Nat], NEW n \in Nat \ {0}
  PROVE  SumFunction(f) \div n \in Nat
<1>1. DOMAIN f = S /\ \A x \in S : f[x] \in Nat
  OBVIOUS
<1>2. SumFunction(f) \in Nat
  BY <1>1, SumType DEF SumFunction
<1> HIDE DEF SumFunction
<1> DEFINE a == SumFunction(f)
<1> HIDE DEF a
<1>3. a \in Nat
  BY <1>2 DEF a
<1>4. a \div n \in Nat
  BY <1>3
<1> QED BY <1>4 DEF a

LEMMA FactManyMakes ==
  ASSUME Stores, NEW prod \in Nat, Jit2, desc.ins > 0, desc.outs > 0
  PROVE  Makes(FactMany(prod), prod) /\ (Cached => Counts(FactMany(prod)))
<1> DEFINE limit == Min({DemandRate(i) : i \in Inputs})
           desired == [o \in Outputs |->
                         IF o \in Active THEN Min({Scaled(prod, Min({OutputRate(o), limit})), Room(o)}) ELSE 0]
           want == SumFunction(desired) \div desc.outs
           supply == Min(Range(input)) * desc.outs
           made == [o \in Outputs |->
                      Min({desired[o], Max({0, supply - SumFunctionOnSet(desired, {p \in Active : p < o})})})]
           consumed == SumFunction(made) \div desc.outs
           in == [i \in Inputs |-> Max({input[i] - consumed, 0})]
           out == [o \in Outputs |-> output[o] + made[o]]
           Emptied == {i \in Inputs : input[i] <= consumed}
           F == {o \in Active : made[o] = Room(o)}
<1>1. input \in [Inputs -> Nat] /\ output \in [Outputs -> Nat]
  BY Stocks
<1>2. /\ IsFiniteSet(Inputs) /\ Inputs # {} /\ IsFiniteSet(Outputs) /\ Outputs # {} /\ OutMax(prodbase) \in Nat
      /\ desc.outs \in Nat \ {0}
  BY Desc DEF Stores
<1>3. limit \in Nat
  <2> DEFINE g == [i \in Inputs |-> DemandRate(i)]
  <2>1. \A i \in Inputs : DemandRate(i) \in Nat
    BY Rates
  <2>2. g \in [Inputs -> Int] /\ Range(g) = {DemandRate(i) : i \in Inputs}
    BY <2>1 DEF Range
  <2>3. limit = Min(Range(g))
    BY <2>2
  <2>4. \A y \in Range(g) : y \in Nat
    BY <2>1, <2>2
  <2> HIDE DEF g, limit
  <2>5. Range(g) \in SUBSET Int /\ IsFiniteSet(Range(g)) /\ Range(g) # {}
    BY <1>2, <2>2, FiniteRange
  <2>6. Min(Range(g)) \in Range(g)
    BY <2>5, GreatestLeast
  <2> QED BY <2>3, <2>4, <2>6
<1> HIDE DEF limit
<1>4. ASSUME NEW o \in Outputs
      PROVE  /\ Room(o) \in Int /\ output[o] + Room(o) = OutMax(prodbase)
             /\ desired[o] \in Nat
             /\ o \in Active => Room(o) > 0 /\ desired[o] <= Room(o)
             /\ o \notin Active => desired[o] = 0
  <2>1. output[o] \in Nat /\ OutputRate(o) \in Nat
    BY <1>1, Rates
  <2>2. Room(o) \in Int /\ output[o] + Room(o) = OutMax(prodbase)
    BY <1>2, <2>1 DEF Room
  <2>3. CASE o \in Active
    <3>1. Room(o) > 0 /\ Room(o) \in Nat
      BY <2>2, <2>3 DEF Active
    <3> DEFINE r == Room(o)
               w == Min({OutputRate(o), limit})
               a == Scaled(prod, w)
    <3>2. w \in Nat
      BY <1>3, <2>1, LeastOfTwo
    <3> HIDE DEF w
    <3>3. a \in Nat
      BY <3>2, ScaledType
    <3>4. desired[o] = Min({a, r})
      BY <2>3 DEF w
    <3>5. r \in Nat
      BY <3>1
    <3> HIDE DEF a, r, desired
    <3>6. Min({a, r}) \in Nat /\ Min({a, r}) <= r
      BY <3>3, <3>5, LeastOfTwo
    <3> QED BY <2>2, <2>3, <3>1, <3>4, <3>6 DEF r
  <2>4. CASE o \notin Active
    BY <2>2, <2>4
  <2> QED BY <2>3, <2>4
<1>5. desired \in [Outputs -> Nat]
  BY <1>4
<1> HIDE DEF desired
<1>6. want \in Nat
  BY <1>2, <1>5, SumShare
<1>7. supply \in Nat
  <2> DEFINE m == Min(Range(input))
  <2>1. input \in [Inputs -> Int]
    BY <1>1
  <2>2. Range(input) \in SUBSET Int /\ IsFiniteSet(Range(input)) /\ Range(input) # {}
        /\ \A y \in Range(input) : \E x \in Inputs : input[x] = y
    BY <1>2, <2>1, FiniteRange
  <2>3. m \in Range(input)
    BY <2>2, GreatestLeast
  <2>4. m \in Nat
    BY <1>1, <2>2, <2>3
  <2> HIDE DEF m
  <2>5. m * desc.outs \in Nat
    BY <1>2, <2>4
  <2> QED BY <2>5 DEF m
<1> HIDE DEF supply
<1>8. ASSUME NEW o \in Outputs PROVE made[o] \in Nat /\ made[o] <= desired[o]
  <2> DEFINE T == {p \in Active : p < o}
             n == SumFunctionOnSet(desired, T)
             x == Max({0, supply - n})
             d == desired[o]
  <2>1. T \in SUBSET Outputs
    BY DEF Active
  <2> HIDE DEF T
  <2>2. IsFiniteSet(T) /\ \A p \in T : desired[p] \in Nat
    BY <1>2, <1>5, <2>1, FS_Subset
  <2>3. n \in Nat
    BY <2>2, SumType
  <2> HIDE DEF n
  <2>4. x \in Nat
    <3>1. supply - n \in Int
      BY <1>7, <2>3
    <3> QED BY <3>1, OfTwo
  <2>5. made[o] = Min({d, x}) /\ d \in Nat
    BY <1>5 DEF n, T
  <2> HIDE DEF x, d, made
  <2>6. Min({d, x}) \in Nat /\ Min({d, x}) <= d
    BY <2>4, <2>5, LeastOfTwo
  <2> QED BY <2>5, <2>6 DEF d
<1>9. made \in [Outputs -> Nat]
  BY <1>8
<1> HIDE DEF made
<1>10. consumed \in Nat
  BY <1>2, <1>9, SumShare
<1> HIDE DEF want, consumed
<1>11. ASSUME NEW i \in Inputs PROVE in[i] \in Nat /\ in[i] <= input[i] /\ (in[i] <= 0 <=> i \in Emptied)
  <2>1. input[i] - consumed \in Int /\ input[i] \in Nat /\ 0 \in Int
    BY <1>1, <1>10
  <2> DEFINE a == input[i] - consumed
  <2>2. in[i] = Max({a, 0})
    OBVIOUS
  <2> HIDE DEF a, in
  <2>3. Max({a, 0}) = IF a >= 0 THEN a ELSE 0
    BY <2>1, OfTwo DEF a
  <2> QED BY <1>10, <2>1, <2>2, <2>3 DEF a
<1>12. ASSUME NEW o \in Outputs PROVE out[o] \in Nat /\ (out[o] <= output[o] \/ out[o] <= OutMax(prodbase))
  BY <1>1, <1>2, <1>4, <1>5, <1>8
<1>13. CASE inactive_outputs = desc.outs
  BY <1>13, NothingMakes, NothingCounts DEF FactMany
<1>14. CASE inactive_outputs # desc.outs /\ inactive_inputs > 0
  <2>1. FactMany(prod) = Nothing(want)
    BY <1>14 DEF FactMany, want, desired, limit
  <2> QED BY <1>6, <2>1, NothingMakes, NothingCounts
<1>15. CASE inactive_outputs # desc.outs /\ ~(inactive_inputs > 0)
  <2>1. FactMany(prod) = Made(in, out, want, Cardinality(Emptied), Cardinality(F))
    BY <1>15 DEF FactMany, want, desired, limit, made, supply, consumed
  <2>2. in \in [Inputs -> Nat] /\ \A i \in Inputs : in[i] <= input[i]
    BY <1>11
  <2>3. out \in [Outputs -> Nat] /\ \A o \in Outputs : out[o] <= output[o] \/ out[o] <= OutMax(prodbase) + 0
    BY <1>2, <1>12
  <2>4. Emptied \in SUBSET Inputs /\ F \in SUBSET Outputs
    BY DEF Active
  <2> HIDE DEF in, out, Emptied, F
  <2>5. IsFiniteSet(Emptied) /\ IsFiniteSet(F) /\ Cardinality(Emptied) \in Nat /\ Cardinality(F) \in Nat
    BY <1>2, <2>4, FS_Subset, FS_CardinalityType
  <2>6. Makes(FactMany(prod), prod)
    BY <1>6, <2>1, <2>2, <2>3, <2>5, MadeIs DEF Makes
  <2>7. ASSUME Cached PROVE Counts(FactMany(prod))
    <3>1. EmptyInputs(input) = 0 /\ inactive_inputs = 0
      <4>1. input \in [Inputs -> Int] /\ output \in [Outputs -> Int]
        BY <1>1
      <4>2. EmptyInputs(input) \in 0..desc.ins
        BY <1>1, <4>1, Empties DEF Stores, TypeOK
      <4> QED BY <1>15, <2>7, <4>2, Desc DEF Cached, Stores
    <3>2. EmptyInputs(in) = Cardinality(Emptied)
      <4>1. DOMAIN in = Inputs
        BY <2>2
      <4>2. {i \in Inputs : in[i] <= 0} = Emptied
        BY <1>11, <2>4 DEF in
      <4> QED BY <4>1, <4>2 DEF EmptyInputs
    <3> DEFINE A == {o \in Outputs : output[o] >= OutMax(prodbase)}
               C == {o \in Outputs : out[o] >= OutMax(prodbase)}
    <3>3. \A o \in Outputs : (o \in C <=> o \in A \/ o \in F) /\ ~(o \in A /\ o \in F)
      <4> TAKE o \in Outputs
      <4>1. output[o] \in Nat /\ output[o] <= OutMax(prodbase) /\ out[o] = output[o] + made[o] /\ made[o] \in Nat
            /\ desired[o] \in Nat /\ made[o] <= desired[o]
        BY <1>1, <1>5, <1>8, <2>7 DEF Cached, out
      <4>2. o \in Active <=> Room(o) > 0
        BY DEF Active
      <4>3. CASE o \in Active
        BY <1>2, <1>4, <4>1, <4>2, <4>3 DEF F
      <4>4. CASE o \notin Active
        BY <1>2, <1>4, <4>1, <4>2, <4>4 DEF F
      <4> QED BY <4>3, <4>4
    <3>4. A \in SUBSET Outputs /\ C \in SUBSET Outputs
      OBVIOUS
    <3>5. FullOutputs(out, prodbase) = Cardinality(C) /\ FullOutputs(output, prodbase) = Cardinality(A)
      BY <1>1, <2>3 DEF FullOutputs
    <3> HIDE DEF A, C
    <3>6. C = A \cup F /\ A \cap F = {}
      BY <2>4, <3>3, <3>4
    <3>7. Cardinality(C) = Cardinality(A) + Cardinality(F)
      BY <1>2, <2>4, <3>4, <3>6, Joined
    <3> QED BY <2>1, <2>5, <2>7, <3>1, <3>2, <3>5, <3>7, MadeIs DEF Counts, Cached
  <2> QED BY <2>6, <2>7
<1> QED BY <1>13, <1>14, <1>15

LEMMA ControlMakes ==
  ASSUME Stores, NEW prod \in Nat
  PROVE  Makes(Control(prod), prod) /\ (Cached /\ desc.ins > 0 => Counts(Control(prod)))
<1>1. desc.ins \in Nat /\ desc.outs \in Nat
  BY Desc DEF Stores
<1>2. CASE desc.ins = 0
  BY <1>1, <1>2, ProdManyMakes, ProdClassicMakes DEF Control
<1>3. CASE desc.ins > 0 /\ desc.outs = 0
  <2>1. Control(prod) = IF Jit2 THEN ConsMany(prod) ELSE ConsClassic(prod)
    BY <1>3 DEF Control
  <2> QED BY <2>1, ConsManyMakes, ConsClassicMakes DEF Cached
<1>4. CASE desc.ins > 0 /\ desc.outs > 0
  <2>1. Control(prod) = IF Jit2 THEN FactMany(prod) ELSE FactClassic(prod)
    BY <1>4 DEF Control
  <2> QED BY <1>4, <2>1, FactManyMakes, FactClassicMakes DEF Cached
<1> QED BY <1>1, <1>2, <1>3, <1>4

-----------------------------------------------------------------------------
(* The counters, and what keeps the stores *)

LEMMA ByteFacts ==
  ASSUME NEW n \in Int
  PROVE  /\ Byte(n) \in 0..(CounterSize - 1)
         /\ Jit2 /\ n \in 0..(CounterSize - 1) => Byte(n) = n
<1>1. CounterSize \in Nat \ {0}
  BY PositiveAssumption
<1>2. n % CounterSize \in 0..(CounterSize - 1)
  BY <1>1
<1>3. n \in 0..(CounterSize - 1) => n % CounterSize = n
  BY <1>1
<1> QED BY <1>1, <1>2, <1>3 DEF Byte

LEMMA OrderedType ==
  ASSUME Stores, NEW want \in Nat
  PROVE  Ordered(want) \in [Inputs -> Int] /\ \A i \in Inputs : demand_buffer[i] <= Ordered(want)[i]
<1> SUFFICES ASSUME NEW i \in Inputs PROVE Ordered(want)[i] \in Int /\ demand_buffer[i] <= Ordered(want)[i]
  BY DEF Ordered
<1> DEFINE a == Scaled(want, DemandRate(i))
           d == demand_buffer[i]
<1>1. a \in Nat /\ d \in Int
  BY Rates DEF Stores, TypeOK
<1>2. Ordered(want)[i] \in {d + 0, d + want, d + Max({a, 1})}
  BY DEF Ordered
<1> HIDE DEF a, d
<1>3. Max({a, 1}) \in Nat
  BY <1>1, LeastOfTwo
<1> QED BY <1>1, <1>2, <1>3 DEF d

(* An action that keeps the stores what they are, whatever is in them *)
LEMMA StoresFrom ==
  ASSUME Stores, desc' = desc, prodbase' = prodbase,
         input' \in [Inputs -> Nat], output' \in [Outputs -> Nat],
         \A i \in Inputs : input'[i] <= input[i] \/ input'[i] <= IF Jit2 THEN InMax(prodbase) ELSE Units(FabMaxInput),
         \A o \in Outputs : output'[o] <= output[o]
                              \/ \E prod \in Prods \cup {0} : output'[o] <= OutMax(prodbase) + IF Jit2 THEN 0 ELSE prod,
         demand_buffer' \in [Inputs -> Int], placing_orders' \in [Inputs -> BOOLEAN], in_transit' \in [Inputs -> Int],
         underway' \in [Inputs -> 0..MaxUnderway],
         {inactive_inputs', inactive_outputs', inactive_demands'} \subseteq 0..(CounterSize - 1)
  PROVE  Stores'
<1>1. Inputs' = Inputs /\ Outputs' = Outputs /\ Jit2' = Jit2 /\ Largest' = Largest
  BY DEF Inputs, Outputs, Jit2, Largest
<1>2. TypeOK'
  BY <1>1 DEF Stores, TypeOK
<1>3. ASSUME NEW i \in Inputs
      PROVE  0 <= input'[i] /\ input'[i] <= IF Jit2 THEN InMax(Largest) ELSE Units(FabMaxInput)
  <2>1. input[i] <= IF Jit2 THEN InMax(Largest) ELSE Units(FabMaxInput)
    BY Stocks
  <2>2. input[i] \in Nat /\ input'[i] \in Nat /\ InMax(prodbase) <= InMax(Largest) /\ InMax(prodbase) \in Nat
        /\ InMax(Largest) \in Nat /\ Units(FabMaxInput) \in Nat
    BY Stocks, LargestIs, Desc, UnitsFacts, PositiveAssumption DEF Stores
  <2> QED BY <2>1, <2>2
<1>4. ASSUME NEW o \in Outputs
      PROVE  0 <= output'[o] /\ output'[o] <= IF Jit2 THEN OutMax(Largest) ELSE OutMax(Largest) + Max(Prods)
  <2>1. output[o] <= IF Jit2 THEN OutMax(Largest) ELSE OutMax(Largest) + Max(Prods)
    BY Stocks
  <2>2. output[o] \in Nat /\ output'[o] \in Nat /\ OutMax(prodbase) <= OutMax(Largest) /\ OutMax(prodbase) \in Nat
        /\ OutMax(Largest) \in Nat
    BY Stocks, LargestIs, Desc DEF Stores
  <2>3. CASE output'[o] <= output[o]
    <3>1. CASE Jit2
      BY <2>1, <2>2, <2>3, <3>1
    <3>2. CASE ~Jit2
      <4>1. Max(Prods) \in Nat
        BY MostProduced
      <4> QED BY <2>1, <2>2, <2>3, <3>2, <4>1
    <3> QED BY <3>1, <3>2
  <2>4. CASE ~(output'[o] <= output[o])
    <3>1. PICK prod \in Prods \cup {0} : output'[o] <= OutMax(prodbase) + IF Jit2 THEN 0 ELSE prod
      BY <2>4
    <3>2. CASE Jit2
      BY <2>2, <3>1, <3>2
    <3>3. CASE ~Jit2
      <4>1. Max(Prods) \in Nat /\ prod \in Nat /\ prod <= Max(Prods)
        BY MostProduced
      <4> QED BY <2>2, <3>1, <3>3, <4>1
    <3> QED BY <3>2, <3>3
  <2> QED BY <2>3, <2>4
<1>5. StocksInBounds'
  BY <1>1, <1>3, <1>4 DEF StocksInBounds, Largest
<1> QED BY <1>2, <1>5 DEF Stores

-----------------------------------------------------------------------------
(* Steps of production *)

LEMMA InitStores ==
  ASSUME Init
  PROVE  Stores /\ (Countable => CachesHold)
<1>1. desc \in Descs /\ prodbase \in Bases
  BY DEF Init
<1>2. TypeOK
  <2>1. /\ desc.jit \in {1, 2} /\ desc.ins \in Nat /\ desc.outs \in Nat
    BY <1>1, PositiveAssumption, FactoryAssumption
  <2>2. InMax(prodbase) \in Nat \ {0} /\ OutMax(prodbase) \in Nat \ {0}
    BY <1>1, Capacities
  <2>3. 0 \in 0..MaxUnderway
    BY FactoryAssumption
  <2>4. /\ input \in [Inputs -> Int] /\ output \in [Outputs -> Int] /\ demand_buffer \in [Inputs -> Int]
        /\ placing_orders \in [Inputs -> BOOLEAN] /\ in_transit \in [Inputs -> Int]
        /\ underway \in [Inputs -> 0..MaxUnderway]
    BY <2>2, <2>3 DEF Init
  <2>5. {inactive_inputs, inactive_outputs, inactive_demands} \subseteq 0..(CounterSize - 1)
    BY <2>1, ByteFacts DEF Init
  <2> QED BY <1>1, <2>4, <2>5 DEF TypeOK
<1>3. StocksInBounds
  <2>1. ASSUME NEW i \in Inputs
        PROVE  0 <= input[i] /\ input[i] <= IF Jit2 THEN InMax(Largest) ELSE Units(FabMaxInput)
    <3>1. input[i] = 0
      BY <2>1 DEF Init
    <3> QED BY <1>2, <3>1, LargestIs, UnitsFacts, PositiveAssumption
  <2>2. ASSUME NEW o \in Outputs
        PROVE  0 <= output[o] /\ output[o] <= IF Jit2 THEN OutMax(Largest) ELSE OutMax(Largest) + Max(Prods)
    <3>1. output[o] \in {0, OutMax(prodbase) - 1} \/ (Jit2 /\ output[o] = OutMax(prodbase))
      BY <2>2 DEF Init
    <3>2. OutMax(prodbase) \in Nat \ {0} /\ OutMax(Largest) \in Nat /\ OutMax(prodbase) <= OutMax(Largest) /\ Max(Prods) \in Nat
      BY <1>2, Desc, LargestIs, MostProduced
    <3> QED BY <3>1, <3>2
  <2> QED BY <2>1, <2>2 DEF StocksInBounds, Largest
<1>4. ASSUME Countable PROVE CachesHold
  <2> SUFFICES ASSUME Jit2, desc.ins > 0
               PROVE  /\ inactive_inputs = EmptyInputs(input)
                      /\ inactive_outputs = FullOutputs(output, prodbase)
                      /\ inactive_demands = FullDemands(demand_buffer, prodbase)
    BY DEF CachesHold
  <2>1. input \in [Inputs -> Int] /\ output \in [Outputs -> Int] /\ demand_buffer \in [Inputs -> Int]
    BY <1>2 DEF TypeOK
  <2>2. /\ InMax(prodbase) \in Nat \ {0} /\ OutMax(prodbase) \in Nat \ {0}
        /\ desc.ins \in 0..(CounterSize - 1) /\ desc.ins \in Int /\ 0 \in 0..(CounterSize - 1)
        /\ Cardinality(Inputs) = desc.ins
    BY <1>2, <1>4, Desc DEF Countable
  <2>3. {i \in Inputs : input[i] <= 0} = Inputs
    BY DEF Init
  <2>4. {o \in Outputs : output[o] >= OutMax(prodbase)} = {}
    BY <2>2 DEF Init
  <2>5. {i \in Inputs : demand_buffer[i] >= InMax(prodbase)} = Inputs
    BY <2>2 DEF Init
  <2>6. EmptyInputs(input) = desc.ins /\ FullOutputs(output, prodbase) = 0 /\ FullDemands(demand_buffer, prodbase) = desc.ins
    BY <1>1, <1>2, <2>1, <2>2, <2>3, <2>4, <2>5, Empties, FS_EmptySet
  <2>7. inactive_inputs = Byte(desc.ins) /\ inactive_outputs = Byte(0) /\ inactive_demands = Byte(desc.ins)
    BY DEF Init
  <2> QED BY <2>2, <2>6, <2>7, ByteFacts
<1> QED BY <1>2, <1>3, <1>4 DEF Stores

LEMMA Unchanged ==
  ASSUME Stores, UNCHANGED vars
  PROVE  Stores' /\ (CachesHold => CachesHold')
<1>1. UNCHANGED <<desc, prodbase, input, output, demand_buffer, placing_orders, in_transit, underway,
                  inactive_inputs, inactive_outputs, inactive_demands>>
  BY DEF vars, inactive
<1> QED BY <1>1 DEF Stores, TypeOK, StocksInBounds, CachesHold, Inputs, Outputs, Jit2, EmptyInputs, FullOutputs, FullDemands

LEMMA StepStores ==
  ASSUME Stores, NEW prod \in Prods, Step(prod)
  PROVE  Stores'
<1> DEFINE made == Control(prod)
<1>1. prod \in Nat
  BY MostProduced
<1>2. Makes(made, prod)
  BY <1>1, ControlMakes
<1> HIDE DEF made
<1>3. PICK demand \in {Ordered(made.want)} :
        /\ input' = made.input /\ output' = made.output /\ demand_buffer' = demand
        /\ inactive_inputs' = Byte(inactive_inputs + made.ins)
        /\ inactive_outputs' = Byte(inactive_outputs + made.outs)
        /\ inactive_demands' = Byte(inactive_demands + NewlyFull(demand))
        /\ UNCHANGED <<desc, prodbase, placing_orders, in_transit, underway>>
  BY DEF Step, made
<1>4. made.ins \in Nat /\ made.outs \in Nat /\ made.want \in Nat
  BY <1>2 DEF Makes
<1>5. demand \in [Inputs -> Int]
  BY <1>4, OrderedType
<1>6. NewlyFull(demand) \in Nat
  <2> DEFINE N == {i \in Inputs : demand_buffer[i] < InMax(prodbase) /\ demand[i] >= InMax(prodbase)}
  <2>1. N \in SUBSET Inputs
    OBVIOUS
  <2> HIDE DEF N
  <2>2. Cardinality(N) \in Nat
    BY <2>1, Desc, FS_Subset, FS_CardinalityType DEF Stores
  <2> QED BY <2>2 DEF NewlyFull, N
<1>7. /\ inactive_inputs + made.ins \in Int /\ inactive_outputs + made.outs \in Int
      /\ inactive_demands + NewlyFull(demand) \in Int
  BY <1>4, <1>6 DEF Stores, TypeOK
<1>8. /\ placing_orders' \in [Inputs -> BOOLEAN] /\ in_transit' \in [Inputs -> Int] /\ underway' \in [Inputs -> 0..MaxUnderway]
  BY <1>3 DEF Stores, TypeOK
<1>9. \A o \in Outputs : made.output[o] <= output[o]
                           \/ \E q \in Prods \cup {0} : made.output[o] <= OutMax(prodbase) + IF Jit2 THEN 0 ELSE q
  BY <1>2 DEF Makes
<1>10. /\ input' \in [Inputs -> Nat] /\ output' \in [Outputs -> Nat] /\ \A i \in Inputs : input'[i] <= input[i]
  BY <1>2, <1>3 DEF Makes
<1>11. {inactive_inputs', inactive_outputs', inactive_demands'} \subseteq 0..(CounterSize - 1)
  BY <1>3, <1>7, ByteFacts
<1> QED BY <1>3, <1>5, <1>8, <1>9, <1>10, <1>11, StoresFrom

LEMMA PeriodStores ==
  ASSUME Stores, NEW prod \in Prods, StepPeriod(prod)
  PROVE  Stores'
<1> DEFINE made == Control(prod)
<1>1. prod \in Nat
  BY MostProduced
<1>2. Makes(made, prod)
  BY <1>1, ControlMakes
<1> HIDE DEF made
<1>3. PICK demand \in {Ordered(made.want)}, s \in Shipments(made.output) :
        /\ input' = made.input
        /\ output' = [o \in Outputs |-> made.output[o] - Units(s[o])]
        /\ demand_buffer' = demand
        /\ placing_orders' = Orders(made.input, demand)
        /\ inactive_inputs' = Byte(inactive_inputs + made.ins)
        /\ inactive_outputs' = Byte(inactive_outputs + made.outs - Reactivated(made.output, s))
        /\ inactive_demands' = Byte(inactive_demands + NewlyFull(demand))
        /\ UNCHANGED <<desc, prodbase, in_transit, underway>>
  BY DEF StepPeriod, made
<1>4. made.ins \in Nat /\ made.outs \in Nat /\ made.want \in Nat
  BY <1>2 DEF Makes
<1>5. demand \in [Inputs -> Int]
  BY <1>4, OrderedType
<1>6. NewlyFull(demand) \in Nat /\ Reactivated(made.output, s) \in Nat
  <2> DEFINE N == {i \in Inputs : demand_buffer[i] < InMax(prodbase) /\ demand[i] >= InMax(prodbase)}
             R == {o \in Outputs : made.output[o] = OutMax(prodbase) /\ Units(s[o]) > 0}
  <2>1. N \in SUBSET Inputs /\ R \in SUBSET Outputs
    OBVIOUS
  <2> HIDE DEF N, R
  <2>2. Cardinality(N) \in Nat /\ Cardinality(R) \in Nat
    BY <2>1, Desc, FS_Subset, FS_CardinalityType DEF Stores
  <2> QED BY <2>2 DEF NewlyFull, Reactivated, N, R
<1>7. /\ inactive_inputs + made.ins \in Int /\ inactive_outputs + made.outs - Reactivated(made.output, s) \in Int
      /\ inactive_demands + NewlyFull(demand) \in Int
  BY <1>4, <1>6 DEF Stores, TypeOK
<1>8. placing_orders' \in [Inputs -> BOOLEAN] /\ in_transit' \in [Inputs -> Int] /\ underway' \in [Inputs -> 0..MaxUnderway]
  <2>1. ASSUME NEW in, NEW d PROVE Orders(in, d) \in [Inputs -> BOOLEAN]
    <3>1. ASSUME NEW i \in Inputs
          PROVE  (IF Jit2 THEN d[i] > 0
                  ELSE /\ in[i] < InMax(prodbase)
                       /\ desc.maxTransit = 0 \/ in_transit[i] < desc.maxTransit) \in BOOLEAN
      <4>1. CASE Jit2
        BY <4>1
      <4>2. CASE ~Jit2
        BY <4>2
      <4> QED BY <4>1, <4>2
    <3> QED BY <3>1 DEF Orders
  <2>2. placing_orders' \in [Inputs -> BOOLEAN]
    BY <1>3, <2>1
  <2> QED BY <1>3, <2>2 DEF Stores, TypeOK
<1>9. ASSUME NEW o \in Outputs
      PROVE  made.output[o] - Units(s[o]) \in Nat /\ made.output[o] - Units(s[o]) <= made.output[o]
  <2> DEFINE m == MinShipment(prodbase)
  <2>1. m \in Nat /\ made.output[o] \in Nat
    BY <1>2, Desc DEF Stores, Makes
  <2>2. s[o] \in 0..Goods(m) /\ (s[o] > 0 => made.output[o] >= m)
    BY DEF Shipments
  <2> HIDE DEF m
  <2>3. Units(s[o]) <= m /\ Units(s[o]) \in Nat /\ Goods(m) \in Nat
    BY <2>1, <2>2, GoodsFacts
  <2>4. CASE s[o] > 0
    BY <2>1, <2>2, <2>3, <2>4
  <2>5. CASE ~(s[o] > 0)
    <3>1. s[o] = 0
      BY <2>2, <2>3, <2>5
    <3>2. Units(s[o]) = 0
      BY <3>1, UnitsFacts
    <3> QED BY <2>1, <3>2
  <2> QED BY <2>4, <2>5
<1>10. ASSUME NEW o \in Outputs
       PROVE  output'[o] <= output[o] \/ \E q \in Prods \cup {0} : output'[o] <= OutMax(prodbase) + IF Jit2 THEN 0 ELSE q
  <2>1. output'[o] \in Nat /\ output'[o] <= made.output[o] /\ made.output[o] \in Nat /\ output[o] \in Nat
        /\ OutMax(prodbase) \in Nat
    BY <1>2, <1>3, <1>9, Stocks, Desc DEF Makes, Stores
  <2>2. made.output[o] <= output[o] \/ made.output[o] <= OutMax(prodbase) + IF Jit2 THEN 0 ELSE prod
    BY <1>2 DEF Makes
  <2>3. CASE made.output[o] <= output[o]
    BY <2>1, <2>3
  <2>4. CASE made.output[o] <= OutMax(prodbase) + IF Jit2 THEN 0 ELSE prod
    <3>1. output'[o] <= OutMax(prodbase) + IF Jit2 THEN 0 ELSE prod
      BY <1>1, <2>1, <2>4
    <3> QED BY <3>1
  <2> QED BY <2>2, <2>3, <2>4
<1>11. /\ input' \in [Inputs -> Nat] /\ output' \in [Outputs -> Nat] /\ \A i \in Inputs : input'[i] <= input[i]
  BY <1>2, <1>3, <1>9 DEF Makes
<1>12. {inactive_inputs', inactive_outputs', inactive_demands'} \subseteq 0..(CounterSize - 1)
  BY <1>3, <1>7, ByteFacts
<1> QED BY <1>3, <1>5, <1>8, <1>10, <1>11, <1>12, StoresFrom

-----------------------------------------------------------------------------
(* Goods that are sent, arrive, are called back or lost *)

LEMMA Goods1 ==
  ASSUME Stores, NEW i \in Inputs, NEW n \in Nat
  PROVE  /\ Units(n) \in Nat /\ (n > 0 => Units(n) > 0)
         /\ demand_buffer[i] \in Int /\ in_transit[i] \in Int /\ underway[i] \in 0..MaxUnderway /\ MaxUnderway \in Nat
         /\ \A d \in Int : Demand(i, d) \in [Inputs -> Int]
         /\ \A d : inactive_demands + Crossed(i, d) \in Int
         /\ {inactive_inputs, inactive_outputs, inactive_demands} \subseteq 0..(CounterSize - 1)
<1>1. demand_buffer \in [Inputs -> Int] /\ in_transit \in [Inputs -> Int] /\ underway \in [Inputs -> 0..MaxUnderway]
      /\ {inactive_inputs, inactive_outputs, inactive_demands} \subseteq 0..(CounterSize - 1)
  BY DEF Stores, TypeOK
<1>2. MaxUnderway \in Nat
  BY FactoryAssumption
<1>3. \A d : Crossed(i, d) \in {-1, 0, 1}
  BY DEF Crossed
<1>4. \A d : inactive_demands + Crossed(i, d) \in Int
  BY <1>1, <1>3
<1>5. \A d \in Int : Demand(i, d) \in [Inputs -> Int]
  BY <1>1 DEF Demand
<1> QED BY <1>1, <1>2, <1>4, <1>5, UnitsFacts

(* Goods that set out, are called back or get lost leave the stocks alone *)
LEMMA UnderwayStores ==
  ASSUME Stores, NEW i \in Inputs, NEW k \in 0..MaxUnderway, NEW t \in Int, NEW d \in Int,
         UNCHANGED <<desc, prodbase, input, output, placing_orders, inactive_inputs, inactive_outputs>>,
         underway' = [underway EXCEPT ![i] = k], in_transit' = [in_transit EXCEPT ![i] = t],
         demand_buffer' = Demand(i, d),
         inactive_demands' \in {inactive_demands, Byte(inactive_demands + Crossed(i, d))}
  PROVE  Stores'
<1>1. demand_buffer' \in [Inputs -> Int] /\ {inactive_inputs, inactive_outputs, inactive_demands} \subseteq 0..(CounterSize - 1)
      /\ inactive_demands + Crossed(i, d) \in Int
  <2>1. 0 \in Nat
    OBVIOUS
  <2> QED BY <2>1, Goods1
<1>2. /\ underway' \in [Inputs -> 0..MaxUnderway] /\ in_transit' \in [Inputs -> Int] /\ placing_orders' \in [Inputs -> BOOLEAN]
  BY DEF Stores, TypeOK
<1>3. input' \in [Inputs -> Nat] /\ output' \in [Outputs -> Nat]
      /\ (\A j \in Inputs : input'[j] <= input[j]) /\ \A o \in Outputs : output'[o] <= output[o]
  BY Stocks
<1>4. {inactive_inputs', inactive_outputs', inactive_demands'} \subseteq 0..(CounterSize - 1)
  BY <1>1, ByteFacts
<1> QED BY <1>1, <1>2, <1>3, <1>4, StoresFrom

LEMMA ShipStores ==
  ASSUME Stores, NEW i \in Inputs, Ship(i)
  PROVE  Stores'
<1>1. PICK n \in 1..ShipmentMax :
        LET d == IF Jit2 THEN demand_buffer[i] - Units(n) ELSE demand_buffer[i]
        IN  /\ underway[i] + n <= MaxUnderway
            /\ underway' = [underway EXCEPT ![i] = @ + n]
            /\ in_transit' = [in_transit EXCEPT ![i] = @ + n]
            /\ demand_buffer' = Demand(i, d)
            /\ inactive_demands' = Byte(inactive_demands + Crossed(i, d))
  BY DEF Ship
<1> DEFINE d == IF Jit2 THEN demand_buffer[i] - Units(n) ELSE demand_buffer[i]
<1>2. n \in Nat /\ ShipmentMax \in Nat
  BY PositiveAssumption
<1>3. d \in Int /\ underway[i] + n \in 0..MaxUnderway /\ in_transit[i] + n \in Int
  BY <1>1, <1>2, Goods1
<1>4. /\ UNCHANGED <<desc, prodbase, input, output, placing_orders, inactive_inputs, inactive_outputs>>
      /\ underway' = [underway EXCEPT ![i] = underway[i] + n] /\ in_transit' = [in_transit EXCEPT ![i] = in_transit[i] + n]
      /\ demand_buffer' = Demand(i, d) /\ inactive_demands' = Byte(inactive_demands + Crossed(i, d))
  BY <1>1 DEF Ship
<1> HIDE DEF d
<1> QED BY <1>3, <1>4, UnderwayStores

LEMMA RecallStores ==
  ASSUME Stores, NEW i \in Inputs, Recall(i)
  PROVE  Stores'
<1>1. PICK n \in 1..underway[i] :
        LET d == IF Jit2 THEN demand_buffer[i] + Units(n) ELSE demand_buffer[i]
        IN  /\ underway' = [underway EXCEPT ![i] = @ - n]
            /\ in_transit' = [in_transit EXCEPT ![i] = @ - n]
            /\ demand_buffer' = Demand(i, d)
            /\ inactive_demands' = Byte(inactive_demands + Crossed(i, d))
            /\ UNCHANGED <<desc, prodbase, input, output, placing_orders, inactive_inputs, inactive_outputs>>
  BY DEF Recall
<1> DEFINE d == IF Jit2 THEN demand_buffer[i] + Units(n) ELSE demand_buffer[i]
<1>2. n \in Nat
  OBVIOUS
<1>3. d \in Int /\ underway[i] - n \in 0..MaxUnderway /\ in_transit[i] - n \in Int
  BY <1>2, Goods1
<1>4. /\ UNCHANGED <<desc, prodbase, input, output, placing_orders, inactive_inputs, inactive_outputs>>
      /\ underway' = [underway EXCEPT ![i] = underway[i] - n] /\ in_transit' = [in_transit EXCEPT ![i] = in_transit[i] - n]
      /\ demand_buffer' = Demand(i, d) /\ inactive_demands' = Byte(inactive_demands + Crossed(i, d))
  BY <1>1
<1> HIDE DEF d
<1> QED BY <1>3, <1>4, UnderwayStores

LEMMA LoseStores ==
  ASSUME Stores, NEW i \in Inputs, Lose(i)
  PROVE  Stores'
<1>1. PICK n \in 1..underway[i], counted \in BOOLEAN :
        /\ underway' = [underway EXCEPT ![i] = @ - n]
        /\ in_transit' = [in_transit EXCEPT ![i] = IF counted THEN @ - n ELSE @]
        /\ UNCHANGED <<desc, prodbase, input, output, demand_buffer, placing_orders, inactive>>
  BY DEF Lose
<1> DEFINE t == IF counted THEN in_transit[i] - n ELSE in_transit[i]
<1>2. n \in Nat
  OBVIOUS
<1>3. demand_buffer[i] \in Int /\ underway[i] - n \in 0..MaxUnderway /\ t \in Int
  BY <1>2, Goods1
<1>4. /\ UNCHANGED <<desc, prodbase, input, output, placing_orders, inactive_inputs, inactive_outputs, inactive_demands>>
      /\ underway' = [underway EXCEPT ![i] = underway[i] - n] /\ in_transit' = [in_transit EXCEPT ![i] = t]
      /\ demand_buffer' = demand_buffer
  BY <1>1 DEF inactive
<1>5. Demand(i, demand_buffer[i]) = demand_buffer
  BY DEF Demand, Stores, TypeOK
<1> HIDE DEF t
<1> QED BY <1>3, <1>4, <1>5, UnderwayStores

(* What a full store cannot take of what arrives is lost *)
Stored(i, n) ==
  LET stock == input[i] + Units(n)
      most == IF Jit2 THEN InMax(prodbase) ELSE Units(FabMaxInput)
  IN  IF Jit2 THEN Min({stock, most}) ELSE IF stock >= most THEN most - 1 ELSE stock
Wanted(i, n) ==
  LET stock == input[i] + Units(n)
      most == IF Jit2 THEN InMax(prodbase) ELSE Units(FabMaxInput)
  IN  IF Jit2 THEN demand_buffer[i] - Max({stock - most, 0}) ELSE demand_buffer[i]

LEMMA Arrives ==
  ASSUME Stores, NEW i \in Inputs, Arrive(i)
  PROVE  \E n \in 1..underway[i] :
           /\ underway' = [underway EXCEPT ![i] = underway[i] - n]
           /\ in_transit' = [in_transit EXCEPT ![i] = in_transit[i] - n]
           /\ input' = [input EXCEPT ![i] = Stored(i, n)]
           /\ demand_buffer' = Demand(i, Wanted(i, n))
           /\ inactive_inputs' = Byte(inactive_inputs - IF input[i] <= 0 THEN 1 ELSE 0)
           /\ inactive_demands' = Byte(inactive_demands + Crossed(i, Wanted(i, n)))
           /\ UNCHANGED <<desc, prodbase, output, placing_orders, inactive_outputs>>
           /\ Stored(i, n) \in Nat /\ Wanted(i, n) \in Int /\ n \in Nat
           /\ Stored(i, n) <= IF Jit2 THEN InMax(prodbase) ELSE Units(FabMaxInput)
           /\ Jit2 => Stored(i, n) > 0
<1>1. PICK n \in 1..underway[i] :
        LET stock == input[i] + Units(n)
            most == IF Jit2 THEN InMax(prodbase) ELSE Units(FabMaxInput)
            d == IF Jit2 THEN demand_buffer[i] - Max({stock - most, 0}) ELSE demand_buffer[i]
        IN  /\ underway' = [underway EXCEPT ![i] = @ - n]
            /\ in_transit' = [in_transit EXCEPT ![i] = @ - n]
            /\ input' = [input EXCEPT ![i] = IF Jit2 THEN Min({stock, most}) ELSE IF stock >= most THEN most - 1 ELSE stock]
            /\ demand_buffer' = Demand(i, d)
            /\ inactive_inputs' = Byte(inactive_inputs - IF input[i] <= 0 THEN 1 ELSE 0)
            /\ inactive_demands' = Byte(inactive_demands + Crossed(i, d))
            /\ UNCHANGED <<desc, prodbase, output, placing_orders, inactive_outputs>>
  BY DEF Arrive
<1>2. n \in Nat /\ n > 0 /\ Units(n) \in Nat /\ Units(n) > 0 /\ demand_buffer[i] \in Int
  <2>1. n \in Nat /\ n > 0
    OBVIOUS
  <2> QED BY <2>1, Goods1
<1>3. input[i] \in Nat /\ InMax(prodbase) \in Nat \ {0} /\ Units(FabMaxInput) \in Nat \ {0}
  BY Stocks, Desc, UnitsFacts, PositiveAssumption DEF Stores
<1> DEFINE stock == input[i] + Units(n)
           most == IF Jit2 THEN InMax(prodbase) ELSE Units(FabMaxInput)
<1>4. stock \in Nat /\ stock > 0 /\ most \in Nat \ {0} /\ stock - most \in Int
  BY <1>2, <1>3
<1>5. Stored(i, n) = IF Jit2 THEN Min({stock, most}) ELSE IF stock >= most THEN most - 1 ELSE stock
  BY DEF Stored
<1>6. Wanted(i, n) = IF Jit2 THEN demand_buffer[i] - Max({stock - most, 0}) ELSE demand_buffer[i]
  BY DEF Wanted
<1>7. most = IF Jit2 THEN InMax(prodbase) ELSE Units(FabMaxInput)
  OBVIOUS
<1> HIDE DEF stock, most
<1>8. Stored(i, n) \in Nat /\ Stored(i, n) <= most /\ (Jit2 => Stored(i, n) > 0)
  <2>1. stock \in Int /\ most \in Int
    BY <1>4
  <2>2. Min({stock, most}) = IF stock <= most THEN stock ELSE most
    BY <2>1, OfTwo
  <2> QED BY <1>4, <1>5, <2>2
<1>9. Wanted(i, n) \in Int
  <2>1. Max({stock - most, 0}) \in Int
    BY <1>4, OfTwo
  <2> QED BY <1>2, <1>6, <2>1
<1>10. /\ underway' = [underway EXCEPT ![i] = underway[i] - n]
       /\ in_transit' = [in_transit EXCEPT ![i] = in_transit[i] - n]
       /\ input' = [input EXCEPT ![i] = Stored(i, n)]
       /\ demand_buffer' = Demand(i, Wanted(i, n))
       /\ inactive_inputs' = Byte(inactive_inputs - IF input[i] <= 0 THEN 1 ELSE 0)
       /\ inactive_demands' = Byte(inactive_demands + Crossed(i, Wanted(i, n)))
       /\ UNCHANGED <<desc, prodbase, output, placing_orders, inactive_outputs>>
  BY <1>1, <1>5, <1>6 DEF stock, most
<1> QED BY <1>2, <1>7, <1>8, <1>9, <1>10

LEMMA ArriveStores ==
  ASSUME Stores, NEW i \in Inputs, Arrive(i)
  PROVE  Stores'
<1>1. PICK n \in 1..underway[i] :
           /\ underway' = [underway EXCEPT ![i] = underway[i] - n]
           /\ in_transit' = [in_transit EXCEPT ![i] = in_transit[i] - n]
           /\ input' = [input EXCEPT ![i] = Stored(i, n)]
           /\ demand_buffer' = Demand(i, Wanted(i, n))
           /\ inactive_inputs' = Byte(inactive_inputs - IF input[i] <= 0 THEN 1 ELSE 0)
           /\ inactive_demands' = Byte(inactive_demands + Crossed(i, Wanted(i, n)))
           /\ UNCHANGED <<desc, prodbase, output, placing_orders, inactive_outputs>>
           /\ Stored(i, n) \in Nat /\ Wanted(i, n) \in Int /\ n \in Nat
           /\ Stored(i, n) <= IF Jit2 THEN InMax(prodbase) ELSE Units(FabMaxInput)
           /\ Jit2 => Stored(i, n) > 0
  BY Arrives
<1>2. /\ underway[i] - n \in 0..MaxUnderway /\ in_transit[i] - n \in Int
      /\ {inactive_inputs, inactive_outputs, inactive_demands} \subseteq 0..(CounterSize - 1)
      /\ inactive_demands + Crossed(i, Wanted(i, n)) \in Int
      /\ demand_buffer' \in [Inputs -> Int]
  BY <1>1, Goods1
<1>3. /\ underway' \in [Inputs -> 0..MaxUnderway] /\ in_transit' \in [Inputs -> Int] /\ placing_orders' \in [Inputs -> BOOLEAN]
  BY <1>1, <1>2 DEF Stores, TypeOK
<1>4. input \in [Inputs -> Nat] /\ output' \in [Outputs -> Nat] /\ \A o \in Outputs : output'[o] <= output[o]
  BY <1>1, Stocks
<1>5. input' \in [Inputs -> Nat]
  BY <1>1, <1>4
<1>6. \A j \in Inputs : input'[j] <= input[j] \/ input'[j] <= IF Jit2 THEN InMax(prodbase) ELSE Units(FabMaxInput)
  <2> TAKE j \in Inputs
  <2>1. CASE j = i
    BY <1>1, <1>4, <2>1
  <2>2. CASE j # i
    BY <1>1, <1>4, <2>2
  <2> QED BY <2>1, <2>2
<1>7. {inactive_inputs', inactive_outputs', inactive_demands'} \subseteq 0..(CounterSize - 1)
  <2>1. inactive_inputs - (IF input[i] <= 0 THEN 1 ELSE 0) \in Int
    BY <1>2
  <2> QED BY <1>1, <1>2, <2>1, ByteFacts
<1> QED BY <1>1, <1>2, <1>3, <1>4, <1>5, <1>6, <1>7, StoresFrom

-----------------------------------------------------------------------------
(* A new base production, saving and loading *)

(* What rebuild_inactive_cache counts fits the counters *)
LEMMA Rebuilt ==
  ASSUME TypeOK, NEW in \in [Inputs -> Int], NEW out \in [Outputs -> Int], NEW demand \in [Inputs -> Int], NEW p \in Bases
  PROVE  /\ Byte(EmptyInputs(in)) \in 0..(CounterSize - 1) /\ Byte(FullOutputs(out, p)) \in 0..(CounterSize - 1)
         /\ Byte(FullDemands(demand, p)) \in 0..(CounterSize - 1)
         /\ Jit2 /\ Countable =>
                    /\ Byte(EmptyInputs(in)) = EmptyInputs(in)
                    /\ Byte(FullOutputs(out, p)) = FullOutputs(out, p)
                    /\ Byte(FullDemands(demand, p)) = FullDemands(demand, p)
<1>1. EmptyInputs(in) \in 0..desc.ins /\ FullOutputs(out, p) \in 0..desc.outs /\ FullDemands(demand, p) \in 0..desc.ins
  BY Empties
<1>2. desc.ins \in Nat /\ desc.outs \in Nat /\ CounterSize \in Nat
  BY Desc
<1>3. Countable => /\ EmptyInputs(in) \in 0..(CounterSize - 1) /\ FullOutputs(out, p) \in 0..(CounterSize - 1)
                   /\ FullDemands(demand, p) \in 0..(CounterSize - 1)
  BY <1>1, <1>2 DEF Countable
<1>4. EmptyInputs(in) \in Int /\ FullOutputs(out, p) \in Int /\ FullDemands(demand, p) \in Int
  BY <1>1
<1> QED BY <1>3, <1>4, ByteFacts

LEMMA SetBaseStores ==
  ASSUME Stores, NEW p \in Bases, SetBaseProduction(p)
  PROVE  Stores'
<1>1. /\ p # prodbase /\ (p > prodbase \/ desc.shrinks) /\ prodbase' = p
      /\ inactive_inputs' = Byte(EmptyInputs(input)) /\ inactive_outputs' = Byte(FullOutputs(output, p))
      /\ inactive_demands' = Byte(FullDemands(demand_buffer, p))
      /\ UNCHANGED <<desc, input, output, demand_buffer, placing_orders, in_transit, underway>>
  BY DEF SetBaseProduction
<1>2. Inputs' = Inputs /\ Outputs' = Outputs /\ Jit2' = Jit2
  BY <1>1 DEF Inputs, Outputs, Jit2
<1>3. TypeOK'
  <2>1. {inactive_inputs', inactive_outputs', inactive_demands'} \subseteq 0..(CounterSize - 1)
    BY <1>1, Rebuilt DEF Stores, TypeOK
  <2> QED BY <1>1, <1>2, <2>1 DEF Stores, TypeOK
<1> DEFINE q == IF desc.shrinks THEN Max(Bases) ELSE p
<1>4. Largest' = q
  BY <1>1 DEF Largest
<1>5. q \in Bases /\ Largest \in Bases /\ Largest <= q
  <2>1. CASE desc.shrinks
    BY <2>1, LargestIs DEF Largest, Stores, FactoryAssumption
  <2>2. CASE ~desc.shrinks
    <3>1. Bases \subseteq Nat /\ prodbase \in Nat /\ prodbase \in Bases
      BY FactoryAssumption DEF Stores, TypeOK
    <3> QED BY <1>1, <2>2, <3>1 DEF Largest
  <2> QED BY <2>1, <2>2
<1> HIDE DEF q
<1>6. /\ InMax(Largest) \in Nat /\ InMax(q) \in Nat /\ InMax(Largest) <= InMax(q)
      /\ OutMax(Largest) \in Nat /\ OutMax(q) \in Nat /\ OutMax(Largest) <= OutMax(q) /\ Max(Prods) \in Nat
  BY <1>5, Capacities, MostProduced
<1>7. StocksInBounds'
  <2>1. ASSUME NEW i \in Inputs
        PROVE  0 <= input[i] /\ input[i] <= IF Jit2 THEN InMax(q) ELSE Units(FabMaxInput)
    <3>1. input[i] \in Nat /\ input[i] <= IF Jit2 THEN InMax(Largest) ELSE Units(FabMaxInput)
      BY Stocks
    <3>2. CASE Jit2
      BY <1>6, <3>1, <3>2
    <3>3. CASE ~Jit2
      BY <3>1, <3>3
    <3> QED BY <3>2, <3>3
  <2>2. ASSUME NEW o \in Outputs
        PROVE  0 <= output[o] /\ output[o] <= IF Jit2 THEN OutMax(q) ELSE OutMax(q) + Max(Prods)
    <3>1. output[o] \in Nat /\ output[o] <= IF Jit2 THEN OutMax(Largest) ELSE OutMax(Largest) + Max(Prods)
      BY Stocks
    <3>2. CASE Jit2
      BY <1>6, <3>1, <3>2
    <3>3. CASE ~Jit2
      BY <1>6, <3>1, <3>3
    <3> QED BY <3>2, <3>3
  <2> QED BY <1>1, <1>2, <1>4, <2>1, <2>2 DEF StocksInBounds, Largest
<1> QED BY <1>3, <1>7 DEF Stores

(* What a factory that is loaded keeps of its stocks, and what it wants then *)
LoadedInput == IF Jit2 THEN [i \in Inputs |-> Min({input[i], InMax(prodbase)})] ELSE input
LoadedOutput == IF Jit2 THEN [o \in Outputs |-> Min({output[o], OutMax(prodbase)})] ELSE output
LoadedDemand ==
  LET slack == (InMax(prodbase) * TransitPercent) \div 100
      sane(d) == IF TransitPercent = 0 THEN d
                 ELSE IF d < -slack THEN -slack ELSE IF d > InMax(prodbase) + slack THEN InMax(prodbase) ELSE d
  IN  IF Jit2 THEN [i \in Inputs |-> sane(demand_buffer[i])] ELSE demand_buffer

LEMMA LoadedTypes ==
  ASSUME Stores
  PROVE  /\ LoadedInput \in [Inputs -> Nat] /\ \A i \in Inputs : LoadedInput[i] <= input[i]
         /\ LoadedOutput \in [Outputs -> Nat] /\ \A o \in Outputs : LoadedOutput[o] <= output[o]
         /\ LoadedDemand \in [Inputs -> Int]
<1>1. input \in [Inputs -> Nat] /\ output \in [Outputs -> Nat] /\ demand_buffer \in [Inputs -> Int]
  BY Stocks DEF Stores, TypeOK
<1>2. InMax(prodbase) \in Nat /\ OutMax(prodbase) \in Nat /\ TransitPercent \in Nat
  BY Desc, FactoryAssumption DEF Stores
<1>3. LoadedInput \in [Inputs -> Nat] /\ \A i \in Inputs : LoadedInput[i] <= input[i]
  <2>1. ASSUME NEW i \in Inputs PROVE Min({input[i], InMax(prodbase)}) \in Nat /\ Min({input[i], InMax(prodbase)}) <= input[i]
    BY <1>1, <1>2, LeastOfTwo
  <2>2. \A i \in Inputs : input[i] <= input[i]
    BY <1>1
  <2> QED BY <1>1, <2>1, <2>2 DEF LoadedInput
<1>4. LoadedOutput \in [Outputs -> Nat] /\ \A o \in Outputs : LoadedOutput[o] <= output[o]
  <2>1. ASSUME NEW o \in Outputs PROVE Min({output[o], OutMax(prodbase)}) \in Nat /\ Min({output[o], OutMax(prodbase)}) <= output[o]
    BY <1>1, <1>2, LeastOfTwo
  <2>2. \A o \in Outputs : output[o] <= output[o]
    BY <1>1
  <2> QED BY <1>1, <2>1, <2>2 DEF LoadedOutput
<1>5. LoadedDemand \in [Inputs -> Int]
  <2> DEFINE m == InMax(prodbase)
             slack == (m * TransitPercent) \div 100
  <2>1. m \in Nat /\ slack \in Int
    <3>1. m * TransitPercent \in Int /\ 100 \in Nat \ {0}
      BY <1>2
    <3> HIDE DEF m
    <3>2. (m * TransitPercent) \div 100 \in Int
      BY <3>1, DivFacts
    <3> QED BY <1>2, <3>2 DEF m
  <2>2. LoadedDemand = IF Jit2 THEN [i \in Inputs |->
                           IF TransitPercent = 0 THEN demand_buffer[i]
                           ELSE IF demand_buffer[i] < -slack THEN -slack
                                ELSE IF demand_buffer[i] > m + slack THEN m ELSE demand_buffer[i]] ELSE demand_buffer
    BY DEF LoadedDemand
  <2> HIDE DEF m, slack
  <2>3. -slack \in Int
    BY <2>1
  <2>4. CASE Jit2
    BY <1>1, <2>1, <2>2, <2>3, <2>4
  <2>5. CASE ~Jit2
    BY <1>1, <2>2, <2>5
  <2> QED BY <2>4, <2>5
<1> QED BY <1>3, <1>4, <1>5

LEMMA Loads ==
  ASSUME Stores, Load
  PROVE  /\ input' = LoadedInput /\ output' = LoadedOutput /\ demand_buffer' = LoadedDemand
         /\ in_transit' = underway /\ placing_orders' \in [Inputs -> BOOLEAN]
         /\ inactive_inputs' = Byte(EmptyInputs(LoadedInput))
         /\ inactive_outputs' = Byte(FullOutputs(LoadedOutput, prodbase))
         /\ inactive_demands' = Byte(FullDemands(LoadedDemand, prodbase))
         /\ UNCHANGED <<desc, prodbase, underway>>
<1>1. placing_orders' \in [Inputs -> BOOLEAN]
  <2>1. placing_orders' \in IF Jit2 THEN {[i \in Inputs |-> demand_buffer[i] > 0]}
           ELSE {orders \in [Inputs -> BOOLEAN] :
                   \A i \in Inputs : orders[i] => input[i] < InMax(prodbase) /\ underway[i] < desc.maxTransit}
    BY DEF Load
  <2>2. [i \in Inputs |-> demand_buffer[i] > 0] \in [Inputs -> BOOLEAN]
    <3>1. \A i \in Inputs : (demand_buffer[i] > 0) \in BOOLEAN
      OBVIOUS
    <3> QED BY <3>1
  <2>3. CASE Jit2
    BY <2>1, <2>2, <2>3
  <2>4. CASE ~Jit2
    BY <2>1, <2>4
  <2> QED BY <2>3, <2>4
<1>2. input' = LoadedInput /\ output' = LoadedOutput /\ demand_buffer' = LoadedDemand
  BY DEF Load, LoadedInput, LoadedOutput, LoadedDemand
<1>3. /\ inactive_inputs' = Byte(EmptyInputs(LoadedInput))
      /\ inactive_outputs' = Byte(FullOutputs(LoadedOutput, prodbase))
      /\ inactive_demands' = Byte(FullDemands(LoadedDemand, prodbase))
  BY DEF Load, LoadedInput, LoadedOutput, LoadedDemand
<1>4. in_transit' = underway /\ UNCHANGED <<desc, prodbase, underway>>
  BY DEF Load
<1> QED BY <1>1, <1>2, <1>3, <1>4

LEMMA LoadStores ==
  ASSUME Stores, Load
  PROVE  Stores'
<1>1. /\ LoadedInput \in [Inputs -> Int] /\ LoadedOutput \in [Outputs -> Int] /\ LoadedDemand \in [Inputs -> Int]
      /\ prodbase \in Bases
  BY LoadedTypes DEF Stores, TypeOK
<1>2. {inactive_inputs', inactive_outputs', inactive_demands'} \subseteq 0..(CounterSize - 1)
  <2>1. TypeOK
    BY DEF Stores
  <2> QED BY <1>1, <2>1, Loads, Rebuilt
<1>3. underway \in [Inputs -> 0..MaxUnderway] /\ underway \in [Inputs -> Int]
  BY DEF Stores, TypeOK
<1> QED BY <1>1, <1>2, <1>3, Loads, LoadedTypes, StoresFrom

(* Every step keeps the types and the stocks within their stores *)
LEMMA StoresKept ==
  ASSUME Stores, [Next]_vars
  PROVE  Stores'
<1>1. ASSUME NEW prod \in Prods, Step(prod) \/ StepPeriod(prod) PROVE Stores'
  BY <1>1, StepStores, PeriodStores
<1>2. ASSUME NEW i \in Inputs, Ship(i) \/ Arrive(i) \/ Recall(i) \/ Lose(i) PROVE Stores'
  BY <1>2, ShipStores, ArriveStores, RecallStores, LoseStores
<1>3. ASSUME NEW p \in Bases, SetBaseProduction(p) PROVE Stores'
  BY <1>3, SetBaseStores
<1>4. CASE UNCHANGED vars
  BY <1>4, Unchanged
<1> QED BY <1>1, <1>2, <1>3, <1>4, LoadStores DEF Next

-----------------------------------------------------------------------------
(* The caches count what is there *)

(* The caches of a factory that relies on them: what they count is there, and no store is overfull *)
LEMMA Exact ==
  ASSUME Stores, CachesHold, Jit2, desc.ins > 0, Countable
  PROVE  /\ Cached /\ inactive_demands = FullDemands(demand_buffer, prodbase)
         /\ \A o \in Outputs : output[o] <= OutMax(prodbase)
         /\ inactive_inputs \in Int /\ inactive_outputs \in Int /\ inactive_demands \in Int
<1>1. \A o \in Outputs : output[o] <= OutMax(prodbase)
  BY Stocks DEF Largest, Countable
<1>2. inactive_inputs \in Int /\ inactive_outputs \in Int /\ inactive_demands \in Int
  BY DEF Stores, TypeOK
<1> QED BY <1>1, <1>2 DEF CachesHold, Cached

(* Caches that are right after a step *)
LEMMA CachesFrom ==
  ASSUME Stores, Countable, desc' = desc,
         NEW in \in [Inputs -> Int], NEW out \in [Outputs -> Int], NEW demand \in [Inputs -> Int], NEW p \in Bases,
         input' = in, output' = out, demand_buffer' = demand, prodbase' = p,
         NEW e \in Int, NEW f \in Int, NEW g \in Int,
         inactive_inputs' = Byte(e), inactive_outputs' = Byte(f), inactive_demands' = Byte(g),
         Jit2 => e = EmptyInputs(in) /\ f = FullOutputs(out, p) /\ g = FullDemands(demand, p)
  PROVE  CachesHold'
<1>1. TypeOK
  BY DEF Stores
<1>2. Jit2 => /\ inactive_inputs' = EmptyInputs(in)
              /\ inactive_outputs' = FullOutputs(out, p)
              /\ inactive_demands' = FullDemands(demand, p)
  BY <1>1, Rebuilt
<1>3. Jit2' <=> Jit2
  BY DEF Jit2
<1> QED BY <1>2, <1>3 DEF CachesHold, EmptyInputs, FullOutputs, FullDemands

(* Where demands only grow, those that fill up are the ones that were not full *)
LEMMA DemandCounts ==
  ASSUME Stores, NEW demand \in [Inputs -> Int], \A i \in Inputs : demand_buffer[i] <= demand[i]
  PROVE  /\ FullDemands(demand, prodbase) = FullDemands(demand_buffer, prodbase) + NewlyFull(demand)
         /\ NewlyFull(demand) \in Int
<1> DEFINE m == InMax(prodbase)
           A == {i \in Inputs : demand_buffer[i] >= m}
           B == {i \in Inputs : demand_buffer[i] < m /\ demand[i] >= m}
           C == {i \in Inputs : demand[i] >= m}
<1>1. demand_buffer \in [Inputs -> Int] /\ m \in Int /\ IsFiniteSet(Inputs)
  BY Desc DEF Stores, TypeOK
<1>2. \A i \in Inputs : (i \in C <=> i \in A \/ i \in B) /\ ~(i \in A /\ i \in B)
  <2> HIDE DEF m
  <2> QED BY <1>1
<1>3. A \in SUBSET Inputs /\ B \in SUBSET Inputs /\ C \in SUBSET Inputs
  OBVIOUS
<1>4. FullDemands(demand, prodbase) = Cardinality(C) /\ FullDemands(demand_buffer, prodbase) = Cardinality(A)
      /\ NewlyFull(demand) = Cardinality(B)
  BY <1>1 DEF FullDemands, NewlyFull
<1> HIDE DEF A, B, C
<1>5. C = A \cup B /\ A \cap B = {}
  BY <1>2, <1>3
<1>6. Cardinality(C) = Cardinality(A) + Cardinality(B)
  BY <1>1, <1>3, <1>5, Joined
<1>7. Cardinality(B) \in Int
  BY <1>1, <1>3, FS_Subset, FS_CardinalityType
<1> QED BY <1>4, <1>6, <1>7

(* What is shipped out of a full store makes room in it *)
LEMMA RoomAgain ==
  ASSUME Stores, NEW out \in [Outputs -> Nat], \A o \in Outputs : out[o] <= OutMax(prodbase),
         NEW s, \A o \in Outputs : Units(s[o]) \in Nat
  PROVE  LET left == [o \in Outputs |-> out[o] - Units(s[o])] IN
         /\ FullOutputs(left, prodbase) = FullOutputs(out, prodbase) - Reactivated(out, s)
         /\ Reactivated(out, s) \in Int
<1> DEFINE left == [o \in Outputs |-> out[o] - Units(s[o])]
           m == OutMax(prodbase)
           A == {o \in Outputs : left[o] >= m}
           B == {o \in Outputs : out[o] = m /\ Units(s[o]) > 0}
           C == {o \in Outputs : out[o] >= m}
<1>1. m \in Int /\ IsFiniteSet(Outputs)
  BY Desc DEF Stores
<1>2. \A o \in Outputs : (o \in C <=> o \in A \/ o \in B) /\ ~(o \in A /\ o \in B)
  <2> TAKE o \in Outputs
  <2>1. out[o] <= m
    OBVIOUS
  <2> HIDE DEF m
  <2>2. out[o] \in Nat /\ Units(s[o]) \in Nat /\ left[o] = out[o] - Units(s[o])
    OBVIOUS
  <2> QED BY <1>1, <2>1, <2>2
<1>3. A \in SUBSET Outputs /\ B \in SUBSET Outputs /\ C \in SUBSET Outputs
  OBVIOUS
<1>4. FullOutputs(left, prodbase) = Cardinality(A) /\ FullOutputs(out, prodbase) = Cardinality(C)
      /\ Reactivated(out, s) = Cardinality(B)
  BY <1>1 DEF FullOutputs, Reactivated
<1> HIDE DEF A, B, C
<1>5. C = A \cup B /\ A \cap B = {}
  BY <1>2, <1>3
<1>6. Cardinality(C) = Cardinality(A) + Cardinality(B)
  BY <1>1, <1>3, <1>5, Joined
<1>7. Cardinality(A) \in Int /\ Cardinality(B) \in Int
  BY <1>1, <1>3, FS_Subset, FS_CardinalityType
<1> HIDE DEF left
<1>8. FullOutputs(left, prodbase) = FullOutputs(out, prodbase) - Reactivated(out, s) /\ Reactivated(out, s) \in Int
  BY <1>4, <1>6, <1>7
<1> QED BY <1>8 DEF left

(* One element more, or one less *)
LEMMA OneMore ==
  ASSUME NEW S, IsFiniteSet(S), NEW A \in SUBSET S, NEW i \in S, i \notin A, NEW C, C = A \cup {i}
  PROVE  Cardinality(C) = Cardinality(A) + 1 /\ Cardinality(A) \in Int
<1>1. {i} \in SUBSET S /\ A \cap {i} = {} /\ Cardinality({i}) = 1
  BY FS_Singleton
<1>2. Cardinality(A) \in Int
  BY FS_Subset, FS_CardinalityType
<1> QED BY <1>1, <1>2, Joined

(* A demand that becomes full, or no longer is, is counted *)
LEMMA CrossedCounts ==
  ASSUME Stores, NEW i \in Inputs, NEW d \in Int
  PROVE  FullDemands(Demand(i, d), prodbase) = FullDemands(demand_buffer, prodbase) + Crossed(i, d)
<1> DEFINE m == InMax(prodbase)
           after == Demand(i, d)
           A == {j \in Inputs : demand_buffer[j] >= m}
           C == {j \in Inputs : after[j] >= m}
<1>1. demand_buffer \in [Inputs -> Int] /\ m \in Int /\ IsFiniteSet(Inputs)
  BY Desc DEF Stores, TypeOK
<1>2. after \in [Inputs -> Int] /\ after[i] = d /\ \A j \in Inputs : j # i => after[j] = demand_buffer[j]
  BY <1>1 DEF Demand
<1>3. FullDemands(after, prodbase) = Cardinality(C) /\ FullDemands(demand_buffer, prodbase) = Cardinality(A)
  BY <1>1, <1>2 DEF FullDemands
<1>4. A \in SUBSET Inputs /\ C \in SUBSET Inputs
  OBVIOUS
<1>5. \A j \in Inputs : j # i => (j \in A <=> j \in C)
  BY <1>2
<1>6. (i \in A <=> demand_buffer[i] >= m) /\ (i \in C <=> d >= m)
  BY <1>2
<1> HIDE DEF A, C, after
<1>7. Cardinality(A) \in Int /\ Cardinality(C) \in Int
  BY <1>1, <1>4, FS_Subset, FS_CardinalityType
<1>8. CASE demand_buffer[i] >= m /\ d < m
  <2>1. i \notin C /\ A = C \cup {i}
    BY <1>1, <1>4, <1>5, <1>6, <1>8
  <2>2. Cardinality(A) = Cardinality(C) + 1
    BY <1>1, <1>4, <2>1, OneMore
  <2>3. Crossed(i, d) = -1
    BY <1>8 DEF Crossed
  <2> QED BY <1>3, <1>7, <2>2, <2>3 DEF after
<1>9. CASE demand_buffer[i] < m /\ d >= m
  <2>1. i \notin A /\ C = A \cup {i}
    BY <1>1, <1>4, <1>5, <1>6, <1>9
  <2>2. Cardinality(C) = Cardinality(A) + 1
    BY <1>1, <1>4, <2>1, OneMore
  <2>3. Crossed(i, d) = 1
    BY <1>1, <1>9 DEF Crossed
  <2> QED BY <1>3, <1>7, <2>2, <2>3 DEF after
<1>10. CASE ~(demand_buffer[i] >= m /\ d < m) /\ ~(demand_buffer[i] < m /\ d >= m)
  <2>1. A = C
    <3>1. i \in A <=> i \in C
      <4> HIDE DEF m
      <4> QED BY <1>1, <1>6, <1>10
    <3> QED BY <1>4, <1>5, <3>1
  <2>2. Crossed(i, d) = 0
    BY <1>10 DEF Crossed
  <2> QED BY <1>3, <1>7, <2>1, <2>2 DEF after
<1> QED
  <2> HIDE DEF m
  <2> QED BY <1>8, <1>9, <1>10

(* An input that gets goods is no longer empty *)
LEMMA FilledCounts ==
  ASSUME Stores, NEW i \in Inputs, NEW v \in Nat, v > 0
  PROVE  EmptyInputs([input EXCEPT ![i] = v]) = EmptyInputs(input) - IF input[i] <= 0 THEN 1 ELSE 0
<1> DEFINE after == [input EXCEPT ![i] = v]
           A == {j \in Inputs : input[j] <= 0}
           C == {j \in Inputs : after[j] <= 0}
<1>1. input \in [Inputs -> Nat] /\ IsFiniteSet(Inputs)
  BY Desc, Stocks DEF Stores
<1>2. after \in [Inputs -> Nat] /\ after[i] = v /\ \A j \in Inputs : j # i => after[j] = input[j]
  BY <1>1
<1>3. EmptyInputs(after) = Cardinality(C) /\ EmptyInputs(input) = Cardinality(A)
  BY <1>1, <1>2 DEF EmptyInputs
<1>4. A \in SUBSET Inputs /\ C \in SUBSET Inputs
  OBVIOUS
<1>5. (\A j \in Inputs : j # i => (j \in A <=> j \in C)) /\ i \notin C /\ (i \in A <=> input[i] <= 0)
  BY <1>2
<1> HIDE DEF A, C, after
<1>6. Cardinality(A) \in Int /\ Cardinality(C) \in Int
  BY <1>1, <1>4, FS_Subset, FS_CardinalityType
<1>7. CASE input[i] <= 0
  <2>1. A = C \cup {i}
    BY <1>4, <1>5, <1>7
  <2>2. Cardinality(A) = Cardinality(C) + 1
    BY <1>1, <1>4, <1>5, <2>1, OneMore
  <2> QED BY <1>3, <1>6, <1>7, <2>2 DEF after
<1>8. CASE ~(input[i] <= 0)
  <2>1. A = C
    BY <1>4, <1>5, <1>8
  <2> QED BY <1>3, <1>6, <1>8, <2>1 DEF after
<1> QED BY <1>7, <1>8

-----------------------------------------------------------------------------
(* Every step keeps the caches *)

LEMMA StepCaches ==
  ASSUME Stores, CachesHold, Jit2, desc.ins > 0, Countable, NEW prod \in Prods, Step(prod)
  PROVE  CachesHold'
<1> DEFINE made == Control(prod)
<1>1. Makes(made, prod) /\ Counts(made)
  BY MostProduced, ControlMakes, Exact
<1> HIDE DEF made
<1>2. PICK demand \in {Ordered(made.want)} :
        /\ input' = made.input /\ output' = made.output /\ demand_buffer' = demand
        /\ inactive_inputs' = Byte(inactive_inputs + made.ins)
        /\ inactive_outputs' = Byte(inactive_outputs + made.outs)
        /\ inactive_demands' = Byte(inactive_demands + NewlyFull(demand))
        /\ UNCHANGED <<desc, prodbase, placing_orders, in_transit, underway>>
  BY DEF Step, made
<1>3. made.ins \in Nat /\ made.outs \in Nat /\ made.want \in Nat /\ made.input \in [Inputs -> Int] /\ made.output \in [Outputs -> Int]
  BY <1>1 DEF Makes
<1>4. demand \in [Inputs -> Int] /\ \A i \in Inputs : demand_buffer[i] <= demand[i]
  BY <1>3, OrderedType
<1>5. /\ FullDemands(demand, prodbase) = inactive_demands + NewlyFull(demand) /\ NewlyFull(demand) \in Int
      /\ inactive_inputs \in Int /\ inactive_outputs \in Int /\ inactive_demands \in Int /\ prodbase \in Bases
  BY <1>4, DemandCounts, Exact DEF Stores, TypeOK
<1>6. /\ inactive_inputs + made.ins \in Int /\ inactive_outputs + made.outs \in Int
      /\ inactive_demands + NewlyFull(demand) \in Int
  BY <1>3, <1>5
<1> QED BY <1>1, <1>2, <1>3, <1>4, <1>5, <1>6, CachesFrom DEF Counts

LEMMA PeriodCaches ==
  ASSUME Stores, CachesHold, Jit2, desc.ins > 0, Countable, NEW prod \in Prods, StepPeriod(prod)
  PROVE  CachesHold'
<1> DEFINE made == Control(prod)
<1>1. prod \in Nat /\ Makes(made, prod) /\ Counts(made)
  BY MostProduced, ControlMakes, Exact
<1> HIDE DEF made
<1>2. PICK demand \in {Ordered(made.want)}, s \in Shipments(made.output) :
        /\ input' = made.input
        /\ output' = [o \in Outputs |-> made.output[o] - Units(s[o])]
        /\ demand_buffer' = demand
        /\ placing_orders' = Orders(made.input, demand)
        /\ inactive_inputs' = Byte(inactive_inputs + made.ins)
        /\ inactive_outputs' = Byte(inactive_outputs + made.outs - Reactivated(made.output, s))
        /\ inactive_demands' = Byte(inactive_demands + NewlyFull(demand))
        /\ UNCHANGED <<desc, prodbase, in_transit, underway>>
  BY DEF StepPeriod, made
<1>3. made.ins \in Nat /\ made.outs \in Nat /\ made.want \in Nat /\ made.input \in [Inputs -> Int] /\ made.output \in [Outputs -> Nat]
  BY <1>1 DEF Makes
<1>4. demand \in [Inputs -> Int] /\ \A i \in Inputs : demand_buffer[i] <= demand[i]
  BY <1>3, OrderedType
<1>5. /\ FullDemands(demand, prodbase) = inactive_demands + NewlyFull(demand) /\ NewlyFull(demand) \in Int
      /\ inactive_inputs \in Int /\ inactive_outputs \in Int /\ inactive_demands \in Int /\ prodbase \in Bases
  BY <1>4, DemandCounts, Exact DEF Stores, TypeOK
<1>6. \A o \in Outputs : made.output[o] <= OutMax(prodbase)
  <2> TAKE o \in Outputs
  <2>1. made.output[o] <= output[o] \/ made.output[o] <= OutMax(prodbase) + 0
    BY <1>1 DEF Makes
  <2>2. output[o] \in Nat /\ output[o] <= OutMax(prodbase) /\ OutMax(prodbase) \in Nat /\ made.output[o] \in Nat
    BY <1>3, Stocks, Exact, Desc DEF Stores
  <2> QED BY <2>1, <2>2
<1>7. \A o \in Outputs : Units(s[o]) \in Nat
  <2> TAKE o \in Outputs
  <2>1. s[o] \in 0..Goods(MinShipment(prodbase)) /\ MinShipment(prodbase) \in Nat
    BY Desc DEF Shipments, Stores
  <2> QED BY <2>1, GoodsFacts
<1> DEFINE left == [o \in Outputs |-> made.output[o] - Units(s[o])]
<1>8. FullOutputs(left, prodbase) = FullOutputs(made.output, prodbase) - Reactivated(made.output, s)
      /\ Reactivated(made.output, s) \in Int
  BY <1>3, <1>6, <1>7, RoomAgain
<1>9. left \in [Outputs -> Int]
  BY <1>3, <1>7
<1>10. output' = left
  BY <1>2
<1> HIDE DEF left
<1>11. /\ inactive_inputs + made.ins \in Int /\ inactive_outputs + made.outs - Reactivated(made.output, s) \in Int
       /\ inactive_demands + NewlyFull(demand) \in Int
  BY <1>3, <1>5, <1>8
<1>12. /\ EmptyInputs(made.input) = inactive_inputs + made.ins
       /\ FullOutputs(left, prodbase) = inactive_outputs + made.outs - Reactivated(made.output, s)
  <2>1. EmptyInputs(made.input) = inactive_inputs + made.ins /\ FullOutputs(made.output, prodbase) = inactive_outputs + made.outs
    BY <1>1 DEF Counts
  <2> QED BY <1>3, <1>5, <1>8, <2>1
<1> QED BY <1>2, <1>3, <1>4, <1>5, <1>9, <1>10, <1>11, <1>12, CachesFrom

(* Where only one demand changes, and perhaps one input is filled *)
LEMMA OneCaches ==
  ASSUME Stores, CachesHold, Jit2, desc.ins > 0, Countable, NEW i \in Inputs, NEW d \in Int,
         NEW v \in Nat, v > 0 \/ v = input[i],
         UNCHANGED <<desc, prodbase, output>>, input' = [input EXCEPT ![i] = v], demand_buffer' = Demand(i, d),
         inactive_inputs' = Byte(inactive_inputs - IF input[i] <= 0 /\ v > 0 THEN 1 ELSE 0),
         inactive_outputs' = Byte(inactive_outputs),
         inactive_demands' = Byte(inactive_demands + Crossed(i, d))
  PROVE  CachesHold'
<1>1. /\ inactive_inputs \in Int /\ inactive_outputs \in Int /\ inactive_demands + Crossed(i, d) \in Int /\ prodbase \in Bases
      /\ inactive_inputs - (IF input[i] <= 0 /\ v > 0 THEN 1 ELSE 0) \in Int
  <2>1. 0 \in Nat
    OBVIOUS
  <2> QED BY <2>1, Exact, Goods1 DEF Stores, TypeOK
<1>2. input \in [Inputs -> Nat] /\ input' \in [Inputs -> Int] /\ output \in [Outputs -> Int] /\ demand_buffer' \in [Inputs -> Int]
  <2>1. /\ input \in [Inputs -> Nat] /\ output \in [Outputs -> Int] /\ demand_buffer \in [Inputs -> Int]
        /\ demand_buffer' = [demand_buffer EXCEPT ![i] = d]
    BY Stocks DEF Stores, TypeOK, Demand
  <2>2. input' \in [Inputs -> Int]
    BY <2>1
  <2> QED BY <2>1, <2>2
<1>3. EmptyInputs(input') = inactive_inputs - IF input[i] <= 0 /\ v > 0 THEN 1 ELSE 0
  <2>1. CASE v > 0
    BY <2>1, FilledCounts, Exact DEF Cached
  <2>2. CASE ~(v > 0)
    <3>1. v = input[i]
      BY <2>2
    <3>2. input' = input
      BY <1>2, <3>1
    <3> QED BY <1>1, <2>2, <3>2, Exact DEF Cached
  <2> QED BY <2>1, <2>2
<1>4. FullDemands(demand_buffer', prodbase) = inactive_demands + Crossed(i, d)
  BY CrossedCounts, Exact
<1>5. FullOutputs(output, prodbase) = inactive_outputs
  BY Exact DEF Cached
<1> QED BY <1>1, <1>2, <1>3, <1>4, <1>5, CachesFrom

(* A counter that is left alone *)
LEMMA SameByte ==
  ASSUME Stores, Jit2
  PROVE  /\ Byte(inactive_inputs) = inactive_inputs /\ Byte(inactive_outputs) = inactive_outputs
         /\ Byte(inactive_demands) = inactive_demands
BY ByteFacts DEF Stores, TypeOK

(* A factory that is supplied, called back from, delivered to, or robbed *)
LEMMA GoodsCaches ==
  ASSUME Stores, CachesHold, Jit2, desc.ins > 0, Countable, NEW i \in Inputs,
         Ship(i) \/ Recall(i) \/ Arrive(i) \/ Lose(i)
  PROVE  CachesHold'
<1>1. /\ input \in [Inputs -> Nat] /\ input[i] \in Nat /\ demand_buffer[i] \in Int /\ demand_buffer \in [Inputs -> Int]
      /\ inactive_inputs \in Int
  BY Stocks DEF Stores, TypeOK
<1>2. ASSUME NEW d \in Int, UNCHANGED <<desc, prodbase, input, output, inactive_inputs, inactive_outputs>>,
             demand_buffer' = Demand(i, d), inactive_demands' = Byte(inactive_demands + Crossed(i, d))
      PROVE  CachesHold'
  <2> DEFINE v == input[i]
  <2>1. input' = [input EXCEPT ![i] = v] /\ v \in Nat
    BY <1>1, <1>2
  <2>2. inactive_inputs - (IF input[i] <= 0 /\ v > 0 THEN 1 ELSE 0) = inactive_inputs
    BY <1>1
  <2>3. v > 0 \/ v = input[i]
    OBVIOUS
  <2> HIDE DEF v
  <2> QED BY <1>2, <2>1, <2>2, <2>3, SameByte, OneCaches
<1>3. ASSUME Ship(i) PROVE CachesHold'
  <2>1. PICK n \in 1..ShipmentMax :
          LET d == IF Jit2 THEN demand_buffer[i] - Units(n) ELSE demand_buffer[i]
          IN  /\ demand_buffer' = Demand(i, d)
              /\ inactive_demands' = Byte(inactive_demands + Crossed(i, d))
    BY <1>3 DEF Ship
  <2>2. n \in Nat /\ Units(n) \in Nat
    BY UnitsFacts
  <2>3. demand_buffer[i] - Units(n) \in Int
    BY <1>1, <2>2
  <2>4. UNCHANGED <<desc, prodbase, input, output, inactive_inputs, inactive_outputs>>
    BY <1>3 DEF Ship
  <2> QED BY <1>2, <2>1, <2>3, <2>4
<1>4. ASSUME Recall(i) PROVE CachesHold'
  <2>1. PICK n \in 1..underway[i] :
          LET d == IF Jit2 THEN demand_buffer[i] + Units(n) ELSE demand_buffer[i]
          IN  /\ demand_buffer' = Demand(i, d)
              /\ inactive_demands' = Byte(inactive_demands + Crossed(i, d))
              /\ UNCHANGED <<desc, prodbase, input, output, inactive_inputs, inactive_outputs>>
    BY <1>4 DEF Recall
  <2>2. n \in Nat /\ Units(n) \in Nat
    BY UnitsFacts
  <2>3. demand_buffer[i] + Units(n) \in Int
    BY <1>1, <2>2
  <2> QED BY <1>2, <2>1, <2>3
<1>5. ASSUME Arrive(i) PROVE CachesHold'
  <2>1. PICK n \in 1..underway[i] :
           /\ input' = [input EXCEPT ![i] = Stored(i, n)]
           /\ demand_buffer' = Demand(i, Wanted(i, n))
           /\ inactive_inputs' = Byte(inactive_inputs - IF input[i] <= 0 THEN 1 ELSE 0)
           /\ inactive_demands' = Byte(inactive_demands + Crossed(i, Wanted(i, n)))
           /\ UNCHANGED <<desc, prodbase, output, placing_orders, inactive_outputs>>
           /\ Stored(i, n) \in Nat /\ Wanted(i, n) \in Int /\ Stored(i, n) > 0
    BY <1>5, Arrives
  <2>2. (input[i] <= 0 /\ Stored(i, n) > 0) <=> input[i] <= 0
    BY <2>1
  <2>3. inactive_inputs' = Byte(inactive_inputs - IF input[i] <= 0 /\ Stored(i, n) > 0 THEN 1 ELSE 0)
    BY <2>1, <2>2
  <2> QED BY <2>1, <2>3, SameByte, OneCaches
<1>6. ASSUME Lose(i) PROVE CachesHold'
  <2>1. UNCHANGED <<desc, prodbase, input, output, demand_buffer, inactive_inputs, inactive_outputs, inactive_demands>>
    BY <1>6 DEF Lose, inactive
  <2> QED BY <2>1 DEF CachesHold, Jit2, EmptyInputs, FullOutputs, FullDemands
<1> QED BY <1>3, <1>4, <1>5, <1>6

(* What counts anew is right *)
LEMMA AnewCaches ==
  ASSUME Stores, Countable, Load \/ \E p \in Bases : SetBaseProduction(p)
  PROVE  CachesHold'
<1>0. TypeOK /\ prodbase \in Bases
  BY DEF Stores, TypeOK
<1>1. ASSUME Load PROVE CachesHold'
  <2>1. LoadedInput \in [Inputs -> Int] /\ LoadedOutput \in [Outputs -> Int] /\ LoadedDemand \in [Inputs -> Int]
    BY LoadedTypes
  <2>2. /\ EmptyInputs(LoadedInput) \in Int /\ FullOutputs(LoadedOutput, prodbase) \in Int
        /\ FullDemands(LoadedDemand, prodbase) \in Int
    <3>1. /\ EmptyInputs(LoadedInput) \in 0..desc.ins /\ FullOutputs(LoadedOutput, prodbase) \in 0..desc.outs
          /\ FullDemands(LoadedDemand, prodbase) \in 0..desc.ins
      BY <1>0, <2>1, Empties
    <3> QED BY <3>1
  <2> QED BY <1>0, <1>1, <2>1, <2>2, Loads, CachesFrom
<1>2. ASSUME NEW p \in Bases, SetBaseProduction(p) PROVE CachesHold'
  <2>1. input \in [Inputs -> Int] /\ output \in [Outputs -> Int] /\ demand_buffer \in [Inputs -> Int]
    BY <1>0 DEF TypeOK
  <2>2. EmptyInputs(input) \in Int /\ FullOutputs(output, p) \in Int /\ FullDemands(demand_buffer, p) \in Int
    <3>1. /\ EmptyInputs(input) \in 0..desc.ins /\ FullOutputs(output, p) \in 0..desc.outs
          /\ FullDemands(demand_buffer, p) \in 0..desc.ins
      BY <1>0, <2>1, Empties
    <3> QED BY <3>1
  <2>3. /\ prodbase' = p
        /\ inactive_inputs' = Byte(EmptyInputs(input)) /\ inactive_outputs' = Byte(FullOutputs(output, p))
        /\ inactive_demands' = Byte(FullDemands(demand_buffer, p))
        /\ UNCHANGED <<desc, input, output, demand_buffer>>
    BY <1>2 DEF SetBaseProduction
  <2> QED BY <2>1, <2>2, <2>3, CachesFrom
<1> QED BY <1>1, <1>2

LEMMA Same ==
  ASSUME Stores, [Next]_vars
  PROVE  desc' = desc
<1>1. ASSUME NEW prod \in Prods, Step(prod) \/ StepPeriod(prod) PROVE desc' = desc
  BY <1>1 DEF Step, StepPeriod
<1>2. ASSUME NEW i \in Inputs, Ship(i) \/ Arrive(i) \/ Recall(i) \/ Lose(i) PROVE desc' = desc
  BY <1>2 DEF Ship, Arrive, Recall, Lose
<1>3. ASSUME NEW p \in Bases, SetBaseProduction(p) PROVE desc' = desc
  BY <1>3 DEF SetBaseProduction
<1>4. CASE Load
  BY <1>4, Loads
<1>5. CASE UNCHANGED vars
  BY <1>5 DEF vars
<1> QED BY <1>1, <1>2, <1>3, <1>4, <1>5 DEF Next

(* The caches are kept by a factory that does not lose fields under just_in_time 2 *)
LEMMA CachesStep ==
  ASSUME Stores, CachesHold, Jit2 => Countable, [Next]_vars
  PROVE  CachesHold'
<1>1. CASE ~(Jit2 /\ desc.ins > 0)
  BY <1>1, Same DEF CachesHold, Jit2
<1>2. CASE Jit2 /\ desc.ins > 0
  <2>1. ASSUME NEW prod \in Prods, Step(prod) \/ StepPeriod(prod) PROVE CachesHold'
    BY <1>2, <2>1, StepCaches, PeriodCaches
  <2>2. ASSUME NEW i \in Inputs, Ship(i) \/ Arrive(i) \/ Recall(i) \/ Lose(i) PROVE CachesHold'
    BY <1>2, <2>2, GoodsCaches
  <2>3. CASE Load \/ \E p \in Bases : SetBaseProduction(p)
    BY <1>2, <2>3, AnewCaches
  <2>4. CASE UNCHANGED vars
    BY <2>4, Unchanged
  <2> QED BY <2>1, <2>2, <2>3, <2>4 DEF Next
<1> QED BY <1>1, <1>2

(* The counters of inactive inputs and outputs and the demands that are full   *)
(* always fit what is in the stores, however steps of production, shipments,   *)
(* deliveries, call-backs, losses and loading interleave, for every factory    *)
(* with inputs and any stores that under just_in_time 2 keeps its fields and   *)
(* has fewer inputs and outputs than an 8-bit counter counts: what is          *)
(* registered and unregistered as inactive is what rebuild_inactive_cache      *)
(* would count (simfab.cc)                                                     *)
THEOREM CachesAgree ==
  ASSUME \A d \in Descs : d.jit = 2 => ~d.shrinks /\ d.ins < CounterSize /\ d.outs < CounterSize
  PROVE  Spec => []CachesHold
<1> DEFINE Inv == Stores /\ CachesHold
<1>0. Stores => (Jit2 => Countable)
  BY DEF Stores, TypeOK, Jit2, Countable
<1>1. Init => Inv
  BY <1>0, InitStores DEF CachesHold
<1>2. Inv /\ [Next]_vars => Inv'
  BY <1>0, StoresKept, CachesStep
<1>3. Inv => CachesHold
  OBVIOUS
<1> QED BY <1>1, <1>2, <1>3, PTL DEF Spec

(* Nothing is shipped or used up that is not there and no store overflows,     *)
(* whatever the control type of the factory and however its steps interleave   *)
(* with deliveries, call-backs, losses, loading and a changed base production  *)
(* (fabrik_t::step, liefere_an, verteile_waren, finish_rd)                     *)
THEOREM StocksStayInBounds == Spec => []StocksInBounds
<1>1. Init => Stores
  BY InitStores
<1>2. Stores /\ [Next]_vars => Stores'
  BY StoresKept
<1>3. Stores => StocksInBounds
  BY DEF Stores
<1> QED BY <1>1, <1>2, <1>3, PTL DEF Spec

(* Stocks, demands and what is under way are what their types allow, and the   *)
(* 8-bit counters of inactive stores stay within their range (simfab.h)        *)
THEOREM FactoryTypes == Spec => []TypeOK
<1>1. Init => Stores
  BY InitStores
<1>2. Stores /\ [Next]_vars => Stores'
  BY StoresKept
<1>3. Stores => TypeOK
  BY DEF Stores
<1> QED BY <1>1, <1>2, <1>3, PTL DEF Spec
=============================================================================
