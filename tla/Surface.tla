-------------------------------- MODULE Surface --------------------------------
(***************************************************************************)
(* The cells and the vertex heights of the world (surface_t), and how      *)
(* karte_t::rotate90 turns them (world/simworld.cc): three steps of 60     *)
(* degrees in a row, each moving every tile and every height slot into new *)
(* arrays of another size.  A cell of plan stands for all that is stored   *)
(* per cell and moved with it: grounds, water height, climate, humidity;   *)
(* a height slot for the visible and the natural height.                   *)
(***************************************************************************)
EXTENDS MapShape

CONSTANTS
  Worlds,     \* the shapes a world may be made with
  StepCounts, \* the numbers of steps rotate90 is called with
  NoGround,   \* a cell off the map
  MaxTurns    \* bound: at most so many steps

ASSUME SurfaceAssumption ==
  /\ Worlds \subseteq Shape
  /\ StepCounts \subseteq Nat
  /\ NoGround \notin Tile
  /\ MaxTurns \in Nat

VARIABLES
  shape,    \* cached_shape
  rotation, \* settings_t::rotation
  steps,    \* the steps that a call of rotate90 has left
  plan,     \* the array of cells: the tile that the cell's grounds were made for
  hgts,     \* grid_hgts: 1 where the ground is raised
  hill,     \* history: where the raised vertex was in the plane, and the rotation then
  turns     \* counts the steps, for the bound

surfaceVars == <<shape, rotation, steps, plan, hgts, hill, turns>>

Groundwater == 0
NoHill == [pos |-> [x |-> 0, y |-> 0], rotation |-> -1]

CellNr(s, k) == k.x + k.y * SizeQ(s)
Cells(s) == 0..(SizeQ(s) * SizeR(s) - 1)
SlotNrs(s) == 0..(SlotCount(SizeQ(s), SizeR(s)) - 1)
Slot(s, v) == SlotIndex(Canonical(v), SizeQ(s))

SurfaceTypeOK ==
  /\ shape \in Shape
  /\ rotation \in 0..5 /\ steps \in 0..6 /\ turns \in 0..MaxTurns
  /\ plan \in [Cells(shape) -> {NoGround} \cup
                               [x : 0..(shape.w + shape.h + shape.d), y : 0..(shape.w + shape.h + shape.d)]]
  /\ hgts \in [SlotNrs(shape) -> {0, 1}]

SurfaceInit ==
  /\ shape \in Worlds
  /\ rotation = 0 /\ steps = 0 /\ turns = 0
  /\ plan = [n \in Cells(shape) |->
               IF \E k \in Tiles(shape) : CellNr(shape, k) = n
               THEN CHOOSE k \in Tiles(shape) : CellNr(shape, k) = n ELSE NoGround]
  /\ hgts = [n \in SlotNrs(shape) |-> Groundwater]
  /\ hill = NoHill

(* set_grid_hgt_nocheck for a corner of a tile, whichever of its names is used *)
SetHeight(k, c) ==
  /\ steps = 0 /\ hill = NoHill
  /\ hgts' = [hgts EXCEPT ![Slot(shape, Vertex(k, c))] = 1]
  /\ hill' = [pos |-> Pos(Vertex(k, c)), rotation |-> rotation]
  /\ UNCHANGED <<shape, rotation, steps, plan, turns>>

(* can_rotate90 and rotate90 *)
Rotate90(n) ==
  /\ steps = 0 /\ n % 3 = 0 /\ rotation % 3 = 0 /\ turns + n <= MaxTurns
  /\ steps' = n
  /\ UNCHANGED <<shape, rotation, plan, hgts, hill, turns>>

(* The new arrays of a step: what each cell and each slot is moved to *)
TurnedPlan(from, to) ==
  LET moves == {<<CellNr(to, RotateTile(from, k)), plan[CellNr(from, k)]>> : k \in Tiles(from)}
      moved == {m[1] : m \in moves}
  IN  [n \in Cells(to) |-> IF n \in moved THEN (CHOOSE m \in moves : m[1] = n)[2] ELSE NoGround]
TurnedHeightsOf(to, moves) ==
  LET raised == {m[1] : m \in {m \in moves : m[2] = 1}}
  IN  [n \in SlotNrs(to) |-> IF n \in raised THEN 1 ELSE Groundwater]
TurnedHeightsTiles(from, to) == \* mutant: only slots whose own tile is on the map are moved
  TurnedHeightsOf(to, {<<Slot(to, RotateVertex(from, v)), hgts[SlotIndex(v, SizeQ(from))]>> :
                         v \in {v \in Slots(from) : Contains(from, v.tile)}})
TurnedHeights(from, to) ==
  TurnedHeightsOf(to, {<<Slot(to, RotateVertex(from, v)), hgts[SlotIndex(v, SizeQ(from))]>> :
                         v \in {v \in Slots(from) : ContainsVertex(from, v)}})

(* rotate90_step *)
RotateStep ==
  /\ steps > 0
  /\ steps' = steps - 1
  /\ rotation' = (rotation + 1) % 6
  /\ shape' = Rotated(shape)
  /\ plan' = TurnedPlan(shape, Rotated(shape))
  /\ hgts' = TurnedHeights(shape, Rotated(shape))
  /\ turns' = turns + 1
  /\ UNCHANGED hill

SurfaceNext ==
  \/ \E k \in Tiles(shape), c \in Directions : SetHeight(k, c)
  \/ \E n \in StepCounts : Rotate90(n)
  \/ RotateStep

SurfaceSpec == SurfaceInit /\ [][SurfaceNext]_surfaceVars

-----------------------------------------------------------------------------
(* Properties *)

(* Where a point is from the centre of the map, in half units of Pos *)
FromCentre(s, p) == [x |-> 2 * p.x - 3 * (SizeQ(s) - 1),
                     y |-> 2 * p.y - (2 * (SizeR(s) - 1) + SizeQ(s) - 1)]
Centre(k) == [x |-> 3 * k.x, y |-> 2 * k.y + k.x]
(* The shape before n steps *)
Before(s, n) == IF n % 3 = 0 THEN s ELSE IF n % 3 = 1 THEN Rotated(Rotated(s)) ELSE Rotated(s)
(* p turned by 60 degrees clockwise n times: plane geometry, no axial coordinates *)
TurnPoint(p, n) ==
  LET turned[i \in 0..n] ==
        IF i = 0 THEN p ELSE [x |-> (turned[i - 1].x - 3 * turned[i - 1].y) \div 2,
                              y |-> (turned[i - 1].x + turned[i - 1].y) \div 2]
  IN  turned[n]

(* The world turns like a rigid plate about its centre: after any number of  *)
(* steps every ground and the raised vertex are where a turn of the plane    *)
(* puts them, no tile is lost or doubled, no corner of another vertex is     *)
(* raised, whichever of its names it is read by                              *)
RigidWorld ==
  /\ \A k \in Tiles(shape) :
       LET home == plan[CellNr(shape, k)]
           made == Before(shape, rotation)
       IN  /\ home \in Tiles(made)
           /\ FromCentre(shape, Centre(k)) = TurnPoint(FromCentre(made, Centre(home)), rotation)
  /\ \A n \in Cells(shape) :
       plan[n] # NoGround => \E k \in Tiles(shape) : CellNr(shape, k) = n
  /\ \A k \in Tiles(shape), c \in Directions :
       LET turned == (rotation + 6 - hill.rotation) % 6
           raised == FromCentre(Before(shape, turned), hill.pos)
       IN  hgts[Slot(shape, Vertex(k, c))] = 1 <=>
             /\ hill # NoHill
             /\ FromCentre(shape, Pos(Vertex(k, c))) = TurnPoint(raised, turned)

Around(v) == [tile : [x : (v.tile.x - 2)..(v.tile.x + 2), y : (v.tile.y - 2)..(v.tile.y + 2)],
              corner : {E, SE}]
(* Four times the squared length, in side lengths, between two points *)
SquaredLength(p, p1) == (p.x - p1.x) * (p.x - p1.x) + 3 * (p.y - p1.y) * (p.y - p1.y)

(* The properties below are about the shape alone, which a hill does not change *)

(* The three names of a vertex of the map have one slot, inside the array,    *)
(* and no two vertices share a slot; the vertices next to it are those one   *)
(* side length away                                                          *)
VertexNames ==
  hill = NoHill => \A v \in [tile : Tiles(shape), corner : Directions] :
    /\ \A o \in Owners(v) : Canonical(o) = Canonical(v)
    /\ Canonical(v) \in Slots(shape) \cap Owners(v)
    /\ Slot(shape, v) \in SlotNrs(shape)
    /\ \A u \in [tile : Tiles(shape), corner : Directions] :
         Slot(shape, u) = Slot(shape, v) <=> Pos(u) = Pos(v)
    /\ VertexNeighbours(v) = {u \in Around(v) : SquaredLength(Pos(u), Pos(v)) = 4}

Margin(s) == [x : -3..(SizeQ(s) + 2), y : -3..(SizeR(s) + 2)]

(* The loops over rows, columns, the added tiles of a larger map and the band *)
(* along its far sides visit exactly the tiles they are to visit; every tile  *)
(* has a pixel of its own in the relief image, which leads back to it, and    *)
(* generation fills the height slot of every vertex                           *)
Ranges == hill = NoHill =>
  /\ \A k \in Tiles(shape) : QBegin(shape, k.y) <= k.x /\ k.x < QEnd(shape, k.y)
  /\ \A r \in 0..(SizeR(shape) - 1) : \A q \in QBegin(shape, r)..(QEnd(shape, r) - 1) :
       Contains(shape, [x |-> q, y |-> r])
  /\ \A q \in 0..(SizeQ(shape) - 1), r \in 0..(SizeR(shape) - 1) :
       RBegin(shape, q) <= r /\ r < REnd(shape, q) <=> Contains(shape, [x |-> q, y |-> r])
  /\ \A old \in Worlds \cup {None} : Grows(old, shape) =>
       \A k \in Tiles(shape) :
         /\ k.x >= AddedQBegin(shape, old, k.y) <=> ~Contains(old, k)
         /\ k.y >= AddedRBegin(shape, old, k.x) <=> ~Contains(old, k)
  /\ \A band \in 0..4 : \A k \in Tiles(shape) :
       k.x >= FarQBegin(shape, k.y, band) <=>
         \/ k.x > SizeQ(shape) - 1 - band \/ k.y > SizeR(shape) - 1 - band
         \/ k.x + k.y > CutHi(shape) - band
  /\ FromImageSize(ImageCols(shape), ImageRows(shape), shape.d) = shape
  /\ \A k \in Tiles(shape) :
       /\ ImageRow(shape, k.x, k.y) \in 0..(ImageRows(shape) - 1)
       /\ TileRow(shape, k.x, ImageRow(shape, k.x, k.y)) = k.y
       /\ \A c \in Directions : SlotNearMap(shape, Canonical(Vertex(k, c)).tile)

Origin == [x |-> 0, y |-> 0]
Rect(pos, size) == [x : pos.x..(pos.x + size.x - 1), y : pos.y..(pos.y + size.y - 1)]
Angle(i, j) == LET n == Abs(i - j) IN IF n > 3 THEN 6 - n ELSE n

(* A tile at edge distance n has the disc of radius n on the map, and not the next one; a coordinate *)
(* off the map goes to a tile, a tile to itself.  A disc holds the tiles within its radius, and at(i), *)
(* with which a random tile of it is drawn, runs through them once; the distance to a footprint is     *)
(* that to its nearest tile; a turn is as sharp as the angle on the screen                             *)
Measures == hill = NoHill =>
  /\ \A k \in Margin(shape) :
       LET n == EdgeDistance(shape, k)
       IN  /\ n >= 0 <=> Contains(shape, k)
           /\ n >= 0 => /\ \A e \in Disc(n) : Contains(shape, Add(k, e))
                        /\ \E e \in Disc(n + 1) : ~Contains(shape, Add(k, e))
           /\ Contains(shape, Closest(shape, k))
           /\ Contains(shape, k) => Closest(shape, k) = k
  /\ \A n \in 0..3 :
       /\ Disc(n) = {d \in [x : -4..4, y : -4..4] : Distance(Origin, d) <= n}
       /\ {DiscAt(n, i) : i \in 0..(DiscSize(n) - 1)} = Disc(n)
       /\ \A i, j \in 0..(DiscSize(n) - 1) : DiscAt(n, i) = DiscAt(n, j) => i = j
  /\ \A p \in [x : -2..3, y : -2..3], size \in [x : 1..2, y : 1..2] :
       LET d == DistanceToRect(p, Origin, size)
       IN  /\ \E k \in Rect(Origin, size) : Distance(p, k) = d
           /\ \A k \in Rect(Origin, size) : Distance(p, k) >= d
  /\ \A i, j \in Directions : TurnSteps(Neighbour(i), Neighbour(j)) = Angle(i, j)

(* The extents of the world, which "stay within 32766"                        *)
(* (documentation/map-shape.md), however it is turned                         *)
ExtentsFit == SizeQ(shape) <= MaxExtent /\ SizeR(shape) <= MaxExtent
=============================================================================
