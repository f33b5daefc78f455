-------------------------------- MODULE HexGrid --------------------------------
(***************************************************************************)
(* The hexagonal lattice (dataobj/koord.h, dataobj/koord_hex.cc): tiles in *)
(* axial coordinates (q, r), the six neighbours, distances, discs, the     *)
(* world vertices with their three (tile, corner) names, and the step of a *)
(* map rotation.  Coordinates are 16 bit (sint16): a koord keeps the low   *)
(* bits of what it is made from.                                           *)
(***************************************************************************)
EXTENDS Integers

CONSTANT MaxCoord \* 2^15: a coordinate is one of 2 * MaxCoord values from -MaxCoord

ASSUME CoordAssumption == MaxCoord \in Nat \ {0}

(* The conversion to sint16 *)
Short(n) == ((n + MaxCoord) % (2 * MaxCoord)) - MaxCoord

Koord(q, r) == [x |-> Short(q), y |-> Short(r)]
Tile == [x : Int, y : Int]
Add(a, b) == Koord(a.x + b.x, a.y + b.y)

Abs(n) == IF n < 0 THEN -n ELSE n

(* Directions and corners are numbered clockwise: the neighbours from SE, the *)
(* corners from E; corner c lies between the neighbours c - 1 and c           *)
Directions == 0..5
NeighbourX == [i \in Directions |-> <<1, 0, -1, -1, 0, 1>>[i + 1]]
NeighbourY == [i \in Directions |-> <<0, 1, 1, 0, -1, -1>>[i + 1]]
Neighbour(i) == [x |-> NeighbourX[i], y |-> NeighbourY[i]]

-----------------------------------------------------------------------------
(* Distances *)

Half(n) == n \div 2

Distance(a, b) ==
  LET dx == a.x - b.x
      dz == a.y - b.y
  IN  Half(Abs(dx) + Abs(dx + dz) + Abs(dz))

Clamp(n, lo, hi) == IF n < lo THEN lo ELSE IF n > hi THEN hi ELSE n
DistanceToRect(p, pos, size) ==
  Distance(p, [x |-> Clamp(p.x, pos.x, pos.x + size.x - 1),
               y |-> Clamp(p.y, pos.y, pos.y + size.y - 1)])

(* physical_dot_x2: twice the dot product of two offsets as they are on screen *)
DotX2(a, b) == 2 * a.x * b.x + a.x * b.y + a.y * b.x + 2 * a.y * b.y

(* hex_turn_steps of two neighbour steps *)
TurnSteps(in, out) ==
  LET dot == DotX2(in, out)
  IN  CASE dot = 2 -> 0 [] dot = 1 -> 1 [] dot = -1 -> 2 [] OTHER -> 3

(* hex_disc: its rows are dy \in -n..n, row dy is MinDx..MaxDx; at(i) counts   *)
(* through the rows                                                           *)
MinDx(dy, n) == IF dy < 0 THEN -n - dy ELSE -n
MaxDx(dy, n) == IF dy > 0 THEN n - dy ELSE n
DiscSize(n) == 3 * n * (n + 1) + 1
RowLength(dy, n) == 2 * n + 1 - Abs(dy)
(* what the loop of at has subtracted from the index when it reaches row k - n *)
BeforeRow(n) ==
  LET before[k \in 0..(2 * n + 1)] == IF k = 0 THEN 0 ELSE before[k - 1] + RowLength(k - 1 - n, n)
  IN  before
DiscAtRow(n, index) == \* mutant: the row before is not left when its last tile is passed
  LET k == CHOOSE k \in 0..(2 * n) : BeforeRow(n)[k] <= index /\ index <= BeforeRow(n)[k + 1]
  IN  [x |-> MinDx(k - n, n) + index - BeforeRow(n)[k], y |-> k - n]
DiscAt(n, index) ==
  LET k == CHOOSE k \in 0..(2 * n) : BeforeRow(n)[k] <= index /\ index < BeforeRow(n)[k + 1]
  IN  [x |-> MinDx(k - n, n) + index - BeforeRow(n)[k], y |-> k - n]
Disc(n) == {d \in [x : -n..n, y : -n..n] : MinDx(d.y, n) <= d.x /\ d.x <= MaxDx(d.y, n)}

-----------------------------------------------------------------------------
(* World vertices *)

Vertex(t, c) == [tile |-> t, corner |-> c]

(* vertex_owners: the three names of a world vertex *)
Owners(v) ==
  {v, Vertex(Add(v.tile, Neighbour((v.corner + 5) % 6)), (v.corner + 2) % 6),
      Vertex(Add(v.tile, Neighbour(v.corner)), (v.corner + 4) % 6)}

E  == 0
SE == 1
SW == 2
W  == 3
NW == 4
NE == 5

(* canonical_vertex: the name whose height is stored *)
Canonical(v) ==
  CASE v.corner \in {E, SE} -> v
    [] v.corner = SW -> Vertex(Add(v.tile, [x |-> -1, y |-> 1]), E)
    [] v.corner = W  -> Vertex(Add(v.tile, [x |-> -1, y |-> 0]), SE)
    [] v.corner = NW -> Vertex(Add(v.tile, [x |-> -1, y |-> 0]), E)
    [] v.corner = NE -> Vertex(Add(v.tile, [x |-> 0, y |-> -1]), SE)

(* vertex_neighbours: the vertices at the other ends of the three hex edges *)
VertexNeighbours(v) ==
  LET t == Canonical(v).tile
  IN  IF Canonical(v).corner = E
      THEN {Vertex(t, SE), Vertex(Koord(t.x, t.y - 1), SE), Vertex(Koord(t.x + 1, t.y - 1), SE)}
      ELSE {Vertex(t, E), Vertex(Koord(t.x - 1, t.y + 1), E), Vertex(Koord(t.x, t.y + 1), E)}

(* vertex_slot_count and vertex_slot_index: the heights of a map of sx by sy cells *)
SlotCount(sx, sy) == (sx + 1) * (sy + 2) * 2
SlotIndexNarrow(v, sx) == \* mutant: the row length leaves out the column west of the map
  (v.tile.x + 1 + (v.tile.y + 1) * sx) * 2 + (IF v.corner = SE THEN 1 ELSE 0)
SlotIndex(v, sx) ==
  (v.tile.x + 1 + (v.tile.y + 1) * (sx + 1)) * 2 + (IF v.corner = SE THEN 1 ELSE 0)

(* hex_vertex_pos in units of half a side length and of half the height of a  *)
(* tile, both exact                                                           *)
CornerX == [c \in Directions |-> <<2, 1, -1, -2, -1, 1>>[c + 1]]
CornerY == [c \in Directions |-> <<0, 1, 1, 0, -1, -1>>[c + 1]]
Pos(v) == [x |-> 3 * v.tile.x + CornerX[v.corner],
           y |-> 2 * v.tile.y + v.tile.x + CornerY[v.corner]]

-----------------------------------------------------------------------------
(* hex_axial_rotate by one step *)

AxialRotate(k) == Koord(-k.y, k.x + k.y)
AxialRotateVertex(v) == Vertex(AxialRotate(v.tile), (v.corner + 1) % 6)
=============================================================================
