-------------------------------- MODULE MapShape --------------------------------
(***************************************************************************)
(* The playable world, map_shape_t (dataobj/map_shape.h): a hexagon whose  *)
(* opposite sides are w, h and d tiles long.  It is the rhombus of         *)
(* SizeQ(s) x SizeR(s) cells with two corners cut off.                     *)
(***************************************************************************)
EXTENDS HexGrid

(* enlarge_map refuses a map that is wider, or that is no hexagon *)
MaxExtent == MaxCoord - 2

SizeQ(s) == s.w + s.d - 1
SizeR(s) == s.h + s.d - 1
Shape == {s \in [w : Nat \ {0}, h : Nat \ {0}, d : Nat \ {0}] :
            SizeQ(s) <= MaxExtent /\ SizeR(s) <= MaxExtent}

(* A world whose extents stay within that however it is turned *)
Turnable(s) == s.w + s.h - 1 <= MaxExtent

CutLo(s) == s.d - 1
CutHi(s) == SizeQ(s) + SizeR(s) - 2 - CutLo(s)

Contains(s, k) ==
  /\ k.x >= 0 /\ k.y >= 0 /\ k.x < SizeQ(s) /\ k.y < SizeR(s)
  /\ k.x + k.y >= CutLo(s) /\ k.x + k.y <= CutHi(s)
Tiles(s) == {k \in [x : 0..(SizeQ(s) - 1), y : 0..(SizeR(s) - 1)] : Contains(s, k)}

(* The shape of no map, which a new world grows from *)
None == [w |-> 0, h |-> 0, d |-> 1]

Larger(a, b) == IF a > b THEN a ELSE b
Smaller(a, b) == IF a < b THEN a ELSE b

-----------------------------------------------------------------------------
(* Rows and columns *)

QBegin(s, r) == Larger(CutLo(s) - r, 0)
QEndShort(s, r) == Smaller(CutHi(s) - r, SizeQ(s)) \* mutant: the last tile on the cut is left out
QEnd(s, r) == Smaller(CutHi(s) - r + 1, SizeQ(s))
RBegin(s, q) == Larger(CutLo(s) - q, 0)
REnd(s, q) == Smaller(CutHi(s) - q + 1, SizeR(s))

(* Where the tiles begin that s has beyond the shape old *)
AddedQBegin(s, old, r) == IF r < SizeR(old) THEN QEnd(old, r) ELSE QBegin(s, r)
AddedRBegin(s, old, q) == IF q < SizeQ(old) THEN REnd(old, q) ELSE RBegin(s, q)

(* Where the tiles within band of the far sides begin *)
FarQBegin(s, r, band) ==
  IF r > SizeR(s) - 1 - band THEN QBegin(s, r)
  ELSE Larger(Smaller(SizeQ(s) - band, CutHi(s) - band + 1 - r), QBegin(s, r))

(* s grows to larger: its sides w and h get longer *)
Grows(old, s) == old = None \/ (s.d = old.d /\ s.w >= old.w /\ s.h >= old.h)

-----------------------------------------------------------------------------
(* Edges *)

(* edge_distance: the least of the distances to the six sides *)
Sides(s, k) ==
  {k.x, k.y, SizeQ(s) - 1 - k.x, SizeR(s) - 1 - k.y, k.x + k.y - CutLo(s), CutHi(s) - k.x - k.y}
EdgeDistance(s, k) == CHOOSE n \in Sides(s, k) : \A m \in Sides(s, k) : n <= m

(* surface_t::get_closest_coordinate *)
ClosestClip(s, k) == \* mutant: the cut corners are left out
  Koord(Clamp(k.x, 0, SizeQ(s) - 1), Clamp(k.y, 0, SizeR(s) - 1))
Closest(s, k) ==
  LET x == Clamp(k.x, 0, SizeQ(s) - 1)
      y == Clamp(k.y, 0, SizeR(s) - 1)
      below == Larger(CutLo(s) - (x + y), 0)
      x1 == x + Half(below + 1)
      y1 == y + Half(below)
      above == Larger(x1 + y1 - CutHi(s), 0)
  IN  Koord(x1 - Half(above + 1), y1 - Half(above))

(* contains_vertex: one of the three owners is a tile of the map *)
ContainsVertex(s, v) == \E o \in Owners(v) : Contains(s, o.tile)

(* The stored cells and vertex slots are those of the rhombus *)
SlotTiles(s) == [x : -1..(SizeQ(s) - 1), y : -1..SizeR(s)]
Slots(s) == [tile : SlotTiles(s), corner : {E, SE}]

(* slot_near_map *)
SlotNearMap(s, k) == k.x + k.y >= CutLo(s) - 2 /\ k.x + k.y <= CutHi(s) + 1

TileCount(s) == SizeQ(s) * SizeR(s) - CutLo(s) * (CutLo(s) + 1)

-----------------------------------------------------------------------------
(* The image frame of a relief *)

ImageCols(s) == SizeQ(s)
ImageRows(s) == s.h + Half(SizeQ(s))
ImageRow(s, q, r) == r + Half(q - CutLo(s))
TileRow(s, i, j) == j - Half(i - CutLo(s))
FromImageSize(cols, rows, d) == [w |-> cols - d + 1, h |-> rows - Half(cols), d |-> d]

-----------------------------------------------------------------------------
(* Rotation by one step of 60 degrees, clockwise on the screen *)

Rotated(s) == [w |-> s.d, h |-> s.w, d |-> s.h]

RotateShift(s) == Koord(s.h + s.d - 2, 1 - s.d)
RotateTile(s, k) == Add(AxialRotate(k), RotateShift(s))
RotateVertex(s, v) ==
  LET r == AxialRotateVertex(v)
  IN  Vertex(Add(r.tile, RotateShift(s)), r.corner)
=============================================================================
