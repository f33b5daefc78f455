------------------------------- MODULE MCSurface -------------------------------
(* Model-checking instance of Surface: all hexagons with sides up to MaxSide  *)
EXTENDS Surface

CONSTANT MaxSide

MCWorlds == [w : 1..MaxSide, h : 1..MaxSide, d : 1..MaxSide]
=============================================================================
