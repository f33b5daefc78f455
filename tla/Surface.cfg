CONSTANTS
  MaxCoord = 16
  MaxSide = 3
  Worlds <- MCWorlds
  StepCounts = {3}
  NoGround = NoGround
  MaxTurns = 6
SPECIFICATION SurfaceSpec
CHECK_DEADLOCK FALSE
INVARIANTS RigidWorld VertexNames Ranges Measures
