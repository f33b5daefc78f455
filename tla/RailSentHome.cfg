CONSTANTS
  t1 = t1
  t2 = t2
  Nobody = Nobody
  Trains <- MCTrains
  Tiles <- MCTiles
  Length <- MCLength
  Home <- MCHome
  Depots = {"d"}
  Halts = {"a1", "a2", "c1", "c2", "e1"}
  Paths <- MCPaths
  Goals <- MCGoals
  Plans <- MCPlans
  Unseen <- MCUnseen
  Crossings = {"m1"}
  MaxEvents = 1
  Troubles = {"sent"}
SPECIFICATION Spec
CHECK_DEADLOCK FALSE
INVARIANT Exclusive
