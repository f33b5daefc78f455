CONSTANTS
  Route <- MCRoute
  Depots = {"d"}
  MaxEntries = 5
  MaxReturn = 4
  MaxEdits = 2
SPECIFICATION Spec
CHECK_DEADLOCK FALSE
INVARIANTS TypeOK CleanIsClean
PROPERTIES SelectionFollows GoalIsKept
