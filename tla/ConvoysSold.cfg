CONSTANTS
  Convoys = {c1}
  Lines = {l1}
  None = None
  Schedules <- MCSchedules
  Overtaking = {}
SPECIFICATION Spec
CHECK_DEADLOCK FALSE
PROPERTY DestructionIsFinal
