CONSTANTS
  Convoys = {c1, c2}
  Lines = {l1, l2}
  None = None
  Schedules <- MCSchedules
  Overtaking = {}
SPECIFICATION Spec
SYMMETRY MCSymmetry
CHECK_DEADLOCK FALSE
INVARIANTS Members Registrations CopyIsCurrent KeptTrack
