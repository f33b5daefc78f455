SPECIFICATION Spec
CONSTANTS
  a = a  b = b  c = c  d = d  e = e
  middle = middle  east = east
  fixed = fixed  moving = moving  last = last
  Halts = {a, b, c, d, e}
  FirstHalts <- InARow
  Lines = {fixed, moving, last}
  Worlds <- TwoPackets
  Places <- Places3
  Near <- Near3
  WeightWait = 8
  WeightHalt = 1
  CounterSize = 4
  Undecided = Undecided
  NoHalt = NoHalt
PROPERTY OnlyUnroutableIsLost
