CONSTANTS
  Descs <- MCDescs
  Bases = {1, 2}
  Prods = {3}
  Scale = 3
  Factor = 2
  InCapacity = 1
  OutCapacity = 2
  ShipmentMax = 1
  ShipmentMin = 2
  WorkOne = 4
  WorkMin = 1
  FabMaxInput = 3
  CounterSize = 4
  TransitPercent = 100
  MaxDebt = 2
  MaxUnderway = 1
SPECIFICATION FairSpec
CHECK_DEADLOCK FALSE
INVARIANTS CachesHold StocksInBounds
PROPERTY GetsSupplied
