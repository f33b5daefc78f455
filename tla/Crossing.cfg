CONSTANTS
  c1 = c1
  c2 = c2
  c3 = c3
  t1 = t1
  t2 = t2
  t3 = t3
  Cars <- MCCars
  Trains <- MCTrains
  NoVehicle = NoVehicle
  Tracks = 2
  Track <- SameTrack
  MayRebuild = FALSE
SPECIFICATION LiveSpec
INVARIANTS Exclusive RequesterMayPass
PROPERTIES TrainPasses ClosedOpens
