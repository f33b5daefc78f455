CONSTANTS
  c1 = c1
  Clients = {c1}
  Server = Server
  NoClient = NoClient
  Congested = {}
  MayLeave = {c1}
  Users = {}
  AdminSync = FALSE
  PauseServerNoClients = TRUE
  LastChecklistsCount = 64
  MaxMapCounters = 7
  ChecksEvery = 2
  MaxSlot = 3
  MaxStep = 3
  MaxCommand = 0
  MaxMapCounter = 3
SPECIFICATION Spec
CHECK_DEADLOCK FALSE
INVARIANT JoinIsServed
