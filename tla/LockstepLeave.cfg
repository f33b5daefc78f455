CONSTANTS
  c1 = c1
  Clients = {c1}
  Server = Server
  NoClient = NoClient
  Congested = {c1}
  MayLeave = {c1}
  Users = {c1, Server}
  AdminSync = TRUE
  PauseServerNoClients = TRUE
  LastChecklistsCount = 2
  MaxMapCounters = 7
  ChecksEvery = 1
  MaxSlot = 3
  MaxStep = 3
  MaxCommand = 1
  MaxMapCounter = 2
SPECIFICATION Spec
CHECK_DEADLOCK FALSE
INVARIANT NeverAheadOfServer
PROPERTIES ServerNeverSetBack ImplementsReplicatedLog
