CONSTANTS
  c1 = c1
  c2 = c2
  Clients = {c1, c2}
  Server = Server
  NoClient = NoClient
  Congested = {}
  MayLeave = {}
  Users = {c1, Server}
  AdminSync = FALSE
  PauseServerNoClients = TRUE
  LastChecklistsCount = 64
  MaxMapCounters = 1
  ChecksEvery = 2
  MaxSlot = 3
  MaxStep = 2
  MaxCommand = 1
  MaxMapCounter = 2
SPECIFICATION FairSpec
CHECK_DEADLOCK FALSE
INVARIANT NobodyDesyncs
PROPERTIES JoinCompletes ImplementsReplicatedLog
