CONSTANTS
  a = a  b = b  c = c  home = home  away = away
  Sockets = {a, b, c}
  NoSocket = NoSocket
  Admins = {a}
  Hosts = {home, away}
  Host <- HostOf
  ServerIsReset = TRUE
  MaxEntries = 2
  MaxSyncs = 2
  MaxCount = 3
SPECIFICATION LiveSpec
INVARIANTS CountersCover OneEntryPerSocket PendingWillBeServed BannedAreOut
PROPERTIES LeaverKeepsEntry JoinEnds
