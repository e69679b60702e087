SPECIFICATION AppSpec
CONSTANTS
  ClientId = {c1}
  Socket = {s1, s2}
  None = None
  MaxTickets = 1
  TicketTtl = 1
  ReclaimTtl = 1
  DisconnectThreshold = 1
  MaxTime = 3
  TicketBound = 2
  HttpRequest = {h1}
  MaxCloses = 2
INVARIANTS
  AppTypeOK
  ClosedAppStays
  HookAfterPeers
PROPERTIES
  ShutdownEnds
  SilentPeersReaped
CHECK_DEADLOCK FALSE
