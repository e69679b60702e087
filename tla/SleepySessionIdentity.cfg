SPECIFICATION Spec
CONSTANTS
    ClientId = {c1, c2}
    None = None
    MaxAttempts = 2
    MaxTickets = 3
    TicketTtl = 3
    ReclaimTtl = 3
    DisconnectThreshold = 1
    MaxTime = 2
    TicketBound = 2
PROPERTIES
    SameIdAcrossReconnect
CHECK_DEADLOCK FALSE
