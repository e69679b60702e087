SPECIFICATION Spec
CONSTANTS
    ClientId = {c1, c2}
    Socket = {s1, s2, s3}
    None = None
    MaxTickets = 2
    TicketTtl = 2
    ReclaimTtl = 2
    DisconnectThreshold = 1
    MaxTime = 4
    TicketBound = 4
SYMMETRY Symmetric
INVARIANTS
    TypeOK
    TablesAgree
    ReaperArmed
    TicketTable
PROPERTIES
    TicketLifetime
    SilenceIsNotGoodbye
    ImplementsLifecycle
CHECK_DEADLOCK FALSE
