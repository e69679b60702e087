SPECIFICATION Spec
CONSTANTS
    ClientId = {c1, c2}
    None = None
    MaxAttempts = 4
    MaxTickets = 2
    TicketTtl = 1
    ReclaimTtl = 2
    DisconnectThreshold = 1
    MaxTime = 3
    TicketBound = 4
SYMMETRY Symmetric
CONSTRAINT WhileUndisturbed
INVARIANTS
    TypeOK
    TokenAccepted
    SessionReachesClient
PROPERTIES
    IdentityKept
CHECK_DEADLOCK FALSE
