SPECIFICATION FairSpec
CONSTANTS
    MaxRequests = 4
INVARIANTS
    TypeOK
    Bookkeeping
    NoneHeldBack
PROPERTIES
    SettledOnce
    InOrder
    NoneSettles
