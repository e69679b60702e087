SPECIFICATION FairSpec
CONSTANTS
    MaxAttempts = 4
    None = None
INVARIANTS
    TypeOK
    SteadyWhileReady
    OneThread
    NeverStranded
    QuietAfterClose
PROPERTIES
    NothingNewAfterClose
    AttemptsSettle
CHECK_DEADLOCK FALSE
