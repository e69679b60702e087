SPECIFICATION Spec
CONSTANTS
    MaxAttempts = 2
    None = None
INVARIANTS
    ClosedForGood
CHECK_DEADLOCK FALSE
