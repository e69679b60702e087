SPECIFICATION Spec
CONSTANTS
    MaxAttempts = 3
    None = None
INVARIANTS
    SocketWhileReady
CHECK_DEADLOCK FALSE
