SPECIFICATION Spec
CONSTANTS
    Address = {a, b}
    Routers = {{a, b}}
    MaxRetries = 1
    PendingQueueSize = 2
    MaxPackets = 3
INVARIANTS
    PendingOnlyUntilResolved
CHECK_DEADLOCK FALSE
