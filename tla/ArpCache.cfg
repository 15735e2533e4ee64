SPECIFICATION FairSpec
CONSTANTS
    Address = {a, b}
    Routers = {{a, b}}
    MaxRetries = 1
    PendingQueueSize = 2
    MaxPackets = 3
INVARIANTS
    PendingWillBeRetried
    Accounted
    InOrder
PROPERTIES
    AllRetriesUsed
    EveryPacketDecided
CHECK_DEADLOCK FALSE
