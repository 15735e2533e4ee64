SPECIFICATION FairSpec
CONSTANTS
    MinLimit = 0
    MaxLimit = 12
    NoSlack = 1000
    Size = {1, 3}
    DiscSize = 4
    MaxSize = 2
    Quota = 2
    HasLimits = TRUE
    MaxPackets = 8
INVARIANTS
    DeviceHasRoom
    StoppedWhileTransmitting
    BytesAccounted
    BacklogMeansStopped
PROPERTIES
    IsFifoLink
    EveryPacketLeaves
CHECK_DEADLOCK FALSE
