SPECIFICATION FairSpec
CONSTANTS
    Rank = {0, 1, 2}
    a = a
    b = b
    c = c
    Channel = {a, b, c}
    Ends <- RowEnds
    Delay <- RowDelay
    StopTime <- MCStopTime
    SchedulerTune = 100
    InterframeGap = 1
    Delays = {1}
    TxTimes = {1}
    MaxOps = 3
INVARIANTS
    GuaranteeKept
    NoEventInThePast
    NullMessageDue
PROPERTIES
    GuaranteesGrow
    AllStop
