SPECIFICATION FairSpec
CONSTANTS
    Delays = {0, 5}
    IdleWait = 5
    Epoch = 100
    MaxTime = 6
    MaxEvents = 3
INVARIANTS
    Paced
    NoSignalMissed
PROPERTIES
    DueEventsRun
\* The main thread may wait for an event after the last moment.
CHECK_DEADLOCK FALSE
