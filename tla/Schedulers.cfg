SPECIFICATION MCSpec
CONSTANTS
    Delays = {0, 1}
    MaxEvents = 6
    CalendarDelays = {0, 3, 23}
    Starts = {0, 9}
    Word = 64
INVARIANTS
    CalendarConsistent
PROPERTIES
    KeepsContractUntilRemove
    KeepsEvents
    CalendarKeepsContract
\* The bound on the events stops the model when the scheduler is empty.
CHECK_DEADLOCK FALSE
