SPECIFICATION Spec
CONSTANTS
    Delays = {0, 1}
    MaxImpl = 3
INVARIANTS
    NoEventLost
    NoEventTwice
    CancelledNeverInvoked
    UnscheduledEventsExact
    ExpiredIffNotPending
PROPERTIES
    ExecutionOrder
    CollectTakesAll
\* The program ends when the simulator has been destroyed.
CHECK_DEADLOCK FALSE
