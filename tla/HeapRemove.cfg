SPECIFICATION Spec
CONSTANTS
    Delays = {0, 1}
    MaxEvents = 7
PROPERTIES
    KeepsContract
CHECK_DEADLOCK FALSE
