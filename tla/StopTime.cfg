SPECIFICATION Spec
CONSTANTS
    Delays = {1}
    MaxImpl = 2
\* The program ends when the simulator has been destroyed.
PROPERTIES NoEventAtStopTime
CHECK_DEADLOCK FALSE
