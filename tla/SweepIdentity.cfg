SPECIFICATION Spec
CONSTANTS
    Grid <- MCGrid
    Classes <- MCClasses
    Settings = {"ratio2", "ratio4"}
    Identity <- MCIdentity
    MaxExecs = 4
INVARIANTS NoConfigurationDropped
\* The bound on the executions stops the model.
CHECK_DEADLOCK FALSE
