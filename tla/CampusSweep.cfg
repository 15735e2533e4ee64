SPECIFICATION Spec
CONSTANTS
    Grid <- MCGrid
    Classes <- MCClasses
    Settings = {"downlink", "ratio2", "ratio4"}
    Identity <- MCIdentity
    MaxExecs = 4
INVARIANTS
    WholeRuns
    HeaderFirst
    LastCounts
PROPERTIES
    ReportTruthful
    LoadableStays
\* The bound on the executions stops the model.
CHECK_DEADLOCK FALSE
