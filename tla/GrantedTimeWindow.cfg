SPECIFICATION FairSpec
CONSTANTS
    N = 3
    Link <- MCLink
    Bound <- MCMaxTime
    MaxTime <- MCMaxTime
    Delays = {0, 2}
    MaxEvents = 3
INVARIANTS
    Causality
    NoEventInThePast
    CountsDetectTransients
    FinishTogether
PROPERTIES
    RunTerminates
