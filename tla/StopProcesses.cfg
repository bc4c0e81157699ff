SPECIFICATION FairSpec
CONSTANTS
    Targets <- MCTargets
    Backward = 10
    Forward = 2
    MaxGen <- MCMaxGen
    Crowded = {11}
    MaxFailures = 1
INVARIANTS
    SignalNeedsOwnLook
    OutcomesAreTrue
PROPERTIES
    StopEnds
CHECK_DEADLOCK FALSE
