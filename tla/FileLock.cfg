SPECIFICATION FairSpec
CONSTANTS
    p1 = p1
    p2 = p2
    p3 = p3
    Procs <- MCProcs
    Fallback <- MCFallback
    Hurried <- MCHurried
    NoLock = NoLock
    MaxCalls = 1
    Attempts = 2
    MaxFaults = 1
PROPERTIES
    UpdatesSerialize
    CallEnds
    StaleLockGoes
CHECK_DEADLOCK FALSE
