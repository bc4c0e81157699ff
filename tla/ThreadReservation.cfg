SPECIFICATION FairSpec
CONSTANTS
    r1 = r1
    r2 = r2
    r3 = r3
    s1 = s1
    Runs <- MCTwoRuns
    Scans <- MCScans
    Claude <- MCClaude
    Unsure <- MCNone
    NoFile = NoFile
    Tries = 2
    MaxFaults = 2
    MaxCrashes = 3
PROPERTIES
    PossessionKept
    DeadLockGoes
CHECK_DEADLOCK FALSE
