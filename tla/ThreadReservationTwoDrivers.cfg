SPECIFICATION Spec
CONSTANTS
    r1 = r1
    r2 = r2
    r3 = r3
    s1 = s1
    Runs <- MCRuns
    Scans <- MCScans
    Claude <- MCClaude
    Unsure <- MCNone
    NoFile = NoFile
    Tries = 2
    MaxFaults = 0
    MaxCrashes = 2
INVARIANTS
    OneDriver
CHECK_DEADLOCK FALSE
