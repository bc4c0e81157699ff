SPECIFICATION MCFairSpec
CONSTANTS
    q = q
    r = r
    s = s
    Runs <- MCRuns
    Resumes <- MCResumes
    Pinned <- MCPinned
    None = None
    MaxFaults = 1
    s1 = s1
    Main = Main
    Subs <- MCSubs
    Absent = Absent
    MaxTurns = 2
    MaxSaid = 2
    MaxStale = 1
    MaxEarly = 3
INVARIANTS
    TurnStartsOnce
    ThreadIsItsOwners
    OwnTurnOnly
    NothingLost
PROPERTIES
    RunEnds
    CaptureEnds
\* A turn that is over does nothing more.
CHECK_DEADLOCK FALSE
