SPECIFICATION Spec
CONSTANTS
    j1 = j1
    j2 = j2
    Jobs <- MCJobs
    Foreground <- MCForeground
    Claude <- MCClaude
    Cancels <- MCCancelsOther
    Session <- MCSession
    None = None
    MaxJobs = 1
    MaxFailures = 1
INVARIANTS
    ConfirmedStop
PROPERTIES
    SettledIsFinal
    JobFileKept
CHECK_DEADLOCK FALSE
