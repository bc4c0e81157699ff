SPECIFICATION FairSpec
CONSTANTS
    j1 = j1
    j2 = j2
    Jobs <- MCJobs
    Foreground <- MCForeground
    Claude <- MCNone
    Cancels <- MCCancels
    Session <- MCSession
    None = None
    MaxJobs = 1
    MaxFailures = 0
INVARIANTS
    OneOutcome
PROPERTIES
    OutcomesKept
    JobSettles
CHECK_DEADLOCK FALSE
