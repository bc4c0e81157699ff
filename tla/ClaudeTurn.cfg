SPECIFICATION Spec
CONSTANTS
    Edits = {e1, e2}
    MaxPipe = 2
    MaxNoise = 1
    MaxThrows = 1
INVARIANTS
    SessionHeldWhileChildRuns
    ReportIsTheChilds
PROPERTY TurnEnds
\* A turn that is over does nothing more.
CHECK_DEADLOCK FALSE
