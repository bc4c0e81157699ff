SPECIFICATION FairSpec
CONSTANTS
    c1 = c1
    c2 = c2
    Clients <- MCClients
    Reviews <- MCReviews
    Script <- MCScript
    None = None
    MaxFloods = 1
INVARIANTS
    OneTurnAtATime
    CompletionGoesToOwner
    AbandonedTurnIsInterrupted
PROPERTIES
    GateOpens
CHECK_DEADLOCK FALSE
