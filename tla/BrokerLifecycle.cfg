SPECIFICATION FairSpec
CONSTANTS
    c1 = c1
    c2 = c2
    e1 = e1
    Users <- MCUsers
    SessionEnds <- MCSessionEnds
    Mine <- MCMine
    Old = Old
    NoBroker = NoBroker
    MaxSlow = 1
    MaxRetries = 1
INVARIANTS
    CommandsAreServed
PROPERTIES
    BusyRecordStays
    StrayExits
CHECK_DEADLOCK FALSE
