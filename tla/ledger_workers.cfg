SPECIFICATION FairSpec
CONSTANTS
    Charged = 1
    Events <- PaidThenLost
    Workers = {w1, w2}
    MaxTries = 0
    MaxFaults = 2
    Free = Free
CHECK_DEADLOCK FALSE
INVARIANTS
    TypeOK
    PaidMeansRecorded
PROPERTIES
    VoidIsForever
    EventsResolve
