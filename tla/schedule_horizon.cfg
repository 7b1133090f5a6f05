SPECIFICATION FairSpec
CONSTANTS
    Handlers <- Board
    Rules <- TwoDays
    Requests = {r1, r2}
    Jobs = {k1, k2, k3}
    DefaultCrew = {c1}
    LastDay = 2
    Horizon = 1
    Cleaners = {c1}
    Dispatcher = Dispatcher
    Beat = r1
    NoJob = NoJob
    Idle = Idle
CHECK_DEADLOCK FALSE
INVARIANTS
    OneJobPerOccurrence
PROPERTIES
    HorizonFilled
