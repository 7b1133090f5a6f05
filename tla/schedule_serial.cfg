SPECIFICATION Spec
CONSTANTS
    Handlers <- OneAtATime
    Rules <- TheSecondDay
    Requests = {r1}
    Jobs = {k1, k2}
    DefaultCrew = {Dispatcher}
    LastDay = 1
    Horizon = 2
    Cleaners = {}
    Dispatcher = Dispatcher
    Beat = Beat
    NoJob = NoJob
    Idle = Idle
CHECK_DEADLOCK FALSE
SYMMETRY Interchangeable
INVARIANTS
    TypeOK
    WorkIsKept
PROPERTIES
    TouchedIsKept
