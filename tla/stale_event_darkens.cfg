SPECIFICATION Spec
CONSTANTS
    Requests = {r1}
    Handlers = {"webhook"}
    Alone = {}
    Edits = {}
    Subs = {1, 2}
    NoSub = 0
    Period = 1
    GraceDays = 1
    TrialDays = 1
    NoticeDays = 0
    LastDay = 3
CHECK_DEADLOCK FALSE
PROPERTY
    PaidIsTheirs
