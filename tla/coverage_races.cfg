SPECIFICATION FairSpec
CONSTANTS
    Requests = {r1, r2}
    Handlers = {"refresh", "webhook", "daily"}
    Alone = {"patch", "admin"}
    Edits = {}
    Subs = {1}
    NoSub = 0
    Period = 1
    GraceDays = 1
    TrialDays = 1
    NoticeDays = 0
    LastDay = 3
CHECK_DEADLOCK FALSE
PROPERTIES
    PaidComesBack
