SPECIFICATION FairSpec
CONSTANTS
    Requests = {r1}
    Handlers = {"refresh", "webhook", "daily", "patch", "admin"}
    Alone = {"webhook", "patch", "admin"}
    Edits = {"is_active", "deactivated_for_billing_at"}
    Subs = {1, 2}
    NoSub = 0
    Period = 1
    GraceDays = 1
    TrialDays = 1
    NoticeDays = 0
    LastDay = 3
CHECK_DEADLOCK FALSE
INVARIANTS
    TypeOK
    NobodyGoesDarkUntold
PROPERTIES
    HandStands
    LiveIdStays
    OnlyMoneyExtends
    LapseTakesEffect
