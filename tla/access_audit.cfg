SPECIFICATION FairSpec
CONSTANTS
    Cleaners = {ann}
    Office = {dee, olga}
    Owners = {olga}
    Reviewers = {dee, olga}
    Superusers = {olga}
    Jobs = {j1}
    Reveals = {v1}
    Requests = {r1, r2}
    Tasks = {t1, t2}
    HoursPerDay = 1
    OpenHours = {}
    Starts = {0, 1}
    Length = 0
    Before = 0
    After = 0
    AssignmentWindow = 1
    EarlyDays = {1}
    LateDays = {}
    LastHour = 2
    None = None
CHECK_DEADLOCK FALSE
INVARIANTS
    TypeOK
    VerdictOfTheDay
PROPERTIES
    TrailStands
    KeepsTheTrail
    EveryRevealJudged
