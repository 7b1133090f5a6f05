SPECIFICATION HeardSpec
CONSTANTS
    Charged = 3
    Events <- PaidThenRefunded
    Workers = {w1}
    MaxTries = 1
    MaxFaults = 1
    Free = Free
    Unrecorded = Unrecorded
CHECK_DEADLOCK FALSE
INVARIANTS
    LatestRefundStands
PROPERTIES
    MoneyNeverReturns
    KeepsTheCharge
