SPECIFICATION Spec
CONSTANTS
    Counters = {"member", "workers-ai", "paid"}
    MaxDay = 3
    Retention = 2
    Requests = {r1, r2}
    Providers <- MCProviders
    Limit <- MCLimit
    MaxRequests = 2
SYMMETRY RequestSymmetry
INVARIANTS LimitsHeld AlarmArmed
PROPERTIES CountsKept
CHECK_DEADLOCK FALSE
