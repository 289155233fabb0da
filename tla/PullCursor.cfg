SPECIFICATION PullFairSpec
CONSTANTS
    Ids = {1, 2}
    Writers = {w1, w2}
    PageSize = 1
    MaxTxn = 2
    Overlap = 3
    MaxPull = 1
    MaxNow = 5
INVARIANTS NothingMissed PullComplete
PROPERTIES EventuallyRead
CHECK_DEADLOCK FALSE
