SPECIFICATION Spec
CONSTANTS
    Items = {i1}
    Launches = {l1}
    NoLaunch = nolaunch
    NoItem = noitem
    DoubleRetry = FALSE
    EarlyPulls = FALSE
    Revived = FALSE
    MaxWrites = 2
    MaxCopies = 1
INVARIANTS Consistent PhotosMatch ShowsWhatIsStored NoStandstill
CHECK_DEADLOCK FALSE
