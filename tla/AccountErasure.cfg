SPECIFICATION ErasureFairSpec
CONSTANTS
    Requests = {q1, q2}
    NoRequest = noreq
    StaleTokens = FALSE
    MaxAttempts = 2
    MaxTrouble = 3
INVARIANTS Consistent ToldWhatIsSo
PROPERTIES OnlyLiveSessionDeletes DeletionEnds
CHECK_DEADLOCK FALSE
