SPECIFICATION FairSpec
CONSTANTS
    Uploads = {u1, u2, u3}
    Withdrawals = {w1, w2}
    Gives = {g1}
    Cap = 1
    AnswerCap = 1
INVARIANTS JoinedCopiesKept
PROPERTIES EveryoneEnds IsALedger
CHECK_DEADLOCK FALSE
