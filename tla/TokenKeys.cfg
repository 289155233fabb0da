SPECIFICATION TokenSpec
CONSTANTS
    Callers = {c1, c2}
    Keys = {k1, k2}
    Timeout = 2
    MaxAge = 4
    Cooldown = 3
    LateAnswers = FALSE
    MaxNow = 7
    NoKey = nokey
SYMMETRY Symmetry
INVARIANTS TrustEnds KeysRecognised
PROPERTIES KeyKept
