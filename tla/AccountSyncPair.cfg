SPECIFICATION Spec
CONSTANTS
    Phones = {p1, p2}
    Accounts = {a1}
    IdKeys = {k1}
    DayKeys = {d1}
    NoAccount = none
    SplitWrites = TRUE
    SplitSignOut = TRUE
    MaxVersion = 2
    MaxConsent = 1
SYMMETRY PhoneSymmetry
INVARIANTS TypeOK SettledAgrees
PROPERTIES EditsReachAccount
CHECK_DEADLOCK FALSE
