SPECIFICATION FairSwitchSpec
CONSTANTS
    Phones = {p1}
    Accounts = {a1, a2}
    IdKeys = {k1}
    DayKeys = {}
    NoAccount = none
    SplitWrites = TRUE
    SplitSignOut = TRUE
    MaxVersion = 2
    MaxConsent = 3
    MaxEvents = 4
INVARIANTS OnlyTornApart
PROPERTIES SwitchConverges
CHECK_DEADLOCK FALSE
