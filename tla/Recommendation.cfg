SPECIFICATION Spec
CONSTANTS
    Signals = {s1, s2}
    Requests = {r1, r2}
    NoRequest = noreq
    NoSignal = nosig
    DailyLimit = 1
    MaxOutfits = 3
    MaxChanges = 2
SYMMETRY RequestSymmetry
INVARIANTS Consistent RestsRight AllowanceHeld
CHECK_DEADLOCK FALSE
