SPECIFICATION Spec
CONSTANTS
    Device = {d1, d2}
    Manual = {m1}
    NoPlace = noplace
    Slots = {c1, c2}
    NoSlot = noslot
    Window = 0
    Overtakes = FALSE
    MaxNow = 2
SYMMETRY SlotSymmetry
INVARIANTS Consistent
PROPERTIES NeverBack LastTapWins
