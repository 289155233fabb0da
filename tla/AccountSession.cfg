SPECIFICATION Spec
CONSTANTS
    Slots = {c1, c2}
    Users = {u1, u2}
    NoUser = none
    NoSlot = noslot
    LateAnswers = FALSE
    Outlived = FALSE
    Unreadable = FALSE
    TrackWrites = TRUE
SYMMETRY SlotSymmetry
INVARIANTS Consistent QuestionVisible WritesServed NoStandstill
PROPERTIES StepsInOrder
CHECK_DEADLOCK FALSE
