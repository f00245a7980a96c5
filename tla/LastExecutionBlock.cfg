CONSTANTS
    Null = Null
    NaN = NaN
    MissedSlots = {1, 2, 3, 4, 5, 6, 7}
SPECIFICATION Spec
INVARIANTS
    TypeOK
    ResultNearMissedSlot
    ExactWithoutFailures
CHECK_DEADLOCK FALSE
