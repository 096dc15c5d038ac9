SPECIFICATION Spec
CONSTANTS
    Nil = Nil
    Partial = Partial
INVARIANTS TypesOK DataIsAttributed NothingIsOrphaned CompleteIsWhole
CHECK_DEADLOCK FALSE
