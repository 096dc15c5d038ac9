SPECIFICATION Spec
CONSTANTS
    Nil = Nil
    Unknown = Unknown
    Unset = Unset
INVARIANTS TypesOK PublicWhenUsed JudgementsAreSteady
CHECK_DEADLOCK FALSE
