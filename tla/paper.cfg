SPECIFICATION Spec
CONSTANTS
    Nil = Nil
    Abstain = Abstain
    Empty = Empty
    Torn = Torn
INVARIANTS TypesOK RepeatsAgree AccountsAreHonest
PROPERTIES StepsAreHonest
CHECK_DEADLOCK FALSE
