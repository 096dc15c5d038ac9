SPECIFICATION Spec
CONSTANTS
    Raised = Raised
    None = None
INVARIANTS TypesOK NothingIsSeenEarly ResultsAreExplained
PROPERTIES StepsAreHonest
CHECK_DEADLOCK FALSE
