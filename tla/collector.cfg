SPECIFICATION FairSpec
CONSTANTS
    Main = Main
    Callbacks = {c1, c2}
    Symbols = {x}
    MaxQuotes = 2
CHECK_DEADLOCK FALSE
INVARIANTS TypeOK NeverOutOfOrder LossLeavesError
PROPERTIES StopEnds
