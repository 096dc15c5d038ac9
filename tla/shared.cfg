SPECIFICATION Spec
CONSTANTS
    l1 = l1
    k1 = k1
    a = a
    b = b
    i1 = i1
    i2 = i2
    LastDay = 3
    MaxEntries = 2
    Symbols <- OneSymbol
    Inputs <- OneInput
    Candidates <- OneCandidates
    Rows <- OneRows
    Loops <- OneLoop
    Clerks <- OneClerk
    Serial = FALSE
CHECK_DEADLOCK FALSE
INVARIANTS StateReadable
