SPECIFICATION Spec
CONSTANTS
    l1 = l1
    k1 = k1
    a = a
    b = b
    i1 = i1
    i2 = i2
    LastDay = 3
    MaxEntries = 3
    Symbols <- MCSymbols
    Inputs <- MCInputs
    Candidates <- MCCandidates
    Rows <- MCRows
    Loops <- OneLoop
    Clerks <- OneClerk
    Serial = TRUE
CHECK_DEADLOCK FALSE
INVARIANTS TypeOK LedgersSound StateReadable ReportFaithful LostReportRecoverable
PROPERTIES LedgerSpec
