SPECIFICATION Spec
CONSTANTS
    Symbols = {s1, s2}
    Lot = 2
    MaxLots = 2
    Prices = {2, 3}
    Caps = {0, 1, 4}
    MinFee = 3
    FeeDivisor = 4
    TaxDivisor = 4
    InitialCash = 14
    LastDay = 3
    MaxFills = 2
CHECK_DEADLOCK FALSE
INVARIANTS TypeOK BooksAgree CashNeverNegative OldestFirst
PROPERTIES NoSameDaySale
