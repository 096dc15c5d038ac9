SPECIFICATION FairSpec
CONSTANTS
    Drivers = {"served", "script"}
    Served = {"served"}
    TaskRetries = 1
    LastDay = 1
    Requests = {"r", "q"}
    Advices = {"calls"}
    ScalarEquity = FALSE
    Serial = FALSE
    MaxFills = 1
    MaxFaults = 1
    Nil = Nil
INVARIANTS TypeOK ReturnedIsStored
PROPERTIES ArchiveSpec CyclesEnd
CHECK_DEADLOCK FALSE
