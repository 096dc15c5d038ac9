SPECIFICATION FairSpec
CONSTANTS
    Drivers = {"served", "script"}
    Served = {"served"}
    TaskRetries = 1
    LastDay = 1
    Requests = {"r"}
    Advices = {"calls"}
    ScalarEquity = TRUE
    Serial = FALSE
    MaxFills = 0
    MaxFaults = 1
    Nil = Nil
PROPERTIES AppliedIsStored
CHECK_DEADLOCK FALSE
