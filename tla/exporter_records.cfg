SPECIFICATION FairSpec
CONSTANTS
    Exporters = {e1}
    NSections = 2
    Normalized = {"plain"}
    OsLock = TRUE
    Polled = FALSE
    Heartbeat = 1
    MaxSequence = 2
    MaxBroker = 1
    MaxCrashes = 0
    MaxFailures = 1
    Nil = Nil
    Partial = Partial
PROPERTIES RecordsAdvance ExportsContinue
