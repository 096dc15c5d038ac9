SPECIFICATION Spec
CONSTANTS
    Exporters = {e1, e2}
    NSections = 1
    Normalized = {"plain"}
    OsLock = TRUE
    Polled = TRUE
    Heartbeat = 1
    MaxSequence = 2
    MaxBroker = 0
    MaxCrashes = 1
    MaxFailures = 1
    Nil = Nil
    Partial = Partial
INVARIANTS TypeOK OneWriter RequestKept
PROPERTIES SequenceAdvances
SYMMETRY Alike
