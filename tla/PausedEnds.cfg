SPECIFICATION Spec
CONSTANTS
    a = a
    b = b
    Job = {a, b}
    Selections <- Anything
    MaxWorkers = 2
    Ways = {"early", "again", "restart", "single", "twice", "slow", "close", "corrupt"}
INVARIANTS
    WorkersReachable
    PausedIsStopped
PROPERTIES
    SweepSparesRecords
