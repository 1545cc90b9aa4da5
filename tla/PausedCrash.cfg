SPECIFICATION Spec
CONSTANTS
    a = a
    b = b
    Job = {a, b}
    Selections <- Everything
    MaxWorkers = 3
    Ways = {"early"}
INVARIANTS
    StillThere
    StillOffered
    StoreMatches
