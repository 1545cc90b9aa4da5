SPECIFICATION Spec
CONSTANTS
    a = a
    b = b
    c = c
    Job = {a, b, c}
    Lazy = {a}
    Conservative = {}
    Key <- KeyOf
    NoOwner = NoOwner
    NoPermit = NoPermit
    Scope = {network}
    network = network
    Threshold <- TwoStrikes
    MaxEpoch = 2
    MaxRetries = 0
INVARIANTS
    CanaryFlagHasHolder
    OwnerStillThere
    PermitsFresh
    StoppedByStreak
    GatesAccounted
PROPERTIES
    KeepsTheGate
SYMMETRY Direct
