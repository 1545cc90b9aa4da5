SPECIFICATION FairSpec
CONSTANTS
    a = a
    b = b
    c = c
    network = network
    Job = {a, b}
    Lazy = {a}
    Conservative = {a, b}
    Key <- KeyOf
    NoOwner = NoOwner
    NoPermit = NoPermit
    Scope = {network}
    Threshold <- OneStrike
    MaxEpoch = 2
    MaxRetries = 1
PROPERTIES
    EveryJobEnds
