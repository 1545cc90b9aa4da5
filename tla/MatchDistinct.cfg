SPECIFICATION Spec
CONSTANTS
    i = i
    j = j
    k = k
    p = p
    a = a
    b = b
    u = u
    v = v
    Fallback = Fallback
    Nothing = Nothing
    Failed = Failed
    Pending = Pending
    Prefetch = {}
    Key = {a, b}
    Url = {u, v}
    Job = {i, k}
    KeyOf <- Pair
    Same <- Different
    Offers <- PairOffers
    RefreshLimit = 2
INVARIANT
    DistinctTargets
PROPERTY
    RowsGoByProof
CHECK_DEADLOCK FALSE
