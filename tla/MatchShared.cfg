SPECIFICATION FairSpec
CONSTANTS
    i = i
    j = j
    k = k
    p = p
    a = a
    b = b
    u = u
    v = v
    Fallback = Fallback
    Nothing = Nothing
    Failed = Failed
    Pending = Pending
    Prefetch = {p}
    Key = {a}
    Url = {u}
    Job = {i, j}
    KeyOf <- Twins
    Same <- Alike
    Offers <- TwinOffers
    RefreshLimit = 1
INVARIANTS
    AnswersFit
    FlightsOwned
PROPERTIES
    EveryMatchEnds
CHECK_DEADLOCK FALSE
