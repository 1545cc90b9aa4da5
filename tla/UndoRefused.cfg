SPECIFICATION Spec
CONSTANTS
    f = f
    g = g
    h = h
    n1 = n1
    n2 = n2
    n3 = n3
    n4 = n4
    Nobody = Nobody
    Stranger = Stranger
    File = {f, h}
    Path = {n1, n2, n3}
    Home <- Homes2
    Final <- Renamed
    MaxMeddling = 1
    MaxStops = 0
    MaxFaults = 0
    MaxRecoveries = 1
INVARIANTS
    RefusedKept
