SPECIFICATION Spec
CONSTANTS
    f = f
    g = g
    h = h
    n1 = n1
    n2 = n2
    n3 = n3
    n4 = n4
    Nobody = Nobody
    Stranger = Stranger
    File = {f, g, h}
    Path = {n1, n2, n3, n4}
    Home <- Homes
    Final <- Swap
    MaxMeddling = 2
    MaxStops = 1
    MaxFaults = 1
    MaxRecoveries = 2
INVARIANTS
    JournalledKept
    UndoneOrOffered
