SPECIFICATION Spec
CONSTANTS
    f = f
    g = g
    h = h
    p = p
    q = q
    r = r
    t1 = t1
    t2 = t2
    t3 = t3
    Nobody = Nobody
    Stranger = Stranger
    File = {f, g, h}
    Path = {p, q, r, t1, t2, t3}
    Temps = {t1, t2, t3}
    Home <- Homes
    Target <- Swap
    Tagged = {f, g}
    MaxFaults = 2
    MaxCrashes = 2
    MaxRecoveries = 2
    MaxMeddling = 1
SYMMETRY TempNames
INVARIANTS
    TypeOK
    SilentMeansWhole
    TagsAreOwn
    BackupStands
    CompletedIsClosed
    ForeignKept
PROPERTIES
    NothingOverwritten
    WrittenUnderJournal
