SPECIFICATION Spec
CONSTANTS
    i = i
    j = j
    b1 = b1
    b2 = b2
    b3 = b3
    v = v
    w = w
    Shipped = Shipped
    Instance = {i, j}
    Bundle = {b1, b2}
    Healthy = {b1}
    Version = {v, w}
    Fits <- FitsSome
    FirstVersion = v
    MaxChanges = 2
    MaxDamage = 1
    MaxCrashes = 1
SYMMETRY Either
INVARIANTS
    LoadedIsSound
    PointerInPlace
PROPERTIES
    SwitchedBySelection
CHECK_DEADLOCK FALSE
