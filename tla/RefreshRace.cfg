SPECIFICATION Spec
SYMMETRY Alike
CONSTANTS
    n1 = n1
    n2 = n2
    Name <- Names
    Nobody = Nobody
    NoItem = NoItem
    MaxTime = 2
    MaxActs = 3
INVARIANTS
    UnseenIsUnderway
PROPERTIES
    ProposalsStand
CHECK_DEADLOCK FALSE
