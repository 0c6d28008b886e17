CONSTANTS
    k1 = k1
    k2 = k2
    k3 = k3
    k4 = k4
    dEmpty = dEmpty
    dShort = dShort
    dFull = dFull
    dHuge = dHuge
    Keys = {k1, k2, k3, k4}
    Chunks = {dEmpty, dShort, dFull, dHuge}
    Size <- MCSize
    Capacity = 4
    Absent = Absent
SPECIFICATION Spec
SYMMETRY Symmetry
INVARIANT AccountsAgree
PROPERTY EvictionIsExact
