CONSTANTS
    Threads = {t1, t2}
    c1 = c1
    c2 = c2
    c3 = c3
    Chunks = {c1, c2, c3}
    Values = {0, 1, 9}
    NaN = 9
    NULL = 99
    Inputs <- MCFloatInputs
    Operators <- MCFloatOperators
    DistinctThreshold = 2
    MinBits = 16
    BitsPerRow = 12
    MinBitsPerRow = 8
    UintRange = 8
SYMMETRY Symmetry
SPECIFICATION Spec
INVARIANTS
    FiltersAdmitStored
CHECK_DEADLOCK FALSE
