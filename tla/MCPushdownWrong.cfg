CONSTANTS
    NumTables = 4
    Columns = {0, 1, 2}
    Cardinalities = {1}
    Inputs <- SharedChildInputs
    JoinEdges = {}
    PassModes = {"both"}
    GetSets <- MCGetSets
SPECIFICATION HSpec
INVARIANTS
    PushedPairsEquated
CHECK_DEADLOCK FALSE
