CONSTANTS
    NumTables = 3
    Columns = {0, 1}
    Cardinalities = {1}
    Inputs <- MultiColumnInputs
    JoinEdges = {}
    PassModes = {"both"}
    GetSets <- MCGetSets
SPECIFICATION HSpec
INVARIANTS
    ProbePairsEquated
CHECK_DEADLOCK FALSE
