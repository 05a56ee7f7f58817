CONSTANTS
    NumTables = 3
    Columns = {0, 1}
    Cardinalities = {1}
    Inputs <- MCInputs
    JoinEdges <- MCJoinEdges
    PassModes = {"both"}
    GetSets <- MCGetSets
    Executions <- MCExecutions
SPECIFICATION XSpec
INVARIANTS
    PlanSound
    FlagsMeanEmpty
    FullyReduced
    LinkedExactlyOnce
PROPERTIES
    ResultKept
    EveryQueryReturns
CHECK_DEADLOCK FALSE
