CONSTANTS
    NumTables = 4
    Columns = {0, 1}
    Cardinalities = {1, 2}
    StartGraphs <- MCStartGraphs
    OtherGraphs <- MCOtherGraphs
SPECIFICATION LSpec
INVARIANTS
    TypeOK
    StaysAcyclic
    OnlyAnchorRemains
    LevelsAreLongestPaths
PROPERTIES
    JoinColumnsKept
    LevelsAssignedOnce
    LevelsTerminate
CHECK_DEADLOCK FALSE
