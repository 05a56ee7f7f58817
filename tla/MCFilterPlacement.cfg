CONSTANTS
    NumTables = 4
    Columns = {0, 1}
    Cardinalities = {1}
    Inputs <- ForeignKeyInputs
    JoinEdges <- JoinTreeInputs
    PassModes = {"both", "forward_only"}
    GetSets <- MCGetSets
SPECIFICATION HSpec
INVARIANTS
    ProbesBeforeCreates
    EdgesReduceBothSides
    FiltersFollowLevels
    EveryProbeFindsItsFilters
    NoWaitCycle
    OneCreatePerPass
    SingleParentIsPushed
    LargestIsOnlyRoot
CHECK_DEADLOCK FALSE
