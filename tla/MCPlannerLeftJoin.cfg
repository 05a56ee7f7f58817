CONSTANTS
    NumTables = 3
    Columns = {0}
    Derived = {}
    Registered = {}
    JoinTypes = {"INNER", "LEFT"}
    MaxConditions = 2
    Cardinalities = {1, 2}
    PassModes = {"both"}
    GetSets <- MCGetSets
SPECIFICATION OptSpec
INVARIANTS
    PreservedRowsSurvive
CHECK_DEADLOCK FALSE
