CONSTANTS
    NumTables = 3
    Columns = {0}
    Derived = {}
    Registered = {}
    JoinTypes = {"INNER"}
    MaxConditions = 2
    Cardinalities = {1, 2}
    PassModes = {"both"}
    GetSets <- MCGetSets
SPECIFICATION OptSpec
PROPERTIES
    EveryPlanFinishes
CHECK_DEADLOCK FALSE
