CONSTANTS
    NumTables = 3
    Columns = {0, 1}
    Derived = {3}
    Registered = {3}
    JoinTypes = {"INNER", "SEMI", "RIGHT_SEMI"}
    MaxConditions = 3
    Cardinalities = {1, 2}
    PassModes = {"both"}
    GetSets <- MCGetSets
SPECIFICATION OptSpec
INVARIANTS
    OptTypeOK
    WalkedPlansGiveDag
    PlacedPlanRuns
    TransfersStayWithinClasses
PROPERTIES
    ConnectedPlansFinish
CHECK_DEADLOCK FALSE
