CONSTANTS
    Sources = {"a", "b", "m1", "m2"}
    Spines <- MCSpines
    MaxAbove = 4
SPECIFICATION Spec
INVARIANTS
    TypeOK
    FiltersSeeFilteredRows
    LocalConditionsResolve
PROPERTIES
    StackOrderKept
CHECK_DEADLOCK FALSE
