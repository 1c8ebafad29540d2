SPECIFICATION StructuresSpec
CONSTANTS
    QLists <- SomeQLists
    Values <- Bits
    MaxConditions = 2
    Paths <- SomePaths
    MaxPaths = 3
    MaxVariable = 4
    MaxUnifiers = 3
    MaxElements = 12
    NumSubtasks = 4
    MaxOrderings = 4
INVARIANTS
    TypeOK
    ConstraintsExact
    QueriesSound
    TreeEncodingsExact
    TreeQueriesExact
    CnfEquivalent
    AtMostOneExact
    SubtasksOrdered
    SortedAsInNetwork
CHECK_DEADLOCK FALSE
