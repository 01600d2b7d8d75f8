SPECIFICATION FairSpec
CONSTANTS
    Batch = 2
    ItemCount = 5
    Registered <- AllSuites
    Initial <- Letters
    Requests <- Arguments
INVARIANTS ExpectedOutput ScopesOutliveTasks RequestHonoured
PROPERTIES ProgramEnds
