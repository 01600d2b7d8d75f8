SPECIFICATION FairSpec
CONSTANTS
    u1 = u1
    u2 = u2
    Users <- TwoUsers
    PoolSize = 1
    Rounds <- OneEach
    Endings <- SecondKeeps
    ProcessExits = FALSE
PROPERTIES ShutdownReturns
CHECK_DEADLOCK FALSE
