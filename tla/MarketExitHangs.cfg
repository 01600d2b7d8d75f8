SPECIFICATION FairSpec
CONSTANTS
    u1 = u1
    u2 = u2
    Users <- OneUser
    PoolSize = 1
    Rounds <- OnceAlone
    Endings <- WaitOrDetach
    ProcessExits = TRUE
PROPERTIES ExitCompletes
