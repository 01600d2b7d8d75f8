SPECIFICATION Spec
CONSTANTS
    u1 = u1
    u2 = u2
    Users <- OneUser
    PoolSize = 1
    Rounds <- TwiceAlone
    Endings <- AlwaysWait
    ProcessExits = FALSE
INVARIANTS WarmThreadsReused
