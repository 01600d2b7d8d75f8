SPECIFICATION FairSpec
CONSTANTS
    c1 = c1
    c2 = c2
    WorkerCount = 2
    Clients <- OneClient
    Tasks <- TwoTasks
    ShardCount = 1
    SizeModulus = 8
    Programs <- FosterPrograms
    Bodies <- FosterBodies
PROPERTIES ShutdownReturns
CHECK_DEADLOCK FALSE
