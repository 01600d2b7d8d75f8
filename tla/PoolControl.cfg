SPECIFICATION FairSpec
CONSTANTS
    c1 = c1
    c2 = c2
    WorkerCount = 2
    Clients <- TwoClients
    Tasks <- FourTasks
    ShardCount = 1
    SizeModulus = 8
    Programs <- ControlPrograms
    Bodies <- ControlBodies
INVARIANTS NoLostWakeup
PROPERTIES ImplementsTaskPool PoolLeftAlone ShutdownReturns
