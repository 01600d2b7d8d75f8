SPECIFICATION Spec
CONSTANTS
    c1 = c1
    c2 = c2
    WorkerCount = 1
    Clients <- TwoClients
    Tasks <- TwoTasks
    ShardCount = 1
    SizeModulus = 8
    Programs <- HelpStopPrograms
    Bodies <- LeafBodies
INVARIANTS ShutdownDrains
