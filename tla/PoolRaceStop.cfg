SPECIFICATION Spec
CONSTANTS
    c1 = c1
    c2 = c2
    WorkerCount = 1
    Clients <- TwoClients
    Tasks <- OneTask
    ShardCount = 1
    SizeModulus = 8
    Programs <- RaceStopPrograms
    Bodies <- LeafBodies
INVARIANTS ShutdownDrains
