SPECIFICATION FairSpec
CONSTANTS
    c1 = c1
    c2 = c2
    WorkerCount = 2
    Clients <- OneClient
    Tasks <- TwoTasks
    ShardCount = 2
    SizeModulus = 8
    Programs <- LeafPrograms
    Bodies <- ThrowingBodies
INVARIANTS TypeOK CountersAgree QueuedInOnePlace
PROPERTIES ImplementsTaskPool WaitIdleReturns
