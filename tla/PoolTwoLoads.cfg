SPECIFICATION Spec
CONSTANTS
    c1 = c1
    c2 = c2
    WorkerCount = 1
    Clients <- OneClient
    Tasks <- TwoTasks
    ShardCount = 1
    SizeModulus = 8
    Programs <- WaitPrograms
    Bodies <- NestingBodies
PROPERTIES WaitIdleDrains
