SPECIFICATION FairSpec
CONSTANTS
    Pools <- TwoPools
    WorkersOf <- ThreeWorkers
    Clients <- OneClient
    Tasks <- FiveTasks
    SizeModulus = 8
    Programs <- CrossingAwaited
    Bodies <- WaitingBodies
INVARIANTS TypeOK AccountsBalance
PROPERTIES EveryTaskRuns
CHECK_DEADLOCK FALSE
