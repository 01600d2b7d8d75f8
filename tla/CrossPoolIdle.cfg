SPECIFICATION FairSpec
CONSTANTS
    Pools <- TwoPools
    WorkersOf <- ThreeWorkers
    Clients <- OneClient
    Tasks <- FiveTasks
    SizeModulus = 8
    Programs <- CrossingWaited
    Bodies <- CrossBodies
INVARIANTS TypeOK AccountsBalance
PROPERTIES WaitIdleReturns
CHECK_DEADLOCK FALSE
