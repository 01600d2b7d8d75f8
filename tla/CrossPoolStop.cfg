SPECIFICATION FairSpec
CONSTANTS
    Pools <- TwoPools
    WorkersOf <- ThreeWorkers
    Clients <- OneClient
    Tasks <- FiveTasks
    SizeModulus = 8
    Programs <- OneCrossing
    Bodies <- CrossBodies
INVARIANTS TypeOK AccountsBalance
PROPERTIES ShutdownReturns
CHECK_DEADLOCK FALSE
