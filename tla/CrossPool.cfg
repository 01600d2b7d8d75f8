SPECIFICATION FairSpec
CONSTANTS
    Pools <- TwoPools
    WorkersOf <- ThreeWorkers
    Clients <- OneClient
    Tasks <- FiveTasks
    SizeModulus = 8
    Programs <- CrossPrograms
    Bodies <- CrossBodies
INVARIANTS AccountsBalance
PROPERTIES PoolsServe
\* A pool that owes, or is owed, never stops and never is idle.
CHECK_DEADLOCK FALSE
