SPECIFICATION FairSpec
CONSTANTS
    u1 = u1
    u2 = u2
    Users <- TwoUsers
    PoolSize = 1
    Rounds <- FirstTwice
    Endings <- WaitOrDetach
    ProcessExits = TRUE
INVARIANTS LeasedOnce JobsIntact DoneMeansDone
PROPERTIES EveryJobRuns ShutdownReturns QuietExitCompletes
