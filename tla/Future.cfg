SPECIFICATION FairSpec
CONSTANTS
    Clients = {c1, c2}
    Results = {r1, r2}
    Futures = {f1, f2}
    Discards = TRUE
    CopiesThrow = TRUE
INVARIANTS TypeOK NoUseAfterFree FreedUnlessLost ResultTakenOnce
PROPERTIES GetReturns
\* The clients may stop calling, and a get() of a discarded task waits for ever.
CHECK_DEADLOCK FALSE
