SPECIFICATION FairSpec
CONSTANTS
    Clients = {c1}
    Results = {r1}
    Futures = {f1}
    Discards = TRUE
    CopiesThrow = FALSE
PROPERTIES GetAlwaysReturns
\* The clients may stop calling, and a get() of a discarded task waits for ever.
CHECK_DEADLOCK FALSE
