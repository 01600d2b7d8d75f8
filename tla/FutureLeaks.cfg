SPECIFICATION Spec
CONSTANTS
    Clients = {c1}
    Results = {r1}
    Futures = {f1}
    Discards = FALSE
    CopiesThrow = TRUE
INVARIANTS StatesFreed
\* The clients may stop calling.
CHECK_DEADLOCK FALSE
