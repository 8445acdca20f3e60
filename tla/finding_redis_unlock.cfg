\* The flag pruner beside a client that clears the cache.  Nothing fails, and
\* ten ticks, as many as the code's ten seconds, are never used up.
CONSTANTS
    Clients = {c1}
    FlagPruners = {f1}
    AbsencePruners = {}
    EmpNos = {k1}
    Searches = {s1}
    Ops = {"read", "clear"}
    Expiration = 10
    InProgressEnabled = TRUE
    NotFoundEnabled = FALSE
    MayFail = FALSE
SPECIFICATION Spec
INVARIANTS UnlockFindsItsLock
