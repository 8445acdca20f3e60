\* Reads and searches that share employees, while one is updated.
CONSTANTS
    Procs = {p1, p2}
    Employee = {v1, v2}
    EmpNos = {1, 2}
    Searches <- EverybodyOrOne
    SleepIds = {}
    CacheTTL = 0
    InProgressTTL = 0
    NotFoundTTL = 0
    InProgressEnabled = FALSE
    NotFoundEnabled = FALSE
    Ops = {"read", "search", "update"}
    MaxRetries = 1
    CacheEnabled = TRUE
    CacheNotFoundEnabled = FALSE
    MutateDisabled = FALSE
    MayFail = FALSE
SPECIFICATION Spec
SYMMETRY Symmetric
INVARIANTS SearchesListWhatTheyMatch
