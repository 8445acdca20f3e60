\* Numbers that a create gives out again after a delete.
CONSTANTS
    Procs = {p1, p2}
    Employee = {v1, v2}
    EmpNos = {1, 2}
    Searches <- Everybody
    SleepIds = {z1}
    CacheTTL = 0
    InProgressTTL = 0
    NotFoundTTL = 0
    InProgressEnabled = FALSE
    NotFoundEnabled = FALSE
    Ops = {"search", "delete", "create", "sleep"}
    MaxRetries = 1
    CacheEnabled = TRUE
    CacheNotFoundEnabled = FALSE
    MutateDisabled = FALSE
    MayFail = TRUE
SPECIFICATION Spec
SYMMETRY Symmetric
INVARIANTS LogicTypeOK StaleOnlyIfPendingOrLeaked
PROPERTIES CacheRefined
