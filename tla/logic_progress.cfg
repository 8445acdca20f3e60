\* Flags, absences, retries, failures, an update and a delete: no symmetry, fair scheduling.
CONSTANTS
    Procs = {p1, p2}
    Employee = {v1, v2}
    EmpNos = {1}
    Searches <- Everybody
    SleepIds = {}
    CacheTTL = 0
    InProgressTTL = 0
    NotFoundTTL = 0
    InProgressEnabled = TRUE
    NotFoundEnabled = TRUE
    Ops = {"read", "update", "delete"}
    MaxRetries = 2
    CacheEnabled = TRUE
    CacheNotFoundEnabled = TRUE
    MutateDisabled = FALSE
    MayFail = TRUE
SPECIFICATION FairSpec
INVARIANTS AnswersHideCacheErrors
PROPERTIES RequestsComplete StaleEntriesEnd ReadThroughRefined
