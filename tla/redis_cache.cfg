\* One client, both pruners, every operation, failures and restarts.
CONSTANTS
    Clients = {c1}
    FlagPruners = {f1}
    AbsencePruners = {a1}
    EmpNos = {k1}
    Searches = {s1}
    Ops = {"read", "search", "write", "delete", "absent", "clear"}
    Expiration = 2
    InProgressEnabled = TRUE
    NotFoundEnabled = TRUE
    MayFail = TRUE
SPECIFICATION Spec
INVARIANTS RedisTypeOK MutualExclusion ScanIsCurrent
PROPERTIES MutexRecovers
