SPECIFICATION Spec
CONSTANTS
    Procs = {p1, p2}
    EmpNos = {1, 2}
    Employee = {v1, v2}
    Searches = {{}, {1, 2}}
INVARIANTS StashTypeOK StoreWrongOnlyIfPendingOrLeaked
PROPERTIES StashReadsThrough
SYMMETRY Symmetric
