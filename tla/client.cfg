\* Two callers of a client with a cache, and one of a client without.
CONSTANTS
    c1 = c1
    c2 = c2
    t1 = t1
    t2 = t2
    t3 = t3
    Clients = {c1, c2}
    Procs = {t1, t2, t3}
    ClientOf <- TwoAndOne
    Caching = {c1}
    EmpNos = {1}
    MaxChanges = 2
SPECIFICATION Spec
SYMMETRY Symmetric
INVARIANTS ClientTypeOK ReadsGoForward
