\* Two requests, the pruner of the cached data and Close.  The system may
\* stop: everything has exited, or Close and the pruner wait for each other.
CONSTANTS
    Callers = {g1, g2}
    CallerOps = {"EmployeeRead", "EmployeesRead", "EmployeesWrite",
                 "EmployeesDelete", "EmployeesNotFoundWrite", "SleepRead",
                 "SleepWrite", "SleepsDelete", "Clear"}
    Pruners = {"PruneCache"}
    Closers = {g3}
SPECIFICATION Spec
INVARIANTS CachedMapsNeverRace CallersNeverRace ClosedMeansStopped
CHECK_DEADLOCK FALSE
