\* Close beside the pruner of the cached data.
CONSTANTS
    Callers = {}
    CallerOps = {}
    Pruners = {"PruneCache"}
    Closers = {g3}
SPECIFICATION Spec
PROPERTIES CloseReturns
CHECK_DEADLOCK FALSE
