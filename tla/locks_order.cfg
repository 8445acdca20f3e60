\* The operations that take both inner mutexes, and the pruners that take one.
CONSTANTS
    Callers = {g1, g2}
    CallerOps = {"EmployeeRead", "EmployeesWrite", "EmployeesNotFoundWrite"}
    Pruners = {"PruneSetRead", "PruneNotFound"}
    Closers = {}
SPECIFICATION Spec
INVARIANTS NobodyIsDeadlocked
PROPERTIES OperationsReturn
