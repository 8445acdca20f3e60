SPECIFICATION FairSpec
CONSTANTS
    Procs = {p1, p2}
    Groups = {"employee_read"}
    MaxTimers = 2
    CacheMayHang = TRUE
    Readers = {r1, r2}
    Writer = r1
INVARIANTS
    ScenarioTypeOK
    ClosedPartsAreUnused
    AnswersReachClients
    IdleTimersAreReadable
    LeavesNothingBehind
    EveryCallIsTimed
    NoStragglers
PROPERTIES
    StopsItsOwn
    SignalsEnd
    DeletesItsOwn
    ScenarioEnds
\* Both processes exit.
CHECK_DEADLOCK FALSE
