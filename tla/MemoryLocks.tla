---------------------------- MODULE MemoryLocks ----------------------------
(***************************************************************************)
(* The mutexes of internal/cache/memory.go: the RWMutex of memoryCache and *)
(* those of its parts inProgress and notFound, with both features enabled. *)
(* Each operation is the list of what it locks and which maps it touches,  *)
(* in the order of the code; a goroutine is at one place of one list.      *)
(* Deferred unlocks are given back together when the operation returns.    *)
(***************************************************************************)
EXTENDS Naturals, Sequences

CONSTANTS
    Callers,    \* goroutines that serve requests
    CallerOps,  \* the operations they call
    Pruners,    \* goroutines launched by Open that are running
    Closers     \* goroutines that call Close

VARIABLES
    op,         \* what each goroutine executes, or "idle" or "exited"
    at,         \* where in it the goroutine is
    announced,  \* goroutines that wait in Lock and hold back new readers
    cancelled   \* whether Close has cancelled the cache's context

vars == <<op, at, announced, cancelled>>

Locks == {"cache", "inProgress", "notFound"}

RLock(l)  == <<"rlock", l>>
Lock(l)   == <<"lock", l>>
Unlock(l) == <<"unlock", l>>
Read(m)   == <<"read", m>>
Write(m)  == <<"write", m>>

-----------------------------------------------------------------------------
(* The operations                                                          *)

EmployeeRead ==
    << RLock("cache"), Read("employees"),
       RLock("notFound"), Read("employeeNotFound"),
       Lock("inProgress"), Write("employeeRead") >>

EmployeesRead_Unlocked ==
    << Read("employeeSearches"), Read("employees"),
       RLock("notFound"), Read("employeeSearchNotFound"),
       Lock("inProgress"), Write("employeeSearch") >>

EmployeesRead ==
    << RLock("cache"), Read("employeeSearches"), Read("employees"),
       RLock("notFound"), Read("employeeSearchNotFound"),
       Lock("inProgress"), Write("employeeSearch") >>

\* Without the outer mutex the inner ones are taken in the order opposite to
\* the readers'.
EmployeesWrite_InnerOnly ==
    << Lock("inProgress"), Write("employeeSearch"), Write("employeeRead"),
       Lock("notFound"), Write("employeeSearchNotFound"),
       Write("employeeNotFound") >>

\* The loop over the employees deletes their flags before inProgress is locked.
EmployeesWrite ==
    << Lock("cache"), Write("employees"), Write("employeeRead"),
       Write("employeeSearches"),
       Lock("inProgress"), Write("employeeSearch"), Write("employeeRead"),
       Lock("notFound"), Write("employeeSearchNotFound"),
       Write("employeeNotFound") >>

EmployeesDelete ==
    << Lock("cache"), Write("employees"),
       Lock("inProgress"), Write("employeeRead"),
       Lock("notFound"), Write("employeeNotFound") >>

EmployeesNotFoundWrite ==
    << Lock("cache"), Lock("notFound"), Write("employeeSearchNotFound"),
       Write("employeeNotFound") >>

SleepRead ==
    << RLock("cache"), Read("sleeps"), Lock("inProgress"), Write("sleepRead") >>

\* The flag is deleted without a lock on inProgress.
SleepWrite == << Lock("cache"), Write("sleeps"), Write("sleepRead") >>

SleepsDelete ==
    << Lock("cache"), Write("sleeps"), Lock("inProgress"), Write("sleepRead") >>

\* New maps for the parts too, without their mutexes.
Clear ==
    << Lock("cache"), Write("employees"), Write("employeeSearches"),
       Write("sleeps"), Write("employeeRead"), Write("employeeSearch"),
       Write("employeeNotFound"), Write("employeeSearchNotFound") >>

\* One tick of a pruner: its functions one after another, each with a lock,
\* each for a map of its own.
Tick(lock, maps) ==
    [i \in 1..(3 * Len(maps)) |->
        CASE i % 3 = 1 -> Lock(lock)
          [] i % 3 = 2 -> Write(maps[(i + 1) \div 3])
          [] i % 3 = 0 -> Unlock(lock)]

PruneCache_Unlocked ==
    << Write("sleeps"), Write("employeeSearches"), Write("employees") >>

\* A search that is pruned takes its employees along.
PruneCache ==
    << Lock("cache"), Write("sleeps"), Unlock("cache"),
       Lock("cache"), Write("employeeSearches"), Write("employees"),
       Unlock("cache"),
       Lock("cache"), Write("employees"), Unlock("cache") >>

PruneSetRead ==
    Tick("inProgress", <<"employeeRead", "employeeSearch", "sleepRead">>)

PruneNotFound ==
    Tick("notFound", <<"employeeNotFound", "employeeSearchNotFound">>)

\* Close does not wait for the goroutines it cancels.
Close_WithoutWait == << Lock("cache"), <<"cancel", "context">> >>

\* Close waits for the pruners while it holds the mutex of the cache.
Close == << Lock("cache"), <<"cancel", "context">>, <<"wait", "pruners">> >>

Program(o) ==
    CASE o = "EmployeeRead"           -> EmployeeRead
      [] o = "EmployeesRead"          -> EmployeesRead
      [] o = "EmployeesWrite"         -> EmployeesWrite
      [] o = "EmployeesDelete"        -> EmployeesDelete
      [] o = "EmployeesNotFoundWrite" -> EmployeesNotFoundWrite
      [] o = "SleepRead"              -> SleepRead
      [] o = "SleepWrite"             -> SleepWrite
      [] o = "SleepsDelete"           -> SleepsDelete
      [] o = "Clear"                  -> Clear
      [] o = "PruneCache"             -> PruneCache
      [] o = "PruneSetRead"           -> PruneSetRead
      [] o = "PruneNotFound"          -> PruneNotFound
      [] o = "Close"                  -> Close
      [] o \in {"idle", "exited"}     -> << >>

PrunerOps == {"PruneCache", "PruneSetRead", "PruneNotFound"}
Goroutines == Callers \cup Pruners \cup Closers

\* A pruner's goroutine is named for what it runs.
ASSUME PrunersAssumption == Pruners \subseteq PrunerOps

\* A request calls an operation of the cache, and neither prunes nor closes it.
ASSUME CallersAssumption ==
    CallerOps \subseteq {"EmployeeRead", "EmployeesRead", "EmployeesWrite",
                         "EmployeesDelete", "EmployeesNotFoundWrite",
                         "SleepRead", "SleepWrite", "SleepsDelete", "Clear"}

\* The goroutine that closes the cache does nothing else, the pruners neither.
ASSUME RolesAssumption ==
    /\ Callers \cap Pruners = {}
    /\ Closers \cap (Callers \cup Pruners) = {}

\* Every goroutine is at a place of its list, or just past the end.
LocksTypeOK ==
    /\ op \in [Goroutines -> CallerOps \cup PrunerOps
                                 \cup {"Close", "idle", "exited"}]
    /\ \A g \in Goroutines : at[g] \in 1..(Len(Program(op[g])) + 1)
    /\ announced \in SUBSET Goroutines
    /\ cancelled \in BOOLEAN

Init ==
    /\ op = [g \in Goroutines |-> "idle"]
    /\ at = [g \in Goroutines |-> 1]
    /\ announced = {}
    /\ cancelled = FALSE

-----------------------------------------------------------------------------
(* Goroutines and mutexes                                                  *)

\* What g does next; "return" after the last of its list.
Instruction(g) ==
    IF at[g] \in DOMAIN Program(op[g]) THEN Program(op[g])[at[g]]
                                       ELSE <<"return", "">>

\* g has done the instruction kind on l and no unlock of l since.
Has(g, kind, l) ==
    \E i \in 1..(at[g] - 1) :
        /\ Program(op[g])[i] = <<kind, l>>
        /\ \A j \in i..(at[g] - 1) : Program(op[g])[j] # Unlock(l)

Writer(g, l) == Has(g, "lock", l)
Reader(g, l) == Has(g, "rlock", l)

Others(g) == Goroutines \ {g}

Advance(g) == at' = [at EXCEPT ![g] = @ + 1]

Begin(g, o) ==
    /\ op[g] = "idle"
    /\ op' = [op EXCEPT ![g] = o]
    /\ UNCHANGED <<at, announced, cancelled>>

\* The first half of RWMutex.Lock: from here on new readers wait.
Announce(g) ==
    /\ Instruction(g)[1] = "lock"
    /\ g \notin announced
    /\ announced' = announced \cup {g}
    /\ UNCHANGED <<op, at, cancelled>>

AcquireWrite(g) ==
    /\ Instruction(g)[1] = "lock"
    /\ g \in announced
    /\ \A h \in Others(g) : /\ ~Writer(h, Instruction(g)[2])
                            /\ ~Reader(h, Instruction(g)[2])
    /\ announced' = announced \ {g}
    /\ Advance(g)
    /\ UNCHANGED <<op, cancelled>>

AcquireRead(g) ==
    /\ Instruction(g)[1] = "rlock"
    /\ \A h \in Others(g) :
          /\ ~Writer(h, Instruction(g)[2])
          /\ ~(h \in announced /\ Instruction(h) = Lock(Instruction(g)[2]))
    /\ Advance(g)
    /\ UNCHANGED <<op, announced, cancelled>>

\* A read or write of a map, or an unlock, is over.
Proceed(g) ==
    /\ Instruction(g)[1] \in {"read", "write", "unlock"}
    /\ Advance(g)
    /\ UNCHANGED <<op, announced, cancelled>>

Cancel(g) ==
    /\ Instruction(g)[1] = "cancel"
    /\ cancelled' = TRUE
    /\ Advance(g)
    /\ UNCHANGED <<op, announced>>

\* WaitGroup.Wait
Await(g) ==
    /\ Instruction(g)[1] = "wait"
    /\ \A h \in Pruners : op[h] = "exited"
    /\ Advance(g)
    /\ UNCHANGED <<op, announced, cancelled>>

\* The end of an operation: a hit or a remembered absence may end a read at
\* once.  Deferred unlocks run; a cache is closed once.
Finish(g) ==
    /\ \/ Instruction(g)[1] = "return" /\ op[g] \notin {"idle", "exited"}
       \/ Instruction(g)[1] = "read"
    /\ op' = [op EXCEPT ![g] = IF g \in Closers THEN "exited" ELSE "idle"]
    /\ at' = [at EXCEPT ![g] = 1]
    /\ UNCHANGED <<announced, cancelled>>

\* The select of a pruner's loop: with both channels ready it may take either.
TakeTick(g) == Begin(g, g)

TakeDone(g) ==
    /\ cancelled
    /\ op[g] = "idle"
    /\ op' = [op EXCEPT ![g] = "exited"]
    /\ UNCHANGED <<at, announced, cancelled>>

Run(g) ==
    \/ Announce(g) \/ AcquireWrite(g) \/ AcquireRead(g) \/ Proceed(g)
    \/ Cancel(g) \/ Await(g) \/ Finish(g)

Next ==
    \/ \E g \in Callers, o \in CallerOps : Begin(g, o)
    \/ \E g \in Pruners : TakeTick(g) \/ TakeDone(g)
    \/ \E g \in Closers : Begin(g, "Close")
    \/ \E g \in Goroutines : Run(g)

\* Goroutines are scheduled; a waiting goroutine gets its mutex (sync.Mutex
\* has a starvation mode, and an unlock lets in the readers that waited); a
\* closed context is noticed, since select chooses at random.
Fairness ==
    /\ \A g \in Goroutines : SF_vars(Run(g))
    /\ \A g \in Pruners : WF_vars(TakeTick(g)) /\ SF_vars(TakeDone(g))

Spec == Init /\ [][Next]_vars /\ Fairness

-----------------------------------------------------------------------------
(* What the mutexes are for                                                *)

Touches(g, m) == Instruction(g) \in {Read(m), Write(m)}

\* Two goroutines use a map at once and one of them changes it, which the Go
\* runtime answers with a fatal error or worse.
Conflict(g, h, m) ==
    g # h /\ Instruction(g) = Write(m) /\ Touches(h, m)

CachedMaps == {"employees", "employeeSearches", "sleeps"}
FlagMaps == {"employeeRead", "employeeSearch", "sleepRead",
             "employeeNotFound", "employeeSearchNotFound"}

\* The maps of cached data are never raced for, by requests or by pruners.
CachedMapsNeverRace ==
    \A g, h \in Goroutines, m \in CachedMaps : ~Conflict(g, h, m)

\* Two requests never race for any map, though a reader changes the flags under
\* a read lock and a writer deletes flags without theirs: only the pruners of
\* the flags do not go through the outer mutex.
CallersNeverRace ==
    \A g, h \in Callers, m \in CachedMaps \cup FlagMaps : ~Conflict(g, h, m)

\* Readers take notFound and then inProgress, writers the reverse; still every
\* operation returns, because the outer mutex keeps them apart.
OperationsReturn == \A g \in Callers : op[g] # "idle" ~> op[g] = "idle"

\* g asks for a mutex that h holds, or for which h waits in Lock while g asks
\* to read.
WaitsFor(g, h) ==
    LET l == Instruction(g)[2]
    IN  \/ Instruction(g)[1] = "lock" /\ (Writer(h, l) \/ Reader(h, l))
        \/ /\ Instruction(g)[1] = "rlock"
           /\ \/ Writer(h, l)
              \/ h \in announced /\ Instruction(h) = Lock(l)

\* Requests, pruners and Close never wait for each other's mutexes in a circle,
\* of whatever length: readers hold notFound and ask for inProgress, writers
\* the reverse, and between them a pruner that waits in Lock holds readers
\* back (memory.go:310-424).
NobodyIsDeadlocked ==
    \A S \in (SUBSET Goroutines) \ {{}} :
        \E g \in S : \A h \in S : ~WaitsFor(g, h)

\* Once Close has returned no pruner is left to touch a map that a later Open
\* makes anew.
ClosedMeansStopped ==
    \A c \in Closers, g \in Pruners : op[c] = "exited" => op[g] = "exited"

-----------------------------------------------------------------------------
(* What the tests expect of Close and it does not do                       *)

\* cache_test.go and main.go call Close and go on when it returns.
CloseReturns == \A g \in Closers : op[g] = "Close" ~> op[g] = "exited"
=============================================================================
