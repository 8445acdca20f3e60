------------------------------- MODULE Logic -------------------------------
(***************************************************************************)
(* The service's business logic (internal/logic/logic.go) over the         *)
(* in-memory cache and the store of record (internal/sql).  Each process   *)
(* serves requests one after another, as the goroutine of an HTTP          *)
(* connection does; between two calls to the cache or to the store any     *)
(* other process, a pruner or the clock may run.                           *)
(***************************************************************************)
EXTENDS MemoryCache

CONSTANTS
    Procs,                 \* goroutines that serve requests
    Ops,                   \* the kinds of request they receive
    MaxRetries,            \* CACHE_MAX_RETRIES: tries of a cache read
    CacheEnabled,          \* LOGIC_CACHE_ENABLED
    CacheNotFoundEnabled,  \* CACHE_NOT_FOUND_ENABLED as the logic reads it
    MutateDisabled,        \* MUTATE_DISABLED
    MayFail                \* whether statements may fail, contexts be cancelled

ASSUME EmpNosAssumption == EmpNos \subseteq Nat

\* Criteria are lists of employee numbers, the only ones the store looks at;
\* the empty list asks for everybody.
ASSUME SearchesAssumption ==
    /\ <<>> \in Searches
    /\ \A s \in Searches : \A i \in DOMAIN s : s[i] \in EmpNos

ASSUME OpsAssumption ==
    Ops \subseteq {"read", "search", "update", "delete", "create", "sleep"}

ASSUME LogicSwitchAssumption ==
    /\ CacheEnabled \in BOOLEAN
    /\ CacheNotFoundEnabled \in BOOLEAN
    /\ MutateDisabled \in BOOLEAN
    /\ MayFail \in BOOLEAN

\* 0 would mean no limit but the fifteen minutes backoff sets by itself.
ASSUME MaxRetriesAssumption == MaxRetries \in Nat \ {0}

VARIABLES
    row,      \* the employees table: emp_no -> contents
    pc,       \* what each process does next
    request,  \* the request it serves
    tries,    \* tries of the cache read so far
    fetched,  \* what it holds, read from the store
    reply,    \* its answer, once done
    leaked    \* history: employees whose entry nobody will invalidate

procVars == <<pc, request, tries, fetched, reply>>
vars     == <<cacheVars, row, procVars, leaked>>

Mutations == {"update", "delete", "create"}

NoRequest == [op |-> "none", key |-> 0]
NoReply   == [err |-> NoError, found |-> EmptyMap]

\* The employee number of a create is known only once FindEmpNo chose it.
Keys(op) == CASE op \in {"read", "update", "delete"} -> EmpNos
              [] op = "search" -> Searches
              [] op = "sleep"  -> SleepIds
              [] op = "create" -> {0}

Requests == UNION { [op : {o}, key : Keys(o)] : o \in Ops }

\* What a process may be serving.
Served ==
    Requests \cup {NoRequest} \cup [op : Ops \cap {"create"}, key : EmpNos]

Errors == {NoError, ErrNotFound, ErrStatement, ErrMutationDisabled}
              \cup CacheErrorSet

Steps == { "idle", "cache", "sql", "fill", "absent", "insert", "readBack",
           "invalidate", "done" }

LogicTypeOK ==
    /\ row \in Maps(EmpNos, Employee)
    /\ pc \in [Procs -> Steps]
    /\ request \in [Procs -> Served]
    /\ tries \in [Procs -> 0..(MaxRetries - 1)]
    /\ fetched \in [Procs -> Maps(EmpNos, Employee)]
    /\ reply \in [Procs -> [err : Errors, found : Maps(EmpNos, Employee)]]
    /\ leaked \in SUBSET EmpNos

Init ==
    /\ CacheInit
    /\ row \in Maps(EmpNos, Employee)
    /\ pc = [p \in Procs |-> "idle"]
    /\ request = [p \in Procs |-> NoRequest]
    /\ tries = [p \in Procs |-> 0]
    /\ fetched = [p \in Procs |-> EmptyMap]
    /\ reply = [p \in Procs |-> NoReply]
    /\ leaked = {}

-----------------------------------------------------------------------------
(* Receiving a request and answering it                                    *)

Finish(p, err, found) ==
    /\ pc' = [pc EXCEPT ![p] = "done"]
    /\ reply' = [reply EXCEPT ![p] = [err |-> err, found |-> found]]
    /\ tries' = [tries EXCEPT ![p] = 0]
    /\ fetched' = [fetched EXCEPT ![p] = EmptyMap]
    /\ UNCHANGED request

Goto(p, step) ==
    /\ pc' = [pc EXCEPT ![p] = step]
    /\ UNCHANGED <<request, tries, reply>>

At(p, step, ops) == pc[p] = step /\ request[p].op \in ops

\* A mutation is refused where mutations are disabled.
Refused(r) == MutateDisabled /\ r.op \in Mutations

\* Reads start with the cache if it is enabled, mutations with the store.
FirstStep(r) ==
    CASE Refused(r) -> "done"
      [] CacheEnabled /\ r.op \notin Mutations -> "cache"
      [] OTHER -> "sql"

Start(p) ==
    /\ pc[p] = "idle"
    /\ \E r \in Requests :
          /\ request' = [request EXCEPT ![p] = r]
          /\ pc' = [pc EXCEPT ![p] = FirstStep(r)]
          /\ reply' = [reply EXCEPT ![p].err = IF Refused(r)
                                               THEN ErrMutationDisabled ELSE @]
    /\ UNCHANGED <<cacheVars, row, tries, fetched, leaked>>

Return(p) ==
    /\ pc[p] = "done"
    /\ pc' = [pc EXCEPT ![p] = "idle"]
    /\ request' = [request EXCEPT ![p] = NoRequest]
    /\ reply' = [reply EXCEPT ![p] = NoReply]
    /\ UNCHANGED <<cacheVars, row, tries, fetched, leaked>>

-----------------------------------------------------------------------------
(* The cache-aside read of EmployeeRead, EmployeesSearch and Sleep         *)

\* The call of the operation that backoff.Retry tries.
CacheLookup(r, err) ==
    \/ r.op = "read" /\ EmployeeRead(r.key, err)
    \/ r.op = "search" /\ EmployeesRead(r.key, err)
    \/ r.op = "sleep" /\ SleepRead(r.key, err)

\* What a hit answers with.
Held(r) ==
    LET ks == CASE r.op = "read"   -> {r.key}
                [] r.op = "search" -> Members(r.key)
                [] r.op = "sleep"  -> {}
    IN  [k \in ks |-> employees[k].value]

\* The switch on the error of a cache read.  Its first case takes every
\* error of the types of ErrEmployeeNotCached and ErrEmployeeReadAlreadySet,
\* and replaces it by backoff.RetryAfter, which does not wrap it; what is
\* left is backoff.Permanent, which Retry unwraps.
Retried_Unwrapped(err) == err
Retried(err) ==
    IF Is(err, ErrEmployeeNotCached) \/ Is(err, ErrEmployeeReadAlreadySet)
    THEN ErrRetryAfter
    ELSE err

CacheHit(p) ==
    /\ pc[p] = "cache"
    /\ CacheLookup(request[p], NoError)
    /\ Finish(p, NoError, Held(request[p]))
    /\ UNCHANGED <<row, leaked>>

\* The retries are not counted.
TryAgain_Uncounted(p) ==
    /\ pc[p] = "cache"
    /\ \E err \in CacheErrorSet :
          /\ CacheLookup(request[p], err)
          /\ Retried(err) = ErrRetryAfter
    /\ UNCHANGED <<row, procVars, leaked>>

\* One try too many.
TryAgain_OffByOne(p) ==
    /\ pc[p] = "cache"
    /\ tries[p] + 1 <= MaxRetries
    /\ \E err \in CacheErrorSet :
          /\ CacheLookup(request[p], err)
          /\ Retried(err) = ErrRetryAfter
    /\ tries' = [tries EXCEPT ![p] = @ + 1]
    /\ UNCHANGED <<row, pc, request, fetched, reply, leaked>>

\* A miss with a try left: wait CACHE_RETRY_INTERVAL and read again.
TryAgain(p) ==
    /\ pc[p] = "cache"
    /\ tries[p] + 1 < MaxRetries
    /\ \E err \in CacheErrorSet :
          /\ CacheLookup(request[p], err)
          /\ Retried(err) = ErrRetryAfter
    /\ tries' = [tries EXCEPT ![p] = @ + 1]
    /\ UNCHANGED <<row, pc, request, fetched, reply, leaked>>

\* A miss that is not retried: it was the last try, or the context was
\* cancelled, or backoff's own limit of time has passed.  Only an error of a
\* cache type is answered to the caller; others fail over to the store.
GiveUp(p) ==
    /\ pc[p] = "cache"
    /\ tries[p] + 1 = MaxRetries \/ MayFail
    /\ \E err \in CacheErrorSet :
          /\ CacheLookup(request[p], err)
          /\ IF CacheNotFoundEnabled /\ \/ Is(Retried(err), ErrNotCached)
                                        \/ Is(Retried(err), ErrNotCachedRetry)
             THEN Finish(p, Retried(err), EmptyMap)
             ELSE /\ pc' = [pc EXCEPT ![p] = "sql"]
                  /\ tries' = [tries EXCEPT ![p] = 0]
                  /\ UNCHANGED <<request, fetched, reply>>
    /\ UNCHANGED <<row, leaked>>

-----------------------------------------------------------------------------
(* The store of record                                                     *)

\* The employees a request asks the store for.
Matching(search) ==
    IF search = <<>> THEN EmpNos ELSE { search[i] : i \in DOMAIN search }

\* The criteria are not passed on to the statement.
Wanted_Everybody(r) == EmpNos

Wanted(r) == IF r.op = "read" THEN {r.key} ELSE Matching(r.key)

Rows(ks) == [k \in ks \cap DOMAIN row |-> row[k]]

\* A query has found employees, which fill the cache before they are answered.
Obtained(p, found) ==
    /\ DOMAIN found # {}
    /\ IF CacheEnabled
       THEN /\ fetched' = [fetched EXCEPT ![p] = found]
            /\ Goto(p, "fill")
       ELSE Finish(p, NoError, found)

\* It has found none, which the cache is told before the caller.
Absent(p) ==
    IF CacheEnabled THEN Goto(p, "absent") /\ UNCHANGED fetched
                    ELSE Finish(p, ErrNotFound, EmptyMap)

\* An empty result is a result like any other.
SqlFound_Empty(p) ==
    /\ At(p, "sql", {"read", "search"})
    /\ fetched' = [fetched EXCEPT ![p] = Rows(Wanted(request[p]))]
    /\ Goto(p, "fill")
    /\ UNCHANGED <<cacheVars, row, leaked>>

SqlFound(p) ==
    /\ At(p, "sql", {"read", "search"})
    /\ Obtained(p, Rows(Wanted(request[p])))
    /\ UNCHANGED <<cacheVars, row, leaked>>

SqlNotFound(p) ==
    /\ At(p, "sql", {"read", "search"})
    /\ Wanted(request[p]) \cap DOMAIN row = {}
    /\ Absent(p)
    /\ UNCHANGED <<cacheVars, row, leaked>>

\* The connection fails while a search reads its rows.  The loop over
\* rows.Next ends, rows.Err is not asked, and what was read so far is the
\* result.
SqlCutShort(p) ==
    /\ MayFail
    /\ At(p, "sql", {"search"})
    /\ \/ \E ks \in SUBSET Wanted(request[p]) : Obtained(p, Rows(ks))
       \/ Absent(p)
    /\ UNCHANGED <<cacheVars, row, leaked>>

SqlSleep(p) ==
    /\ At(p, "sql", {"sleep"})
    /\ IF CacheEnabled THEN Goto(p, "fill") /\ UNCHANGED fetched
                       ELSE Finish(p, NoError, EmptyMap)
    /\ UNCHANGED <<cacheVars, row, leaked>>

\* The table once the contents of an employee are changed to v, and once an
\* employee is added.
Updated(empNo, v)  == [k \in DOMAIN row |-> IF k = empNo THEN v ELSE row[k]]
Inserted(empNo, v) == Put(row, [k \in {empNo} |-> v])

\* UPDATE of a number that has no row changes nothing and is no error.
SqlUpdate(p) ==
    /\ At(p, "sql", {"update"})
    /\ \E v \in Employee : row' = Updated(request[p].key, v)
    /\ Goto(p, "readBack")
    /\ UNCHANGED <<cacheVars, fetched, leaked>>

\* The cache is not told.
SqlDelete_LeavesEntry(p) ==
    /\ At(p, "sql", {"delete"})
    /\ row' = Without(row, {request[p].key})
    /\ IF request[p].key \notin DOMAIN row
       THEN Finish(p, ErrNotFound, EmptyMap)
       ELSE Finish(p, NoError, EmptyMap)
    /\ UNCHANGED <<cacheVars, leaked>>

SqlDelete(p) ==
    /\ At(p, "sql", {"delete"})
    /\ row' = Without(row, {request[p].key})
    /\ IF request[p].key \notin DOMAIN row
       THEN Finish(p, ErrNotFound, EmptyMap)
       ELSE IF CacheEnabled THEN Goto(p, "invalidate") /\ UNCHANGED fetched
                            ELSE Finish(p, NoError, EmptyMap)
    /\ UNCHANGED <<cacheVars, leaked>>

\* findEmpNo: one more than the greatest number, which must be in EmpNos (a
\* bound of the model); an empty table is an error, see SqlFails.
FindEmpNo(p) ==
    /\ At(p, "sql", {"create"})
    /\ \E k \in DOMAIN row :
          /\ \A other \in DOMAIN row : other <= k
          /\ k + 1 \in EmpNos
          /\ request' = [request EXCEPT ![p].key = k + 1]
    /\ pc' = [pc EXCEPT ![p] = "insert"]
    /\ UNCHANGED <<cacheVars, row, tries, fetched, reply, leaked>>

\* The number taken meanwhile is written over.
SqlInsert_Replaces(p) ==
    /\ At(p, "insert", {"create"})
    /\ \E v \in Employee : row' = Inserted(request[p].key, v)
    /\ Goto(p, "readBack")
    /\ UNCHANGED <<cacheVars, fetched, leaked>>

\* emp_no is the primary key: INSERT of a number taken meanwhile fails.
SqlInsert(p) ==
    /\ At(p, "insert", {"create"})
    /\ IF request[p].key \in DOMAIN row
       THEN Finish(p, ErrStatement, EmptyMap) /\ UNCHANGED row
       ELSE /\ \E v \in Employee : row' = Inserted(request[p].key, v)
            /\ Goto(p, "readBack")
            /\ UNCHANGED fetched
    /\ UNCHANGED <<cacheVars, leaked>>

\* EmployeeUpdate and EmployeeCreate end by reading what they wrote.  An
\* update that cannot read it returns before the cache is invalidated.
ReadBack(p) ==
    /\ At(p, "readBack", {"update", "create"})
    /\ LET found == Rows({request[p].key})
       IN  IF DOMAIN found = {}
           THEN Finish(p, ErrNotFound, EmptyMap)
           ELSE IF CacheEnabled /\ request[p].op = "update"
                THEN /\ fetched' = [fetched EXCEPT ![p] = found]
                     /\ Goto(p, "invalidate")
                ELSE Finish(p, NoError, found)
    /\ UNCHANGED <<cacheVars, row, leaked>>

\* What an error leaves in the cache of an employee that was to be invalidated.
Entry(empNo) == {empNo} \cap DOMAIN employees

\* A statement returns an error and did not take effect; the first one of a
\* create also where FindEmpNo has no number to give.
SqlFails(p) ==
    /\ MayFail \/ (request[p].op = "create" /\ pc[p] = "sql")
    /\ pc[p] \in {"sql", "insert", "readBack"}
    /\ Finish(p, ErrStatement, EmptyMap)
    /\ leaked' = leaked \cup
           IF At(p, "readBack", {"update"}) THEN Entry(request[p].key) ELSE {}
    /\ UNCHANGED <<cacheVars, row>>

\* A mutation took effect, but its answer did not arrive.
SqlAnswerLost(p) ==
    /\ MayFail
    /\ \/ /\ At(p, "sql", {"update"})
          /\ \E v \in Employee : row' = Updated(request[p].key, v)
       \/ /\ At(p, "sql", {"delete"})
          /\ row' = Without(row, {request[p].key})
       \/ /\ At(p, "insert", {"create"})
          /\ request[p].key \notin DOMAIN row
          /\ \E v \in Employee : row' = Inserted(request[p].key, v)
    /\ leaked' = leaked \cup Entry(request[p].key)
    /\ Finish(p, ErrStatement, EmptyMap)
    /\ UNCHANGED cacheVars

-----------------------------------------------------------------------------
(* Back to the cache                                                       *)

\* EmployeeRead names no search, so its entry is recorded under the key of
\* the empty criteria, the one of a search for everybody.
CacheKey(r) == IF r.op = "read" THEN <<>> ELSE r.key

Overtaken(found) ==
    { k \in DOMAIN found : k \notin DOMAIN row \/ row[k] # found[k] }

Fill(p) ==
    /\ pc[p] = "fill"
    /\ IF request[p].op = "sleep"
       THEN SleepWrite(request[p].key) /\ UNCHANGED leaked
       ELSE /\ EmployeesWrite(CacheKey(request[p]), fetched[p])
            /\ leaked' = (leaked \ DOMAIN fetched[p]) \cup Overtaken(fetched[p])
    /\ Finish(p, NoError, fetched[p])
    /\ UNCHANGED row

FillAbsent(p) ==
    /\ pc[p] = "absent"
    /\ EmployeesNotFoundWrite(CacheKey(request[p]),
           IF request[p].op = "read" THEN {request[p].key} ELSE {})
    /\ Finish(p, ErrNotFound, EmptyMap)
    /\ UNCHANGED <<row, leaked>>

Invalidate(p) ==
    /\ pc[p] = "invalidate"
    /\ EmployeesDelete({request[p].key})
    /\ Finish(p, NoError, fetched[p])
    /\ UNCHANGED <<row, leaked>>

-----------------------------------------------------------------------------
(* The service                                                             *)

Step(p) ==
    \/ CacheHit(p) \/ TryAgain(p) \/ GiveUp(p)
    \/ SqlFound(p) \/ SqlNotFound(p) \/ SqlCutShort(p) \/ SqlSleep(p)
    \/ SqlUpdate(p) \/ SqlDelete(p) \/ FindEmpNo(p) \/ SqlInsert(p)
    \/ ReadBack(p) \/ SqlFails(p) \/ SqlAnswerLost(p)
    \/ Fill(p) \/ FillAbsent(p) \/ Invalidate(p)

\* The pruners, the clock, and the handler that clears the cache.
Environment ==
    /\ Background \/ Clear
    /\ UNCHANGED <<row, procVars, leaked>>

Next ==
    \/ \E p \in Procs : Start(p) \/ Step(p) \/ Return(p)
    \/ Environment

Spec == Init /\ [][Next]_vars

\* A process that is served a request is scheduled, every statement and every
\* wait ends, and the cache's own goroutines run.
FairSpec ==
    /\ Spec
    /\ \A p \in Procs : WF_vars(Step(p))
    /\ BackgroundFairness

-----------------------------------------------------------------------------
(* What the service promises                                               *)

\* The cache's entry of employee k is not what the store holds.
Stale(k) ==
    /\ k \in DOMAIN employees
    /\ k \notin DOMAIN row \/ row[k] # employees[k].value

\* A request that changed k is still on its way to EmployeesDelete.
InvalidationPending(k, ops) ==
    \E p \in Procs : /\ pc[p] \in {"readBack", "invalidate"}
                     /\ request[p].op \in ops
                     /\ request[p].key = k

\* The cache is wrong about an employee only while an update or a delete that
\* changed it has yet to invalidate it, or after one of two leaks: a read that
\* filled the cache with what a mutation had overtaken, and a mutation that
\* returned an error after its commit.  About an employee that is gone, only a
\* delete can be on its way (EmployeeRead, EmployeeUpdate, EmployeeDelete).
StaleOnlyIfPendingOrLeaked ==
    \A k \in DOMAIN employees \ leaked :
        /\ Stale(k) => InvalidationPending(k, {"update", "delete"})
        /\ k \notin DOMAIN row => InvalidationPending(k, {"delete"})

\* What the cache records for a search are employees its criteria ask for,
\* whichever request filled it (EmployeesWrite from EmployeeRead and
\* EmployeesSearch).
SearchesListWhatTheyMatch ==
    \A s \in DOMAIN employeeSearches :
        employeeSearches[s].empNos \subseteq Matching(s)

\* The caller sees what the store says, never that the cache missed: no
\* answer carries an error of the cache (README: "Errors in the cache should
\* never be passed to the client").
AnswersHideCacheErrors == \A p \in Procs : reply[p].err \notin CacheErrorSet

\* However the cache is flagged, missed or filled by others, a request ends:
\* it stops retrying and fails over to the store.
RequestsComplete == \A p \in Procs : pc[p] # "idle" ~> pc[p] = "done"

\* A wrong entry does not stay for ever: whatever wrote it, and however often
\* it is read, it is evicted, invalidated or corrected.
StaleEntriesEnd == \A k \in EmpNos : Stale(k) ~> ~Stale(k)

\* The service does what ReadThrough promises its clients, with what a request
\* holds between its query and its fill, and the changes it has yet to
\* invalidate, read off its place.
RT == INSTANCE ReadThrough WITH
    cached  <- [k \in DOMAIN employees |-> employees[k].value],
    held    <- [p \in Procs |-> IF pc[p] = "fill" THEN fetched[p] ELSE EmptyMap],
    pending <- [p \in Procs |->
                   IF /\ pc[p] \in {"readBack", "invalidate"}
                      /\ request[p].op \in {"update", "delete"}
                   THEN {request[p].key} ELSE {}]

\* Whatever happens between the calls of a request, its caller can think of
\* one table, one cache and changes on their way to it (EmployeeRead,
\* EmployeesSearch, EmployeeCreate, EmployeeUpdate, EmployeeDelete).
ReadThroughRefined == RT!RTSpec

\* What the service does to its cache is what the cache's specification
\* allows: fills hold an employee or more, every step is one operation.
CacheRefined == CacheSpec

=============================================================================
