---------------------------- MODULE MemoryCache ----------------------------
(***************************************************************************)
(* The in-process cache of internal/cache/memory.go.  Go maps are partial  *)
(* functions; an entry is a record whose "age" stands for time.Since of    *)
(* its epoch (cachedAt, or the moment a flag was set), counted in ticks of *)
(* Elapse and saturated one tick past the time to live, because the code   *)
(* only ever asks whether it is greater.                                   *)
(*                                                                         *)
(* Every operation holds the outer RWMutex of memoryCache for its whole    *)
(* body and is one action.  Two reads may hold it together, but what they  *)
(* change lies under the inner mutex of inProgress; MemoryLocks models the *)
(* mutexes themselves.  The pruners' functions each take and release a     *)
(* mutex of their own and are separate actions.                            *)
(***************************************************************************)
EXTENDS CacheErrors, Integers

CONSTANTS
    EmpNos,             \* employee numbers
    Employee,           \* the contents an employee's row can have
    Searches,           \* search criteria; ToKey is injective on them
    SleepIds,           \* ids of sleep requests
    CacheTTL,           \* CACHE_TTL, in ticks
    InProgressTTL,      \* CACHE_SET_READ_TTL, in ticks
    NotFoundTTL,        \* CACHE_NOT_FOUND_TTL, in ticks
    InProgressEnabled,  \* CACHE_ENABLE_IN_PROGRESS
    NotFoundEnabled     \* CACHE_NOT_FOUND_ENABLED

ASSUME TTLAssumption ==
    CacheTTL \in Nat /\ InProgressTTL \in Nat /\ NotFoundTTL \in Nat

ASSUME SwitchAssumption ==
    InProgressEnabled \in BOOLEAN /\ NotFoundEnabled \in BOOLEAN

VARIABLES
    employees,               \* emp_no -> [value, age]
    employeeSearches,        \* search -> [empNos, age]
    sleeps,                  \* sleep id -> [age]
    employeeRead,            \* inProgress.employeeRead: emp_no -> [age]
    employeeSearch,          \* inProgress.employeeSearch: search -> [age]
    sleepRead,               \* inProgress.sleepRead: sleep id -> [age]
    employeeNotFound,        \* notFound.employeeNotFound: emp_no -> [age]
    employeeSearchNotFound,  \* notFound.employeeSearchNotFound
    pruning                  \* what the cache pruner's goroutine runs next

cachedMaps     == <<employees, employeeSearches, sleeps>>
inProgressMaps == <<employeeRead, employeeSearch, sleepRead>>
notFoundMaps   == <<employeeNotFound, employeeSearchNotFound>>
cacheVars      == <<cachedMaps, inProgressMaps, notFoundMaps, pruning>>

-----------------------------------------------------------------------------
(* Maps of entries                                                         *)

\* The Go maps from keys in K to values in V.
Maps(K, V) == UNION { [S -> V] : S \in SUBSET K }

EmptyMap == [k \in {} |-> k]

\* m after m[k] = new[k] for every k of new.
Put(m, new) ==
    [k \in DOMAIN m \cup DOMAIN new |->
        IF k \in DOMAIN new THEN new[k] ELSE m[k]]

\* m after delete(m, k) for every k of keys.
Without(m, keys) == [k \in DOMAIN m \ keys |-> m[k]]

\* A flag or sleep entry, made now, for every one of keys.
Stamp(keys) == [k \in keys |-> [age |-> 0]]

\* The keys a pruner removes: strictly older than the time to live.
Expired_Never(m, ttl) == {}
Expired(m, ttl) == { k \in DOMAIN m : m[k].age > ttl }

\* m one tick later.
Older(m, ttl) ==
    [k \in DOMAIN m |->
        [m[k] EXCEPT !.age = IF @ > ttl THEN @ ELSE @ + 1]]

-----------------------------------------------------------------------------
(* Types                                                                   *)

Entries(ttl)    == [age : 0..(ttl + 1)]
EmployeeEntries == [value : Employee, age : 0..(CacheTTL + 1)]
SearchEntries   == [empNos : SUBSET EmpNos, age : 0..(CacheTTL + 1)]

\* A read from the store of record: one employee or more.
Results == UNION { [S -> Employee] : S \in (SUBSET EmpNos) \ {{}} }

PruneSteps == {"sleeps", "searches", "employees"}

\* Maps have keys and entries of their kind, and ages are counted as far as they
\* are asked for (memory.go:14-45).
CacheTypeOK ==
    /\ employees \in Maps(EmpNos, EmployeeEntries)
    /\ employeeSearches \in Maps(Searches, SearchEntries)
    /\ sleeps \in Maps(SleepIds, Entries(CacheTTL))
    /\ employeeRead \in Maps(EmpNos, Entries(InProgressTTL))
    /\ employeeSearch \in Maps(Searches, Entries(InProgressTTL))
    /\ sleepRead \in Maps(SleepIds, Entries(InProgressTTL))
    /\ employeeNotFound \in Maps(EmpNos, Entries(NotFoundTTL))
    /\ employeeSearchNotFound \in Maps(Searches, Entries(NotFoundTTL))
    /\ pruning \in PruneSteps

\* Open on a configured cache.
CacheInit ==
    /\ employees = EmptyMap
    /\ employeeSearches = EmptyMap
    /\ sleeps = EmptyMap
    /\ employeeRead = EmptyMap
    /\ employeeSearch = EmptyMap
    /\ sleepRead = EmptyMap
    /\ employeeNotFound = EmptyMap
    /\ employeeSearchNotFound = EmptyMap
    /\ pruning = "sleeps"

-----------------------------------------------------------------------------
(* Reads.  Each is an action with the error it returns as a parameter.     *)
(* The maps of a disabled feature are always empty, so a lookup in them    *)
(* needs no test of the feature's switch.                                  *)

EmployeeHit(empNo, err) ==
    /\ empNo \in DOMAIN employees
    /\ err = NoError
    /\ UNCHANGED employeeRead

EmployeeKnownAbsent(empNo, err) ==
    /\ empNo \notin DOMAIN employees
    /\ empNo \in DOMAIN employeeNotFound
    /\ err = ErrEmployeeNotFoundCached
    /\ UNCHANGED employeeRead

EmployeeClaim(empNo, err) ==
    /\ empNo \notin DOMAIN employees \cup DOMAIN employeeNotFound
    /\ InProgressEnabled
    /\ \/ /\ empNo \in DOMAIN employeeRead
          /\ err = ErrEmployeeReadAlreadySet
          /\ UNCHANGED employeeRead
       \/ /\ empNo \notin DOMAIN employeeRead
          /\ err = ErrEmployeeReadSet
          /\ employeeRead' = Put(employeeRead, Stamp({empNo}))

EmployeeMiss(empNo, err) ==
    /\ empNo \notin DOMAIN employees \cup DOMAIN employeeNotFound
    /\ ~InProgressEnabled
    /\ err = ErrEmployeeNotCached
    /\ UNCHANGED employeeRead

\* Every reader of a flagged employee stamps the flag anew.
EmployeeRead_RenewsClaim(empNo, err) ==
    /\ \/ EmployeeHit(empNo, err)
       \/ /\ empNo \notin DOMAIN employees
          /\ InProgressEnabled
          /\ err = ErrEmployeeReadSet
          /\ employeeRead' = Put(employeeRead, Stamp({empNo}))
    /\ UNCHANGED <<cachedMaps, employeeSearch, sleepRead, notFoundMaps, pruning>>

\* Whoever asks for an employee that is known to be absent stamps it anew.
EmployeeRead_RenewsAbsence(empNo, err) ==
    /\ \/ EmployeeHit(empNo, err) /\ UNCHANGED employeeNotFound
       \/ /\ EmployeeKnownAbsent(empNo, err)
          /\ employeeNotFound' = Put(employeeNotFound, Stamp({empNo}))
       \/ /\ EmployeeClaim(empNo, err) \/ EmployeeMiss(empNo, err)
          /\ UNCHANGED employeeNotFound
    /\ UNCHANGED <<cachedMaps, employeeSearch, sleepRead, employeeSearchNotFound,
                   pruning>>

EmployeeRead(empNo, err) ==
    /\ \/ EmployeeHit(empNo, err)
       \/ EmployeeKnownAbsent(empNo, err)
       \/ EmployeeClaim(empNo, err)
       \/ EmployeeMiss(empNo, err)
    /\ UNCHANGED <<cachedMaps, employeeSearch, sleepRead, notFoundMaps, pruning>>

SearchHit(search, err) ==
    /\ search \in DOMAIN employeeSearches
    /\ err = NoError
    /\ UNCHANGED employeeSearch

SearchKnownEmpty(search, err) ==
    /\ search \notin DOMAIN employeeSearches
    /\ search \in DOMAIN employeeSearchNotFound
    /\ err = ErrEmployeeNotFoundCached
    /\ UNCHANGED employeeSearch

SearchClaim(search, err) ==
    /\ search \notin DOMAIN employeeSearches \cup DOMAIN employeeSearchNotFound
    /\ InProgressEnabled
    /\ \/ /\ search \in DOMAIN employeeSearch
          /\ err = ErrEmployeesSearchAlreadySet
          /\ UNCHANGED employeeSearch
       \/ /\ search \notin DOMAIN employeeSearch
          /\ err = ErrEmployeesSearchSet
          /\ employeeSearch' = Put(employeeSearch, Stamp({search}))

SearchMiss(search, err) ==
    /\ search \notin DOMAIN employeeSearches \cup DOMAIN employeeSearchNotFound
    /\ ~InProgressEnabled
    /\ err = ErrEmployeeSearchNotCached
    /\ UNCHANGED employeeSearch

\* A hit starts the search's time to live anew.
EmployeesRead_Renews(search, err) ==
    /\ search \in DOMAIN employeeSearches
    /\ err = NoError
    /\ employeeSearches' = [employeeSearches EXCEPT ![search].age = 0]
    /\ UNCHANGED <<employees, sleeps, inProgressMaps, notFoundMaps, pruning>>

EmployeesRead(search, err) ==
    /\ \/ SearchHit(search, err)
       \/ SearchKnownEmpty(search, err)
       \/ SearchClaim(search, err)
       \/ SearchMiss(search, err)
    /\ UNCHANGED <<cachedMaps, employeeRead, sleepRead, notFoundMaps, pruning>>

\* The employees a hit on search answers with: those recorded for it that
\* are still cached; the others are passed over without an error.
Members(search) == employeeSearches[search].empNos \cap DOMAIN employees

SleepRead(id, err) ==
    /\ \/ /\ id \in DOMAIN sleeps
          /\ err = NoError
          /\ UNCHANGED sleepRead
       \/ /\ id \notin DOMAIN sleeps
          /\ id \in DOMAIN sleepRead
          /\ err = ErrSleepReadAlreadySet
          /\ UNCHANGED sleepRead
       \/ /\ id \notin DOMAIN sleeps \cup DOMAIN sleepRead
          /\ InProgressEnabled
          /\ err = ErrSleepReadSet
          /\ sleepRead' = Put(sleepRead, Stamp({id}))
       \/ /\ id \notin DOMAIN sleeps
          /\ ~InProgressEnabled
          /\ err = ErrSleepNotCached
          /\ UNCHANGED sleepRead
    /\ UNCHANGED <<cachedMaps, employeeRead, employeeSearch, notFoundMaps, pruning>>

-----------------------------------------------------------------------------
(* Writes                                                                  *)

\* An employee already cached keeps its cachedAt.
EmployeesWrite_KeepsAge(search, found) ==
    /\ employees' = Put([k \in DOMAIN found |-> [value |-> found[k], age |-> 0]],
                        employees)
    /\ employeeSearches' = Put(employeeSearches,
           [s \in {search} |-> [empNos |-> DOMAIN found, age |-> 0]])
    /\ employeeRead' = Without(employeeRead, DOMAIN found)
    /\ employeeSearch' = Without(employeeSearch, {search})
    /\ UNCHANGED <<sleeps, sleepRead, notFoundMaps, pruning>>

\* The flags are left to the pruner.
EmployeesWrite_KeepsClaims(search, found) ==
    /\ employees' = Put(employees,
           [k \in DOMAIN found |-> [value |-> found[k], age |-> 0]])
    /\ employeeSearches' = Put(employeeSearches,
           [s \in {search} |-> [empNos |-> DOMAIN found, age |-> 0]])
    /\ UNCHANGED <<sleeps, inProgressMaps, notFoundMaps, pruning>>

\* found: the employees read from the store, by employee number.
EmployeesWrite(search, found) ==
    /\ employees' = Put(employees,
           [k \in DOMAIN found |-> [value |-> found[k], age |-> 0]])
    /\ employeeSearches' = Put(employeeSearches,
           [s \in {search} |-> [empNos |-> DOMAIN found, age |-> 0]])
    /\ employeeRead' = Without(employeeRead, DOMAIN found)
    /\ employeeSearch' = Without(employeeSearch, {search})
    /\ employeeNotFound' = Without(employeeNotFound, DOMAIN found)
    /\ employeeSearchNotFound' = Without(employeeSearchNotFound, {search})
    /\ UNCHANGED <<sleeps, sleepRead, pruning>>

\* The flag and the record of absence go, the entry stays.
EmployeesDelete_KeepsEntry(empNos) ==
    /\ employeeRead' = Without(employeeRead, empNos)
    /\ employeeNotFound' = Without(employeeNotFound, empNos)
    /\ UNCHANGED <<cachedMaps, employeeSearch, sleepRead,
                   employeeSearchNotFound, pruning>>

\* Searches that list a deleted employee are left as they are.
EmployeesDelete(empNos) ==
    /\ employees' = Without(employees, empNos)
    /\ employeeRead' = Without(employeeRead, empNos)
    /\ employeeNotFound' = Without(employeeNotFound, empNos)
    /\ UNCHANGED <<employeeSearches, sleeps, employeeSearch, sleepRead,
                   employeeSearchNotFound, pruning>>

\* Both kinds of record are stamped anew by every call.
EmployeesNotFoundWrite_Renews(search, empNos) ==
    /\ NotFoundEnabled
    /\ employeeSearchNotFound' = Put(employeeSearchNotFound, Stamp({search}))
    /\ employeeNotFound' = Put(employeeNotFound, Stamp(empNos))
    /\ UNCHANGED <<cachedMaps, inProgressMaps, pruning>>

\* A search keeps the epoch of its first record, an employee takes the
\* newest.  The in-progress flags stay set.
EmployeesNotFoundWrite(search, empNos) ==
    /\ IF NotFoundEnabled
       THEN /\ employeeSearchNotFound' =
                 Put(Stamp({search}), employeeSearchNotFound)
            /\ employeeNotFound' = Put(employeeNotFound, Stamp(empNos))
       ELSE UNCHANGED notFoundMaps
    /\ UNCHANGED <<cachedMaps, inProgressMaps, pruning>>

SleepWrite(id) ==
    /\ sleeps' = Put(sleeps, Stamp({id}))
    /\ sleepRead' = Without(sleepRead, {id})
    /\ UNCHANGED <<employees, employeeSearches, employeeRead, employeeSearch,
                   notFoundMaps, pruning>>

SleepsDelete(ids) ==
    /\ sleeps' = Without(sleeps, ids)
    /\ sleepRead' = Without(sleepRead, ids)
    /\ UNCHANGED <<employees, employeeSearches, employeeRead, employeeSearch,
                   notFoundMaps, pruning>>

\* Clear makes every map anew except inProgress.sleepRead.
Clear ==
    /\ employees' = EmptyMap
    /\ employeeSearches' = EmptyMap
    /\ sleeps' = EmptyMap
    /\ employeeRead' = EmptyMap
    /\ employeeSearch' = EmptyMap
    /\ employeeNotFound' = EmptyMap
    /\ employeeSearchNotFound' = EmptyMap
    /\ UNCHANGED <<sleepRead, pruning>>

-----------------------------------------------------------------------------
(* The pruners.  launchPruneCache runs its three functions in this order   *)
(* on every tick of its ticker, each under its own hold of the mutex, so   *)
(* other operations come between them.                                     *)

PruneSleeps ==
    /\ pruning = "sleeps"
    /\ pruning' = "searches"
    /\ sleeps' = Without(sleeps, Expired(sleeps, CacheTTL))
    /\ UNCHANGED <<employees, employeeSearches, inProgressMaps, notFoundMaps>>

\* An expired search takes its employees with it, however young they are.
PruneSearches ==
    /\ pruning = "searches"
    /\ pruning' = "employees"
    /\ LET expired == Expired(employeeSearches, CacheTTL)
       IN  /\ employeeSearches' = Without(employeeSearches, expired)
           /\ employees' = Without(employees,
                  UNION { employeeSearches[s].empNos : s \in expired })
    /\ UNCHANGED <<sleeps, inProgressMaps, notFoundMaps>>

\* Employees are pruned by the time to live of the flags.
PruneEmployees_WrongTTL ==
    /\ pruning = "employees"
    /\ pruning' = "sleeps"
    /\ employees' = Without(employees, Expired(employees, InProgressTTL))
    /\ UNCHANGED <<employeeSearches, sleeps, inProgressMaps, notFoundMaps>>

PruneEmployees ==
    /\ pruning = "employees"
    /\ pruning' = "sleeps"
    /\ employees' = Without(employees, Expired(employees, CacheTTL))
    /\ UNCHANGED <<employeeSearches, sleeps, inProgressMaps, notFoundMaps>>

\* launchPruneSetRead: the maps are disjoint, so the order of its functions
\* within a tick cannot be seen.
PruneEmployeeRead ==
    /\ InProgressEnabled
    /\ employeeRead' = Without(employeeRead, Expired(employeeRead, InProgressTTL))
    /\ UNCHANGED <<cachedMaps, employeeSearch, sleepRead, notFoundMaps, pruning>>

PruneEmployeeSearch ==
    /\ InProgressEnabled
    /\ employeeSearch' =
           Without(employeeSearch, Expired(employeeSearch, InProgressTTL))
    /\ UNCHANGED <<cachedMaps, employeeRead, sleepRead, notFoundMaps, pruning>>

PruneSleepRead ==
    /\ InProgressEnabled
    /\ sleepRead' = Without(sleepRead, Expired(sleepRead, InProgressTTL))
    /\ UNCHANGED <<cachedMaps, employeeRead, employeeSearch, notFoundMaps, pruning>>

\* launchPruneNotFound
PruneEmployeeNotFound ==
    /\ NotFoundEnabled
    /\ employeeNotFound' =
           Without(employeeNotFound, Expired(employeeNotFound, NotFoundTTL))
    /\ UNCHANGED <<cachedMaps, inProgressMaps, employeeSearchNotFound, pruning>>

PruneEmployeeSearchNotFound ==
    /\ NotFoundEnabled
    /\ employeeSearchNotFound' =
           Without(employeeSearchNotFound,
                   Expired(employeeSearchNotFound, NotFoundTTL))
    /\ UNCHANGED <<cachedMaps, inProgressMaps, employeeNotFound, pruning>>

\* One tick of time passes for every epoch at once.
Elapse ==
    /\ employees' = Older(employees, CacheTTL)
    /\ employeeSearches' = Older(employeeSearches, CacheTTL)
    /\ sleeps' = Older(sleeps, CacheTTL)
    /\ employeeRead' = Older(employeeRead, InProgressTTL)
    /\ employeeSearch' = Older(employeeSearch, InProgressTTL)
    /\ sleepRead' = Older(sleepRead, InProgressTTL)
    /\ employeeNotFound' = Older(employeeNotFound, NotFoundTTL)
    /\ employeeSearchNotFound' = Older(employeeSearchNotFound, NotFoundTTL)
    /\ UNCHANGED pruning

-----------------------------------------------------------------------------
(* The cache under any caller                                              *)

\* The pruners' goroutines and the clock.
Background ==
    \/ PruneSleeps \/ PruneSearches \/ PruneEmployees
    \/ PruneEmployeeRead \/ PruneEmployeeSearch \/ PruneSleepRead
    \/ PruneEmployeeNotFound \/ PruneEmployeeSearchNotFound
    \/ Elapse

Outcomes == CacheErrorSet \cup {NoError}

CacheNext ==
    \/ \E k \in EmpNos, err \in Outcomes : EmployeeRead(k, err)
    \/ \E s \in Searches, err \in Outcomes : EmployeesRead(s, err)
    \/ \E s \in Searches, found \in Results : EmployeesWrite(s, found)
    \/ \E ks \in SUBSET EmpNos : EmployeesDelete(ks)
    \/ \E s \in Searches, ks \in SUBSET EmpNos : EmployeesNotFoundWrite(s, ks)
    \/ \E id \in SleepIds, err \in Outcomes : SleepRead(id, err)
    \/ \E id \in SleepIds : SleepWrite(id)
    \/ \E ids \in SUBSET SleepIds : SleepsDelete(ids)
    \/ Clear
    \/ Background

\* Tickers fire and the clock runs as long as the cache is open.
BackgroundFairness ==
    /\ WF_cacheVars(PruneSleeps)
    /\ WF_cacheVars(PruneSearches)
    /\ WF_cacheVars(PruneEmployees)
    /\ WF_cacheVars(PruneEmployeeRead)
    /\ WF_cacheVars(PruneEmployeeSearch)
    /\ WF_cacheVars(PruneSleepRead)
    /\ WF_cacheVars(PruneEmployeeNotFound)
    /\ WF_cacheVars(PruneEmployeeSearchNotFound)
    /\ WF_cacheVars(Elapse)

CacheSpec == CacheInit /\ [][CacheNext]_cacheVars

CacheFairSpec == CacheSpec /\ BackgroundFairness

-----------------------------------------------------------------------------
(* What the cache promises                                                 *)

\* A key is never cached and flagged as being read at once: the first reader
\* to miss takes the flag, and the write that fills the cache gives it back
\* (EmployeeRead, EmployeesRead, SleepRead against EmployeesWrite, SleepWrite).
ClaimExcludesCached ==
    /\ DOMAIN employeeRead \cap DOMAIN employees = {}
    /\ DOMAIN employeeSearch \cap DOMAIN employeeSearches = {}
    /\ DOMAIN sleepRead \cap DOMAIN sleeps = {}

\* An employee a cached search lists is never older than the search: every
\* write stamps both, and an employee can only be renewed.
MembersNoOlderThanSearch ==
    \A s \in DOMAIN employeeSearches :
        \A k \in Members(s) :
            employees[k].age <= employeeSearches[s].age

\* The employee pruner never shortens the answer of a search that has not
\* itself expired, whatever was written and renewed before.
EmployeePrunerSparesLiveSearches ==
    [][pruning = "employees" /\ pruning' # pruning =>
         \A s \in DOMAIN employeeSearches \ Expired(employeeSearches, CacheTTL) :
             Members(s) \subseteq DOMAIN employees']_cacheVars

\* A flag whose reader never filled the cache (it failed, or found nothing)
\* does not stay: later readers get their chance to read.
ClaimsAreReleased ==
    /\ \A k \in EmpNos : []<>(k \notin DOMAIN employeeRead)
    /\ \A s \in Searches : []<>(s \notin DOMAIN employeeSearch)
    /\ \A id \in SleepIds : []<>(id \notin DOMAIN sleepRead)

\* A cached search that lost an employee answers without it, but not for
\* ever: it expires, or it is written again.
TruncatedSearchesEnd ==
    \A s \in Searches :
        (s \in DOMAIN employeeSearches
             /\ Members(s) # employeeSearches[s].empNos)
        ~> (s \notin DOMAIN employeeSearches
             \/ Members(s) = employeeSearches[s].empNos)

\* A search remembered as finding nothing is forgotten again, even if it is
\* found to find nothing over and over: the record keeps its first epoch.
NotFoundSearchesForgotten ==
    \A s \in Searches : []<>(s \notin DOMAIN employeeSearchNotFound)

\* An employee remembered as absent has no such bound, since every record of
\* it is stamped anew; but it is forgotten unless somebody finds it absent
\* and records it again and again.  That it is asked for meanwhile, and
\* answered from the record, does not keep it (EmployeeRead).
AbsencesEndUnlessRecordedAgain ==
    \A k \in EmpNos :
        \/ []<>(k \notin DOMAIN employeeNotFound)
        \/ []<><<\E s \in Searches, ks \in SUBSET EmpNos :
                     k \in ks /\ EmployeesNotFoundWrite(s, ks)>>_cacheVars
=============================================================================
