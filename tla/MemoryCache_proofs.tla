------------------------- MODULE MemoryCache_proofs -------------------------
(***************************************************************************)
(* Proofs about MemoryCache, for every value of its constants.             *)
(***************************************************************************)
EXTENDS MemoryCache, TLAPS

-----------------------------------------------------------------------------
(* Maps                                                                    *)

\* A map is a function whose keys are in K and whose values are in V.
LEMMA MapsIntro ==
    ASSUME NEW K, NEW V, NEW S \in SUBSET K, NEW m \in [S -> V]
    PROVE  m \in Maps(K, V)
BY DEF Maps

LEMMA MapsElim ==
    ASSUME NEW K, NEW V, NEW m \in Maps(K, V)
    PROVE  /\ DOMAIN m \in SUBSET K
           /\ m \in [DOMAIN m -> V]
           /\ \A k \in DOMAIN m : m[k] \in V
<1>1. PICK S \in SUBSET K : m \in [S -> V]
  BY DEF Maps
<1>2. QED
  BY <1>1

\* The empty map has any type.
LEMMA EmptyMapType ==
    ASSUME NEW K, NEW V
    PROVE  EmptyMap \in Maps(K, V) /\ DOMAIN EmptyMap = {}
<1>1. EmptyMap \in [{} -> V]
  BY DEF EmptyMap
<1>2. QED
  BY <1>1, MapsIntro DEF EmptyMap

\* What Put makes of two maps (the assignments of EmployeesWrite and others).
LEMMA PutType ==
    ASSUME NEW K, NEW V, NEW m \in Maps(K, V), NEW new \in Maps(K, V)
    PROVE  /\ Put(m, new) \in Maps(K, V)
           /\ DOMAIN Put(m, new) = DOMAIN m \cup DOMAIN new
<1>1. /\ DOMAIN m \cup DOMAIN new \in SUBSET K
      /\ \A k \in DOMAIN m : m[k] \in V
      /\ \A k \in DOMAIN new : new[k] \in V
  BY MapsElim
<1>2. Put(m, new) \in [DOMAIN m \cup DOMAIN new -> V]
  BY <1>1 DEF Put
<1>3. QED
  BY <1>1, <1>2, MapsIntro

\* What Without leaves of a map (the calls of delete).
LEMMA WithoutType ==
    ASSUME NEW K, NEW V, NEW m \in Maps(K, V), NEW keys
    PROVE  /\ Without(m, keys) \in Maps(K, V)
           /\ DOMAIN Without(m, keys) = DOMAIN m \ keys
<1>1. /\ DOMAIN m \ keys \in SUBSET K
      /\ \A k \in DOMAIN m : m[k] \in V
  BY MapsElim
<1>2. Without(m, keys) \in [DOMAIN m \ keys -> V]
  BY <1>1 DEF Without
<1>3. QED
  BY <1>1, <1>2, MapsIntro

LEMMA StampType ==
    ASSUME NEW K, NEW keys \in SUBSET K, NEW ttl \in Nat
    PROVE  Stamp(keys) \in Maps(K, Entries(ttl)) /\ DOMAIN Stamp(keys) = keys
<1>1. [age |-> 0] \in Entries(ttl)
  BY DEF Entries
<1>2. Stamp(keys) \in [keys -> Entries(ttl)]
  BY <1>1 DEF Stamp
<1>3. QED
  BY <1>2, MapsIntro

\* Ages stay bounded as time passes, whatever else an entry holds.
LEMMA OlderFlags ==
    ASSUME NEW K, NEW ttl \in Nat, NEW m \in Maps(K, Entries(ttl))
    PROVE  Older(m, ttl) \in Maps(K, Entries(ttl))
<1>1. DOMAIN m \in SUBSET K /\ \A k \in DOMAIN m : m[k] \in Entries(ttl)
  BY MapsElim
<1>2. \A k \in DOMAIN m :
        [m[k] EXCEPT !.age = IF @ > ttl THEN @ ELSE @ + 1] \in Entries(ttl)
  BY <1>1 DEF Entries
<1>3. Older(m, ttl) \in [DOMAIN m -> Entries(ttl)]
  BY <1>2 DEF Older
<1>4. QED
  BY <1>1, <1>3, MapsIntro

LEMMA OlderEmployees ==
    ASSUME NEW m \in Maps(EmpNos, EmployeeEntries)
    PROVE  Older(m, CacheTTL) \in Maps(EmpNos, EmployeeEntries)
<1>1. DOMAIN m \in SUBSET EmpNos /\ \A k \in DOMAIN m : m[k] \in EmployeeEntries
  BY MapsElim
<1>2. \A k \in DOMAIN m :
        [m[k] EXCEPT !.age = IF @ > CacheTTL THEN @ ELSE @ + 1] \in EmployeeEntries
  BY <1>1, TTLAssumption DEF EmployeeEntries
<1>3. Older(m, CacheTTL) \in [DOMAIN m -> EmployeeEntries]
  BY <1>2 DEF Older
<1>4. QED
  BY <1>1, <1>3, MapsIntro

LEMMA OlderSearches ==
    ASSUME NEW m \in Maps(Searches, SearchEntries)
    PROVE  Older(m, CacheTTL) \in Maps(Searches, SearchEntries)
<1>1. DOMAIN m \in SUBSET Searches /\ \A k \in DOMAIN m : m[k] \in SearchEntries
  BY MapsElim
<1>2. \A k \in DOMAIN m :
        [m[k] EXCEPT !.age = IF @ > CacheTTL THEN @ ELSE @ + 1] \in SearchEntries
  BY <1>1, TTLAssumption DEF SearchEntries
<1>3. Older(m, CacheTTL) \in [DOMAIN m -> SearchEntries]
  BY <1>2 DEF Older
<1>4. QED
  BY <1>1, <1>3, MapsIntro

-----------------------------------------------------------------------------
(* Type correctness.  One lemma for each operation that has more to say    *)
(* than which keys it removes.                                             *)

\* What a read from the store becomes in the cache (the loop of EmployeesWrite).
LEMMA FreshEmployees ==
    ASSUME NEW found \in Results
    PROVE  /\ [k \in DOMAIN found |-> [value |-> found[k], age |-> 0]]
                 \in Maps(EmpNos, EmployeeEntries)
           /\ DOMAIN found \in SUBSET EmpNos
<1>1. PICK S \in SUBSET EmpNos : found \in [S -> Employee]
  BY DEF Results
<1>2. \A k \in S : [value |-> found[k], age |-> 0] \in EmployeeEntries
  BY <1>1, TTLAssumption DEF EmployeeEntries
<1>3. [k \in S |-> [value |-> found[k], age |-> 0]] \in [S -> EmployeeEntries]
  BY <1>2
<1>4. DOMAIN found = S
  BY <1>1
<1>5. QED
  BY <1>1, <1>3, <1>4, MapsIntro

LEMMA FreshSearch ==
    ASSUME NEW search \in Searches, NEW empNos \in SUBSET EmpNos
    PROVE  [s \in {search} |-> [empNos |-> empNos, age |-> 0]]
               \in Maps(Searches, SearchEntries)
<1>1. [empNos |-> empNos, age |-> 0] \in SearchEntries
  BY TTLAssumption DEF SearchEntries
<1>2. [s \in {search} |-> [empNos |-> empNos, age |-> 0]]
          \in [{search} -> SearchEntries]
  BY <1>1
<1>3. QED
  BY <1>2, MapsIntro

LEMMA EmployeesWriteType ==
    ASSUME CacheTypeOK, NEW search \in Searches, NEW found \in Results,
           EmployeesWrite(search, found)
    PROVE  CacheTypeOK'
<1>1. employees' \in Maps(EmpNos, EmployeeEntries)
  BY FreshEmployees, PutType DEF CacheTypeOK, EmployeesWrite
<1>2. employeeSearches' \in Maps(Searches, SearchEntries)
  BY FreshEmployees, FreshSearch, PutType DEF CacheTypeOK, EmployeesWrite
<1>3. /\ employeeRead' \in Maps(EmpNos, Entries(InProgressTTL))
      /\ employeeSearch' \in Maps(Searches, Entries(InProgressTTL))
      /\ employeeNotFound' \in Maps(EmpNos, Entries(NotFoundTTL))
      /\ employeeSearchNotFound' \in Maps(Searches, Entries(NotFoundTTL))
  BY WithoutType DEF CacheTypeOK, EmployeesWrite
<1>4. QED
  BY <1>1, <1>2, <1>3 DEF CacheTypeOK, EmployeesWrite

LEMMA EmployeesNotFoundWriteType ==
    ASSUME CacheTypeOK, NEW search \in Searches, NEW empNos \in SUBSET EmpNos,
           EmployeesNotFoundWrite(search, empNos)
    PROVE  CacheTypeOK'
<1>1. /\ Put(Stamp({search}), employeeSearchNotFound)
             \in Maps(Searches, Entries(NotFoundTTL))
      /\ Put(employeeNotFound, Stamp(empNos))
             \in Maps(EmpNos, Entries(NotFoundTTL))
  BY StampType, PutType, TTLAssumption DEF CacheTypeOK
<1>2. \/ /\ employeeSearchNotFound' = Put(Stamp({search}), employeeSearchNotFound)
         /\ employeeNotFound' = Put(employeeNotFound, Stamp(empNos))
      \/ UNCHANGED <<employeeNotFound, employeeSearchNotFound>>
  BY DEF EmployeesNotFoundWrite, notFoundMaps
<1>3. /\ employeeSearchNotFound' \in Maps(Searches, Entries(NotFoundTTL))
      /\ employeeNotFound' \in Maps(EmpNos, Entries(NotFoundTTL))
  BY <1>1, <1>2 DEF CacheTypeOK
<1>4. QED
  BY <1>3 DEF CacheTypeOK, EmployeesNotFoundWrite, cachedMaps, inProgressMaps

\* The reads change one map of flags at most.
LEMMA ReadsType ==
    ASSUME CacheTypeOK, NEW err
    PROVE  /\ \A k \in EmpNos : EmployeeRead(k, err) => CacheTypeOK'
           /\ \A s \in Searches : EmployeesRead(s, err) => CacheTypeOK'
           /\ \A id \in SleepIds : SleepRead(id, err) => CacheTypeOK'
<1>1. ASSUME NEW k \in EmpNos, EmployeeRead(k, err)
      PROVE  CacheTypeOK'
  <2>1. Put(employeeRead, Stamp({k})) \in Maps(EmpNos, Entries(InProgressTTL))
    BY StampType, PutType, TTLAssumption DEF CacheTypeOK
  <2>2. employeeRead' \in Maps(EmpNos, Entries(InProgressTTL))
    BY <1>1, <2>1 DEF CacheTypeOK, EmployeeRead, EmployeeHit,
       EmployeeKnownAbsent, EmployeeClaim, EmployeeMiss
  <2>3. QED
    BY <1>1, <2>2 DEF CacheTypeOK, EmployeeRead, cachedMaps, notFoundMaps
<1>2. ASSUME NEW s \in Searches, EmployeesRead(s, err)
      PROVE  CacheTypeOK'
  <2>1. Put(employeeSearch, Stamp({s})) \in Maps(Searches, Entries(InProgressTTL))
    BY StampType, PutType, TTLAssumption DEF CacheTypeOK
  <2>2. employeeSearch' \in Maps(Searches, Entries(InProgressTTL))
    BY <1>2, <2>1 DEF CacheTypeOK, EmployeesRead, SearchHit,
       SearchKnownEmpty, SearchClaim, SearchMiss
  <2>3. QED
    BY <1>2, <2>2 DEF CacheTypeOK, EmployeesRead, cachedMaps, notFoundMaps
<1>3. ASSUME NEW id \in SleepIds, SleepRead(id, err)
      PROVE  CacheTypeOK'
  <2>1. Put(sleepRead, Stamp({id})) \in Maps(SleepIds, Entries(InProgressTTL))
    BY StampType, PutType, TTLAssumption DEF CacheTypeOK
  <2>2. sleepRead' \in Maps(SleepIds, Entries(InProgressTTL))
    BY <1>3, <2>1 DEF CacheTypeOK, SleepRead
  <2>3. QED
    BY <1>3, <2>2 DEF CacheTypeOK, SleepRead, cachedMaps, notFoundMaps
<1>4. QED
  BY <1>1, <1>2, <1>3

\* Operations that only delete, or make maps anew.
LEMMA DeletesType ==
    ASSUME CacheTypeOK
    PROVE  /\ \A ks : EmployeesDelete(ks) => CacheTypeOK'
           /\ \A ids : SleepsDelete(ids) => CacheTypeOK'
           /\ Clear => CacheTypeOK'
<1>1. ASSUME NEW ks, EmployeesDelete(ks)
      PROVE  CacheTypeOK'
  BY <1>1, WithoutType DEF CacheTypeOK, EmployeesDelete
<1>2. ASSUME NEW ids, SleepsDelete(ids)
      PROVE  CacheTypeOK'
  BY <1>2, WithoutType DEF CacheTypeOK, SleepsDelete, notFoundMaps
<1>3. ASSUME Clear
      PROVE  CacheTypeOK'
  BY <1>3, EmptyMapType DEF CacheTypeOK, Clear
<1>4. QED
  BY <1>1, <1>2, <1>3

LEMMA SleepWriteType ==
    ASSUME CacheTypeOK, NEW id \in SleepIds, SleepWrite(id)
    PROVE  CacheTypeOK'
<1>1. sleeps' \in Maps(SleepIds, Entries(CacheTTL))
  BY StampType, PutType, TTLAssumption DEF CacheTypeOK, SleepWrite
<1>2. sleepRead' \in Maps(SleepIds, Entries(InProgressTTL))
  BY WithoutType DEF CacheTypeOK, SleepWrite
<1>3. QED
  BY <1>1, <1>2 DEF CacheTypeOK, SleepWrite, notFoundMaps

LEMMA BackgroundType ==
    ASSUME CacheTypeOK, Background
    PROVE  CacheTypeOK'
<1> USE DEF cachedMaps, inProgressMaps, notFoundMaps
<1>1. CASE PruneSleeps
  BY <1>1, WithoutType DEF CacheTypeOK, PruneSleeps, PruneSteps
<1>2. CASE PruneSearches
  BY <1>2, WithoutType DEF CacheTypeOK, PruneSearches, PruneSteps
<1>3. CASE PruneEmployees
  BY <1>3, WithoutType DEF CacheTypeOK, PruneEmployees, PruneSteps
<1>4. CASE PruneEmployeeRead
  BY <1>4, WithoutType DEF CacheTypeOK, PruneEmployeeRead
<1>5. CASE PruneEmployeeSearch
  BY <1>5, WithoutType DEF CacheTypeOK, PruneEmployeeSearch
<1>6. CASE PruneSleepRead
  BY <1>6, WithoutType DEF CacheTypeOK, PruneSleepRead
<1>7. CASE PruneEmployeeNotFound
  BY <1>7, WithoutType DEF CacheTypeOK, PruneEmployeeNotFound
<1>8. CASE PruneEmployeeSearchNotFound
  BY <1>8, WithoutType DEF CacheTypeOK, PruneEmployeeSearchNotFound
<1>9. CASE Elapse
  BY <1>9, OlderFlags, OlderEmployees, OlderSearches, TTLAssumption
     DEF CacheTypeOK, Elapse
<1>10. QED
  BY <1>1, <1>2, <1>3, <1>4, <1>5, <1>6, <1>7, <1>8, <1>9 DEF Background

\* Whatever its callers do, the cache's maps keep their types: ages within
\* their bounds, flags and records only for keys the callers named.
THEOREM CacheTypeCorrect == CacheSpec => []CacheTypeOK
<1>1. CacheInit => CacheTypeOK
  BY EmptyMapType DEF CacheInit, CacheTypeOK, PruneSteps
<1>2. ASSUME CacheTypeOK, [CacheNext]_cacheVars
      PROVE  CacheTypeOK'
  <2>1. CASE CacheNext
    BY <1>2, <2>1, ReadsType, EmployeesWriteType, DeletesType,
       EmployeesNotFoundWriteType, SleepWriteType, BackgroundType DEF CacheNext
  <2>2. CASE UNCHANGED cacheVars
    BY <1>2, <2>2 DEF CacheTypeOK, cacheVars, cachedMaps, inProgressMaps,
       notFoundMaps
  <2>3. QED
    BY <1>2, <2>1, <2>2
<1>3. QED
  BY <1>1, <1>2, PTL DEF CacheSpec

-----------------------------------------------------------------------------
(* Flags and entries.  ClaimExcludesCached is inductive by itself: it      *)
(* speaks of keys only, and needs no types.                                *)

\* Only a reader that missed takes a flag.
LEMMA ReadsKeepClaims ==
    ASSUME ClaimExcludesCached, NEW err
    PROVE  /\ \A k : EmployeeRead(k, err) => ClaimExcludesCached'
           /\ \A s : EmployeesRead(s, err) => ClaimExcludesCached'
           /\ \A id : SleepRead(id, err) => ClaimExcludesCached'
<1> USE DEF ClaimExcludesCached, cachedMaps
<1>1. ASSUME NEW k, EmployeeRead(k, err)
      PROVE  ClaimExcludesCached'
  <2>1. \/ UNCHANGED employeeRead
        \/ /\ DOMAIN employeeRead' = DOMAIN employeeRead \cup {k}
           /\ k \notin DOMAIN employees
    BY <1>1 DEF EmployeeRead, EmployeeHit, EmployeeKnownAbsent, EmployeeClaim,
       EmployeeMiss, Put, Stamp
  <2>2. QED
    BY <1>1, <2>1 DEF EmployeeRead
<1>2. ASSUME NEW s, EmployeesRead(s, err)
      PROVE  ClaimExcludesCached'
  <2>1. \/ UNCHANGED employeeSearch
        \/ /\ DOMAIN employeeSearch' = DOMAIN employeeSearch \cup {s}
           /\ s \notin DOMAIN employeeSearches
    BY <1>2 DEF EmployeesRead, SearchHit, SearchKnownEmpty, SearchClaim,
       SearchMiss, Put, Stamp
  <2>2. QED
    BY <1>2, <2>1 DEF EmployeesRead
<1>3. ASSUME NEW id, SleepRead(id, err)
      PROVE  ClaimExcludesCached'
  <2>1. \/ UNCHANGED sleepRead
        \/ /\ DOMAIN sleepRead' = DOMAIN sleepRead \cup {id}
           /\ id \notin DOMAIN sleeps
    BY <1>3 DEF SleepRead, Put, Stamp
  <2>2. QED
    BY <1>3, <2>1 DEF SleepRead
<1>4. QED
  BY <1>1, <1>2, <1>3

\* A write gives back the flags of what it caches.
LEMMA WritesKeepClaims ==
    ASSUME ClaimExcludesCached
    PROVE  /\ \A s, found : EmployeesWrite(s, found) => ClaimExcludesCached'
           /\ \A id : SleepWrite(id) => ClaimExcludesCached'
<1> USE DEF ClaimExcludesCached
<1>1. ASSUME NEW s, NEW found, EmployeesWrite(s, found)
      PROVE  ClaimExcludesCached'
  <2>1. /\ DOMAIN employees' = DOMAIN employees \cup DOMAIN found
        /\ DOMAIN employeeSearches' = DOMAIN employeeSearches \cup {s}
        /\ DOMAIN employeeRead' = DOMAIN employeeRead \ DOMAIN found
        /\ DOMAIN employeeSearch' = DOMAIN employeeSearch \ {s}
    BY <1>1 DEF EmployeesWrite, Put, Without
  <2>2. QED
    BY <1>1, <2>1 DEF EmployeesWrite
<1>2. ASSUME NEW id, SleepWrite(id)
      PROVE  ClaimExcludesCached'
  <2>1. /\ DOMAIN sleeps' = DOMAIN sleeps \cup {id}
        /\ DOMAIN sleepRead' = DOMAIN sleepRead \ {id}
    BY <1>2 DEF SleepWrite, Put, Stamp, Without
  <2>2. QED
    BY <1>2, <2>1 DEF SleepWrite
<1>3. QED
  BY <1>1, <1>2

\* Neither a delete nor a pruner adds a key to any map.
LEMMA OthersKeepClaims ==
    ASSUME ClaimExcludesCached
    PROVE  /\ \A ks : EmployeesDelete(ks) => ClaimExcludesCached'
           /\ \A ids : SleepsDelete(ids) => ClaimExcludesCached'
           /\ \A s, ks : EmployeesNotFoundWrite(s, ks) => ClaimExcludesCached'
           /\ Clear => ClaimExcludesCached'
           /\ Background => ClaimExcludesCached'
<1> USE DEF ClaimExcludesCached, cachedMaps, inProgressMaps, Without
<1>1. ASSUME NEW ks, EmployeesDelete(ks)
      PROVE  ClaimExcludesCached'
  BY <1>1 DEF EmployeesDelete
<1>2. ASSUME NEW ids, SleepsDelete(ids)
      PROVE  ClaimExcludesCached'
  BY <1>2 DEF SleepsDelete
<1>3. ASSUME NEW s, NEW ks, EmployeesNotFoundWrite(s, ks)
      PROVE  ClaimExcludesCached'
  BY <1>3 DEF EmployeesNotFoundWrite
<1>4. ASSUME Clear
      PROVE  ClaimExcludesCached'
  BY <1>4 DEF Clear, EmptyMap
<1>5. CASE PruneSleeps
  BY <1>5 DEF PruneSleeps
<1>6. CASE PruneSearches
  BY <1>6 DEF PruneSearches
<1>7. CASE PruneEmployees
  BY <1>7 DEF PruneEmployees
<1>8. CASE PruneEmployeeRead \/ PruneEmployeeSearch \/ PruneSleepRead
  BY <1>8 DEF PruneEmployeeRead, PruneEmployeeSearch, PruneSleepRead
<1>9. CASE PruneEmployeeNotFound \/ PruneEmployeeSearchNotFound
  BY <1>9 DEF PruneEmployeeNotFound, PruneEmployeeSearchNotFound
<1>10. CASE Elapse
  BY <1>10 DEF Elapse, Older
<1>11. QED
  BY <1>1, <1>2, <1>3, <1>4, <1>5, <1>6, <1>7, <1>8, <1>9, <1>10 DEF Background

\* A key is never cached and flagged as being read at once, for any number of
\* employees, searches and sleeps and any times to live.
THEOREM ClaimsExcludeCached == CacheSpec => []ClaimExcludesCached
<1>1. CacheInit => ClaimExcludesCached
  BY DEF CacheInit, ClaimExcludesCached, EmptyMap
<1>2. ASSUME ClaimExcludesCached, [CacheNext]_cacheVars
      PROVE  ClaimExcludesCached'
  <2>1. CASE CacheNext
    BY <1>2, <2>1, ReadsKeepClaims, WritesKeepClaims, OthersKeepClaims
       DEF CacheNext
  <2>2. CASE UNCHANGED cacheVars
    BY <1>2, <2>2 DEF ClaimExcludesCached, cacheVars, cachedMaps, inProgressMaps
  <2>3. QED
    BY <1>2, <2>1, <2>2
<1>3. QED
  BY <1>1, <1>2, PTL DEF CacheSpec

-----------------------------------------------------------------------------
(* Searches and their employees.  The ages of an employee and of a search  *)
(* that lists it are compared, so the types are needed as well.            *)

\* The employees an entry of the searches answers with.
LEMMA MembersAges ==
    ASSUME CacheTypeOK, NEW s \in DOMAIN employeeSearches, NEW k \in Members(s)
    PROVE  /\ k \in DOMAIN employees /\ k \in EmpNos
           /\ k \in employeeSearches[s].empNos
           /\ employees[k].age \in Nat
           /\ employeeSearches[s].age \in Nat
<1>1. employees[k] \in EmployeeEntries /\ k \in EmpNos
  BY MapsElim DEF CacheTypeOK, Members
<1>2. employeeSearches[s] \in SearchEntries
  BY MapsElim DEF CacheTypeOK
<1>3. QED
  BY <1>1, <1>2, TTLAssumption DEF EmployeeEntries, SearchEntries, Members

\* Removing entries leaves the ages of those that stay.
LEMMA RemovalKeepsAges ==
    ASSUME MembersNoOlderThanSearch, NEW ks, NEW ss,
           employees' = Without(employees, ks),
           employeeSearches' = Without(employeeSearches, ss)
    PROVE  MembersNoOlderThanSearch'
BY DEF MembersNoOlderThanSearch, Members, Without

LEMMA WithoutNothing ==
    ASSUME NEW K, NEW V, NEW m \in Maps(K, V)
    PROVE  Without(m, {}) = m
BY MapsElim DEF Without

LEMMA WriteKeepsAges ==
    ASSUME CacheTypeOK, MembersNoOlderThanSearch, NEW search, NEW found,
           EmployeesWrite(search, found)
    PROVE  MembersNoOlderThanSearch'
<1> SUFFICES ASSUME NEW s \in DOMAIN employeeSearches', NEW k \in Members(s)'
             PROVE  employees'[k].age <= employeeSearches'[s].age
  BY DEF MembersNoOlderThanSearch
<1>1. CASE k \in DOMAIN found
  <2>1. employees'[k].age = 0
    BY <1>1 DEF EmployeesWrite, Put
  <2>2. employeeSearches'[s].age = 0 \/ employeeSearches'[s].age \in Nat
    <3>1. CASE s = search
      BY <3>1 DEF EmployeesWrite, Put
    <3>2. CASE s # search
      <4>1. /\ s \in DOMAIN employeeSearches
            /\ employeeSearches'[s] = employeeSearches[s]
        BY <3>2 DEF EmployeesWrite, Put
      <4>2. employeeSearches[s] \in SearchEntries
        BY <4>1, MapsElim DEF CacheTypeOK
      <4>3. QED
        BY <4>1, <4>2, TTLAssumption DEF SearchEntries
    <3>3. QED
      BY <3>1, <3>2
  <2>3. QED
    BY <2>1, <2>2
<1>2. CASE k \notin DOMAIN found
  <2>1. k \in DOMAIN employees /\ employees'[k] = employees[k]
    BY <1>2 DEF EmployeesWrite, Put, Members
  <2>2. s # search
    BY <1>2 DEF EmployeesWrite, Put, Members
  <2>3. /\ s \in DOMAIN employeeSearches
        /\ employeeSearches'[s] = employeeSearches[s]
    BY <2>2 DEF EmployeesWrite, Put
  <2>4. QED
    BY <2>1, <2>3 DEF MembersNoOlderThanSearch, Members
<1>3. QED
  BY <1>1, <1>2

LEMMA ElapseKeepsAges ==
    ASSUME CacheTypeOK, MembersNoOlderThanSearch, Elapse
    PROVE  MembersNoOlderThanSearch'
<1> SUFFICES ASSUME NEW s \in DOMAIN employeeSearches', NEW k \in Members(s)'
             PROVE  employees'[k].age <= employeeSearches'[s].age
  BY DEF MembersNoOlderThanSearch
<1>1. s \in DOMAIN employeeSearches
  BY DEF Elapse, Older
<1>2. employeeSearches[s] \in SearchEntries
  BY <1>1, MapsElim DEF CacheTypeOK
<1>3. employeeSearches'[s] = [employeeSearches[s] EXCEPT
          !.age = IF @ > CacheTTL THEN @ ELSE @ + 1]
  BY <1>1 DEF Elapse, Older
<1>4. k \in Members(s)
  BY <1>1, <1>2, <1>3 DEF Elapse, Older, Members, SearchEntries
<1>5. employees[k] \in EmployeeEntries
  BY <1>4, MapsElim DEF CacheTypeOK, Members
<1>6. employees'[k] = [employees[k] EXCEPT
          !.age = IF @ > CacheTTL THEN @ ELSE @ + 1]
  BY <1>4 DEF Elapse, Older, Members
<1>7. employees[k].age <= employeeSearches[s].age
  BY <1>1, <1>4 DEF MembersNoOlderThanSearch
<1>8. QED
  BY <1>2, <1>3, <1>5, <1>6, <1>7, TTLAssumption
     DEF EmployeeEntries, SearchEntries

LEMMA StepKeepsAges ==
    ASSUME CacheTypeOK, MembersNoOlderThanSearch, CacheNext
    PROVE  MembersNoOlderThanSearch'
<1>1. \/ \E s, found : EmployeesWrite(s, found)
      \/ Elapse
      \/ \E ks, ss : /\ employees' = Without(employees, ks)
                    /\ employeeSearches' = Without(employeeSearches, ss)
      \/ UNCHANGED <<employees, employeeSearches>>
      \/ employees' = EmptyMap /\ employeeSearches' = EmptyMap
  <2>1. /\ Without(employees, {}) = employees
        /\ Without(employeeSearches, {}) = employeeSearches
    BY WithoutNothing DEF CacheTypeOK
  <2>2. ASSUME NEW ks \in SUBSET EmpNos, EmployeesDelete(ks)
        PROVE  \E ks1, ss : /\ employees' = Without(employees, ks1)
                           /\ employeeSearches' = Without(employeeSearches, ss)
    <3>1. /\ employees' = Without(employees, ks)
          /\ employeeSearches' = Without(employeeSearches, {})
      BY <2>1, <2>2 DEF EmployeesDelete
    <3>2. QED
      BY <3>1
  <2>3. ASSUME Background
        PROVE  \/ Elapse
               \/ \E ks, ss : /\ employees' = Without(employees, ks)
                             /\ employeeSearches' = Without(employeeSearches, ss)
               \/ UNCHANGED <<employees, employeeSearches>>
    <3>1. CASE PruneSearches
      BY <3>1 DEF PruneSearches
    <3>2. CASE PruneEmployees
      <4>1. /\ employees' = Without(employees, Expired(employees, CacheTTL))
            /\ employeeSearches' = Without(employeeSearches, {})
        BY <2>1, <3>2 DEF PruneEmployees
      <4>2. QED
        BY <4>1
    <3>3. CASE UNCHANGED <<employees, employeeSearches>>
      BY <3>3
    <3>4. QED
      BY <2>3, <3>1, <3>2, <3>3 DEF Background, PruneSleeps, PruneEmployeeRead,
         PruneEmployeeSearch, PruneSleepRead, PruneEmployeeNotFound,
         PruneEmployeeSearchNotFound, cachedMaps
  <2>4. QED
    BY <2>2, <2>3 DEF CacheNext, EmployeeRead, EmployeesRead, SleepRead,
       EmployeesNotFoundWrite, SleepWrite, SleepsDelete, Clear, cachedMaps
<1>2. CASE employees' = EmptyMap /\ employeeSearches' = EmptyMap
  BY <1>2 DEF MembersNoOlderThanSearch, EmptyMap
<1>3. CASE UNCHANGED <<employees, employeeSearches>>
  BY <1>3 DEF MembersNoOlderThanSearch, Members
<1>4. QED
  BY <1>1, <1>2, <1>3, WriteKeepsAges, ElapseKeepsAges, RemovalKeepsAges

\* A cached search never lists an employee whose entry is older than its own,
\* however searches share employees and renew them.
THEOREM MembersNoOlder == CacheSpec => []MembersNoOlderThanSearch
<1>1. CacheInit => MembersNoOlderThanSearch
  BY DEF CacheInit, MembersNoOlderThanSearch, EmptyMap
<1>2. ASSUME CacheTypeOK, MembersNoOlderThanSearch, [CacheNext]_cacheVars
      PROVE  MembersNoOlderThanSearch'
  <2>1. CASE UNCHANGED cacheVars
    BY <1>2, <2>1
       DEF MembersNoOlderThanSearch, Members, cacheVars, cachedMaps
  <2>2. QED
    BY <1>2, <2>1, StepKeepsAges
<1>3. QED
  BY <1>1, <1>2, CacheTypeCorrect, PTL DEF CacheSpec

\* Hence the pruner of the employees only ever takes an employee from searches
\* that have expired themselves.
THEOREM PrunerSparesLiveSearches == CacheSpec => EmployeePrunerSparesLiveSearches
<1> DEFINE Spares ==
      pruning = "employees" /\ pruning' # pruning =>
         \A s \in DOMAIN employeeSearches \ Expired(employeeSearches, CacheTTL) :
             Members(s) \subseteq DOMAIN employees'
<1>1. ASSUME CacheTypeOK, MembersNoOlderThanSearch, [CacheNext]_cacheVars
      PROVE  [Spares]_cacheVars
  <2> SUFFICES ASSUME pruning = "employees", pruning' # pruning,
                      NEW s \in DOMAIN employeeSearches
                                    \ Expired(employeeSearches, CacheTTL),
                      NEW k \in Members(s)
               PROVE  k \in DOMAIN employees'
    OBVIOUS
  <2>1. PruneEmployees
    BY <1>1 DEF CacheNext, cacheVars, EmployeeRead, EmployeesRead, SleepRead,
       EmployeesWrite, EmployeesDelete, EmployeesNotFoundWrite, SleepWrite,
       SleepsDelete, Clear, Background, PruneSleeps, PruneSearches,
       PruneEmployeeRead, PruneEmployeeSearch, PruneSleepRead,
       PruneEmployeeNotFound, PruneEmployeeSearchNotFound, Elapse
  <2>2. /\ k \in DOMAIN employees
        /\ employees[k].age \in Nat /\ employeeSearches[s].age \in Nat
    BY <1>1, MembersAges
  <2>3. employees[k].age <= employeeSearches[s].age
    BY <1>1 DEF MembersNoOlderThanSearch
  <2>4. ~(employeeSearches[s].age > CacheTTL)
    BY DEF Expired
  <2>5. k \notin Expired(employees, CacheTTL)
    BY <2>2, <2>3, <2>4, TTLAssumption DEF Expired
  <2>6. QED
    BY <2>1, <2>2, <2>5 DEF PruneEmployees, Without
<1>2. QED
  BY <1>1, CacheTypeCorrect, MembersNoOlder, PTL
     DEF CacheSpec, EmployeePrunerSparesLiveSearches
=============================================================================
