------------------------ MODULE LogicRefinement_proofs ------------------------
(***************************************************************************)
(* Proof that Logic implements ReadThrough, for every value of its         *)
(* constants.  A request of Logic is a Fetch and a Fill, or a Change and   *)
(* an Invalidate; held and pending are read off its place, so that most of *)
(* its steps stutter.                                                      *)
(***************************************************************************)
EXTENDS Logic_proofs

\* What Logic gives the variables of ReadThrough.
Cached == [k \in DOMAIN employees |-> employees[k].value]

HeldBy(p) == IF pc[p] = "fill" THEN fetched[p] ELSE EmptyMap

PendingOf(p) ==
    IF /\ pc[p] \in {"readBack", "invalidate"}
       /\ request[p].op \in {"update", "delete"}
    THEN {request[p].key} ELSE {}

HeldNow    == [p \in Procs |-> HeldBy(p)]
PendingNow == [p \in Procs |-> PendingOf(p)]

-----------------------------------------------------------------------------
(* A request holds rows only on its way to the cache or back from it.      *)

CarriesInv ==
    \A p \in Procs :
        pc[p] \notin {"fill", "invalidate"} \/ request[p].op = "sleep"
            => fetched[p] = EmptyMap

LEMMA CarriesStep ==
    ASSUME ControlInv, CarriesInv, [Next]_vars
    PROVE  CarriesInv'
<1>1. ASSUME NEW p \in Procs, Start(p) \/ Step(p) \/ Return(p),
             pc'[p] \notin {"fill", "invalidate"} \/ request'[p].op = "sleep"
                 => fetched'[p] = EmptyMap
      PROVE  CarriesInv'
  BY <1>1, OthersKept DEF CarriesInv
<1>2. /\ pc \in [Procs -> Steps] /\ request \in [Procs -> Served]
      /\ DOMAIN fetched = Procs
  BY DEF ControlInv
<1>3. ASSUME NEW p \in Procs, NEW err, NEW found, Finish(p, err, found)
      PROVE  fetched'[p] = EmptyMap
  BY <1>2, <1>3 DEF Finish
<1>4. ASSUME NEW p \in Procs, fetched'[p] = fetched[p],
             pc[p] \notin {"fill", "invalidate"}
      PROVE  fetched'[p] = EmptyMap
  BY <1>4 DEF CarriesInv
<1>5. ASSUME NEW p \in Procs, NEW ks, Obtained(p, Rows(ks)),
             request[p].op # "sleep"
      PROVE  fetched'[p] = EmptyMap \/ (pc'[p] = "fill" /\ request'[p].op # "sleep")
  BY <1>2, <1>3, <1>5 DEF Obtained, Goto
<1>6. ASSUME NEW p \in Procs, Start(p) \/ Step(p) \/ Return(p)
      PROVE  pc'[p] \notin {"fill", "invalidate"} \/ request'[p].op = "sleep"
                 => fetched'[p] = EmptyMap
  <2>1. CASE Start(p) \/ Return(p)
    BY <1>4, <2>1 DEF Start, Return
  <2>2. CASE CacheHit(p) \/ TryAgain(p) \/ GiveUp(p)
    BY <1>3, <1>4, <2>2 DEF CacheHit, TryAgain, GiveUp
  <2>3. CASE SqlFound(p) \/ SqlCutShort(p) \/ SqlNotFound(p)
    BY <1>3, <1>4, <1>5, <2>3 DEF SqlFound, SqlCutShort, SqlNotFound, Absent, At
  <2>4. CASE SqlSleep(p) \/ SqlUpdate(p) \/ SqlDelete(p) \/ FindEmpNo(p) \/ SqlInsert(p)
    BY <1>3, <1>4, <2>4 DEF SqlSleep, SqlUpdate, SqlDelete, FindEmpNo, SqlInsert, At
  <2>5. CASE ReadBack(p)
    BY <1>2, <1>3, <2>5 DEF ReadBack, Goto, At
  <2>6. CASE SqlFails(p) \/ SqlAnswerLost(p)
    BY <1>3, <2>6 DEF SqlFails, SqlAnswerLost
  <2>7. CASE Fill(p) \/ FillAbsent(p) \/ Invalidate(p)
    BY <1>3, <2>7 DEF Fill, FillAbsent, Invalidate
  <2>8. QED
    BY <1>6, <2>1, <2>2, <2>3, <2>4, <2>5, <2>6, <2>7 DEF Step
<1>7. CASE UNCHANGED procVars
  BY <1>7 DEF procVars, CarriesInv
<1>8. QED
  BY <1>1, <1>6, <1>7 DEF Next, Environment, vars

LEMMA CarriesInvariant == Spec => []CarriesInv
<1>1. Init => CarriesInv
  BY DEF Init, CarriesInv
<1>2. QED
  BY <1>1, CarriesStep, ControlInvariant, PTL DEF Spec

-----------------------------------------------------------------------------
(* What the steps of a request do to the variables of ReadThrough.         *)

\* A step of p changes what p holds and what it has yet to invalidate.
LEMMA OneHolder ==
    ASSUME ControlInv, NEW p \in Procs, Start(p) \/ Step(p) \/ Return(p)
    PROVE  /\ HeldNow' = [HeldNow EXCEPT ![p] = HeldBy(p)']
           /\ PendingNow' = [PendingNow EXCEPT ![p] = PendingOf(p)']
<1>1. \A q \in Procs \ {p} : HeldBy(q)' = HeldBy(q) /\ PendingOf(q)' = PendingOf(q)
  BY OthersKept DEF HeldBy, PendingOf
<1>2. QED
  BY <1>1 DEF HeldNow, PendingNow

\* A step that leaves both alone shows in the table, the cache and leaked only.
LEMMA NothingHeld ==
    ASSUME ControlInv, NEW p \in Procs, Start(p) \/ Step(p) \/ Return(p),
           HeldBy(p)' = HeldBy(p), PendingOf(p)' = PendingOf(p)
    PROVE  UNCHANGED <<HeldNow, PendingNow>>
BY OneHolder DEF HeldNow, PendingNow

LEMMA Stutters ==
    ASSUME UNCHANGED <<row, Cached, HeldNow, PendingNow, leaked>>
    PROVE  UNCHANGED RT!rtVars
BY DEF RT!rtVars, Cached, HeldNow, PendingNow, HeldBy, PendingOf

\* An empty map.
LEMMA EmptyIsEmpty ==
    ASSUME NEW m \in Maps(EmpNos, Employee), DOMAIN m = {}
    PROVE  m = EmptyMap
<1>1. PICK S \in SUBSET EmpNos : m \in [S -> Employee]
  BY DEF Maps
<1>2. QED
  BY <1>1 DEF EmptyMap

\* An operation that caches nobody anew evicts the employees it takes away.
LEMMA ShrinksEvicts ==
    ASSUME CacheTypeOK, Shrinks, UNCHANGED <<row, HeldNow, PendingNow, leaked>>
    PROVE  \E ks \in SUBSET EmpNos : RT!Evict(ks)
<1> PICK gone : gone = DOMAIN employees \ DOMAIN employees'
  OBVIOUS
<1>1. gone \in SUBSET EmpNos
  BY MapsElim DEF CacheTypeOK
<1>2. Cached' = RT!Except(Cached, gone)
  BY DEF Shrinks, Cached, RT!Except
<1>3. RT!Evict(gone)
  BY <1>2 DEF RT!Evict, Cached, HeldNow, PendingNow, HeldBy, PendingOf
<1>4. QED
  BY <1>1, <1>3

LEMMA CachedKept == ASSUME UNCHANGED employees PROVE UNCHANGED Cached
BY DEF Cached

\* What the reads of the cache leave of it.
LEMMA LookupKeepsEmployees ==
    ASSUME NEW r, NEW err, CacheLookup(r, err)
    PROVE  UNCHANGED employees
BY DEF CacheLookup, EmployeeRead, EmployeesRead, SleepRead, cachedMaps

\* Reads of the cache, the choice of a number, and the record of absence.
LEMMA QuietStutters ==
    ASSUME ControlInv, CarriesInv, NEW p \in Procs,
           \/ Start(p) \/ Return(p) \/ CacheHit(p) \/ TryAgain(p) \/ GiveUp(p)
           \/ SqlNotFound(p) \/ SqlSleep(p) \/ FindEmpNo(p) \/ FillAbsent(p)
    PROVE  UNCHANGED RT!rtVars
<1>1. UNCHANGED <<row, leaked>> /\ pc[p] \notin {"fill", "readBack", "invalidate"}
  BY DEF Start, Return, CacheHit, TryAgain, GiveUp, SqlNotFound, SqlSleep,
     FindEmpNo, FillAbsent, At
<1>2. UNCHANGED employees
  <2>1. CASE CacheHit(p) \/ TryAgain(p) \/ GiveUp(p)
    BY <2>1, LookupKeepsEmployees DEF CacheHit, TryAgain, GiveUp
  <2>2. CASE FillAbsent(p)
    BY <2>2 DEF FillAbsent, EmployeesNotFoundWrite, cachedMaps
  <2>3. QED
    BY <2>1, <2>2 DEF Start, Return, SqlNotFound, SqlSleep, FindEmpNo, cacheVars,
       cachedMaps
<1>3. /\ pc'[p] \notin {"readBack", "invalidate"}
      /\ pc'[p] = "fill" => fetched'[p] = EmptyMap
  <2>1. pc \in [Procs -> Steps] /\ fetched[p] = EmptyMap
    BY <1>1 DEF ControlInv, CarriesInv
  <2>2. CASE Start(p)
    BY <2>1, <2>2 DEF Start, FirstStep
  <2>3. CASE Return(p) \/ FindEmpNo(p)
    BY <2>1, <2>3 DEF Return, FindEmpNo
  <2>4. CASE CacheHit(p) \/ FillAbsent(p)
    BY <2>1, <2>4 DEF CacheHit, FillAbsent, Finish
  <2>5. CASE TryAgain(p) \/ GiveUp(p)
    BY <1>1, <2>1, <2>5 DEF TryAgain, GiveUp, Finish
  <2>6. CASE SqlNotFound(p) \/ SqlSleep(p)
    BY <2>1, <2>6 DEF SqlNotFound, SqlSleep, Absent, Finish, Goto
  <2>7. QED
    BY <2>2, <2>3, <2>4, <2>5, <2>6
<1>4. HeldBy(p)' = HeldBy(p) /\ PendingOf(p)' = PendingOf(p)
  BY <1>1, <1>3 DEF HeldBy, PendingOf
<1>5. UNCHANGED <<HeldNow, PendingNow>>
  BY <1>4, NothingHeld DEF Step
<1>6. QED
  BY <1>1, <1>2, <1>5, CachedKept, Stutters

\* A query is a Fetch of what it found, or of nothing.
LEMMA QueryFetches ==
    ASSUME ControlInv, CarriesInv, NEW p \in Procs, SqlFound(p) \/ SqlCutShort(p)
    PROVE  UNCHANGED RT!rtVars \/ \E ks \in SUBSET EmpNos : RT!Fetch(p, ks)
<1>1. /\ UNCHANGED <<row, leaked, employees>>
      /\ pc[p] = "sql" /\ request[p].op \in {"read", "search"}
  BY DEF SqlFound, SqlCutShort, At, cacheVars, cachedMaps
<1>2. pc \in [Procs -> Steps] /\ DOMAIN fetched = Procs
  BY DEF ControlInv
<1>3. ASSUME pc'[p] \notin {"fill", "readBack", "invalidate"}
      PROVE  UNCHANGED RT!rtVars
  <2>1. HeldBy(p)' = HeldBy(p) /\ PendingOf(p)' = PendingOf(p)
    BY <1>1, <1>3 DEF HeldBy, PendingOf
  <2>2. UNCHANGED <<HeldNow, PendingNow>>
    BY <2>1, NothingHeld DEF Step
  <2>3. QED
    BY <1>1, <2>2, CachedKept, Stutters
<1>4. ASSUME NEW ks, Obtained(p, Rows(ks)), CacheEnabled
      PROVE  \E es \in SUBSET EmpNos : RT!Fetch(p, es)
  <2> DEFINE es == ks \cap EmpNos
  <2>1. DOMAIN row \subseteq EmpNos
    BY MapsElim DEF ControlInv
  <2>2. Rows(ks) = RT!Only(row, es)
    BY <2>1 DEF Rows, RT!Only
  <2>3. HeldBy(p)' = Rows(ks) /\ PendingOf(p)' = PendingOf(p)
    BY <1>1, <1>2, <1>4 DEF Obtained, Goto, HeldBy, PendingOf
  <2>4. /\ HeldNow' = [HeldNow EXCEPT ![p] = RT!Only(row, es)]
        /\ PendingNow' = PendingNow
    BY <2>2, <2>3, OneHolder DEF Step, PendingNow
  <2>5. RT!Fetch(p, es)
    BY <1>1, <2>4, CachedKept
       DEF RT!Fetch, Cached, HeldNow, PendingNow, HeldBy, PendingOf
  <2>6. QED
    BY <2>5
<1>5. ASSUME NEW ks, Obtained(p, Rows(ks)), ~CacheEnabled
      PROVE  pc'[p] = "done"
  BY <1>2, <1>5 DEF Obtained, Finish
<1>6. ASSUME Absent(p)
      PROVE  pc'[p] \in {"absent", "done"}
  BY <1>2, <1>6 DEF Absent, Goto, Finish
<1>7. QED
  BY <1>3, <1>4, <1>5, <1>6 DEF SqlFound, SqlCutShort

\* The table once one row is written.
LEMMA TableChanges ==
    ASSUME ControlInv, NEW k
    PROVE  /\ \A v : /\ k \in DOMAIN row
                        => Updated(k, v) = RT!Over(row, [j \in {k} |-> v])
                     /\ k \notin DOMAIN row => Updated(k, v) = row
                     /\ Inserted(k, v) = RT!Over(row, [j \in {k} |-> v])
           /\ Without(row, {k}) = RT!Except(row, {k})
           /\ k \notin DOMAIN row => Without(row, {k}) = row
<1>1. PICK S \in SUBSET EmpNos : row \in [S -> Employee]
  BY DEF ControlInv, Maps
<1>2. ASSUME NEW v, k \in DOMAIN row
      PROVE  Updated(k, v) = RT!Over(row, [j \in {k} |-> v])
  <2>1. DOMAIN row \cup {k} = DOMAIN row
    BY <1>2
  <2>2. QED
    BY <2>1 DEF Updated, RT!Over
<1>3. ASSUME NEW v, k \notin DOMAIN row
      PROVE  Updated(k, v) = row
  BY <1>1, <1>3 DEF Updated
<1>4. ASSUME NEW v
      PROVE  Inserted(k, v) = RT!Over(row, [j \in {k} |-> v])
  BY DEF Inserted, Put, RT!Over
<1>5. k \notin DOMAIN row => Without(row, {k}) = row
  BY <1>1 DEF Without
<1>6. QED
  BY <1>2, <1>3, <1>4, <1>5 DEF Without, RT!Except

\* An update that takes effect is a Change.
LEMMA UpdateChanges ==
    ASSUME ControlInv, CarriesInv, NEW p \in Procs, SqlUpdate(p)
    PROVE  \E k \in EmpNos : RT!Change(p, k)
<1> PICK k : k = request[p].key
  OBVIOUS
<1>1. /\ UNCHANGED <<leaked, employees>>
      /\ pc[p] = "sql" /\ request[p].op = "update"
      /\ \E v \in Employee : row' = Updated(k, v)
      /\ Goto(p, "readBack")
  BY DEF SqlUpdate, At, cacheVars, cachedMaps
<1>2. k \in EmpNos
  BY <1>1, ServedKeys DEF ControlInv
<1>3. row' \in { RT!Over(row, [j \in {k} |-> v]) : v \in Employee }
                  \cup {RT!Except(row, {k}), row}
  <2>1. PICK v \in Employee : row' = Updated(k, v)
    BY <1>1
  <2>2. row' = row \/ row' = RT!Over(row, [j \in {k} |-> v])
    BY <2>1, TableChanges
  <2>3. QED
    BY <2>2
<1>4. /\ HeldBy(p)' = HeldBy(p)
      /\ PendingOf(p)' = {k}
  BY <1>1 DEF Goto, HeldBy, PendingOf, ControlInv
<1>5. /\ HeldNow' = HeldNow
      /\ PendingNow' = [PendingNow EXCEPT ![p] = {k}]
  BY <1>4, OneHolder DEF Step, HeldNow
<1>6. RT!Changed(k)
  BY <1>1, <1>3, <1>5, CachedKept
     DEF RT!Changed, Cached, HeldNow, HeldBy
<1>7. RT!Change(p, k)
  BY <1>1, <1>5, <1>6 DEF RT!Change, PendingNow, PendingOf
<1>8. QED
  BY <1>2, <1>7

\* So is a delete; without a cache there is nobody to tell.
LEMMA DeleteChanges ==
    ASSUME ControlInv, CoherenceInv, CarriesInv, NEW p \in Procs, SqlDelete(p)
    PROVE  \/ UNCHANGED RT!rtVars
           \/ \E k \in EmpNos : RT!Change(p, k) \/ RT!ChangeUnanswered(k)
<1> PICK k : k = request[p].key
  OBVIOUS
<1>1. /\ UNCHANGED <<leaked, employees>>
      /\ pc[p] = "sql" /\ request[p].op = "delete"
      /\ row' = Without(row, {k})
  BY DEF SqlDelete, At, cacheVars, cachedMaps
<1>2. k \in EmpNos
  BY <1>1, ServedKeys DEF ControlInv
<1>3. pc'[p] # "fill"
  BY DEF SqlDelete, Finish, Goto, ControlInv
<1>4. HeldBy(p)' = HeldBy(p)
  BY <1>1, <1>3 DEF HeldBy
<1>5. HeldNow' = HeldNow
  BY <1>4, OneHolder DEF Step, HeldNow
<1>6. RT!Changed(k)
  BY <1>1, <1>5, TableChanges, CachedKept
     DEF RT!Changed, Cached, HeldNow, HeldBy
<1>7. CASE k \notin DOMAIN row \/ ~CacheEnabled
  <2>1. pc'[p] = "done"
    BY <1>7 DEF SqlDelete, Finish, ControlInv
  <2>2. PendingOf(p)' = PendingOf(p)
    BY <1>1, <2>1 DEF PendingOf
  <2>3. PendingNow' = PendingNow
    BY <2>2, OneHolder DEF Step, PendingNow
  <2>4. CASE k \notin DOMAIN row
    BY <1>1, <1>5, <2>3, <2>4, TableChanges, CachedKept, Stutters
  <2>5. CASE ~CacheEnabled
    <3>1. DOMAIN Cached = {}
      BY <2>5 DEF CoherenceInv, Cached
    <3>2. leaked' = leaked \cup ({k} \cap DOMAIN Cached)
      BY <1>1, <3>1
    <3>3. RT!ChangeUnanswered(k)
      BY <1>6, <2>3, <3>2 DEF RT!ChangeUnanswered, Cached, PendingNow, PendingOf
    <3>4. QED
      BY <1>2, <3>3
  <2>6. QED
    BY <1>7, <2>4, <2>5
<1>8. CASE k \in DOMAIN row /\ CacheEnabled
  <2>1. pc'[p] = "invalidate" /\ request' = request
    BY <1>8 DEF SqlDelete, Goto, ControlInv
  <2>2. PendingOf(p)' = {k}
    BY <1>1, <2>1 DEF PendingOf
  <2>3. PendingNow' = [PendingNow EXCEPT ![p] = {k}]
    BY <2>2, OneHolder DEF Step
  <2>4. RT!Change(p, k)
    BY <1>1, <1>6, <2>3 DEF RT!Change, PendingNow, PendingOf
  <2>5. QED
    BY <1>2, <2>4
<1>9. QED
  BY <1>7, <1>8

\* An insert adds an employee, or fails and changes nothing.
LEMMA InsertAdds ==
    ASSUME ControlInv, CarriesInv, NEW p \in Procs, SqlInsert(p)
    PROVE  UNCHANGED RT!rtVars \/ \E k \in EmpNos : RT!Add(k)
<1> PICK k : k = request[p].key
  OBVIOUS
<1>1. /\ UNCHANGED <<leaked, employees>>
      /\ pc[p] = "insert" /\ request[p].op = "create" /\ k \in EmpNos
  BY DEF SqlInsert, At, cacheVars, cachedMaps, ControlInv, Placed
<1>2. pc'[p] # "fill" /\ request' = request
  BY DEF SqlInsert, Finish, Goto, ControlInv
<1>3. HeldBy(p)' = HeldBy(p) /\ PendingOf(p)' = PendingOf(p)
  BY <1>1, <1>2 DEF HeldBy, PendingOf
<1>4. UNCHANGED <<HeldNow, PendingNow>>
  BY <1>3, NothingHeld DEF Step
<1>5. CASE k \in DOMAIN row
  BY <1>1, <1>4, <1>5, CachedKept, Stutters DEF SqlInsert
<1>6. CASE k \notin DOMAIN row
  <2>1. \E v \in Employee : row' = Inserted(k, v)
    BY <1>6 DEF SqlInsert
  <2>2. RT!Changed(k)
    BY <1>1, <1>4, <2>1, TableChanges, CachedKept
       DEF RT!Changed, Cached, HeldNow, HeldBy
  <2>3. RT!Add(k)
    BY <1>1, <1>4, <1>6, <2>2 DEF RT!Add, PendingNow, PendingOf
  <2>4. QED
    BY <1>1, <2>3
<1>7. QED
  BY <1>5, <1>6

\* The read-back of an update goes on to invalidate, or finds the employee
\* removed by a delete that will invalidate it.
LEMMA ReadBackRefines ==
    ASSUME ControlInv, CoherenceInv, CarriesInv, NEW p \in Procs, ReadBack(p)
    PROVE  UNCHANGED RT!rtVars \/ RT!NotThere(p) \/ RT!Invalidate(p)
<1> PICK k : k = request[p].key
  OBVIOUS
<1>1. /\ UNCHANGED <<row, leaked, employees>>
      /\ pc[p] = "readBack" /\ request[p].op \in {"update", "create"}
  BY DEF ReadBack, At, cacheVars, cachedMaps
<1>2. request' = request /\ pc'[p] \in {"done", "invalidate"}
  BY DEF ReadBack, Finish, Goto, ControlInv
<1>3. HeldBy(p)' = HeldBy(p)
  BY <1>1, <1>2 DEF HeldBy
<1>4. HeldNow' = HeldNow
  BY <1>3, OneHolder DEF Step, HeldNow
<1>5. CASE PendingOf(p)' = PendingOf(p)
  BY <1>1, <1>3, <1>5, NothingHeld, CachedKept, Stutters DEF Step
<1>6. CASE PendingOf(p)' # PendingOf(p)
  <2>1. request[p].op = "update" /\ pc'[p] = "done"
    BY <1>1, <1>2, <1>6 DEF PendingOf
  <2>2. PendingOf(p) = {k} /\ PendingOf(p)' = {}
    BY <1>1, <2>1 DEF PendingOf
  <2>3. PendingNow' = [PendingNow EXCEPT ![p] = {}] /\ PendingNow[p] = {k}
    BY <2>2, OneHolder DEF Step, PendingNow
  <2>4. CASE k \notin DOMAIN row
    <3>1. ASSUME k \in DOMAIN employees \ leaked
          PROVE  \E q \in Procs \ {p} : k \in PendingNow[q]
      <4>1. InvalidationPending(k, {"delete"})
        BY <2>4, <3>1 DEF CoherenceInv, StaleOnlyIfPendingOrLeaked
      <4>2. PICK q \in Procs : /\ pc[q] \in {"readBack", "invalidate"}
                              /\ request[q].op = "delete" /\ request[q].key = k
        BY <4>1 DEF InvalidationPending
      <4>3. q # p /\ k \in PendingOf(q)
        BY <2>1, <4>2 DEF PendingOf
      <4>4. QED
        BY <4>3 DEF PendingNow
    <3>2. \A j \in (PendingNow[p] \cap DOMAIN Cached) \ leaked :
              \E q \in Procs \ {p} : j \in PendingNow[q]
      BY <2>3, <3>1 DEF Cached
    <3>3. PendingNow[p] \cap DOMAIN row = {}
      BY <2>3, <2>4
    <3>4. RT!NotThere(p)
      BY <1>1, <1>4, <2>3, <3>2, <3>3, CachedKept
         DEF RT!NotThere, Cached, HeldNow, HeldBy, PendingNow, PendingOf
    <3>5. QED
      BY <3>4
  <2>5. CASE k \in DOMAIN row
    <3>1. ~CacheEnabled
      BY <2>1, <2>5 DEF ReadBack, Rows, Goto, ControlInv
    <3>2. Cached' = RT!Except(Cached, PendingNow[p])
      <4>1. DOMAIN employees = {} /\ DOMAIN employees' = {}
        BY <1>1, <3>1 DEF CoherenceInv
      <4>2. QED
        BY <4>1 DEF Cached, RT!Except
    <3>3. RT!Invalidate(p)
      BY <1>1, <1>4, <2>3, <3>2
         DEF RT!Invalidate, Cached, HeldNow, HeldBy, PendingNow, PendingOf
    <3>4. QED
      BY <3>3
  <2>6. QED
    BY <2>4, <2>5
<1>7. QED
  BY <1>5, <1>6

\* A statement that fails abandons an update that was to be invalidated.
LEMMA FailureAbandons ==
    ASSUME ControlInv, CarriesInv, NEW p \in Procs, SqlFails(p)
    PROVE  UNCHANGED RT!rtVars \/ RT!Abandon(p)
<1> PICK k : k = request[p].key
  OBVIOUS
<1>1. /\ UNCHANGED <<row, employees>>
      /\ pc[p] \in {"sql", "insert", "readBack"}
      /\ pc'[p] = "done"
  BY DEF SqlFails, Finish, cacheVars, cachedMaps, ControlInv
<1>2. HeldBy(p)' = HeldBy(p)
  BY <1>1 DEF HeldBy
<1>3. HeldNow' = HeldNow
  BY <1>2, OneHolder DEF Step, HeldNow
<1>4. CASE pc[p] = "readBack" /\ request[p].op = "update"
  <2>1. PendingOf(p) = {k} /\ PendingOf(p)' = {}
    BY <1>1, <1>4 DEF PendingOf
  <2>2. PendingNow' = [PendingNow EXCEPT ![p] = {}] /\ PendingNow[p] = {k}
    BY <2>1, OneHolder DEF Step, PendingNow
  <2>3. leaked' = leaked \cup (PendingNow[p] \cap DOMAIN Cached)
    BY <1>4, <2>2 DEF SqlFails, At, Entry, Cached
  <2>4. RT!Abandon(p)
    BY <1>1, <1>3, <2>2, <2>3, CachedKept
       DEF RT!Abandon, Cached, HeldNow, HeldBy, PendingNow, PendingOf
  <2>5. QED
    BY <2>4
<1>5. CASE ~(pc[p] = "readBack" /\ request[p].op = "update")
  <2>1. leaked' = leaked
    BY <1>5 DEF SqlFails, At
  <2>2. request[p].op # "delete" \/ pc[p] # "readBack"
    BY DEF ControlInv, Placed
  <2>3. PendingOf(p)' = PendingOf(p)
    BY <1>1, <1>5, <2>2 DEF PendingOf
  <2>4. QED
    BY <1>1, <1>2, <2>1, <2>3, NothingHeld, CachedKept, Stutters DEF Step
<1>6. QED
  BY <1>4, <1>5

LEMMA LostAnswerChanges ==
    ASSUME ControlInv, CarriesInv, NEW p \in Procs, SqlAnswerLost(p)
    PROVE  \E k \in EmpNos : RT!ChangeUnanswered(k)
<1> PICK k : k = request[p].key
  OBVIOUS
<1>1. /\ UNCHANGED employees
      /\ pc[p] \in {"sql", "insert"} /\ pc'[p] = "done"
  BY DEF SqlAnswerLost, At, Finish, cacheVars, cachedMaps, ControlInv
<1>2. HeldBy(p)' = HeldBy(p) /\ PendingOf(p)' = PendingOf(p)
  BY <1>1 DEF HeldBy, PendingOf
<1>3. UNCHANGED <<HeldNow, PendingNow>>
  BY <1>2, NothingHeld DEF Step
<1>4. k \in EmpNos
  <2>1. CASE pc[p] = "sql"
    <3>1. request[p].op \in {"update", "delete"} /\ request[p] \in Served
      BY <2>1 DEF SqlAnswerLost, At, ControlInv
    <3>2. QED
      BY <3>1, ServedKeys
  <2>2. CASE pc[p] = "insert"
    BY <2>2 DEF ControlInv, Placed
  <2>3. QED
    BY <1>1, <2>1, <2>2
<1>5. row' \in { RT!Over(row, [j \in {k} |-> v]) : v \in Employee }
                  \cup {RT!Except(row, {k}), row}
  <2>1. \/ \E v \in Employee : row' = Updated(k, v)
        \/ row' = Without(row, {k})
        \/ \E v \in Employee : row' = Inserted(k, v)
    BY DEF SqlAnswerLost
  <2>2. \/ \E v \in Employee : row' = RT!Over(row, [j \in {k} |-> v])
        \/ row' = RT!Except(row, {k})
        \/ row' = row
    BY <2>1, TableChanges
  <2>3. QED
    BY <2>2
<1>6. RT!Changed(k)
  BY <1>1, <1>3, <1>5, CachedKept DEF RT!Changed, Cached, HeldNow, HeldBy
<1>7. leaked' = leaked \cup ({k} \cap DOMAIN Cached)
  BY DEF SqlAnswerLost, Entry, Cached
<1>8. RT!ChangeUnanswered(k)
  BY <1>3, <1>6, <1>7 DEF RT!ChangeUnanswered, Cached, PendingNow, PendingOf
<1>9. QED
  BY <1>4, <1>8

\* A fill is a Fill of all that is held; the fill of a sleep shows nothing.
LEMMA FillFills ==
    ASSUME ControlInv, CarriesInv, NEW p \in Procs, Fill(p)
    PROVE  UNCHANGED RT!rtVars \/ \E ks \in SUBSET EmpNos : RT!Fill(p, ks)
<1>1. UNCHANGED row /\ pc[p] = "fill" /\ pc'[p] = "done"
  BY DEF Fill, Finish, ControlInv
<1>2. PendingOf(p)' = PendingOf(p) /\ HeldBy(p)' = EmptyMap
  BY <1>1 DEF PendingOf, HeldBy
<1>3. CASE request[p].op = "sleep"
  <2>1. UNCHANGED <<leaked, employees>> /\ HeldBy(p) = EmptyMap
    BY <1>3 DEF Fill, SleepWrite, CarriesInv, HeldBy
  <2>2. QED
    BY <1>1, <1>2, <2>1, NothingHeld, CachedKept, Stutters DEF Step
<1>4. CASE request[p].op # "sleep"
  <2> PICK found : found = fetched[p]
    OBVIOUS
  <2>1. found \in Maps(EmpNos, Employee)
    BY DEF ControlInv
  <2>2. PICK S \in SUBSET EmpNos : found \in [S -> Employee]
    BY <2>1 DEF Maps
  <2>3. /\ RT!Only(found, S) = found /\ RT!Except(found, S) = EmptyMap
        /\ S \cap DOMAIN found = S
    BY <2>2 DEF RT!Only, RT!Except, EmptyMap
  <2>4. /\ HeldNow[p] = found
        /\ HeldNow' = [HeldNow EXCEPT ![p] = RT!Except(found, S)]
        /\ PendingNow' = PendingNow
    BY <1>1, <1>2, <2>3, OneHolder DEF Step, PendingNow, HeldNow, HeldBy
  <2>5. /\ employees' = Put(employees,
               [k \in DOMAIN found |-> [value |-> found[k], age |-> 0]])
        /\ leaked' = (leaked \ DOMAIN found) \cup Overtaken(found)
    BY <1>4 DEF Fill, EmployeesWrite
  <2>6. Cached' = RT!Over(Cached, found)
    BY <2>5 DEF Cached, RT!Over, Put
  <2>7. Overtaken(found) = RT!Wrong(found)
    BY DEF Overtaken, RT!Wrong
  <2>8. leaked' = (leaked \ (S \cap DOMAIN found)) \cup RT!Wrong(RT!Only(found, S))
    BY <2>2, <2>3, <2>5, <2>7
  <2>9. RT!Fill(p, S)
    BY <1>1, <2>3, <2>4, <2>6, <2>8
       DEF RT!Fill, Cached, HeldNow, HeldBy, PendingNow, PendingOf
  <2>10. QED
    BY <2>9
<1>5. QED
  BY <1>3, <1>4

LEMMA InvalidateInvalidates ==
    ASSUME ControlInv, CarriesInv, NEW p \in Procs, Invalidate(p)
    PROVE  RT!Invalidate(p)
<1> PICK k : k = request[p].key
  OBVIOUS
<1>1. /\ UNCHANGED <<row, leaked>> /\ pc[p] = "invalidate" /\ pc'[p] = "done"
      /\ employees' = Without(employees, {k})
  BY DEF Invalidate, EmployeesDelete, Finish, ControlInv
<1>2. PendingOf(p) = {k} /\ PendingOf(p)' = {} /\ HeldBy(p)' = HeldBy(p)
  BY <1>1 DEF PendingOf, HeldBy, ControlInv, Placed
<1>3. /\ PendingNow' = [PendingNow EXCEPT ![p] = {}] /\ PendingNow[p] = {k}
      /\ HeldNow' = HeldNow
  BY <1>2, OneHolder DEF Step, PendingNow, HeldNow
<1>4. Cached' = RT!Except(Cached, {k})
  BY <1>1 DEF Cached, Without, RT!Except
<1>5. QED
  BY <1>1, <1>3, <1>4
     DEF RT!Invalidate, Cached, HeldNow, HeldBy, PendingNow, PendingOf

-----------------------------------------------------------------------------
LEMMA LogicInitRefines == Init => RT!RTInit
<1> SUFFICES ASSUME Init PROVE RT!RTInit
  OBVIOUS
<1>1. Cached = RT!Nothing
  BY DEF Init, CacheInit, Cached, EmptyMap, RT!Nothing
<1>2. HeldNow = [p \in Procs |-> RT!Nothing]
  BY DEF Init, HeldNow, HeldBy, EmptyMap, RT!Nothing
<1>3. PendingNow = [p \in Procs |-> {}]
  BY DEF Init, PendingNow, PendingOf
<1>4. row \in RT!Tables
  BY DEF Init, Maps, RT!Tables
<1>5. QED
  BY <1>1, <1>2, <1>3, <1>4
     DEF Init, RT!RTInit, Cached, HeldNow, HeldBy, PendingNow, PendingOf

LEMMA LogicStepRefines ==
    ControlInv /\ CoherenceInv /\ CarriesInv /\ CacheTypeOK /\ [Next]_vars
        => [RT!RTNext]_(RT!rtVars)
<1> SUFFICES ASSUME ControlInv, CoherenceInv, CarriesInv, CacheTypeOK, [Next]_vars
             PROVE  RT!RTNext \/ UNCHANGED RT!rtVars
  OBVIOUS
<1>1. ASSUME NEW p \in Procs,
             \/ Start(p) \/ Return(p) \/ CacheHit(p) \/ TryAgain(p) \/ GiveUp(p)
             \/ SqlNotFound(p) \/ SqlSleep(p) \/ FindEmpNo(p) \/ FillAbsent(p)
      PROVE  UNCHANGED RT!rtVars
  BY <1>1, QuietStutters
<1>2. ASSUME NEW p \in Procs, SqlFound(p) \/ SqlCutShort(p) \/ Fill(p)
      PROVE  RT!RTNext \/ UNCHANGED RT!rtVars
  BY <1>2, QueryFetches, FillFills DEF RT!RTNext
<1>3. ASSUME NEW p \in Procs, SqlUpdate(p) \/ SqlDelete(p)
      PROVE  RT!RTNext \/ UNCHANGED RT!rtVars
  BY <1>3, UpdateChanges, DeleteChanges DEF RT!RTNext
<1>4. ASSUME NEW p \in Procs, SqlInsert(p) \/ SqlAnswerLost(p)
      PROVE  RT!RTNext \/ UNCHANGED RT!rtVars
  BY <1>4, InsertAdds, LostAnswerChanges DEF RT!RTNext
<1>5. ASSUME NEW p \in Procs, ReadBack(p) \/ SqlFails(p) \/ Invalidate(p)
      PROVE  RT!RTNext \/ UNCHANGED RT!rtVars
  BY <1>5, ReadBackRefines, FailureAbandons, InvalidateInvalidates DEF RT!RTNext
<1>6. CASE Environment
  <2>1. Shrinks /\ UNCHANGED <<row, leaked>> /\ UNCHANGED <<HeldNow, PendingNow>>
    BY <1>6, CacheShrinks
       DEF Environment, procVars, HeldNow, HeldBy, PendingNow, PendingOf
  <2>2. QED
    BY <2>1, ShrinksEvicts DEF RT!RTNext
<1>7. CASE UNCHANGED vars
  BY <1>7, CachedKept, Stutters DEF vars, procVars, cacheVars, cachedMaps,
     HeldNow, HeldBy, PendingNow, PendingOf
<1>8. QED
  BY <1>1, <1>2, <1>3, <1>4, <1>5, <1>6, <1>7 DEF Next, Step

\* Requests of the business logic, in any number and any interleaving with
\* pruners and the clock, do what ReadThrough promises their callers: what they
\* cache was the table's, who changes it invalidates it or leaks it, and an
\* update that finds its employee gone may leave it to the delete
\* (EmployeeRead, EmployeesSearch, EmployeeCreate, EmployeeUpdate,
\* EmployeeDelete of logic.go).
THEOREM LogicImplementsReadThrough == Spec => ReadThroughRefined
<1>1. Spec => [](ControlInv /\ CoherenceInv /\ CarriesInv /\ CacheTypeOK)
  BY ControlInvariant, CoherenceInvariant, CarriesInvariant, CacheTypes, PTL
<1>2. QED
  BY <1>1, LogicInitRefines, LogicStepRefines, PTL
     DEF Spec, ReadThroughRefined, RT!RTSpec
=============================================================================
