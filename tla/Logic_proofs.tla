---------------------------- MODULE Logic_proofs ----------------------------
(***************************************************************************)
(* Proofs about Logic, for every value of its constants: any number of     *)
(* processes, employees, searches and tries, with or without each feature. *)
(***************************************************************************)
EXTENDS Logic, MemoryCache_proofs

-----------------------------------------------------------------------------
(* Where a process can be with its request.  ControlInv is inductive by    *)
(* itself: it says nothing of the cache.                                   *)

\* The requests that are in progress at a step (EmployeeRead and its like
\* each go through some of the steps only).
Placed(step, r) ==
    /\ step \in {"cache", "fill"} => r.op \in {"read", "search", "sleep"}
    /\ step = "absent" => r.op \in {"read", "search"}
    /\ step = "insert" => r.op = "create" /\ r.key \in EmpNos
    /\ step = "readBack" => r.op \in {"update", "create"} /\ r.key \in EmpNos
    /\ step = "invalidate" => r.op \in {"update", "delete"} /\ r.key \in EmpNos
    /\ step \in {"cache", "fill", "absent", "invalidate"} => CacheEnabled

\* What a process holds when it is about to fill the cache.
Holds(step, r, found) ==
    step = "fill" /\ r.op # "sleep" =>
        /\ DOMAIN found # {}
        /\ DOMAIN found \subseteq Wanted(r)

ControlInv ==
    /\ row \in Maps(EmpNos, Employee)
    /\ pc \in [Procs -> Steps]
    /\ request \in [Procs -> Served]
    /\ fetched \in [Procs -> Maps(EmpNos, Employee)]
    /\ \A p \in Procs : Placed(pc[p], request[p])
    /\ \A p \in Procs : Holds(pc[p], request[p], fetched[p])

\* What is known of a request from its kind.
LEMMA ServedKeys ==
    ASSUME NEW r \in Served
    PROVE  /\ r = [op |-> r.op, key |-> r.key]
           /\ r.op \in {"read", "update", "delete"} => r.key \in EmpNos
           /\ r.op = "search" => r.key \in Searches
           /\ r.op = "sleep" => r.key \in SleepIds
<1>1. CASE r \in Requests
  <2>1. PICK o \in Ops : r \in [op : {o}, key : Keys(o)]
    BY <1>1 DEF Requests
  <2>2. QED
    BY <2>1 DEF Keys
<1>2. CASE r = NoRequest
  BY <1>2 DEF NoRequest
<1>3. CASE r \in [op : Ops \cap {"create"}, key : EmpNos]
  BY <1>3
<1>4. QED
  BY <1>1, <1>2, <1>3 DEF Served

\* What the store answers is about employees it was asked for.
LEMMA RowsType ==
    ASSUME row \in Maps(EmpNos, Employee), NEW ks
    PROVE  /\ Rows(ks) \in Maps(EmpNos, Employee)
           /\ DOMAIN Rows(ks) = ks \cap DOMAIN row
<1>1. /\ DOMAIN row \in SUBSET EmpNos
      /\ \A k \in DOMAIN row : row[k] \in Employee
  BY MapsElim
<1>2. Rows(ks) \in [ks \cap DOMAIN row -> Employee]
  BY <1>1 DEF Rows
<1>3. ks \cap DOMAIN row \in SUBSET EmpNos
  BY <1>1
<1>4. QED
  BY <1>2, <1>3, MapsIntro

\* Of the processes, an action changes the one it is about.
LEMMA OneProcess ==
    ASSUME ControlInv, NEW p \in Procs,
           NEW step \in Steps, NEW r \in Served,
           NEW found \in Maps(EmpNos, Employee),
           row' \in Maps(EmpNos, Employee),
           pc' = [pc EXCEPT ![p] = step],
           request' = [request EXCEPT ![p] = r],
           fetched' = [fetched EXCEPT ![p] = found],
           Placed(step, r), Holds(step, r, found)
    PROVE  ControlInv'
<1>1. /\ pc' \in [Procs -> Steps]
      /\ request' \in [Procs -> Served]
      /\ fetched' \in [Procs -> Maps(EmpNos, Employee)]
  BY DEF ControlInv
<1>2. ASSUME NEW q \in Procs
      PROVE  /\ Placed(pc'[q], request'[q])
             /\ Holds(pc'[q], request'[q], fetched'[q])
  <2>1. CASE q = p
    BY <2>1 DEF ControlInv
  <2>2. CASE q # p
    <3>1. pc'[q] = pc[q] /\ request'[q] = request[q] /\ fetched'[q] = fetched[q]
      BY <2>2 DEF ControlInv
    <3>2. QED
      BY <3>1 DEF ControlInv
  <2>3. QED
    BY <2>1, <2>2
<1>3. QED
  BY <1>1, <1>2 DEF ControlInv

\* A request that ends holds nothing.
LEMMA FinishKeepsControl ==
    ASSUME ControlInv, NEW p \in Procs, NEW err, NEW found,
           Finish(p, err, found), row' \in Maps(EmpNos, Employee)
    PROVE  ControlInv'
<1>1. pc' = [pc EXCEPT ![p] = "done"] /\ "done" \in Steps
  BY DEF Finish, Steps
<1>2. request' = [request EXCEPT ![p] = request[p]] /\ request[p] \in Served
  BY DEF Finish, ControlInv
<1>3. /\ fetched' = [fetched EXCEPT ![p] = EmptyMap]
      /\ EmptyMap \in Maps(EmpNos, Employee)
  BY EmptyMapType DEF Finish
<1>4. /\ Placed("done", request[p])
      /\ Holds("done", request[p], EmptyMap)
  BY DEF Placed, Holds
<1>5. QED
  BY <1>1, <1>2, <1>3, <1>4, OneProcess

\* A request that goes on: what it holds may be replaced, its key does not change.
LEMMA GotoKeepsControl ==
    ASSUME ControlInv, NEW p \in Procs, NEW step \in Steps,
           NEW found \in Maps(EmpNos, Employee),
           Goto(p, step), fetched' = [fetched EXCEPT ![p] = found],
           row' \in Maps(EmpNos, Employee),
           Placed(step, request[p]), Holds(step, request[p], found)
    PROVE  ControlInv'
<1>1. pc' = [pc EXCEPT ![p] = step]
  BY DEF Goto
<1>2. request' = [request EXCEPT ![p] = request[p]] /\ request[p] \in Served
  BY DEF Goto, ControlInv
<1>3. QED
  BY <1>1, <1>2, OneProcess

\* The same, keeping what it holds.
LEMMA GotoKeepsFetched ==
    ASSUME ControlInv, NEW p \in Procs, NEW step \in Steps,
           Goto(p, step), UNCHANGED fetched, row' \in Maps(EmpNos, Employee),
           Placed(step, request[p]), Holds(step, request[p], fetched[p])
    PROVE  ControlInv'
<1>1. /\ fetched' = [fetched EXCEPT ![p] = fetched[p]]
      /\ fetched[p] \in Maps(EmpNos, Employee)
  BY DEF ControlInv
<1>2. QED
  BY <1>1, GotoKeepsControl

LEMMA StartKeepsControl ==
    ASSUME ControlInv, NEW p \in Procs, Start(p) \/ Return(p)
    PROVE  ControlInv'
<1>1. /\ fetched' = [fetched EXCEPT ![p] = fetched[p]]
      /\ fetched[p] \in Maps(EmpNos, Employee)
      /\ row' \in Maps(EmpNos, Employee)
  BY DEF Start, Return, ControlInv
<1>2. CASE Start(p)
  <2>1. PICK r \in Requests : /\ request' = [request EXCEPT ![p] = r]
                             /\ pc' = [pc EXCEPT ![p] = FirstStep(r)]
    BY <1>2 DEF Start
  <2>2. /\ FirstStep(r) \in {"done", "cache", "sql"}
        /\ FirstStep(r) = "cache" => CacheEnabled /\ r.op \notin Mutations
    BY DEF FirstStep
  <2>3. r.op \in Ops
    BY DEF Requests
  <2>4. Placed(FirstStep(r), r) /\ Holds(FirstStep(r), r, fetched[p])
    BY <2>2, <2>3, OpsAssumption DEF Placed, Holds, Mutations
  <2>5. r \in Served /\ FirstStep(r) \in Steps
    BY <2>2 DEF Served, Steps
  <2>6. QED
    BY <1>1, <2>1, <2>4, <2>5, OneProcess
<1>3. CASE Return(p)
  <2>1. /\ pc' = [pc EXCEPT ![p] = "idle"]
        /\ request' = [request EXCEPT ![p] = NoRequest]
    BY <1>3 DEF Return
  <2>2. NoRequest \in Served /\ "idle" \in Steps
    BY DEF Served, Steps
  <2>3. Placed("idle", NoRequest) /\ Holds("idle", NoRequest, fetched[p])
    BY DEF Placed, Holds
  <2>4. QED
    BY <1>1, <2>1, <2>2, <2>3, OneProcess
<1>4. QED
  BY <1>2, <1>3

\* The reads of the cache and their retries.
LEMMA LookupsKeepControl ==
    ASSUME ControlInv, NEW p \in Procs, CacheHit(p) \/ TryAgain(p) \/ GiveUp(p)
    PROVE  ControlInv'
<1>1. row' \in Maps(EmpNos, Employee)
  BY DEF CacheHit, TryAgain, GiveUp, ControlInv
<1>2. CASE \E err, found : Finish(p, err, found)
  BY <1>1, <1>2, FinishKeepsControl
<1>3. CASE UNCHANGED <<pc, request, fetched>>
  BY <1>1, <1>3 DEF ControlInv
<1>4. CASE pc' = [pc EXCEPT ![p] = "sql"] /\ UNCHANGED <<request, fetched>>
  <2>1. /\ request' = [request EXCEPT ![p] = request[p]]
        /\ request[p] \in Served
        /\ fetched' = [fetched EXCEPT ![p] = fetched[p]]
        /\ fetched[p] \in Maps(EmpNos, Employee)
    BY <1>4 DEF ControlInv
  <2>2. /\ "sql" \in Steps
        /\ Placed("sql", request[p]) /\ Holds("sql", request[p], fetched[p])
    BY DEF Steps, Placed, Holds
  <2>3. QED
    BY <1>1, <1>4, <2>1, <2>2, OneProcess
<1>5. QED
  <2>1. ASSUME GiveUp(p)
        PROVE  \/ \E err, found : Finish(p, err, found)
               \/ pc' = [pc EXCEPT ![p] = "sql"] /\ UNCHANGED <<request, fetched>>
    BY <2>1 DEF GiveUp
  <2>2. QED
    BY <1>2, <1>3, <1>4, <2>1 DEF CacheHit, TryAgain

\* The table keeps its type as one row is written.
LEMMA RowWritten ==
    ASSUME row \in Maps(EmpNos, Employee), NEW k, NEW v \in Employee
    PROVE  /\ Updated(k, v) \in Maps(EmpNos, Employee)
           /\ k \in EmpNos => Inserted(k, v) \in Maps(EmpNos, Employee)
<1>1. /\ DOMAIN row \in SUBSET EmpNos
      /\ \A e \in DOMAIN row : row[e] \in Employee
  BY MapsElim
<1>2. Updated(k, v) \in [DOMAIN row -> Employee]
  BY <1>1 DEF Updated
<1>3. ASSUME k \in EmpNos
      PROVE  Inserted(k, v) \in Maps(EmpNos, Employee)
  <2>1. [e \in {k} |-> v] \in [{k} -> Employee]
    OBVIOUS
  <2>2. [e \in {k} |-> v] \in Maps(EmpNos, Employee)
    BY <1>3, <2>1, MapsIntro
  <2>3. QED
    BY <2>2, PutType DEF Inserted
<1>4. QED
  BY <1>1, <1>2, <1>3, MapsIntro

\* Statements of reads.
LEMMA QueriesKeepControl ==
    ASSUME ControlInv, NEW p \in Procs,
           \/ SqlFound(p) \/ SqlNotFound(p) \/ SqlCutShort(p) \/ SqlSleep(p)
           \/ ReadBack(p)
    PROVE  ControlInv'
<1>1. row' \in Maps(EmpNos, Employee)
  BY DEF SqlFound, SqlNotFound, SqlCutShort, SqlSleep, ReadBack, ControlInv
<1>2. CASE \E err, found : Finish(p, err, found)
  BY <1>1, <1>2, FinishKeepsControl
<1>3. ASSUME NEW ks \in SUBSET Wanted(request[p]), Obtained(p, Rows(ks)),
             request[p].op \in {"read", "search"}
      PROVE  ControlInv'
  <2> DEFINE found == Rows(ks)
  <2>1. found \in Maps(EmpNos, Employee) /\ DOMAIN found \subseteq Wanted(request[p])
    BY RowsType DEF ControlInv
  <2>2. CASE /\ CacheEnabled
             /\ fetched' = [fetched EXCEPT ![p] = found]
             /\ Goto(p, "fill")
    <3>1. Placed("fill", request[p]) /\ Holds("fill", request[p], found)
      BY <1>3, <2>1, <2>2 DEF Obtained, Placed, Holds
    <3>2. "fill" \in Steps
      BY DEF Steps
    <3>3. QED
      BY <1>1, <2>1, <2>2, <3>1, <3>2, GotoKeepsControl
  <2>3. QED
    BY <1>2, <1>3, <2>2 DEF Obtained
<1>4. ASSUME Absent(p), request[p].op \in {"read", "search"}
      PROVE  ControlInv'
  <2>1. CASE CacheEnabled /\ Goto(p, "absent") /\ UNCHANGED fetched
    <3>1. /\ "absent" \in Steps
          /\ Placed("absent", request[p]) /\ Holds("absent", request[p], fetched[p])
      BY <1>4, <2>1 DEF Steps, Placed, Holds
    <3>2. QED
      BY <1>1, <2>1, <3>1, GotoKeepsFetched
  <2>2. QED
    BY <1>2, <1>4, <2>1 DEF Absent
<1>5. ASSUME SqlSleep(p), ~\E err, found : Finish(p, err, found)
      PROVE  ControlInv'
  <2>1. /\ CacheEnabled /\ Goto(p, "fill") /\ UNCHANGED fetched
        /\ request[p].op = "sleep"
    BY <1>5 DEF SqlSleep, At
  <2>2. /\ "fill" \in Steps
        /\ Placed("fill", request[p]) /\ Holds("fill", request[p], fetched[p])
    BY <2>1 DEF Steps, Placed, Holds
  <2>3. QED
    BY <1>1, <2>1, <2>2, GotoKeepsFetched
<1>6. ASSUME ReadBack(p), ~\E err, found : Finish(p, err, found)
      PROVE  ControlInv'
  <2> DEFINE found == Rows({request[p].key})
  <2>1. found \in Maps(EmpNos, Employee)
    BY RowsType DEF ControlInv
  <2>2. /\ CacheEnabled
        /\ fetched' = [fetched EXCEPT ![p] = found]
        /\ Goto(p, "invalidate")
        /\ request[p].op = "update"
        /\ pc[p] = "readBack"
    BY <1>6 DEF ReadBack, At
  <2>3. request[p].key \in EmpNos
    BY <2>2 DEF ControlInv, Placed
  <2>4. /\ "invalidate" \in Steps
        /\ Placed("invalidate", request[p]) /\ Holds("invalidate", request[p], found)
    BY <2>2, <2>3 DEF Steps, Placed, Holds
  <2>5. QED
    BY <1>1, <2>1, <2>2, <2>4, GotoKeepsControl
<1>7. QED
  BY <1>2, <1>3, <1>4, <1>5, <1>6 DEF SqlFound, SqlNotFound, SqlCutShort, At

\* Statements of mutations, whether they succeed or fail.
LEMMA MutationsKeepControl ==
    ASSUME ControlInv, NEW p \in Procs,
           \/ SqlUpdate(p) \/ SqlDelete(p) \/ FindEmpNo(p) \/ SqlInsert(p)
           \/ SqlFails(p) \/ SqlAnswerLost(p)
    PROVE  ControlInv'
<1> DEFINE k == request[p].key
<1>1. /\ row \in Maps(EmpNos, Employee)
      /\ Without(row, {k}) \in Maps(EmpNos, Employee)
  BY WithoutType DEF ControlInv
<1>2. ASSUME SqlUpdate(p)
      PROVE  ControlInv'
  <2>1. row' \in Maps(EmpNos, Employee)
    BY <1>1, <1>2, RowWritten DEF SqlUpdate
  <2>2. k \in EmpNos
    BY <1>2, ServedKeys DEF SqlUpdate, At, ControlInv
  <2>3. /\ "readBack" \in Steps
        /\ Placed("readBack", request[p]) /\ Holds("readBack", request[p], fetched[p])
    BY <1>2, <2>2 DEF SqlUpdate, At, Steps, Placed, Holds
  <2>4. QED
    BY <1>2, <2>1, <2>3, GotoKeepsFetched DEF SqlUpdate
<1>3. ASSUME SqlDelete(p)
      PROVE  ControlInv'
  <2>1. row' \in Maps(EmpNos, Employee)
    BY <1>1, <1>3 DEF SqlDelete
  <2>2. CASE \E err, found : Finish(p, err, found)
    BY <2>1, <2>2, FinishKeepsControl
  <2>3. ASSUME ~\E err, found : Finish(p, err, found)
        PROVE  ControlInv'
    <3>1. CacheEnabled /\ Goto(p, "invalidate") /\ UNCHANGED fetched
      BY <1>3, <2>3 DEF SqlDelete
    <3>2. k \in EmpNos
      BY <1>3, ServedKeys DEF SqlDelete, At, ControlInv
    <3>3. /\ "invalidate" \in Steps
          /\ Placed("invalidate", request[p])
          /\ Holds("invalidate", request[p], fetched[p])
      BY <1>3, <3>1, <3>2 DEF SqlDelete, At, Steps, Placed, Holds
    <3>4. QED
      BY <2>1, <3>1, <3>3, GotoKeepsFetched
  <2>4. QED
    BY <2>2, <2>3
<1>4. ASSUME FindEmpNo(p)
      PROVE  ControlInv'
  <2>1. PICK e \in EmpNos : request' = [request EXCEPT ![p].key = e]
    BY <1>4 DEF FindEmpNo
  <2>2. request[p].op = "create" /\ request[p] \in Served
    BY <1>4 DEF FindEmpNo, At, ControlInv
  <2>3. request' = [request EXCEPT ![p] = [op |-> "create", key |-> e]]
    <3>1. request[p] = [op |-> "create", key |-> request[p].key]
      BY <2>2, ServedKeys
    <3>2. [request[p] EXCEPT !.key = e] = [op |-> "create", key |-> e]
      BY <3>1
    <3>3. QED
      BY <2>1, <3>2 DEF ControlInv
  <2>4. "create" \in Ops
    BY <2>2 DEF Served, Requests, NoRequest
  <2>5. [op |-> "create", key |-> e] \in Served
    BY <2>4 DEF Served
  <2>6. /\ "insert" \in Steps
        /\ Placed("insert", [op |-> "create", key |-> e])
        /\ Holds("insert", [op |-> "create", key |-> e], fetched[p])
    BY DEF Steps, Placed, Holds
  <2>7. /\ row' \in Maps(EmpNos, Employee)
        /\ pc' = [pc EXCEPT ![p] = "insert"]
        /\ fetched' = [fetched EXCEPT ![p] = fetched[p]]
        /\ fetched[p] \in Maps(EmpNos, Employee)
    BY <1>4 DEF FindEmpNo, ControlInv
  <2>8. QED
    BY <2>3, <2>5, <2>6, <2>7, OneProcess
<1>5. ASSUME SqlInsert(p)
      PROVE  ControlInv'
  <2>1. k \in EmpNos /\ request[p].op = "create"
    BY <1>5 DEF SqlInsert, At, ControlInv, Placed
  <2>2. row' \in Maps(EmpNos, Employee)
    BY <1>1, <1>5, <2>1, RowWritten DEF SqlInsert
  <2>3. CASE Finish(p, ErrStatement, EmptyMap)
    BY <2>2, <2>3, FinishKeepsControl
  <2>4. CASE Goto(p, "readBack") /\ UNCHANGED fetched
    <3>1. /\ "readBack" \in Steps
          /\ Placed("readBack", request[p])
          /\ Holds("readBack", request[p], fetched[p])
      BY <2>1 DEF Steps, Placed, Holds
    <3>2. QED
      BY <2>2, <2>4, <3>1, GotoKeepsFetched
  <2>5. QED
    BY <1>5, <2>3, <2>4 DEF SqlInsert
<1>6. ASSUME SqlFails(p)
      PROVE  ControlInv'
  BY <1>1, <1>6, FinishKeepsControl DEF SqlFails
<1>7. ASSUME SqlAnswerLost(p)
      PROVE  ControlInv'
  <2>1. row' \in Maps(EmpNos, Employee)
    <3>1. CASE At(p, "sql", {"update"})
      BY <1>1, <1>7, <3>1, RowWritten DEF SqlAnswerLost, At
    <3>2. CASE At(p, "sql", {"delete"})
      BY <1>1, <1>7, <3>2 DEF SqlAnswerLost, At
    <3>3. CASE At(p, "insert", {"create"})
      <4>1. k \in EmpNos
        BY <3>3 DEF At, ControlInv, Placed
      <4>2. QED
        BY <1>1, <1>7, <3>3, <4>1, RowWritten DEF SqlAnswerLost, At
    <3>4. QED
      BY <1>7, <3>1, <3>2, <3>3 DEF SqlAnswerLost
  <2>2. QED
    BY <1>7, <2>1, FinishKeepsControl DEF SqlAnswerLost
<1>8. QED
  BY <1>2, <1>3, <1>4, <1>5, <1>6, <1>7

LEMMA FillsKeepControl ==
    ASSUME ControlInv, NEW p \in Procs, Fill(p) \/ FillAbsent(p) \/ Invalidate(p)
    PROVE  ControlInv'
<1>1. row' \in Maps(EmpNos, Employee)
  BY DEF Fill, FillAbsent, Invalidate, ControlInv
<1>2. \E err, found : Finish(p, err, found)
  BY DEF Fill, FillAbsent, Invalidate
<1>3. QED
  BY <1>1, <1>2, FinishKeepsControl

LEMMA ControlStep ==
    ASSUME ControlInv, [Next]_vars
    PROVE  ControlInv'
<1>1. ASSUME NEW p \in Procs, Start(p) \/ Step(p) \/ Return(p)
      PROVE  ControlInv'
  BY <1>1, StartKeepsControl, LookupsKeepControl, QueriesKeepControl,
     MutationsKeepControl, FillsKeepControl DEF Step
<1>2. CASE UNCHANGED <<row, procVars>>
  BY <1>2 DEF ControlInv, procVars
<1>3. QED
  BY <1>1, <1>2 DEF Next, Environment, vars

LEMMA ControlInvariant == Spec => []ControlInv
<1>1. Init => ControlInv
  <2> SUFFICES ASSUME Init
               PROVE  ControlInv
    OBVIOUS
  <2>1. EmptyMap \in Maps(EmpNos, Employee)
    BY EmptyMapType
  <2>2. "idle" \in Steps /\ NoRequest \in Served
    BY DEF Steps, Served
  <2>3. Placed("idle", NoRequest) /\ Holds("idle", NoRequest, EmptyMap)
    BY DEF Placed, Holds
  <2>4. QED
    BY <2>1, <2>2, <2>3 DEF Init, ControlInv
<1>2. QED
  BY <1>1, ControlStep, PTL DEF Spec

-----------------------------------------------------------------------------
(* The service's steps are steps of its cache.                             *)

\* What a process is about to fill the cache with is a result.
LEMMA HeldIsResult ==
    ASSUME ControlInv, NEW p \in Procs, pc[p] = "fill", request[p].op # "sleep"
    PROVE  /\ fetched[p] \in Results
           /\ DOMAIN fetched[p] \subseteq Wanted(request[p])
           /\ CacheKey(request[p]) \in Searches
<1>1. /\ DOMAIN fetched[p] # {}
      /\ DOMAIN fetched[p] \subseteq Wanted(request[p])
      /\ fetched[p] \in Maps(EmpNos, Employee)
      /\ request[p].op \in {"read", "search"}
      /\ request[p] \in Served
  BY DEF ControlInv, Holds, Placed
<1>2. fetched[p] \in Results
  <2>1. PICK S \in SUBSET EmpNos : fetched[p] \in [S -> Employee]
    BY <1>1 DEF Maps
  <2>2. S \in (SUBSET EmpNos) \ {{}}
    BY <1>1, <2>1
  <2>3. QED
    BY <2>1, <2>2 DEF Results
<1>3. CacheKey(request[p]) \in Searches
  BY <1>1, ServedKeys, SearchesAssumption DEF CacheKey
<1>4. QED
  BY <1>1, <1>2, <1>3

LEMMA CacheStep ==
    ASSUME ControlInv, [Next]_vars
    PROVE  [CacheNext]_cacheVars
<1>1. CASE UNCHANGED cacheVars
  BY <1>1
<1>2. CASE Environment
  BY <1>2 DEF Environment, CacheNext
<1>3. ASSUME NEW p \in Procs, CacheHit(p) \/ TryAgain(p) \/ GiveUp(p)
      PROVE  CacheNext
  <2>1. PICK err \in Outcomes : CacheLookup(request[p], err)
    BY <1>3 DEF CacheHit, TryAgain, GiveUp, Outcomes
  <2>2. request[p] \in Served
    BY DEF ControlInv
  <2>3. QED
    BY <2>1, <2>2, ServedKeys DEF CacheLookup, CacheNext
<1>4. ASSUME NEW p \in Procs, Fill(p)
      PROVE  CacheNext
  <2>1. CASE request[p].op = "sleep"
    <3>1. SleepWrite(request[p].key) /\ request[p].key \in SleepIds
      BY <1>4, <2>1, ServedKeys DEF Fill, ControlInv
    <3>2. QED
      BY <3>1 DEF CacheNext
  <2>2. CASE request[p].op # "sleep"
    <3>1. EmployeesWrite(CacheKey(request[p]), fetched[p])
      BY <1>4, <2>2 DEF Fill
    <3>2. QED
      BY <1>4, <2>2, <3>1, HeldIsResult DEF Fill, CacheNext
  <2>3. QED
    BY <2>1, <2>2
<1>5. ASSUME NEW p \in Procs, FillAbsent(p)
      PROVE  CacheNext
  <2>1. request[p].op \in {"read", "search"} /\ request[p] \in Served
    BY <1>5 DEF FillAbsent, ControlInv, Placed
  <2>2. CacheKey(request[p]) \in Searches
    BY <2>1, ServedKeys, SearchesAssumption DEF CacheKey
  <2>3. (IF request[p].op = "read" THEN {request[p].key} ELSE {}) \in SUBSET EmpNos
    BY <2>1, ServedKeys
  <2>4. QED
    BY <1>5, <2>2, <2>3 DEF FillAbsent, CacheNext
<1>6. ASSUME NEW p \in Procs, Invalidate(p)
      PROVE  CacheNext
  <2>1. {request[p].key} \in SUBSET EmpNos
    BY <1>6 DEF Invalidate, ControlInv, Placed
  <2>2. QED
    BY <1>6, <2>1 DEF Invalidate, CacheNext
<1>7. QED
  BY <1>1, <1>2, <1>3, <1>4, <1>5, <1>6 DEF Next, Step, Start, Return, SqlFound,
     SqlNotFound, SqlCutShort, SqlSleep, SqlUpdate, SqlDelete, FindEmpNo, SqlInsert, ReadBack,
     SqlFails, SqlAnswerLost, vars

\* However requests interleave, fail and retry, what they do to the cache is a
\* behaviour of MemoryCache: each fill writes at least one employee, under a
\* search the cache knows, and each step is one operation of the cache.
THEOREM ServiceRefinesCache == Spec => CacheRefined
<1>1. Init => CacheInit
  BY DEF Init
<1>2. QED
  BY <1>1, CacheStep, ControlInvariant, PTL DEF Spec, CacheRefined, CacheSpec

LEMMA CacheTypes == Spec => []CacheTypeOK
BY ServiceRefinesCache, CacheTypeCorrect, PTL DEF CacheRefined

-----------------------------------------------------------------------------
(* Stale entries.  StaleOnlyIfPendingOrLeaked needs beside ControlInv only *)
(* that a disabled cache stays empty, since mutations do not invalidate it. *)

\* What StaleOnlyIfPendingOrLeaked says of one employee.
Coherent(k) ==
    /\ Stale(k) => InvalidationPending(k, {"update", "delete"})
    /\ k \notin DOMAIN row => InvalidationPending(k, {"delete"})

CoherenceInv ==
    /\ StaleOnlyIfPendingOrLeaked
    /\ ~CacheEnabled => DOMAIN employees = {}

\* A step that caches no employee anew.
Shrinks ==
    /\ DOMAIN employees' \subseteq DOMAIN employees
    /\ \A k \in DOMAIN employees' : employees'[k].value = employees[k].value

\* The row of k stays as it is.
RowKept(k) ==
    /\ k \in DOMAIN row <=> k \in DOMAIN row'
    /\ k \in DOMAIN row => row'[k] = row[k]

\* An invalidation on its way stays on its way.
PendingKept(k) ==
    /\ InvalidationPending(k, {"update", "delete"})
           => InvalidationPending(k, {"update", "delete"})'
    /\ InvalidationPending(k, {"delete"}) => InvalidationPending(k, {"delete"})'

\* It is enough to look at the employees whose row or invalidation a step
\* touches.
LEMMA CoherenceKept ==
    ASSUME CoherenceInv, Shrinks, leaked \subseteq leaked',
           \A k \in DOMAIN employees' \ leaked' :
               (RowKept(k) /\ PendingKept(k)) \/ Coherent(k)'
    PROVE  CoherenceInv'
<1>1. ASSUME NEW k \in DOMAIN employees' \ leaked'
      PROVE  Coherent(k)'
  <2>1. k \in DOMAIN employees \ leaked'
    BY DEF Shrinks
  <2>2. CASE RowKept(k) /\ PendingKept(k)
    <3>1. Coherent(k)
      BY <2>1 DEF CoherenceInv, StaleOnlyIfPendingOrLeaked, Coherent
    <3>2. employees'[k].value = employees[k].value
      BY DEF Shrinks
    <3>3. Stale(k)' => Stale(k)
      BY <2>1, <2>2, <3>2 DEF Stale, RowKept
    <3>4. QED
      BY <2>2, <3>1, <3>3 DEF Coherent, RowKept, PendingKept
  <2>3. QED
    BY <2>1, <2>2
<1>2. QED
  BY <1>1 DEF CoherenceInv, StaleOnlyIfPendingOrLeaked, Coherent, Shrinks

\* A step of a process that is not about to invalidate k leaves every
\* invalidation of k on its way.
LEMMA OthersPending ==
    ASSUME ControlInv, NEW p \in Procs, NEW k,
           \A q \in Procs \ {p} : pc'[q] = pc[q] /\ request'[q] = request[q],
           pc[p] \notin {"readBack", "invalidate"} \/ request[p].key # k
    PROVE  PendingKept(k)
BY DEF PendingKept, InvalidationPending

\* What the steps of a process leave of the others.
LEMMA OthersKept ==
    ASSUME ControlInv, NEW p \in Procs, Start(p) \/ Step(p) \/ Return(p)
    PROVE  \A q \in Procs \ {p} : /\ pc'[q] = pc[q]
                                  /\ request'[q] = request[q]
                                  /\ fetched'[q] = fetched[q]
<1>1. /\ pc \in [Procs -> Steps] /\ request \in [Procs -> Served]
      /\ DOMAIN fetched = Procs
  BY DEF ControlInv
<1>2. CASE Start(p) \/ Return(p)
  BY <1>1, <1>2 DEF Start, Return
<1>3. CASE CacheHit(p) \/ TryAgain(p)
  BY <1>1, <1>3 DEF CacheHit, TryAgain, Finish
<1>4. CASE GiveUp(p)
  BY <1>1, <1>4 DEF GiveUp, Finish
<1>5. CASE SqlFound(p) \/ SqlNotFound(p) \/ SqlCutShort(p) \/ SqlSleep(p)
  BY <1>1, <1>5 DEF SqlFound, SqlNotFound, SqlCutShort, SqlSleep, Obtained, Absent,
     Finish, Goto
<1>6. CASE SqlUpdate(p) \/ SqlDelete(p)
  BY <1>1, <1>6 DEF SqlUpdate, SqlDelete, Finish, Goto
<1>7. CASE FindEmpNo(p) \/ SqlInsert(p)
  BY <1>1, <1>7 DEF FindEmpNo, SqlInsert, Finish, Goto
<1>8. CASE ReadBack(p) \/ SqlFails(p) \/ SqlAnswerLost(p)
  BY <1>1, <1>8 DEF ReadBack, SqlFails, SqlAnswerLost, Finish, Goto
<1>9. CASE Fill(p) \/ FillAbsent(p) \/ Invalidate(p)
  BY <1>1, <1>9 DEF Fill, FillAbsent, Invalidate, Finish
<1>10. QED
  BY <1>2, <1>3, <1>4, <1>5, <1>6, <1>7, <1>8, <1>9 DEF Step

\* Every operation of the cache but EmployeesWrite.
LEMMA CacheShrinks ==
    ASSUME CacheTypeOK,
           \/ \E k, err : EmployeeRead(k, err)
           \/ \E search, err : EmployeesRead(search, err)
           \/ \E id, err : SleepRead(id, err)
           \/ \E ks : EmployeesDelete(ks)
           \/ \E search, ks : EmployeesNotFoundWrite(search, ks)
           \/ \E id : SleepWrite(id)
           \/ Clear
           \/ Background
    PROVE  Shrinks
<1>1. CASE UNCHANGED employees
  BY <1>1 DEF Shrinks
<1>2. ASSUME NEW ks, employees' = Without(employees, ks)
      PROVE  Shrinks
  BY <1>2 DEF Shrinks, Without
<1>3. CASE Clear
  BY <1>3 DEF Clear, Shrinks, EmptyMap
<1>4. CASE Elapse
  <2>1. \A k \in DOMAIN employees : employees[k] \in EmployeeEntries
    BY MapsElim DEF CacheTypeOK
  <2>2. QED
    BY <1>4, <2>1 DEF Elapse, Older, Shrinks, EmployeeEntries
<1>5. CASE PruneSearches \/ PruneEmployees
  BY <1>2, <1>5 DEF PruneSearches, PruneEmployees
<1>6. QED
  BY <1>1, <1>2, <1>3, <1>4, <1>5 DEF EmployeeRead, EmployeesRead, SleepRead,
     EmployeesDelete, EmployeesNotFoundWrite, SleepWrite, Background, PruneSleeps,
     PruneEmployeeRead, PruneEmployeeSearch, PruneSleepRead,
     PruneEmployeeNotFound, PruneEmployeeSearchNotFound, cachedMaps

\* Steps that neither write the table nor invalidate, nor cache an employee.
LEMMA QuietSteps ==
    ASSUME ControlInv, CoherenceInv, CacheTypeOK, NEW p \in Procs,
           \/ Start(p) \/ Return(p) \/ CacheHit(p) \/ TryAgain(p) \/ GiveUp(p)
           \/ SqlFound(p) \/ SqlNotFound(p) \/ SqlCutShort(p) \/ SqlSleep(p)
           \/ FindEmpNo(p) \/ FillAbsent(p)
    PROVE  CoherenceInv'
<1>1. UNCHANGED <<row, leaked>> /\ pc[p] \notin {"readBack", "invalidate"}
  BY DEF Start, Return, CacheHit, TryAgain, GiveUp, SqlFound, SqlNotFound,
     SqlCutShort, SqlSleep, FindEmpNo, FillAbsent, At
<1>2. Shrinks
  <2>1. CASE UNCHANGED cacheVars
    BY <2>1 DEF Shrinks, cacheVars, cachedMaps
  <2>2. CASE CacheHit(p) \/ TryAgain(p) \/ GiveUp(p)
    <3>1. \E err : CacheLookup(request[p], err)
      BY <2>2 DEF CacheHit, TryAgain, GiveUp
    <3>2. QED
      BY <3>1, CacheShrinks DEF CacheLookup
  <2>3. CASE FillAbsent(p)
    BY <2>3, CacheShrinks DEF FillAbsent
  <2>4. QED
    BY <2>1, <2>2, <2>3 DEF Start, Return, SqlFound, SqlNotFound, SqlCutShort,
       SqlSleep, FindEmpNo
<1>3. \A k : RowKept(k) /\ PendingKept(k)
  BY <1>1, OthersKept, OthersPending DEF RowKept, Step
<1>4. QED
  BY <1>1, <1>2, <1>3, CoherenceKept

\* The mutations and what follows them: the employee of the request is the only
\* one touched, and afterwards it is invalidated, leaked or about to be.
LEMMA MutationSteps ==
    ASSUME ControlInv, CoherenceInv, CacheTypeOK, NEW p \in Procs,
           \/ SqlUpdate(p) \/ SqlDelete(p) \/ SqlInsert(p) \/ ReadBack(p)
           \/ SqlFails(p) \/ SqlAnswerLost(p) \/ Invalidate(p)
    PROVE  CoherenceInv'
<1> PICK e : e = request[p].key
  OBVIOUS
<1>1. \A q \in Procs \ {p} : pc'[q] = pc[q] /\ request'[q] = request[q]
  BY OthersKept DEF Step
<1>2. Shrinks /\ leaked \subseteq leaked'
  <2>1. CASE Invalidate(p)
    BY <2>1, CacheShrinks DEF Invalidate
  <2>2. CASE UNCHANGED cacheVars
    BY <2>2 DEF Shrinks, cacheVars, cachedMaps, SqlUpdate, SqlDelete, SqlInsert,
       ReadBack, SqlFails, SqlAnswerLost, Invalidate
  <2>3. QED
    BY <2>1, <2>2 DEF SqlUpdate, SqlDelete, SqlInsert, ReadBack, SqlFails,
       SqlAnswerLost
<1>3. ASSUME NEW k, k # e
      PROVE  RowKept(k) /\ PendingKept(k)
  <2>1. RowKept(k)
    BY <1>3 DEF RowKept, SqlUpdate, SqlDelete, SqlInsert, ReadBack, SqlFails,
       SqlAnswerLost, Invalidate, Updated, Inserted, Put, Without
  <2>2. QED
    BY <1>1, <1>3, <2>1, OthersPending
<1>4. ASSUME e \in DOMAIN employees' \ leaked'
      PROVE  (RowKept(e) /\ PendingKept(e)) \/ Coherent(e)'
  <2>1. /\ CacheEnabled
        /\ Stale(e) => InvalidationPending(e, {"update", "delete"})
        /\ e \notin DOMAIN row => InvalidationPending(e, {"delete"})
    BY <1>2, <1>4, LogicSwitchAssumption
       DEF CoherenceInv, StaleOnlyIfPendingOrLeaked, Shrinks
  <2>2. CASE pc[p] \notin {"readBack", "invalidate"}
    <3>1. PendingKept(e)
      BY <1>1, <2>2, OthersPending
    <3>2. CASE SqlUpdate(p)
      <4>1. /\ DOMAIN row' = DOMAIN row
            /\ pc'[p] = "readBack" /\ request'[p] = request[p]
            /\ request[p].op = "update"
        BY <3>2 DEF SqlUpdate, Updated, At, Goto, ControlInv
      <4>2. InvalidationPending(e, {"update", "delete"})'
        BY <4>1 DEF InvalidationPending
      <4>3. QED
        BY <2>1, <3>1, <4>1, <4>2 DEF Coherent, PendingKept
    <3>3. CASE SqlDelete(p)
      <4>1. CASE e \notin DOMAIN row
        BY <3>1, <3>3, <4>1 DEF SqlDelete, RowKept, Without
      <4>2. CASE e \in DOMAIN row
        <5>1. /\ pc'[p] = "invalidate" /\ request'[p] = request[p]
              /\ request[p].op = "delete"
          BY <2>1, <3>3, <4>2 DEF SqlDelete, At, Goto, ControlInv
        <5>2. /\ InvalidationPending(e, {"update", "delete"})'
              /\ InvalidationPending(e, {"delete"})'
          BY <5>1 DEF InvalidationPending
        <5>3. QED
          BY <5>2 DEF Coherent
      <4>3. QED
        BY <4>1, <4>2
    <3>4. CASE SqlInsert(p)
      <4>1. CASE e \in DOMAIN row
        BY <3>1, <3>4, <4>1 DEF SqlInsert, RowKept
      <4>2. CASE e \notin DOMAIN row
        <5>1. InvalidationPending(e, {"delete"})'
          BY <2>1, <3>1, <4>2 DEF PendingKept
        <5>2. InvalidationPending(e, {"update", "delete"})'
          BY <5>1 DEF InvalidationPending
        <5>3. QED
          BY <5>1, <5>2 DEF Coherent
      <4>3. QED
        BY <4>1, <4>2
    <3>5. CASE SqlFails(p)
      BY <3>1, <3>5 DEF SqlFails, RowKept
    <3>6. CASE SqlAnswerLost(p)
      BY <1>2, <1>4, <3>6 DEF SqlAnswerLost, Entry, Shrinks
    <3>7. QED
      BY <2>2, <3>2, <3>3, <3>4, <3>5, <3>6 DEF ReadBack, Invalidate, At
  <2>3. CASE pc[p] = "readBack"
    <3>1. RowKept(e)
      BY <2>3 DEF SqlUpdate, SqlDelete, SqlInsert, ReadBack, SqlFails,
         SqlAnswerLost, Invalidate, RowKept, At
    <3>2. CASE request[p].op # "update"
      <4>1. request[p].op = "create"
        BY <2>3, <3>2 DEF ControlInv, Placed
      <4>2. PendingKept(e)
        BY <1>1, <4>1 DEF PendingKept, InvalidationPending
      <4>3. QED
        BY <3>1, <4>2
    <3>3. CASE request[p].op = "update"
      <4>1. InvalidationPending(e, {"delete"}) => InvalidationPending(e, {"delete"})'
        BY <1>1, <3>3 DEF InvalidationPending
      <4>2. CASE SqlFails(p)
        BY <1>2, <1>4, <2>3, <3>3, <4>2 DEF SqlFails, At, Entry, Shrinks
      <4>3. CASE ReadBack(p) /\ e \in DOMAIN row
        <5>1. pc'[p] = "invalidate" /\ request'[p] = request[p]
          BY <2>1, <3>3, <4>3 DEF ReadBack, At, Goto, Rows, ControlInv
        <5>2. InvalidationPending(e, {"update", "delete"})'
          BY <3>3, <5>1 DEF InvalidationPending
        <5>3. QED
          BY <3>1, <4>1, <5>2 DEF PendingKept
      <4>4. CASE ReadBack(p) /\ e \notin DOMAIN row
        <5>1. InvalidationPending(e, {"delete"})'
          BY <2>1, <4>1, <4>4
        <5>2. InvalidationPending(e, {"update", "delete"})'
          BY <5>1 DEF InvalidationPending
        <5>3. QED
          BY <5>1, <5>2 DEF Coherent
      <4>5. QED
        BY <2>3, <4>2, <4>3, <4>4 DEF SqlUpdate, SqlDelete, SqlInsert,
           SqlAnswerLost, Invalidate, At
    <3>4. QED
      BY <3>2, <3>3
  <2>4. CASE pc[p] = "invalidate"
    <3>1. Invalidate(p)
      BY <2>4 DEF SqlUpdate, SqlDelete, SqlInsert, ReadBack, SqlFails,
         SqlAnswerLost, At
    <3>2. QED
      BY <1>4, <3>1 DEF Invalidate, EmployeesDelete, Without
  <2>5. QED
    BY <2>2, <2>3, <2>4
<1>5. QED
  BY <1>2, <1>3, <1>4, CoherenceKept

\* A fill leaves an employee coherent, or leaked because a mutation overtook it.
LEMMA FillStep ==
    ASSUME ControlInv, CoherenceInv, CacheTypeOK, NEW p \in Procs, Fill(p)
    PROVE  CoherenceInv'
<1>1. /\ CacheEnabled /\ UNCHANGED row
      /\ pc[p] \notin {"readBack", "invalidate"}
  BY DEF Fill, ControlInv, Placed
<1>2. \A k : RowKept(k) /\ PendingKept(k)
  BY <1>1, OthersKept, OthersPending DEF RowKept, Step
<1>3. CASE request[p].op = "sleep"
  <2>1. Shrinks /\ leaked' = leaked
    BY <1>3, CacheShrinks DEF Fill
  <2>2. QED
    BY <1>2, <2>1, CoherenceKept
<1>4. CASE request[p].op # "sleep"
  <2> DEFINE found == fetched[p]
  <2>1. /\ employees' = Put(employees,
               [k \in DOMAIN found |-> [value |-> found[k], age |-> 0]])
        /\ leaked' = (leaked \ DOMAIN found) \cup Overtaken(found)
    BY <1>4 DEF Fill, EmployeesWrite
  <2>2. ASSUME NEW k \in DOMAIN employees' \ leaked'
        PROVE  Coherent(k)'
    <3>1. CASE k \in DOMAIN found
      <4>1. k \in DOMAIN row /\ row[k] = found[k]
        BY <2>1, <2>2, <3>1 DEF Overtaken
      <4>2. employees'[k].value = found[k]
        BY <2>1, <3>1 DEF Put
      <4>3. QED
        BY <1>1, <4>1, <4>2 DEF Coherent, Stale
    <3>2. CASE k \notin DOMAIN found
      <4>1. /\ k \in DOMAIN employees \ leaked
            /\ employees'[k] = employees[k]
        BY <2>1, <2>2, <3>2 DEF Put
      <4>2. Coherent(k)
        BY <4>1 DEF CoherenceInv, StaleOnlyIfPendingOrLeaked, Coherent
      <4>3. QED
        BY <1>1, <1>2, <4>1, <4>2 DEF Coherent, Stale, PendingKept
    <3>3. QED
      BY <3>1, <3>2
  <2>3. QED
    BY <1>1, <2>2 DEF CoherenceInv, StaleOnlyIfPendingOrLeaked, Coherent
<1>5. QED
  BY <1>3, <1>4

LEMMA CoherenceStep ==
    ASSUME ControlInv, CoherenceInv, CacheTypeOK, [Next]_vars
    PROVE  CoherenceInv'
<1>1. ASSUME NEW p \in Procs, Start(p) \/ Step(p) \/ Return(p)
      PROVE  CoherenceInv'
  BY <1>1, QuietSteps, MutationSteps, FillStep DEF Step
<1>2. CASE Environment
  <2>1. Shrinks
    BY <1>2, CacheShrinks DEF Environment
  <2>2. UNCHANGED <<row, pc, request, leaked>>
    BY <1>2 DEF Environment, procVars
  <2>3. \A k : RowKept(k) /\ PendingKept(k)
    BY <2>2 DEF RowKept, PendingKept, InvalidationPending
  <2>4. QED
    BY <2>1, <2>2, <2>3, CoherenceKept
<1>3. CASE UNCHANGED vars
  BY <1>3 DEF vars, procVars, cacheVars, cachedMaps, CoherenceInv,
     StaleOnlyIfPendingOrLeaked, Stale, InvalidationPending
<1>4. QED
  BY <1>1, <1>2, <1>3 DEF Next

LEMMA CoherenceInvariant == Spec => []CoherenceInv
<1>1. Init => CoherenceInv
  BY DEF Init, CacheInit, CoherenceInv, StaleOnlyIfPendingOrLeaked, EmptyMap
<1>2. QED
  BY <1>1, CoherenceStep, ControlInvariant, CacheTypes, PTL DEF Spec

\* The cache disagrees with the store about an employee only while an update or
\* a delete that changed it is on its way to invalidate it, or once one of the
\* two leaks has happened: for any number of processes, any interleaving of
\* their steps with pruners and the clock, and any failure of a statement.
THEOREM StaleOnlyIfPending == Spec => []StaleOnlyIfPendingOrLeaked
<1>1. CoherenceInv => StaleOnlyIfPendingOrLeaked
  BY DEF CoherenceInv
<1>2. QED
  BY <1>1, CoherenceInvariant, PTL

-----------------------------------------------------------------------------
(* Searches                                                                *)

\* What a request fetches is what the search it is recorded under asks for.
LEMMA WantedMatch ==
    ASSUME NEW r \in Served, r.op \in {"read", "search"}
    PROVE  Wanted(r) \subseteq Matching(CacheKey(r))
<1>1. CASE r.op = "read"
  <2>1. r.key \in EmpNos
    BY <1>1, ServedKeys
  <2>2. QED
    BY <1>1, <2>1 DEF Wanted, CacheKey, Matching
<1>2. CASE r.op = "search"
  BY <1>2 DEF Wanted, CacheKey
<1>3. QED
  BY <1>1, <1>2

\* What an operation that records no search leaves of those recorded.
LEMMA SearchesStep ==
    ASSUME ControlInv, CacheTypeOK, SearchesListWhatTheyMatch, [Next]_vars
    PROVE  SearchesListWhatTheyMatch'
<1>1. ASSUME NEW p \in Procs, Fill(p), request[p].op # "sleep"
      PROVE  SearchesListWhatTheyMatch'
  <2> DEFINE key == CacheKey(request[p])
  <2>1. employeeSearches' = Put(employeeSearches,
            [s \in {key} |-> [empNos |-> DOMAIN fetched[p], age |-> 0]])
    BY <1>1 DEF Fill, EmployeesWrite
  <2>2. DOMAIN fetched[p] \subseteq Matching(key)
    <3>1. request[p] \in Served /\ request[p].op \in {"read", "search"}
      BY <1>1 DEF Fill, ControlInv, Placed
    <3>2. QED
      BY <1>1, <3>1, HeldIsResult, WantedMatch DEF Fill
  <2>3. \A s \in DOMAIN employeeSearches' :
            employeeSearches'[s].empNos =
                IF s = key THEN DOMAIN fetched[p] ELSE employeeSearches[s].empNos
    BY <2>1 DEF Put
  <2>4. \A s \in DOMAIN employeeSearches' :
            s = key \/ s \in DOMAIN employeeSearches
    BY <2>1 DEF Put
  <2>5. QED
    BY <2>2, <2>3, <2>4 DEF SearchesListWhatTheyMatch
<1>2. CASE /\ DOMAIN employeeSearches' \subseteq DOMAIN employeeSearches
           /\ \A s \in DOMAIN employeeSearches' :
                 employeeSearches'[s].empNos = employeeSearches[s].empNos
  BY <1>2 DEF SearchesListWhatTheyMatch
<1>3. CASE UNCHANGED employeeSearches
  BY <1>2, <1>3
<1>4. CASE Environment
  <2>1. CASE Clear
    BY <1>2, <2>1 DEF Clear, EmptyMap
  <2>2. CASE PruneSearches
    BY <1>2, <2>2 DEF PruneSearches, Without
  <2>3. CASE Elapse
    <3>1. \A s \in DOMAIN employeeSearches : employeeSearches[s] \in SearchEntries
      BY MapsElim DEF CacheTypeOK
    <3>2. QED
      BY <1>2, <2>3, <3>1 DEF Elapse, Older, SearchEntries
  <2>4. QED
    BY <1>3, <1>4, <2>1, <2>2, <2>3 DEF Environment, Background, PruneSleeps,
       PruneEmployees, PruneEmployeeRead, PruneEmployeeSearch, PruneSleepRead,
       PruneEmployeeNotFound, PruneEmployeeSearchNotFound, cachedMaps
<1>5. ASSUME NEW p \in Procs, Start(p) \/ Step(p) \/ Return(p),
             ~(Fill(p) /\ request[p].op # "sleep")
      PROVE  UNCHANGED employeeSearches
  <2>1. CASE UNCHANGED cacheVars
    BY <2>1 DEF cacheVars, cachedMaps
  <2>2. CASE CacheHit(p) \/ TryAgain(p) \/ GiveUp(p)
    <3>1. \E err : CacheLookup(request[p], err)
      BY <2>2 DEF CacheHit, TryAgain, GiveUp
    <3>2. QED
      BY <3>1 DEF CacheLookup, EmployeeRead, EmployeesRead, SleepRead, cachedMaps
  <2>3. CASE Fill(p)
    BY <1>5, <2>3 DEF Fill, SleepWrite
  <2>4. CASE FillAbsent(p) \/ Invalidate(p)
    BY <2>4 DEF FillAbsent, EmployeesNotFoundWrite, Invalidate, EmployeesDelete,
       cachedMaps
  <2>5. QED
    BY <1>5, <2>1, <2>2, <2>3, <2>4 DEF Step, Start, Return, SqlFound,
       SqlNotFound, SqlCutShort, SqlSleep, SqlUpdate, SqlDelete, FindEmpNo, SqlInsert,
       ReadBack, SqlFails, SqlAnswerLost
<1>6. CASE UNCHANGED vars
  BY <1>3, <1>6 DEF vars, cacheVars, cachedMaps
<1>7. QED
  BY <1>1, <1>3, <1>4, <1>5, <1>6 DEF Next

\* Nobody is recorded under a search that does not ask for them, although reads
\* of one employee are recorded under a key of searches too.
THEOREM SearchesListMatches == Spec => []SearchesListWhatTheyMatch
<1>1. Init => SearchesListWhatTheyMatch
  BY DEF Init, CacheInit, SearchesListWhatTheyMatch, EmptyMap
<1>2. QED
  BY <1>1, SearchesStep, ControlInvariant, CacheTypes, PTL DEF Spec

-----------------------------------------------------------------------------
(* Answers                                                                 *)

\* The errors a request is answered with: none is an error of the cache.
Answers == {NoError, ErrNotFound, ErrStatement, ErrMutationDisabled}

AnswerInv ==
    /\ tries \in [Procs -> 0..(MaxRetries - 1)]
    /\ reply \in [Procs -> [err : Answers, found : Maps(EmpNos, Employee)]]
    /\ leaked \in SUBSET EmpNos

LEMMA ErrorTypes ==
    /\ \A message, type : NewError(message, type).errorType = type
    /\ \A err \in CacheErrorSet :
          err.errorType \in {ErrorTypeNotCached, ErrorTypeNotCachedRetry}
    /\ \A err \in Answers :
          err.errorType \in {Foreign, ErrorTypeNotFound, ErrorTypeUnknown}
<1>1. \A message, type : NewError(message, type).errorType = type
  BY DEF NewError
<1>2. ASSUME NEW err \in CacheErrorSet
      PROVE  \E message : \/ err = NewNotCachedError(message)
                         \/ err = NewNotCachedRetryError(message)
  BY DEF CacheErrorSet, ErrEmployeeNotCached, ErrEmployeeNotFoundCached,
     ErrEmployeeReadSet, ErrEmployeeReadAlreadySet, ErrEmployeeSearchNotCached,
     ErrEmployeesSearchSet, ErrEmployeesSearchAlreadySet, ErrSleepNotCached,
     ErrSleepReadSet, ErrSleepReadAlreadySet
<1>3. ASSUME NEW err \in Answers
      PROVE  \E message, type : /\ err = NewError(message, type)
                               /\ type \in {Foreign, ErrorTypeNotFound, ErrorTypeUnknown}
  BY DEF Answers, NoError, ErrNotFound, ErrStatement, ErrMutationDisabled
<1>4. QED
  BY <1>1, <1>2, <1>3 DEF NewNotCachedError, NewNotCachedRetryError

\* Every error of the cache is of one of the two types that are retried, and
\* the wait that replaces it is of no type of the cache (the two switches of
\* EmployeeRead and EmployeesSearch, after cache.Is and backoff.RetryAfter).
LEMMA CacheErrorsAreRetried ==
    ASSUME NEW err \in CacheErrorSet
    PROVE  /\ Retried(err) = ErrRetryAfter
           /\ ~Is(Retried(err), ErrNotCached)
           /\ ~Is(Retried(err), ErrNotCachedRetry)
           /\ err # NoError
<1>1. err.errorType \in {ErrorTypeNotCached, ErrorTypeNotCachedRetry}
  BY ErrorTypes
<1>2. Retried(err) = ErrRetryAfter
  BY <1>1 DEF Retried, Is, ErrEmployeeNotCached, ErrEmployeeReadAlreadySet,
     NewNotCachedError, NewNotCachedRetryError, NewError, Foreign,
     ErrorTypeNotCached, ErrorTypeNotCachedRetry
<1>3. ErrRetryAfter.errorType = Foreign /\ NoError.errorType = Foreign
  BY DEF ErrRetryAfter, NoError, NewError
<1>4. QED
  BY <1>1, <1>2, <1>3 DEF Is, Foreign, ErrorTypeNotCached, ErrorTypeNotCachedRetry

LEMMA AnswersAreNotCacheErrors == Answers \cap CacheErrorSet = {}
BY ErrorTypes DEF Foreign, ErrorTypeNotFound, ErrorTypeUnknown,
   ErrorTypeNotCached, ErrorTypeNotCachedRetry

LEMMA FinishKeepsAnswers ==
    ASSUME AnswerInv, NEW p \in Procs, NEW err \in Answers,
           NEW found \in Maps(EmpNos, Employee),
           Finish(p, err, found), leaked' \in SUBSET EmpNos
    PROVE  AnswerInv'
<1>1. tries' \in [Procs -> 0..(MaxRetries - 1)]
  BY MaxRetriesAssumption DEF AnswerInv, Finish
<1>2. reply' \in [Procs -> [err : Answers, found : Maps(EmpNos, Employee)]]
  BY DEF AnswerInv, Finish
<1>3. QED
  BY <1>1, <1>2 DEF AnswerInv

\* What a hit answers with was cached.
LEMMA HeldType ==
    ASSUME ControlInv, CacheTypeOK, NEW p \in Procs, CacheLookup(request[p], NoError)
    PROVE  Held(request[p]) \in Maps(EmpNos, Employee)
<1> DEFINE r == request[p]
<1>1. ASSUME NEW k \in DOMAIN employees
      PROVE  k \in EmpNos /\ employees[k].value \in Employee
  <2>1. k \in EmpNos /\ employees[k] \in EmployeeEntries
    BY MapsElim DEF CacheTypeOK
  <2>2. QED
    BY <2>1 DEF EmployeeEntries
<1>2. r.op = "read" => r.key \in DOMAIN employees
  <2>1. SUFFICES ASSUME r.op = "read"
                 PROVE  r.key \in DOMAIN employees
    OBVIOUS
  <2>2. EmployeeRead(r.key, NoError)
    BY <2>1 DEF CacheLookup
  <2>3. /\ NoError # ErrEmployeeNotFoundCached /\ NoError # ErrEmployeeReadSet
        /\ NoError # ErrEmployeeReadAlreadySet /\ NoError # ErrEmployeeNotCached
    BY CacheErrorsAreRetried DEF CacheErrorSet
  <2>4. QED
    BY <2>2, <2>3 DEF EmployeeRead, EmployeeHit, EmployeeKnownAbsent,
       EmployeeClaim, EmployeeMiss
<1>3. PICK ks : /\ Held(r) = [k \in ks |-> employees[k].value]
               /\ ks \subseteq DOMAIN employees
  <2>1. r.op \in {"read", "search", "sleep"}
    BY DEF CacheLookup
  <2>2. CASE r.op = "read"
    BY <1>2, <2>2 DEF Held
  <2>3. CASE r.op = "search"
    BY <2>3 DEF Held, Members
  <2>4. CASE r.op = "sleep"
    BY <2>4 DEF Held
  <2>5. QED
    BY <2>1, <2>2, <2>3, <2>4
<1>4. Held(r) \in [ks -> Employee] /\ ks \in SUBSET EmpNos
  BY <1>1, <1>3
<1>5. QED
  BY <1>4, MapsIntro

LEMMA AnswersStep ==
    ASSUME ControlInv, CacheTypeOK, AnswerInv, [Next]_vars
    PROVE  AnswerInv'
<1> /\ NoError \in Answers /\ ErrNotFound \in Answers
    /\ ErrStatement \in Answers /\ ErrMutationDisabled \in Answers
    /\ EmptyMap \in Maps(EmpNos, Employee)
  BY EmptyMapType DEF Answers
<1>1. CASE UNCHANGED <<tries, reply, leaked>>
  BY <1>1 DEF AnswerInv
<1>2. \A ks : Rows(ks) \in Maps(EmpNos, Employee)
  BY RowsType DEF ControlInv
<1>3. ASSUME NEW p \in Procs, Start(p) \/ Return(p)
      PROVE  AnswerInv'
  <2>1. tries' = tries /\ leaked' = leaked
    BY <1>3 DEF Start, Return
  <2>2. CASE Start(p)
    <3>1. PICK r : reply' = [reply EXCEPT ![p].err = IF Refused(r)
                                                     THEN ErrMutationDisabled ELSE @]
      BY <2>2 DEF Start
    <3>2. QED
      BY <2>1, <3>1 DEF AnswerInv
  <2>3. CASE Return(p)
    BY <2>1, <2>3 DEF Return, NoReply, AnswerInv
  <2>4. QED
    BY <1>3, <2>2, <2>3
<1>4. ASSUME NEW p \in Procs, CacheHit(p)
      PROVE  AnswerInv'
  BY <1>4, HeldType, FinishKeepsAnswers DEF CacheHit, AnswerInv
<1>5. ASSUME NEW p \in Procs, TryAgain(p)
      PROVE  AnswerInv'
  <2>1. tries' \in [Procs -> 0..(MaxRetries - 1)]
    BY <1>5, MaxRetriesAssumption DEF TryAgain, AnswerInv
  <2>2. QED
    BY <1>5, <2>1 DEF TryAgain, AnswerInv
<1>6. ASSUME NEW p \in Procs, GiveUp(p)
      PROVE  AnswerInv'
  <2>1. tries' = [tries EXCEPT ![p] = 0] /\ UNCHANGED <<reply, leaked>>
    BY <1>6, CacheErrorsAreRetried DEF GiveUp
  <2>2. QED
    BY <2>1, MaxRetriesAssumption DEF AnswerInv
<1>7. ASSUME NEW p \in Procs,
             \/ SqlFound(p) \/ SqlNotFound(p) \/ SqlCutShort(p) \/ SqlSleep(p)
             \/ ReadBack(p)
      PROVE  AnswerInv'
  <2>1. leaked' \in SUBSET EmpNos
    BY <1>7 DEF SqlFound, SqlNotFound, SqlCutShort, SqlSleep, ReadBack, AnswerInv
  <2>2. CASE UNCHANGED <<tries, reply, leaked>>
    BY <1>1, <2>2
  <2>3. CASE \E err \in Answers, found \in Maps(EmpNos, Employee) :
               Finish(p, err, found)
    BY <2>1, <2>3, FinishKeepsAnswers
  <2>4. QED
    BY <1>2, <1>7, <2>2, <2>3 DEF SqlFound, SqlNotFound, SqlCutShort, Obtained,
       Absent, SqlSleep, ReadBack, Goto
<1>8. ASSUME NEW p \in Procs,
             SqlUpdate(p) \/ SqlDelete(p) \/ FindEmpNo(p) \/ SqlInsert(p)
      PROVE  AnswerInv'
  <2>1. leaked' \in SUBSET EmpNos
    BY <1>8 DEF SqlUpdate, SqlDelete, FindEmpNo, SqlInsert, AnswerInv
  <2>2. CASE UNCHANGED <<tries, reply, leaked>>
    BY <1>1, <2>2
  <2>3. CASE \E err \in Answers : Finish(p, err, EmptyMap)
    BY <2>1, <2>3, FinishKeepsAnswers
  <2>4. QED
    BY <1>8, <2>2, <2>3 DEF SqlUpdate, SqlDelete, FindEmpNo, SqlInsert, Goto
<1>9. ASSUME NEW p \in Procs, SqlFails(p) \/ SqlAnswerLost(p)
      PROVE  AnswerInv'
  <2>1. DOMAIN employees \in SUBSET EmpNos
    BY MapsElim DEF CacheTypeOK
  <2>2. leaked' \in SUBSET EmpNos
    BY <1>9, <2>1 DEF SqlFails, SqlAnswerLost, Entry, AnswerInv
  <2>3. Finish(p, ErrStatement, EmptyMap)
    BY <1>9 DEF SqlFails, SqlAnswerLost
  <2>4. QED
    BY <2>2, <2>3, FinishKeepsAnswers
<1>10. ASSUME NEW p \in Procs, Fill(p) \/ FillAbsent(p) \/ Invalidate(p)
       PROVE  AnswerInv'
  <2>1. fetched[p] \in Maps(EmpNos, Employee) /\ DOMAIN fetched[p] \in SUBSET EmpNos
    BY MapsElim DEF ControlInv
  <2>2. leaked' \in SUBSET EmpNos
    BY <1>10, <2>1 DEF Fill, FillAbsent, Invalidate, Overtaken, AnswerInv
  <2>3. \E err \in Answers, found \in Maps(EmpNos, Employee) : Finish(p, err, found)
    BY <1>10, <2>1 DEF Fill, FillAbsent, Invalidate
  <2>4. QED
    BY <2>2, <2>3, FinishKeepsAnswers
<1>11. QED
  BY <1>1, <1>3, <1>4, <1>5, <1>6, <1>7, <1>8, <1>9, <1>10
     DEF Next, Step, Environment, procVars, vars

LEMMA AnswerInvariant == Spec => []AnswerInv
<1>1. Init => AnswerInv
  <2>1. EmptyMap \in Maps(EmpNos, Employee)
    BY EmptyMapType
  <2>2. QED
    BY <2>1, MaxRetriesAssumption DEF Init, AnswerInv, NoReply, Answers
<1>2. QED
  BY <1>1, AnswersStep, ControlInvariant, CacheTypes, PTL DEF Spec

\* The variables of the service keep their types: in particular no process ever
\* tries a read of the cache more than MaxRetries times.
THEOREM LogicTypeCorrect == Spec => []LogicTypeOK
<1>1. ControlInv /\ AnswerInv => LogicTypeOK
  BY DEF ControlInv, AnswerInv, LogicTypeOK, Answers, Errors
<1>2. QED
  BY <1>1, ControlInvariant, AnswerInvariant, PTL

\* No caller is ever answered with an error of the cache, whatever the cache
\* remembers, whoever holds a flag, and whenever the retries end.
THEOREM CacheErrorsHidden == Spec => []AnswersHideCacheErrors
<1>1. AnswerInv => AnswersHideCacheErrors
  BY AnswersAreNotCacheErrors DEF AnswerInv, AnswersHideCacheErrors
<1>2. QED
  BY <1>1, AnswerInvariant, PTL
=============================================================================
