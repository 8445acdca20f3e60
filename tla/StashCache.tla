----------------------------- MODULE StashCache -----------------------------
(***************************************************************************)
(* The cache of internal/cache/stash.go under the requests of the logic.   *)
(* Employees and searches are keys of one go-stash store, whose calls are  *)
(* the steps here: other requests come in between any two, any call may    *)
(* fail, and the store may evict what it likes.  The statements of a       *)
(* request are one step (Logic has them apart).                            *)
(***************************************************************************)
EXTENDS Integers

CONSTANTS
    Procs,      \* goroutines that serve requests
    EmpNos,     \* employee numbers, from 1
    Employee,   \* the contents an employee's row can have
    Searches    \* searches, as the numbers they ask for; {} asks for everybody

ASSUME StashAssumption ==
    /\ EmpNos \subseteq Nat \ {0}
    /\ Searches \subseteq SUBSET EmpNos

VARIABLES
    row,       \* the table: emp_no -> contents
    cached,    \* the employees in the store
    searches,  \* the searches in the store
    pc,        \* what each request does next
    keys,      \* the numbers it asks for
    got,       \* what it has read from the store
    fetched,   \* what it has read from the table and not yet written
    leaked     \* history: employees whose entry nobody will invalidate

requestVars == <<pc, keys, got, fetched>>
vars == <<row, cached, searches, leaked, requestVars>>

\* The service does what ReadThrough promises its clients.
RT == INSTANCE ReadThrough WITH
    held    <- fetched,
    pending <- [p \in Procs |-> IF pc[p] = "invalidate" THEN keys[p] ELSE {}]

Nothing == RT!Nothing

Init ==
    /\ row \in RT!Tables
    /\ cached = Nothing
    /\ searches = {}
    /\ pc = [p \in Procs |-> "idle"]
    /\ keys = [p \in Procs |-> {}]
    /\ got = [p \in Procs |-> Nothing]
    /\ fetched = [p \in Procs |-> Nothing]
    /\ leaked = {}

At(p, steps) == pc[p] \in steps
Goto(p, step) == pc' = [pc EXCEPT ![p] = step]

\* A request goes on and changes nothing that others see.
GoesAlone(p, step) ==
    /\ Goto(p, step)
    /\ UNCHANGED <<row, cached, searches, leaked>>

-----------------------------------------------------------------------------
(* Reading.  What is in the store may be found or not: a call that fails   *)
(* counts as a miss.                                                       *)

\* EmployeeRead looks up an employee, EmployeesRead the key of a search
Ask(p, asked, step) ==
    /\ At(p, {"idle"})
    /\ keys' = [keys EXCEPT ![p] = asked]
    /\ GoesAlone(p, step)
    /\ UNCHANGED <<got, fetched>>

LookUpSearch(p) ==
    /\ At(p, {"search"})
    /\ \/ keys[p] \in searches /\ GoesAlone(p, "members")
       \/ GoesAlone(p, "searchMissed")
    /\ UNCHANGED <<keys, got, fetched>>

\* and then the employees it asks for, one by one, not those it once found.
\* A search gives up what it has, and means to delete its key.
LookUp(p) ==
    /\ At(p, {"member", "members"})
    /\ \E k \in keys[p] \ DOMAIN got[p] :
          \/ /\ k \in DOMAIN cached
             /\ got' = [got EXCEPT ![p] = RT!Over(@, RT!Only(cached, {k}))]
             /\ GoesAlone(p, pc[p])
          \/ /\ got' = [got EXCEPT ![p] = Nothing]
             /\ GoesAlone(p, IF At(p, {"member"}) THEN "missed" ELSE "drop")
    /\ UNCHANGED <<keys, fetched>>

Hit(p) ==
    /\ At(p, {"member", "members"})
    /\ keys[p] = DOMAIN got[p]
    /\ GoesAlone(p, "hit")
    /\ UNCHANGED <<keys, got, fetched>>

\* It deletes it even if it was written again since.
Drop(p) ==
    /\ At(p, {"drop"})
    /\ searches' \in {searches, searches \ {keys[p]}}
    /\ Goto(p, "searchMissed")
    /\ UNCHANGED <<row, cached, leaked, keys, got, fetched>>

\* The logic tries again,
Retry(p) ==
    /\ \/ At(p, {"missed"}) /\ GoesAlone(p, "member")
       \/ At(p, {"searchMissed"}) /\ GoesAlone(p, "search")
    /\ UNCHANGED <<keys, got, fetched>>

Matches(p) ==
    IF At(p, {"searchMissed"}) /\ keys[p] = {} THEN EmpNos ELSE keys[p]

\* Absences are written like the rest.
Query_RecordsAbsence(p) ==
    /\ At(p, {"missed", "searchMissed"})
    /\ fetched' = [fetched EXCEPT ![p] = RT!Only(row, Matches(p))]
    /\ GoesAlone(p, "record")
    /\ UNCHANGED <<keys, got>>

\* or reads the table; this cache does not remember that nothing was found.
\* An employee alone is recorded under the search for everybody.
Query(p) ==
    /\ At(p, {"missed", "searchMissed"})
    /\ fetched' = [fetched EXCEPT ![p] = RT!Only(row, Matches(p))]
    /\ GoesAlone(p, IF Matches(p) \cap DOMAIN row = {} THEN "idle" ELSE "record")
    /\ keys' = [keys EXCEPT ![p] =
                    IF pc'[p] = "idle" \/ At(p, {"missed"}) THEN {} ELSE @]
    /\ UNCHANGED got

-----------------------------------------------------------------------------
(* EmployeesWrite                                                          *)

\* First the criteria are written; without them nothing is.
Record(p) ==
    /\ At(p, {"record"})
    /\ \/ /\ searches' = searches \cup {keys[p]}
          /\ Goto(p, "write")
          /\ UNCHANGED fetched
       \/ /\ Goto(p, "idle")
          /\ fetched' = [fetched EXCEPT ![p] = Nothing]
          /\ UNCHANGED searches
    /\ keys' = [keys EXCEPT ![p] = {}]
    /\ UNCHANGED <<row, cached, leaked, got>>

\* Then the employees; one that cannot be written is left out.
Write(p) ==
    /\ At(p, {"write"})
    /\ \E k \in DOMAIN fetched[p] :
          LET one == RT!Only(fetched[p], {k})
          IN  /\ \/ /\ cached' = RT!Over(cached, one)
                    /\ leaked' = (leaked \ {k}) \cup RT!Wrong(one)
                 \/ UNCHANGED <<cached, leaked>>
              /\ fetched' = [fetched EXCEPT ![p] = RT!Except(@, {k})]
              /\ Goto(p, IF DOMAIN fetched[p] = {k} THEN "idle" ELSE "write")
    /\ UNCHANGED <<row, searches, keys, got>>

-----------------------------------------------------------------------------
(* Changes                                                                 *)

Contents(k) ==
    { RT!Over(row, [j \in {k} |-> v]) : v \in Employee } \cup {RT!Except(row, {k})}

\* A change that succeeded is not followed by EmployeesDelete.
Change_TellsNobody(p, k) ==
    /\ At(p, {"idle"})
    /\ k \in DOMAIN row
    /\ row' \in Contents(k)
    /\ UNCHANGED <<cached, searches, leaked, requestVars>>

\* EmployeeUpdate or EmployeeDelete changes the table, and the store is to
\* be told; or it took effect and failed.
Change(p, k) ==
    /\ At(p, {"idle"})
    /\ k \in DOMAIN row
    /\ row' \in Contents(k)
    /\ \/ /\ keys' = [keys EXCEPT ![p] = {k}]
          /\ Goto(p, "invalidate")
          /\ UNCHANGED leaked
       \/ /\ leaked' = leaked \cup ({k} \cap DOMAIN cached)
          /\ UNCHANGED <<pc, keys>>
    /\ UNCHANGED <<cached, searches, got, fetched>>

\* Nothing of the employee stays, but the searches that name it do.
Invalidate_Nothing(p) ==
    /\ At(p, {"invalidate"})
    /\ GoesAlone(p, "idle")
    /\ keys' = [keys EXCEPT ![p] = {}]
    /\ UNCHANGED <<got, fetched>>

\* EmployeesDelete says it succeeded even if the store did not delete.
\* Searches that name the employee stay.
Invalidate(p) ==
    /\ At(p, {"invalidate"})
    /\ Goto(p, "idle")
    /\ \/ cached' = RT!Except(cached, keys[p]) /\ leaked' = leaked
       \/ cached' = cached /\ leaked' = leaked \cup (keys[p] \cap DOMAIN cached)
    /\ keys' = [keys EXCEPT ![p] = {}]
    /\ UNCHANGED <<row, searches, got, fetched>>

\* EmployeeCreate takes the number after the greatest, and tells the store
\* nothing.
Create(k) ==
    /\ DOMAIN row \subseteq 1 .. k - 1 /\ k - 1 \in DOMAIN row \cup {0}
    /\ row' \in { RT!Over(row, [j \in {k} |-> v]) : v \in Employee }
    /\ UNCHANGED <<cached, searches, leaked, requestVars>>

-----------------------------------------------------------------------------
\* The answer from the store reaches the caller.
Answer(p) ==
    /\ At(p, {"hit"})
    /\ keys' = [keys EXCEPT ![p] = {}]
    /\ got' = [got EXCEPT ![p] = Nothing]
    /\ GoesAlone(p, "idle")
    /\ UNCHANGED fetched

\* The store evicts by age and size, and Clear all of it.
Evict ==
    /\ \/ /\ \E k \in DOMAIN cached : cached' = RT!Except(cached, {k})
          /\ UNCHANGED searches
       \/ /\ \E s \in searches : searches' = searches \ {s}
          /\ UNCHANGED cached
       \/ cached' = Nothing /\ searches' = {}
    /\ UNCHANGED <<row, leaked, requestVars>>

Next ==
    \/ \E p \in Procs :
          \/ \E k \in EmpNos : Ask(p, {k}, "member") \/ Change(p, k)
          \/ \E s \in Searches : Ask(p, s, "search")
          \/ LookUpSearch(p) \/ LookUp(p) \/ Hit(p) \/ Drop(p)
          \/ Retry(p) \/ Query(p) \/ Record(p) \/ Write(p)
          \/ Invalidate(p) \/ Answer(p)
    \/ \E k \in EmpNos : Create(k)
    \/ Evict

Spec == Init /\ [][Next]_vars

-----------------------------------------------------------------------------
StashTypeOK ==
    /\ row \in RT!Tables /\ cached \in RT!Tables
    /\ searches \subseteq Searches \cup {{}}
    /\ pc \in [Procs -> {"idle", "member", "search", "members", "hit", "drop",
                         "missed", "searchMissed", "record", "write",
                         "invalidate"}]
    /\ keys \in [Procs -> SUBSET EmpNos]
    /\ got \in [Procs -> RT!Tables] /\ fetched \in [Procs -> RT!Tables]
    /\ leaked \subseteq EmpNos
    /\ \A p \in Procs : fetched[p] # Nothing <=> At(p, {"record", "write"})

\* The request of p changed employee k and has yet to delete its entry.
Invalidates(p, k) == At(p, {"invalidate"}) /\ k \in keys[p]

\* The store is wrong about an employee only while a request that changed it
\* has yet to delete its key, or after a known leak: a write of what a change
\* had overtaken, a change that failed or lost its answer, a delete whose
\* error EmployeesDelete keeps to itself.  A number that EmployeeCreate gives
\* out again is no other case: nothing tells the store, but whatever is left
\* there of its former holder is still on somebody's way out.
StoreWrongOnlyIfPendingOrLeaked ==
    \A k \in RT!Wrong(cached) \ leaked : \E p \in Procs : Invalidates(p, k)

\* The service does over this cache what it does over the memory cache:
\* callers can think of one table, one cache and changes on their way to it,
\* although employees are written one by one, a delete may fail unseen, and
\* calls of several requests alternate (EmployeesWrite, EmployeesDelete).
StashReadsThrough == RT!RTSpec
=============================================================================
