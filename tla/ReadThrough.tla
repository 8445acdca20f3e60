---------------------------- MODULE ReadThrough ----------------------------
(***************************************************************************)
(* What the service promises whoever calls it, whatever its cache does     *)
(* inside: a table, what the cache holds of it, and requests that carry    *)
(* what they read to the cache, or the news of a change.  Logic implements *)
(* it; Client builds on it.                                                *)
(***************************************************************************)

CONSTANTS
    Procs,     \* goroutines that serve requests
    EmpNos,    \* employee numbers
    Employee   \* the contents an employee's row can have

VARIABLES
    row,       \* the table: emp_no -> contents
    cached,    \* what the cache holds of it
    held,      \* what each request has read and not yet given to the cache
    pending,   \* employees each request has changed and not yet invalidated
    leaked     \* employees whose entry nobody will invalidate

rtVars == <<row, cached, held, pending, leaked>>

Tables == UNION { [S -> Employee] : S \in SUBSET EmpNos }
Nothing == [k \in {} |-> k]

Over(m, new) ==
    [k \in DOMAIN m \cup DOMAIN new |->
        IF k \in DOMAIN new THEN new[k] ELSE m[k]]
Only(m, ks) == [k \in ks \cap DOMAIN m |-> m[k]]
Except(m, ks) == [k \in DOMAIN m \ ks |-> m[k]]

\* What differs from the table.
Wrong(m) == { k \in DOMAIN m : k \notin DOMAIN row \/ row[k] # m[k] }

RTInit ==
    /\ row \in Tables
    /\ cached = Nothing
    /\ held = [p \in Procs |-> Nothing]
    /\ pending = [p \in Procs |-> {}]
    /\ leaked = {}

-----------------------------------------------------------------------------
(* Reading                                                                 *)

\* A request reads employees from the table,
Fetch(p, ks) ==
    /\ held' = [held EXCEPT ![p] = Only(row, ks)]
    /\ UNCHANGED <<row, cached, pending, leaked>>

\* and gives them to the cache, at once or one by one, however old they are
\* by now,
Fill(p, ks) ==
    /\ cached' = Over(cached, Only(held[p], ks))
    /\ held' = [held EXCEPT ![p] = Except(held[p], ks)]
    /\ leaked' = (leaked \ (ks \cap DOMAIN held[p])) \cup Wrong(Only(held[p], ks))
    /\ UNCHANGED <<row, pending>>

\* or does not, where the cache fails.
Forget(p, ks) ==
    /\ held' = [held EXCEPT ![p] = Except(held[p], ks)]
    /\ UNCHANGED <<row, cached, pending, leaked>>

\* Entries expire, are pruned or cleared.
Evict(ks) ==
    /\ cached' = Except(cached, ks)
    /\ UNCHANGED <<row, held, pending, leaked>>

-----------------------------------------------------------------------------
(* Changing                                                                *)

\* Employee k is given contents, added or removed; or there is nothing to
\* change.
Changed(k) ==
    /\ row' \in { Over(row, [j \in {k} |-> v]) : v \in Employee }
                    \cup {Except(row, {k}), row}
    /\ UNCHANGED <<cached, held>>

\* A request changes an employee and means to invalidate it,
Change(p, k) ==
    /\ Changed(k)
    /\ pending' = [pending EXCEPT ![p] = {k}]
    /\ UNCHANGED leaked

\* which it does,
Invalidate(p) ==
    /\ cached' = Except(cached, pending[p])
    /\ pending' = [pending EXCEPT ![p] = {}]
    /\ UNCHANGED <<row, held, leaked>>

\* or it ends with an error and leaves the entry to expire,
Abandon(p) ==
    /\ pending' = [pending EXCEPT ![p] = {}]
    /\ leaked' = leaked \cup (pending[p] \cap DOMAIN cached)
    /\ UNCHANGED <<row, cached, held>>

\* or finds the employee removed, and whoever removed it invalidates it.
NotThere(p) ==
    /\ pending[p] \cap DOMAIN row = {}
    /\ \A k \in (pending[p] \cap DOMAIN cached) \ leaked :
           \E q \in Procs \ {p} : k \in pending[q]
    /\ pending' = [pending EXCEPT ![p] = {}]
    /\ UNCHANGED <<row, cached, held, leaked>>

\* The change takes effect, but the request does not learn of it.
ChangeUnanswered(k) ==
    /\ Changed(k)
    /\ leaked' = leaked \cup ({k} \cap DOMAIN cached)
    /\ UNCHANGED pending

\* An employee is added, and the cache is not told: what it may still hold
\* under this number belongs to one whose removal is to be invalidated.
Add(k) ==
    /\ k \notin DOMAIN row
    /\ Changed(k)
    /\ UNCHANGED <<pending, leaked>>

-----------------------------------------------------------------------------
RTNext ==
    \/ \E p \in Procs :
          \/ \E ks \in SUBSET EmpNos : Fetch(p, ks) \/ Fill(p, ks) \/ Forget(p, ks)
          \/ Invalidate(p) \/ Abandon(p) \/ NotThere(p)
          \/ \E k \in EmpNos : Change(p, k)
    \/ \E k \in EmpNos : Add(k) \/ ChangeUnanswered(k)
    \/ \E ks \in SUBSET EmpNos : Evict(ks)

RTSpec == RTInit /\ [][RTNext]_rtVars
=============================================================================
