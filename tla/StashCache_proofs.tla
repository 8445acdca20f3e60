-------------------------- MODULE StashCache_proofs --------------------------
(***************************************************************************)
(* Proofs about StashCache, for any processes, employees, contents and     *)
(* searches.                                                               *)
(***************************************************************************)
EXTENDS StashCache, TLAPS

-----------------------------------------------------------------------------
(* Tables                                                                  *)

LEMMA TablesIntro ==
    ASSUME NEW S, S \subseteq EmpNos, NEW m \in [S -> Employee]
    PROVE  m \in RT!Tables
BY DEF RT!Tables

LEMMA TablesElim ==
    ASSUME NEW m \in RT!Tables
    PROVE  /\ DOMAIN m \subseteq EmpNos
           /\ m \in [DOMAIN m -> Employee]
BY DEF RT!Tables

LEMMA NothingIsTable == Nothing \in RT!Tables /\ DOMAIN Nothing = {}
<1>1. RT!Nothing \in [{} -> Employee]
  BY DEF RT!Nothing
<1>2. QED
  BY <1>1, TablesIntro DEF Nothing

\* What is made of tables is a table again.
LEMMA TablesClosed ==
    ASSUME NEW m \in RT!Tables, NEW n \in RT!Tables, NEW ks
    PROVE  /\ RT!Over(m, n) \in RT!Tables
           /\ DOMAIN RT!Over(m, n) = DOMAIN m \cup DOMAIN n
           /\ RT!Only(m, ks) \in RT!Tables
           /\ DOMAIN RT!Only(m, ks) = ks \cap DOMAIN m
           /\ RT!Except(m, ks) \in RT!Tables
           /\ DOMAIN RT!Except(m, ks) = DOMAIN m \ ks
<1>1. /\ DOMAIN m \subseteq EmpNos /\ m \in [DOMAIN m -> Employee]
      /\ DOMAIN n \subseteq EmpNos /\ n \in [DOMAIN n -> Employee]
  BY TablesElim
<1>2. RT!Over(m, n) \in [DOMAIN m \cup DOMAIN n -> Employee]
  BY <1>1 DEF RT!Over
<1>3. RT!Only(m, ks) \in [ks \cap DOMAIN m -> Employee]
  BY <1>1 DEF RT!Only
<1>4. RT!Except(m, ks) \in [DOMAIN m \ ks -> Employee]
  BY <1>1 DEF RT!Except
<1>5. /\ DOMAIN m \cup DOMAIN n \subseteq EmpNos
      /\ ks \cap DOMAIN m \subseteq EmpNos
      /\ DOMAIN m \ ks \subseteq EmpNos
  BY <1>1
<1>6. RT!Over(m, n) \in RT!Tables /\ RT!Only(m, ks) \in RT!Tables
      /\ RT!Except(m, ks) \in RT!Tables
  BY <1>2, <1>3, <1>4, <1>5, TablesIntro
<1>7. QED
  BY <1>2, <1>3, <1>4, <1>6

\* A table with a row added.
LEMMA RowIsTable ==
    ASSUME NEW k \in EmpNos, NEW v \in Employee
    PROVE  [j \in {k} |-> v] \in RT!Tables
<1>1. [j \in {k} |-> v] \in [{k} -> Employee] /\ {k} \subseteq EmpNos
  OBVIOUS
<1>2. QED
  BY <1>1, TablesIntro

LEMMA AddedIsTable ==
    ASSUME NEW m \in RT!Tables, NEW k \in EmpNos, NEW v \in Employee
    PROVE  RT!Over(m, [j \in {k} |-> v]) \in RT!Tables
<1> DEFINE one == [j \in {k} |-> v]
<1>1. one \in RT!Tables
  BY RowIsTable
<1> HIDE DEF one
<1>2. RT!Over(m, one) \in RT!Tables
  BY <1>1, TablesClosed
<1>3. QED
  BY <1>2 DEF one

LEMMA EmptyIsNothing ==
    ASSUME NEW m \in RT!Tables
    PROVE  m = Nothing <=> DOMAIN m = {}
<1>1. m \in [DOMAIN m -> Employee]
  BY TablesElim
<1>2. QED
  BY <1>1, NothingIsTable DEF Nothing, RT!Nothing

-----------------------------------------------------------------------------
(* The invariant                                                           *)

Steps == {"idle", "member", "search", "members", "hit", "drop", "missed",
          "searchMissed", "record", "write", "invalidate"}

\* A request that is at a step of a search has one in keys, or the search
\* for everybody.
AsksFor(step, ks) ==
    step \in {"search", "members", "drop", "searchMissed", "record"}
        => ks \in Searches \cup {{}}

\* What a request has read from the table.
Carries(step, found) == found # Nothing <=> step \in {"record", "write"}

StashInv ==
    /\ row \in RT!Tables /\ cached \in RT!Tables
    /\ searches \subseteq Searches \cup {{}}
    /\ leaked \subseteq EmpNos
    /\ pc \in [Procs -> Steps]
    /\ keys \in [Procs -> SUBSET EmpNos]
    /\ got \in [Procs -> RT!Tables] /\ fetched \in [Procs -> RT!Tables]
    /\ \A p \in Procs : /\ AsksFor(pc[p], keys[p])
                        /\ Carries(pc[p], fetched[p])

LEMMA StashInvImplies == StashInv => StashTypeOK
BY DEF StashInv, StashTypeOK, Carries, Steps, At

LEMMA StashInvInit == Init => StashInv
<1> SUFFICES ASSUME Init PROVE StashInv
  OBVIOUS
<1>1. \A p \in Procs : pc[p] = "idle" /\ fetched[p] = Nothing
  BY DEF Init
<1>2. QED
  BY <1>1, NothingIsTable
  DEF Init, StashInv, Steps, AsksFor, Carries

\* An action changes the request it is about, and leaves the others alone.
LEMMA OneRequest ==
    ASSUME StashInv, NEW p \in Procs,
           row' \in RT!Tables, cached' \in RT!Tables,
           searches' \subseteq Searches \cup {{}}, leaked' \subseteq EmpNos,
           pc' = [pc EXCEPT ![p] = pc'[p]], pc'[p] \in Steps,
           keys' = [keys EXCEPT ![p] = keys'[p]], keys'[p] \in SUBSET EmpNos,
           got' = [got EXCEPT ![p] = got'[p]], got'[p] \in RT!Tables,
           fetched' = [fetched EXCEPT ![p] = fetched'[p]],
           fetched'[p] \in RT!Tables,
           AsksFor(pc'[p], keys'[p]), Carries(pc'[p], fetched'[p])
    PROVE  StashInv'
<1>1. /\ pc' \in [Procs -> Steps] /\ keys' \in [Procs -> SUBSET EmpNos]
      /\ got' \in [Procs -> RT!Tables] /\ fetched' \in [Procs -> RT!Tables]
  BY DEF StashInv
<1>2. ASSUME NEW q \in Procs
      PROVE  /\ AsksFor(pc'[q], keys'[q])
             /\ Carries(pc'[q], fetched'[q])
  <2>1. CASE q = p
    BY <2>1 DEF StashInv
  <2>2. CASE q # p
    BY <2>2 DEF StashInv
  <2>3. QED
    BY <2>1, <2>2
<1>3. RT!Tables' = RT!Tables /\ Nothing' = Nothing
  BY DEF RT!Tables, Nothing, RT!Nothing
<1>4. QED
  BY <1>1, <1>2, <1>3 DEF StashInv, AsksFor, Carries

\* What a step does to one request, in the form of OneRequest.
LEMMA Same ==
    ASSUME StashInv, NEW p \in Procs
    PROVE  /\ \A x \in Steps : pc' = [pc EXCEPT ![p] = x] => pc'[p] = x
           /\ \A x : keys' = [keys EXCEPT ![p] = x] => keys'[p] = x
           /\ \A x : got' = [got EXCEPT ![p] = x] => got'[p] = x
           /\ \A x : fetched' = [fetched EXCEPT ![p] = x] => fetched'[p] = x
           /\ keys' = keys => keys' = [keys EXCEPT ![p] = keys[p]]
           /\ got' = got => got' = [got EXCEPT ![p] = got[p]]
           /\ fetched' = fetched => fetched' = [fetched EXCEPT ![p] = fetched[p]]
           /\ pc[p] \in Steps /\ keys[p] \in SUBSET EmpNos
           /\ got[p] \in RT!Tables /\ fetched[p] \in RT!Tables
           /\ AsksFor(pc[p], keys[p]) /\ Carries(pc[p], fetched[p])
BY DEF StashInv

\* A request goes on and leaves what others see alone.
LEMMA OneGoesAlone ==
    ASSUME StashInv, NEW p \in Procs, NEW step \in Steps, GoesAlone(p, step)
    PROVE  /\ pc' = [pc EXCEPT ![p] = pc'[p]] /\ pc'[p] = step
           /\ row' \in RT!Tables /\ cached' \in RT!Tables
           /\ searches' \subseteq Searches \cup {{}} /\ leaked' \subseteq EmpNos
BY DEF GoesAlone, Goto, StashInv

LEMMA AskKeeps ==
    ASSUME StashInv, NEW p \in Procs, NEW asked, asked \subseteq EmpNos,
           NEW step \in {"member", "search"}, Ask(p, asked, step),
           step = "search" => asked \in Searches
    PROVE  StashInv'
<1>1. /\ pc[p] = "idle" /\ GoesAlone(p, step) /\ step \in Steps
      /\ keys' = [keys EXCEPT ![p] = asked]
      /\ UNCHANGED <<got, fetched>>
  BY DEF Ask, At, Steps
<1>2. /\ pc' = [pc EXCEPT ![p] = pc'[p]] /\ pc'[p] = step
      /\ row' \in RT!Tables /\ cached' \in RT!Tables
      /\ searches' \subseteq Searches \cup {{}} /\ leaked' \subseteq EmpNos
  BY <1>1, OneGoesAlone
<1>3. /\ keys' = [keys EXCEPT ![p] = keys'[p]] /\ keys'[p] = asked
      /\ got' = [got EXCEPT ![p] = got'[p]] /\ got'[p] \in RT!Tables
      /\ fetched' = [fetched EXCEPT ![p] = fetched'[p]]
      /\ fetched'[p] = fetched[p] /\ fetched[p] \in RT!Tables
  BY <1>1, Same
<1>4. /\ AsksFor(pc'[p], keys'[p]) /\ Carries(pc'[p], fetched'[p])
  BY <1>1, <1>2, <1>3, Same DEF AsksFor, Carries
<1>5. QED
  BY <1>1, <1>2, <1>3, <1>4, OneRequest

LEMMA LookUpSearchKeeps ==
    ASSUME StashInv, NEW p \in Procs, LookUpSearch(p)
    PROVE  StashInv'
<1>1. PICK step \in {"members", "searchMissed"} : GoesAlone(p, step)
  BY DEF LookUpSearch
<1>2. pc[p] = "search" /\ step \in Steps /\ UNCHANGED <<keys, got, fetched>>
  BY DEF LookUpSearch, At, Steps
<1>3. QED
  BY <1>1, <1>2, OneGoesAlone, Same, OneRequest
  DEF AsksFor, Carries

LEMMA LookUpKeeps ==
    ASSUME StashInv, NEW p \in Procs, LookUp(p)
    PROVE  StashInv'
<1>1. PICK k \in keys[p] \ DOMAIN got[p] :
        \/ /\ k \in DOMAIN cached
           /\ got' = [got EXCEPT ![p] = RT!Over(got[p], RT!Only(cached, {k}))]
           /\ GoesAlone(p, pc[p])
        \/ /\ got' = [got EXCEPT ![p] = Nothing]
           /\ GoesAlone(p, IF At(p, {"member"}) THEN "missed" ELSE "drop")
  BY DEF LookUp
<1>2. pc[p] \in {"member", "members"} /\ UNCHANGED <<keys, fetched>>
  BY DEF LookUp, At
<1>3. RT!Over(got[p], RT!Only(cached, {k})) \in RT!Tables
  BY TablesClosed, Same DEF StashInv
<1>4. PICK step \in {pc[p], IF pc[p] = "member" THEN "missed" ELSE "drop"} :
        GoesAlone(p, step)
  BY <1>1 DEF At
<1>5. step \in Steps /\ step # "hit"
  BY <1>2, <1>4 DEF Steps
<1>6. got' = [got EXCEPT ![p] = got'[p]] /\ got'[p] \in RT!Tables
  BY <1>1, <1>3, Same, NothingIsTable
<1>7. /\ keys' = [keys EXCEPT ![p] = keys'[p]] /\ keys'[p] = keys[p]
      /\ fetched' = [fetched EXCEPT ![p] = fetched'[p]]
      /\ fetched'[p] = fetched[p]
  BY <1>2, Same
<1>8. /\ AsksFor(step, keys'[p]) /\ Carries(step, fetched'[p])
  BY <1>2, <1>4, <1>5, <1>7, Same DEF AsksFor, Carries
<1>9. QED
  BY <1>4, <1>5, <1>6, <1>7, <1>8, OneGoesAlone, Same, OneRequest

\* Only here does a request come to answer from the store.
LEMMA HitKeeps ==
    ASSUME StashInv, NEW p \in Procs, Hit(p)
    PROVE  StashInv'
<1>1. /\ pc[p] \in {"member", "members"} /\ keys[p] = DOMAIN got[p]
      /\ GoesAlone(p, "hit") /\ "hit" \in Steps
      /\ UNCHANGED <<keys, got, fetched>>
  BY DEF Hit, At, Steps
<1>2. QED
  BY <1>1, OneGoesAlone, Same, OneRequest DEF AsksFor, Carries

LEMMA DropKeeps ==
    ASSUME StashInv, NEW p \in Procs, Drop(p)
    PROVE  StashInv'
<1>1. /\ pc[p] = "drop" /\ pc' = [pc EXCEPT ![p] = "searchMissed"]
      /\ "searchMissed" \in Steps
      /\ searches' \subseteq Searches \cup {{}}
      /\ UNCHANGED <<row, cached, leaked, keys, got, fetched>>
  BY DEF Drop, At, Goto, Steps, StashInv
<1>2. row' \in RT!Tables /\ cached' \in RT!Tables /\ leaked' \subseteq EmpNos
  BY <1>1 DEF StashInv
<1>3. QED
  BY <1>1, <1>2, Same, OneRequest DEF AsksFor, Carries

LEMMA RetryKeeps ==
    ASSUME StashInv, NEW p \in Procs, Retry(p)
    PROVE  StashInv'
<1>1. PICK step \in {"member", "search"} :
        /\ GoesAlone(p, step)
        /\ pc[p] = IF step = "member" THEN "missed" ELSE "searchMissed"
  BY DEF Retry, At
<1>2. step \in Steps /\ UNCHANGED <<keys, got, fetched>>
  BY DEF Retry, Steps
<1>3. QED
  BY <1>1, <1>2, OneGoesAlone, Same, OneRequest
  DEF AsksFor, Carries

LEMMA AnswerKeeps ==
    ASSUME StashInv, NEW p \in Procs, Answer(p)
    PROVE  StashInv'
<1>1. /\ pc[p] = "hit" /\ GoesAlone(p, "idle") /\ "idle" \in Steps
      /\ keys' = [keys EXCEPT ![p] = {}]
      /\ got' = [got EXCEPT ![p] = Nothing] /\ UNCHANGED fetched
  BY DEF Answer, At, Steps
<1>2. /\ keys' = [keys EXCEPT ![p] = keys'[p]] /\ keys'[p] = {}
      /\ got' = [got EXCEPT ![p] = got'[p]] /\ got'[p] \in RT!Tables
      /\ fetched' = [fetched EXCEPT ![p] = fetched'[p]]
      /\ fetched'[p] = fetched[p] /\ fetched[p] \in RT!Tables
  BY <1>1, Same, NothingIsTable
<1>3. /\ pc' = [pc EXCEPT ![p] = pc'[p]] /\ pc'[p] = "idle"
      /\ row' \in RT!Tables /\ cached' \in RT!Tables
      /\ searches' \subseteq Searches \cup {{}} /\ leaked' \subseteq EmpNos
  BY <1>1, OneGoesAlone
<1>4. Carries("idle", fetched[p])
  BY <1>1, Same DEF Carries
<1>5. AsksFor("idle", {})
  BY DEF AsksFor
<1>6. QED
  BY <1>1, <1>2, <1>3, <1>4, <1>5, OneRequest

LEMMA QueryKeeps ==
    ASSUME StashInv, NEW p \in Procs, Query(p)
    PROVE  StashInv'
<1> DEFINE read == RT!Only(row, Matches(p))
<1>1. /\ pc[p] \in {"missed", "searchMissed"}
      /\ fetched' = [fetched EXCEPT ![p] = read]
      /\ UNCHANGED got
  BY DEF Query, At
<1>2. /\ read \in RT!Tables
      /\ read = Nothing <=> Matches(p) \cap DOMAIN row = {}
  BY TablesClosed, EmptyIsNothing DEF StashInv
<1>3. PICK step \in {"idle", "record"} :
        /\ GoesAlone(p, step)
        /\ step = "idle" <=> Matches(p) \cap DOMAIN row = {}
  BY DEF Query
<1>4. step \in Steps
  BY DEF Steps
<1>5. /\ pc' = [pc EXCEPT ![p] = pc'[p]] /\ pc'[p] = step
      /\ row' \in RT!Tables /\ cached' \in RT!Tables
      /\ searches' \subseteq Searches \cup {{}} /\ leaked' \subseteq EmpNos
  BY <1>3, <1>4, OneGoesAlone
<1>6. keys' = [keys EXCEPT ![p] = IF step = "idle" \/ pc[p] = "missed"
                                  THEN {} ELSE keys[p]]
  BY <1>5 DEF Query, At
<1>7. /\ keys' = [keys EXCEPT ![p] = keys'[p]]
      /\ keys'[p] \in SUBSET EmpNos
      /\ pc[p] = "searchMissed" => keys'[p] \in Searches \cup {{}}
      /\ pc[p] = "missed" => keys'[p] = {}
  BY <1>6, Same DEF AsksFor
<1>8. /\ AsksFor(step, keys'[p]) /\ Carries(step, read)
  BY <1>1, <1>2, <1>3, <1>7 DEF AsksFor, Carries
<1>9. /\ got' = [got EXCEPT ![p] = got'[p]] /\ got'[p] \in RT!Tables
      /\ fetched' = [fetched EXCEPT ![p] = fetched'[p]] /\ fetched'[p] = read
  BY <1>1, Same
<1>10. QED
  BY <1>2, <1>4, <1>5, <1>7, <1>8, <1>9, OneRequest

LEMMA RecordKeeps ==
    ASSUME StashInv, NEW p \in Procs, Record(p)
    PROVE  StashInv'
<1>1. /\ pc[p] = "record" /\ UNCHANGED <<row, cached, leaked, got>>
      /\ keys' = [keys EXCEPT ![p] = {}]
      /\ searches' \subseteq Searches \cup {{}}
  BY Same DEF Record, At, StashInv, AsksFor
<1>2. /\ row' \in RT!Tables /\ cached' \in RT!Tables
      /\ leaked' \subseteq EmpNos
  BY <1>1 DEF StashInv
<1>3. /\ keys' = [keys EXCEPT ![p] = keys'[p]] /\ keys'[p] = {}
      /\ got' = [got EXCEPT ![p] = got'[p]] /\ got'[p] \in RT!Tables
  BY <1>1, Same
<1>4. PICK step \in {"idle", "write"} :
        /\ pc' = [pc EXCEPT ![p] = step]
        /\ fetched' = IF step = "write" THEN fetched
                      ELSE [fetched EXCEPT ![p] = Nothing]
  BY DEF Record, Goto
<1>5. /\ pc' = [pc EXCEPT ![p] = pc'[p]] /\ pc'[p] = step /\ step \in Steps
  BY <1>4, Same DEF Steps
<1>6. /\ fetched' = [fetched EXCEPT ![p] = fetched'[p]]
      /\ fetched'[p] = IF step = "write" THEN fetched[p] ELSE Nothing
      /\ fetched'[p] \in RT!Tables
  BY <1>4, Same, NothingIsTable
<1>7. /\ AsksFor(step, {}) /\ Carries(step, fetched'[p])
  BY <1>1, <1>4, <1>6, Same DEF AsksFor, Carries
<1>8. QED
  BY <1>1, <1>2, <1>3, <1>5, <1>6, <1>7, OneRequest

LEMMA WrongInDomain == ASSUME NEW m PROVE RT!Wrong(m) \subseteq DOMAIN m
BY DEF RT!Wrong

LEMMA WriteKeeps ==
    ASSUME StashInv, NEW p \in Procs, Write(p)
    PROVE  StashInv'
<1>1. /\ pc[p] = "write" /\ UNCHANGED <<row, searches, keys, got>>
  BY DEF Write, At
<1>2. PICK k \in DOMAIN fetched[p] :
        /\ \/ /\ cached' = RT!Over(cached, RT!Only(fetched[p], {k}))
              /\ leaked' = (leaked \ {k}) \cup RT!Wrong(RT!Only(fetched[p], {k}))
           \/ UNCHANGED <<cached, leaked>>
        /\ fetched' = [fetched EXCEPT ![p] = RT!Except(fetched[p], {k})]
        /\ pc' = [pc EXCEPT ![p] =
                    IF DOMAIN fetched[p] = {k} THEN "idle" ELSE "write"]
  BY DEF Write, Goto
<1> DEFINE one == RT!Only(fetched[p], {k})
           rest == RT!Except(fetched[p], {k})
           step == IF DOMAIN fetched[p] = {k} THEN "idle" ELSE "write"
<1>3. /\ one \in RT!Tables /\ RT!Over(cached, one) \in RT!Tables
      /\ rest \in RT!Tables
      /\ DOMAIN rest = DOMAIN fetched[p] \ {k}
  BY TablesClosed, Same DEF StashInv
<1>4. RT!Wrong(one) \subseteq EmpNos
  BY <1>3, WrongInDomain, TablesElim
<1>5. /\ row' \in RT!Tables /\ cached' \in RT!Tables
      /\ searches' \subseteq Searches \cup {{}} /\ leaked' \subseteq EmpNos
  BY <1>1, <1>2, <1>3, <1>4 DEF StashInv
<1>6. /\ pc' = [pc EXCEPT ![p] = pc'[p]] /\ pc'[p] = step /\ step \in Steps
  BY <1>2, Same DEF Steps
<1>7. /\ keys' = [keys EXCEPT ![p] = keys'[p]] /\ keys'[p] \in SUBSET EmpNos
      /\ got' = [got EXCEPT ![p] = got'[p]] /\ got'[p] \in RT!Tables
      /\ fetched' = [fetched EXCEPT ![p] = fetched'[p]] /\ fetched'[p] = rest
  BY <1>1, <1>2, Same
<1>8. /\ AsksFor(step, keys'[p]) /\ Carries(step, rest)
  BY <1>2, <1>3, EmptyIsNothing DEF AsksFor, Carries
<1>9. QED
  BY <1>3, <1>5, <1>6, <1>7, <1>8, OneRequest

LEMMA ContentsAreTables ==
    ASSUME StashInv, NEW k \in EmpNos
    PROVE  Contents(k) \subseteq RT!Tables
<1>1. ASSUME NEW v \in Employee
      PROVE  RT!Over(row, [j \in {k} |-> v]) \in RT!Tables
  BY AddedIsTable DEF StashInv
<1>2. RT!Except(row, {k}) \in RT!Tables
  BY TablesClosed DEF StashInv
<1>3. QED
  BY <1>1, <1>2 DEF Contents

LEMMA ChangeKeeps ==
    ASSUME StashInv, NEW p \in Procs, NEW k \in EmpNos, Change(p, k)
    PROVE  StashInv'
<1>1. /\ pc[p] = "idle" /\ UNCHANGED <<cached, searches, got, fetched>>
      /\ row' \in RT!Tables
  BY ContentsAreTables DEF Change, At
<1>2. cached' \in RT!Tables /\ searches' \subseteq Searches \cup {{}}
  BY <1>1 DEF StashInv
<1>3. CASE /\ keys' = [keys EXCEPT ![p] = {k}]
           /\ Goto(p, "invalidate") /\ UNCHANGED leaked
  <2>1. pc' = [pc EXCEPT ![p] = "invalidate"] /\ "invalidate" \in Steps
        /\ leaked' \subseteq EmpNos
    BY <1>3 DEF Goto, Steps, StashInv
  <2>2. /\ keys' = [keys EXCEPT ![p] = keys'[p]] /\ keys'[p] = {k}
        /\ got' = [got EXCEPT ![p] = got'[p]] /\ got'[p] \in RT!Tables
        /\ fetched' = [fetched EXCEPT ![p] = fetched'[p]]
        /\ fetched'[p] = fetched[p] /\ fetched[p] \in RT!Tables
        /\ pc' = [pc EXCEPT ![p] = pc'[p]] /\ pc'[p] = "invalidate"
    BY <1>1, <1>3, <2>1, Same
  <2>3. /\ AsksFor("invalidate", {k}) /\ Carries("invalidate", fetched[p])
    BY <1>1, Same DEF AsksFor, Carries
  <2>4. QED
    BY <1>1, <1>2, <2>1, <2>2, <2>3, OneRequest
<1>4. CASE leaked' = leaked \cup ({k} \cap DOMAIN cached)
           /\ UNCHANGED <<pc, keys>>
  <2>1. leaked' \subseteq EmpNos
    BY <1>4 DEF StashInv
  <2>2. RT!Tables' = RT!Tables
    BY DEF RT!Tables
  <2>3. QED
    BY <1>1, <1>2, <1>4, <2>1 DEF StashInv
<1>5. QED
  BY <1>3, <1>4 DEF Change

LEMMA InvalidateKeeps ==
    ASSUME StashInv, NEW p \in Procs, Invalidate(p)
    PROVE  StashInv'
<1>1. /\ pc[p] = "invalidate" /\ UNCHANGED <<row, searches, got, fetched>>
      /\ keys' = [keys EXCEPT ![p] = {}]
      /\ pc' = [pc EXCEPT ![p] = "idle"] /\ "idle" \in Steps
  BY DEF Invalidate, At, Goto, Steps
<1>2. RT!Except(cached, keys[p]) \in RT!Tables
  BY TablesClosed DEF StashInv
<1>3. cached' \in RT!Tables /\ leaked' \subseteq EmpNos
  BY <1>2, Same DEF Invalidate, StashInv
<1>4. row' \in RT!Tables /\ searches' \subseteq Searches \cup {{}}
  BY <1>1 DEF StashInv
<1>5. /\ keys' = [keys EXCEPT ![p] = keys'[p]] /\ keys'[p] = {}
      /\ got' = [got EXCEPT ![p] = got'[p]] /\ got'[p] \in RT!Tables
      /\ fetched' = [fetched EXCEPT ![p] = fetched'[p]]
      /\ fetched'[p] = fetched[p] /\ fetched[p] \in RT!Tables
      /\ pc' = [pc EXCEPT ![p] = pc'[p]] /\ pc'[p] = "idle"
  BY <1>1, Same
<1>6. /\ AsksFor("idle", {}) /\ Carries("idle", fetched[p])
  BY <1>1, Same DEF AsksFor, Carries
<1>7. QED
  BY <1>1, <1>3, <1>4, <1>5, <1>6, OneRequest

LEMMA CreateKeeps ==
    ASSUME StashInv, NEW k \in EmpNos, Create(k)
    PROVE  StashInv'
<1>1. ASSUME NEW v \in Employee
      PROVE  RT!Over(row, [j \in {k} |-> v]) \in RT!Tables
  BY AddedIsTable DEF StashInv
<1>2. /\ row' \in RT!Tables
      /\ UNCHANGED <<cached, searches, leaked, pc, keys, got, fetched>>
  BY <1>1 DEF Create, requestVars
<1>3. QED
  BY <1>2 DEF StashInv

LEMMA EvictKeeps == ASSUME StashInv, Evict PROVE StashInv'
<1>1. UNCHANGED <<row, leaked, pc, keys, got, fetched>>
  BY DEF Evict, requestVars
<1>2. \A k : RT!Except(cached, {k}) \in RT!Tables
  BY TablesClosed DEF StashInv
<1>3. cached' \in RT!Tables /\ searches' \subseteq Searches \cup {{}}
  BY <1>2, NothingIsTable DEF Evict, StashInv
<1>4. QED
  BY <1>1, <1>3 DEF StashInv

\* Every action keeps the invariant.
LEMMA StashInvNext == StashInv /\ [Next]_vars => StashInv'
<1> SUFFICES ASSUME StashInv, [Next]_vars PROVE StashInv'
  OBVIOUS
<1>1. ASSUME NEW p \in Procs, NEW k \in EmpNos, Ask(p, {k}, "member")
      PROVE  StashInv'
  <2>1. {k} \subseteq EmpNos
    OBVIOUS
  <2>2. QED
    BY <1>1, <2>1, AskKeeps
<1>2. ASSUME NEW p \in Procs, NEW s \in Searches, Ask(p, s, "search")
      PROVE  StashInv'
  BY <1>2, AskKeeps, StashAssumption
<1>3. ASSUME NEW p \in Procs,
             LookUpSearch(p) \/ LookUp(p) \/ Hit(p) \/ Drop(p) \/ Retry(p)
      PROVE  StashInv'
  BY <1>3, LookUpSearchKeeps, LookUpKeeps, HitKeeps, DropKeeps, RetryKeeps
<1>4. ASSUME NEW p \in Procs,
             Query(p) \/ Record(p) \/ Write(p) \/ Invalidate(p) \/ Answer(p)
      PROVE  StashInv'
  BY <1>4, QueryKeeps, RecordKeeps, WriteKeeps, InvalidateKeeps, AnswerKeeps
<1>5. CASE UNCHANGED vars
  BY <1>5 DEF vars, requestVars, StashInv
<1>6. QED
  BY <1>1, <1>2, <1>3, <1>4, <1>5, ChangeKeeps, CreateKeeps, EvictKeeps
  DEF Next

\* What is in the store, and what requests hold, has its type
\* (EmployeeRead, EmployeesRead, EmployeesWrite and EmployeesDelete of
\* cache/stash.go).
THEOREM StashTypeCorrect == Spec => []StashTypeOK
<1>1. StashInv => StashTypeOK
  BY StashInvImplies
<1>2. QED
  BY <1>1, StashInvInit, StashInvNext, PTL DEF Spec

-----------------------------------------------------------------------------
(* StashCache implements ReadThrough.  pending is read off pc and keys, so *)
(* most steps are stuttering; they are those that leave it alone.          *)

Pending == [q \in Procs |-> IF pc[q] = "invalidate" THEN keys[q] ELSE {}]

LEMMA PendingChanges ==
    ASSUME StashInv, NEW p \in Procs, NEW step, pc' = [pc EXCEPT ![p] = step],
           NEW ks, keys' = [keys EXCEPT ![p] = ks]
    PROVE  Pending' = [Pending EXCEPT ![p] =
                           IF step = "invalidate" THEN ks ELSE {}]
BY DEF StashInv, Pending

LEMMA PendingStays ==
    ASSUME StashInv, NEW p \in Procs, pc[p] # "invalidate",
           NEW step, step # "invalidate", pc' = [pc EXCEPT ![p] = step],
           keys' = keys \/ \E ks : keys' = [keys EXCEPT ![p] = ks]
    PROVE  Pending' = Pending
BY DEF StashInv, Pending

LEMMA Stutters ==
    ASSUME UNCHANGED <<row, cached, fetched, leaked, Pending>>
    PROVE  UNCHANGED RT!rtVars
BY DEF RT!rtVars, Pending

LEMMA StashInitRefines == Init => RT!RTInit
<1> SUFFICES ASSUME Init PROVE RT!RTInit
  OBVIOUS
<1>1. [p \in Procs |-> IF pc[p] = "invalidate" THEN keys[p] ELSE {}]
        = [p \in Procs |-> {}]
  BY DEF Init
<1>2. QED
  BY <1>1 DEF Init, RT!RTInit, Nothing

\* Reading the store, and giving up the key of a search.
LEMMA ReadingStutters ==
    ASSUME StashInv, NEW p \in Procs,
           \/ \E asked \in SUBSET EmpNos : Ask(p, asked, "member")
           \/ \E s \in Searches : Ask(p, s, "search")
           \/ LookUpSearch(p) \/ LookUp(p) \/ Hit(p) \/ Drop(p) \/ Retry(p)
           \/ Answer(p)
    PROVE  UNCHANGED RT!rtVars
<1>1. /\ UNCHANGED <<row, cached, fetched, leaked>>
      /\ pc[p] # "invalidate"
      /\ keys' = keys \/ \E ks : keys' = [keys EXCEPT ![p] = ks]
  BY DEF Ask, LookUpSearch, LookUp, Hit, Drop, Retry, Answer, GoesAlone, At
<1>2. \E step \in Steps \ {"invalidate"} : pc' = [pc EXCEPT ![p] = step]
  <2>1. CASE \/ \E asked \in SUBSET EmpNos : Ask(p, asked, "member")
             \/ \E s \in Searches : Ask(p, s, "search")
    BY <2>1 DEF Ask, GoesAlone, Goto, Steps
  <2>2. CASE LookUpSearch(p)
    BY <2>2 DEF LookUpSearch, GoesAlone, Goto, Steps
  <2>3. CASE LookUp(p)
    BY <2>3 DEF LookUp, GoesAlone, Goto, Steps, At
  <2>4. CASE Hit(p) \/ Drop(p) \/ Retry(p) \/ Answer(p)
    BY <2>4 DEF Hit, Drop, Retry, Answer, GoesAlone, Goto, Steps
  <2>5. QED
    BY <2>1, <2>2, <2>3, <2>4
<1>3. Pending' = Pending
  BY <1>1, <1>2, PendingStays
<1>4. QED
  BY <1>1, <1>3, Stutters

\* A query is a Fetch.
LEMMA QueryFetches ==
    ASSUME StashInv, NEW p \in Procs, Query(p)
    PROVE  \E ks \in SUBSET EmpNos : RT!Fetch(p, ks)
<1>1. /\ pc[p] # "invalidate" /\ UNCHANGED <<row, cached, leaked>>
      /\ fetched' = [fetched EXCEPT ![p] = RT!Only(row, Matches(p))]
      /\ \E ks : keys' = [keys EXCEPT ![p] = ks]
  BY DEF Query, At, GoesAlone
<1>2. \E step \in {"idle", "record"} : pc' = [pc EXCEPT ![p] = step]
  BY DEF Query, GoesAlone, Goto
<1>3. Pending' = Pending
  BY <1>1, <1>2, PendingStays
<1>4. Matches(p) \in SUBSET EmpNos
  BY Same DEF Matches
<1>5. RT!Fetch(p, Matches(p))
  BY <1>1, <1>3 DEF RT!Fetch, Pending
<1>6. QED
  BY <1>4, <1>5

\* Without its criteria nothing of a search is written: it is forgotten.
LEMMA RecordRefines ==
    ASSUME StashInv, NEW p \in Procs, Record(p)
    PROVE  \/ UNCHANGED RT!rtVars
           \/ \E ks \in SUBSET EmpNos : RT!Forget(p, ks)
<1>1. /\ pc[p] # "invalidate" /\ UNCHANGED <<row, cached, leaked>>
      /\ \E ks : keys' = [keys EXCEPT ![p] = ks]
      /\ \E step \in {"idle", "write"} : pc' = [pc EXCEPT ![p] = step]
  BY DEF Record, At, Goto
<1>2. Pending' = Pending
  BY <1>1, PendingStays
<1>3. CASE UNCHANGED fetched
  BY <1>1, <1>2, <1>3, Stutters
<1>4. CASE fetched' = [fetched EXCEPT ![p] = Nothing]
  <2>1. /\ RT!Except(fetched[p], EmpNos) \in RT!Tables
        /\ DOMAIN RT!Except(fetched[p], EmpNos) = DOMAIN fetched[p] \ EmpNos
        /\ DOMAIN fetched[p] \subseteq EmpNos
    BY Same, TablesClosed, TablesElim
  <2>2. RT!Except(fetched[p], EmpNos) = Nothing
    BY <2>1, EmptyIsNothing
  <2>3. RT!Forget(p, EmpNos)
    BY <1>1, <1>2, <1>4, <2>2 DEF RT!Forget, Pending
  <2>4. QED
    BY <2>3
<1>5. QED
  BY <1>3, <1>4 DEF Record

\* An employee that is written is filled, one that cannot be is forgotten.
LEMMA WriteFills ==
    ASSUME StashInv, NEW p \in Procs, Write(p)
    PROVE  \E ks \in SUBSET EmpNos : RT!Fill(p, ks) \/ RT!Forget(p, ks)
<1>1. /\ pc[p] # "invalidate" /\ UNCHANGED <<row, keys>>
      /\ \E step \in {"idle", "write"} : pc' = [pc EXCEPT ![p] = step]
  BY DEF Write, At, Goto
<1>2. Pending' = Pending
  BY <1>1, PendingStays
<1>3. PICK k \in DOMAIN fetched[p] :
        /\ \/ /\ cached' = RT!Over(cached, RT!Only(fetched[p], {k}))
              /\ leaked' = (leaked \ {k}) \cup RT!Wrong(RT!Only(fetched[p], {k}))
           \/ UNCHANGED <<cached, leaked>>
        /\ fetched' = [fetched EXCEPT ![p] = RT!Except(fetched[p], {k})]
  BY DEF Write
<1>4. {k} \in SUBSET EmpNos /\ {k} \cap DOMAIN fetched[p] = {k}
  BY Same, TablesElim
<1>5. RT!Fill(p, {k}) \/ RT!Forget(p, {k})
  BY <1>1, <1>2, <1>3, <1>4 DEF RT!Fill, RT!Forget, Pending
<1>6. QED
  BY <1>4, <1>5

LEMMA ChangeRefines ==
    ASSUME StashInv, NEW p \in Procs, NEW k \in EmpNos, Change(p, k)
    PROVE  RT!Change(p, k) \/ RT!ChangeUnanswered(k)
<1>1. RT!Changed(k)
  BY DEF Change, Contents, RT!Changed
<1>2. CASE /\ keys' = [keys EXCEPT ![p] = {k}]
           /\ Goto(p, "invalidate") /\ UNCHANGED leaked
  <2>1. Pending' = [Pending EXCEPT ![p] = {k}]
    BY <1>2, PendingChanges DEF Goto
  <2>2. QED
    BY <1>1, <1>2, <2>1 DEF RT!Change, Pending
<1>3. CASE leaked' = leaked \cup ({k} \cap DOMAIN cached)
           /\ UNCHANGED <<pc, keys>>
  <2>1. Pending' = Pending
    BY <1>3 DEF Pending
  <2>2. QED
    BY <1>1, <1>3, <2>1 DEF RT!ChangeUnanswered, Pending
<1>4. QED
  BY <1>2, <1>3 DEF Change

\* A delete that failed unseen is an invalidation that was given up.
LEMMA InvalidateRefines ==
    ASSUME StashInv, NEW p \in Procs, Invalidate(p)
    PROVE  RT!Invalidate(p) \/ RT!Abandon(p)
<1>1. /\ pc[p] = "invalidate" /\ UNCHANGED <<row, fetched>>
      /\ keys' = [keys EXCEPT ![p] = {}] /\ pc' = [pc EXCEPT ![p] = "idle"]
  BY DEF Invalidate, At, Goto
<1>2. Pending' = [Pending EXCEPT ![p] = {}]
  BY <1>1, PendingChanges
<1>3. Pending[p] = keys[p]
  BY <1>1 DEF Pending
<1>4. CASE cached' = RT!Except(cached, keys[p]) /\ leaked' = leaked
  BY <1>1, <1>2, <1>3, <1>4 DEF RT!Invalidate, Pending
<1>5. CASE cached' = cached
           /\ leaked' = leaked \cup (keys[p] \cap DOMAIN cached)
  BY <1>1, <1>2, <1>3, <1>5 DEF RT!Abandon, Pending
<1>6. QED
  BY <1>4, <1>5 DEF Invalidate

LEMMA CreateRefines ==
    ASSUME StashInv, NEW k \in EmpNos, Create(k)
    PROVE  RT!Add(k)
<1>1. /\ UNCHANGED <<cached, fetched, leaked, pc, keys>>
      /\ RT!Changed(k)
  BY DEF Create, requestVars, RT!Changed
<1>2. k \notin DOMAIN row
  BY StashAssumption DEF Create
<1>3. Pending' = Pending
  BY <1>1 DEF Pending
<1>4. QED
  BY <1>1, <1>2, <1>3 DEF RT!Add, Pending

LEMMA EvictRefines ==
    ASSUME StashInv, Evict
    PROVE  \/ UNCHANGED RT!rtVars
           \/ \E ks \in SUBSET EmpNos : RT!Evict(ks)
<1>1. UNCHANGED <<row, fetched, leaked, Pending>>
  BY DEF Evict, requestVars, Pending
<1>2. CASE UNCHANGED cached
  BY <1>1, <1>2, Stutters
<1>3. DOMAIN cached \subseteq EmpNos
  BY TablesElim DEF StashInv
<1>4. ASSUME NEW k \in DOMAIN cached, cached' = RT!Except(cached, {k})
      PROVE  \E ks \in SUBSET EmpNos : RT!Evict(ks)
  <2>1. RT!Evict({k}) /\ {k} \in SUBSET EmpNos
    BY <1>1, <1>3, <1>4 DEF RT!Evict, Pending
  <2>2. QED
    BY <2>1
<1>5. CASE cached' = Nothing
  <2>1. /\ RT!Except(cached, EmpNos) \in RT!Tables
        /\ DOMAIN RT!Except(cached, EmpNos) = DOMAIN cached \ EmpNos
    BY TablesClosed DEF StashInv
  <2>2. RT!Except(cached, EmpNos) = Nothing
    BY <1>3, <2>1, EmptyIsNothing
  <2>3. RT!Evict(EmpNos)
    BY <1>1, <1>5, <2>2 DEF RT!Evict, Pending
  <2>4. QED
    BY <2>3
<1>6. QED
  BY <1>2, <1>4, <1>5 DEF Evict

LEMMA StashStepRefines ==
    StashInv /\ [Next]_vars => [RT!RTNext]_(RT!rtVars)
<1> SUFFICES ASSUME StashInv, [Next]_vars PROVE RT!RTNext \/ UNCHANGED RT!rtVars
  OBVIOUS
<1>1. ASSUME NEW p \in Procs,
             \/ \E k \in EmpNos : Ask(p, {k}, "member")
             \/ \E s \in Searches : Ask(p, s, "search")
             \/ LookUpSearch(p) \/ LookUp(p) \/ Hit(p) \/ Drop(p) \/ Retry(p)
             \/ Answer(p)
      PROVE  UNCHANGED RT!rtVars
  <2>1. ASSUME NEW k \in EmpNos, Ask(p, {k}, "member")
        PROVE  \E asked \in SUBSET EmpNos : Ask(p, asked, "member")
    <3>1. {k} \in SUBSET EmpNos
      OBVIOUS
    <3>2. QED
      BY <2>1, <3>1
  <2>2. QED
    BY <1>1, <2>1, ReadingStutters
<1>2. ASSUME NEW p \in Procs, Query(p) \/ Record(p) \/ Write(p)
      PROVE  RT!RTNext \/ UNCHANGED RT!rtVars
  BY <1>2, QueryFetches, RecordRefines, WriteFills DEF RT!RTNext
<1>3. ASSUME NEW p \in Procs, Invalidate(p)
      PROVE  RT!RTNext
  BY <1>3, InvalidateRefines DEF RT!RTNext
<1>4. ASSUME NEW p \in Procs, NEW k \in EmpNos, Change(p, k)
      PROVE  RT!RTNext
  BY <1>4, ChangeRefines DEF RT!RTNext
<1>5. ASSUME NEW k \in EmpNos, Create(k)
      PROVE  RT!RTNext
  BY <1>5, CreateRefines DEF RT!RTNext
<1>6. ASSUME Evict
      PROVE  RT!RTNext \/ UNCHANGED RT!rtVars
  BY <1>6, EvictRefines DEF RT!RTNext
<1>7. CASE UNCHANGED vars
  BY <1>7 DEF vars, requestVars, RT!rtVars
<1>8. QED
  BY <1>1, <1>2, <1>3, <1>4, <1>5, <1>6, <1>7 DEF Next

\* Over the stash cache the service does what ReadThrough promises: an entry
\* differs from the table only where a change is on its way, or by a known
\* leak, although EmployeesWrite and EmployeesDelete give the store one key
\* at a time and hide what failed.
THEOREM StashImplementsReadThrough == Spec => StashReadsThrough
<1>1. Spec => []StashInv
  BY StashInvInit, StashInvNext, PTL DEF Spec
<1>2. QED
  BY <1>1, StashInitRefines, StashStepRefines, PTL
  DEF Spec, StashReadsThrough, RT!RTSpec


-----------------------------------------------------------------------------
(* Where the store may be wrong.  That follows from the promise alone: it  *)
(* is shown of the steps of ReadThrough, which those of StashCache are.    *)

Covered(k) == k \in leaked \/ \E q \in Procs : k \in Pending[q]

IsCovered == \A k \in RT!Wrong(cached) : Covered(k)

LEMMA CoveredIsTheProperty ==
    ASSUME StashInv
    PROVE  IsCovered <=> StoreWrongOnlyIfPendingOrLeaked
<1>1. ASSUME NEW q \in Procs, NEW k
      PROVE  k \in Pending[q] <=> Invalidates(q, k)
  BY DEF Pending, Invalidates, At
<1>2. QED
  BY <1>1 DEF IsCovered, Covered, StoreWrongOnlyIfPendingOrLeaked

LEMMA WrongOfExcept ==
    ASSUME NEW m, NEW ks
    PROVE  RT!Wrong(RT!Except(m, ks)) = RT!Wrong(m) \ ks
BY DEF RT!Wrong, RT!Except

LEMMA WrongOfOver ==
    ASSUME NEW m, NEW n
    PROVE  RT!Wrong(RT!Over(m, n)) \subseteq
               (RT!Wrong(m) \ DOMAIN n) \cup RT!Wrong(n)
BY DEF RT!Wrong, RT!Over

\* Only employee k is given other contents, so only the entry of k can turn
\* wrong; and it was wrong already where k is not in the table.
LEMMA WrongAfterChange ==
    ASSUME StashInv, NEW k \in EmpNos, RT!Changed(k)
    PROVE  RT!Wrong(cached)' \subseteq
               RT!Wrong(cached) \cup ({k} \cap DOMAIN cached)
<1>1. cached' = cached
  BY DEF RT!Changed
<1>2. \/ \E v \in Employee : row' = RT!Over(row, [j \in {k} |-> v])
      \/ row' = RT!Except(row, {k})
      \/ row' = row
  BY DEF RT!Changed
<1>3. ASSUME NEW j, j # k
      PROVE  /\ j \in DOMAIN row' <=> j \in DOMAIN row
             /\ j \in DOMAIN row => row'[j] = row[j]
  BY <1>2, <1>3 DEF RT!Over, RT!Except
<1>4. QED
  BY <1>1, <1>3 DEF RT!Wrong

\* Where the table stays, and nothing is taken back, what was covered is.
LEMMA CoverStays ==
    ASSUME IsCovered, UNCHANGED row, RT!Wrong(cached') \subseteq RT!Wrong(cached),
           leaked \subseteq leaked', Pending' = Pending
    PROVE  IsCovered'
<1>1. RT!Wrong(cached)' = RT!Wrong(cached')
  BY DEF RT!Wrong
<1>2. QED
  BY <1>1 DEF IsCovered, Covered

LEMMA ReadingKeepsCover ==
    ASSUME StashInv, IsCovered, NEW p \in Procs, NEW ks \in SUBSET EmpNos,
           RT!Fetch(p, ks) \/ RT!Forget(p, ks)
    PROVE  IsCovered'
<1>1. UNCHANGED <<row, cached, leaked>> /\ Pending' = Pending
  BY DEF RT!Fetch, RT!Forget, Pending
<1>2. RT!Wrong(cached') \subseteq RT!Wrong(cached)
  BY <1>1
<1>3. QED
  BY <1>1, <1>2, CoverStays

\* What is filled in is right, or counted as leaked; the rest is as before.
LEMMA FillKeepsCover ==
    ASSUME StashInv, IsCovered, NEW p \in Procs, NEW ks \in SUBSET EmpNos,
           RT!Fill(p, ks)
    PROVE  IsCovered'
<1> DEFINE new == RT!Only(fetched[p], ks)
<1>1. /\ cached' = RT!Over(cached, new)
      /\ leaked' = (leaked \ (ks \cap DOMAIN fetched[p])) \cup RT!Wrong(new)
      /\ UNCHANGED row /\ Pending' = Pending
  BY DEF RT!Fill, Pending
<1>2. DOMAIN new = ks \cap DOMAIN fetched[p]
  BY DEF RT!Only
<1> HIDE DEF new
<1>3. RT!Wrong(cached)' = RT!Wrong(cached')
  BY <1>1 DEF RT!Wrong
<1>4. ASSUME NEW k \in RT!Wrong(cached')
      PROVE  Covered(k)'
  <2>1. CASE k \in RT!Wrong(new)
    BY <1>1, <2>1 DEF Covered
  <2>2. CASE k \in RT!Wrong(cached) \ DOMAIN new
    <3>1. Covered(k)
      BY <2>2 DEF IsCovered
    <3>2. QED
      BY <1>1, <1>2, <2>2, <3>1 DEF Covered
  <2>3. QED
    BY <1>1, <1>4, <2>1, <2>2, WrongOfOver
<1>5. QED
  BY <1>3, <1>4 DEF IsCovered

\* The entry of what is changed is covered by the change.
LEMMA ChangeKeepsCover ==
    ASSUME StashInv, IsCovered, NEW k \in EmpNos,
           \/ \E p \in Procs : RT!Change(p, k) /\ Pending[p] = {}
           \/ RT!ChangeUnanswered(k)
           \/ RT!Add(k)
    PROVE  IsCovered'
<1>1. RT!Changed(k)
  BY DEF RT!Change, RT!ChangeUnanswered, RT!Add
<1>2. \A j : Covered(j) => Covered(j)'
  <2>1. CASE \E p \in Procs : RT!Change(p, k) /\ Pending[p] = {}
    <3>1. PICK p \in Procs : RT!Change(p, k) /\ Pending[p] = {}
      BY <2>1
    <3>2. leaked' = leaked /\ Pending' = [Pending EXCEPT ![p] = {k}]
      BY <3>1 DEF RT!Change, Pending
    <3>3. \A q \in Procs : Pending[q] \subseteq Pending'[q]
      BY <3>1, <3>2 DEF Pending
    <3>4. QED
      BY <3>2, <3>3 DEF Covered
  <2>2. CASE RT!ChangeUnanswered(k) \/ RT!Add(k)
    BY <2>2 DEF RT!ChangeUnanswered, RT!Add, Covered, Pending
  <2>3. QED
    BY <2>1, <2>2
<1>3. k \in DOMAIN cached => Covered(k)'
  <2>1. CASE \E p \in Procs : RT!Change(p, k)
    <3>1. PICK p \in Procs : RT!Change(p, k)
      BY <2>1
    <3>2. Pending' = [Pending EXCEPT ![p] = {k}]
      BY <3>1 DEF RT!Change, Pending
    <3>3. k \in Pending'[p]
      BY <3>2 DEF Pending
    <3>4. QED
      BY <3>3 DEF Covered
  <2>2. CASE RT!ChangeUnanswered(k)
    BY <2>2 DEF RT!ChangeUnanswered, Covered
  <2>3. CASE RT!Add(k)
    <3>1. k \notin DOMAIN row
      BY <2>3 DEF RT!Add
    <3>2. k \in DOMAIN cached => k \in RT!Wrong(cached)
      BY <3>1 DEF RT!Wrong
    <3>3. QED
      BY <1>2, <3>2 DEF IsCovered
  <2>4. QED
    BY <2>1, <2>2, <2>3
<1>4. ASSUME NEW j \in RT!Wrong(cached)'
      PROVE  Covered(j)'
  BY <1>1, <1>2, <1>3, <1>4, WrongAfterChange DEF IsCovered
<1>5. QED
  BY <1>4 DEF IsCovered

\* What is no longer pending is no longer in the store, or is leaked.
LEMMA EndKeepsCover ==
    ASSUME StashInv, IsCovered, NEW p \in Procs,
           RT!Invalidate(p) \/ RT!Abandon(p)
    PROVE  IsCovered'
<1>1. /\ UNCHANGED row /\ Pending' = [Pending EXCEPT ![p] = {}]
      /\ \/ cached' = RT!Except(cached, Pending[p]) /\ leaked' = leaked
         \/ /\ cached' = cached
            /\ leaked' = leaked \cup (Pending[p] \cap DOMAIN cached)
  BY DEF RT!Invalidate, RT!Abandon, Pending
<1>2. \A q \in Procs \ {p} : Pending'[q] = Pending[q]
  BY <1>1 DEF Pending
<1>3. RT!Wrong(cached)' = RT!Wrong(cached')
  BY <1>1 DEF RT!Wrong
<1>4. RT!Wrong(cached) \subseteq DOMAIN cached
  BY WrongInDomain
<1>5. ASSUME NEW k \in RT!Wrong(cached')
      PROVE  Covered(k)'
  <2>1. k \in RT!Wrong(cached) /\ (k \in Pending[p] => k \in leaked')
    BY <1>1, <1>4, <1>5, WrongOfExcept
  <2>2. leaked \subseteq leaked'
    BY <1>1
  <2>3. k \in leaked \/ \E q \in Procs : k \in Pending[q]
    BY <2>1 DEF IsCovered, Covered
  <2>4. QED
    BY <1>2, <2>1, <2>2, <2>3 DEF Covered
<1>6. QED
  BY <1>3, <1>5 DEF IsCovered


LEMMA IsCoveredInit == Init => IsCovered
<1>1. \A m : DOMAIN m = {} => RT!Wrong(m) = {}
  BY DEF RT!Wrong
<1>2. Init => cached = Nothing
  BY DEF Init
<1>3. QED
  BY <1>1, <1>2, NothingIsTable DEF IsCovered

LEMMA IsCoveredNext == StashInv /\ IsCovered /\ [Next]_vars => IsCovered'
<1> SUFFICES ASSUME StashInv, IsCovered, [Next]_vars PROVE IsCovered'
  OBVIOUS
<1>1. ASSUME UNCHANGED RT!rtVars
      PROVE  IsCovered'
  BY <1>1, CoverStays DEF RT!rtVars, Pending
<1>2. ASSUME NEW p \in Procs,
             \/ \E asked \in SUBSET EmpNos : Ask(p, asked, "member")
             \/ \E s \in Searches : Ask(p, s, "search")
             \/ LookUpSearch(p) \/ LookUp(p) \/ Hit(p) \/ Drop(p) \/ Retry(p)
             \/ Answer(p)
      PROVE  IsCovered'
  BY <1>1, <1>2, ReadingStutters
<1>3. ASSUME NEW p \in Procs, Query(p) \/ Record(p) \/ Write(p)
      PROVE  IsCovered'
  BY <1>1, <1>3, QueryFetches, RecordRefines, WriteFills,
     ReadingKeepsCover, FillKeepsCover
<1>4. ASSUME NEW p \in Procs, Invalidate(p)
      PROVE  IsCovered'
  BY <1>4, InvalidateRefines, EndKeepsCover
<1>5. ASSUME NEW p \in Procs, NEW k \in EmpNos, Change(p, k)
      PROVE  IsCovered'
  <2>1. Pending[p] = {}
    BY <1>5 DEF Change, At, Pending
  <2>2. QED
    BY <1>5, <2>1, ChangeRefines, ChangeKeepsCover
<1>6. ASSUME NEW k \in EmpNos, Create(k)
      PROVE  IsCovered'
  BY <1>6, CreateRefines, ChangeKeepsCover
<1>7. ASSUME Evict
      PROVE  IsCovered'
  <2>1. CASE \E ks \in SUBSET EmpNos : RT!Evict(ks)
    <3>1. PICK ks \in SUBSET EmpNos : RT!Evict(ks)
      BY <2>1
    <3>2. /\ UNCHANGED <<row, leaked>> /\ Pending' = Pending
          /\ cached' = RT!Except(cached, ks)
      BY <3>1 DEF RT!Evict, Pending
    <3>3. QED
      BY <3>2, WrongOfExcept, CoverStays
  <2>2. QED
    BY <1>1, <1>7, <2>1, EvictRefines
<1>8. CASE UNCHANGED vars
  BY <1>1, <1>8 DEF vars, requestVars, RT!rtVars
<1>9. ASSUME NEW p \in Procs, NEW k \in EmpNos, Ask(p, {k}, "member")
      PROVE  IsCovered'
  <2>1. {k} \in SUBSET EmpNos
    OBVIOUS
  <2>2. QED
    BY <1>2, <1>9, <2>1
<1>10. QED
  BY <1>2, <1>3, <1>4, <1>5, <1>6, <1>7, <1>8, <1>9 DEF Next

\* The store differs from the table only where a change has yet to be
\* deleted from it, or by a known leak, however the calls of requests
\* alternate, fail unseen or evict (EmployeesWrite and EmployeesDelete of
\* cache/stash.go under EmployeeUpdate, EmployeeDelete and EmployeeCreate).
THEOREM StoreWrongOnlyWhereExpected == Spec => []StoreWrongOnlyIfPendingOrLeaked
<1>1. Init => StashInv /\ IsCovered
  BY StashInvInit, IsCoveredInit
<1>2. (StashInv /\ IsCovered) /\ [Next]_vars => (StashInv /\ IsCovered)'
  BY StashInvNext, IsCoveredNext
<1>3. StashInv /\ IsCovered => StoreWrongOnlyIfPendingOrLeaked
  BY CoveredIsTheProperty
<1>4. QED
  BY <1>1, <1>2, <1>3, PTL DEF Spec
=============================================================================
