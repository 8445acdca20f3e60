-------------------------- MODULE RedisCache_proofs --------------------------
(***************************************************************************)
(* Proofs about RedisCache: its types, what its mutexes exclude, and that  *)
(* a pruner deletes nothing it has not scanned.                            *)
(***************************************************************************)
EXTENDS RedisCache, TLAPS

-----------------------------------------------------------------------------
(* Types, with the operation a worker may be executing at each step        *)

Locking == {"read", "search", "write", "delete", "absent"} \cup PrunerOps

Placed(step, op) ==
    /\ step = "idle" <=> op = "none"
    /\ step \in {"get", "flag"} => op \in {"read", "search"}
    /\ step \in {"set", "unflag"} => op = "write"
    /\ step \in {"delete", "deleteAgain"} => op = "delete"
    /\ step = "record" => op = "absent"
    /\ step \in {"scan", "prune"} => op \in PrunerOps
    /\ step \in {"lock", "unlock"} => op \in Locking
    /\ step \in ClearSteps => op = "clear"

ControlInv ==
    /\ RedisTypeOK
    /\ \A w \in Workers : Placed(pc[w], call[w].op)

CallSet == [op     : ClientOps \cup PrunerOps \cup {"none"},
            search : SUBSET Searches,
            empNos : SUBSET EmpNos]

LEMMA CallsType ==
    ASSUME NEW o \in ClientOps, NEW c \in Calls(o)
    PROVE  c \in CallSet /\ c.op = o
BY DEF Calls, CallSet, ClientOps, Keys

LEMMA GotoKeepsControl ==
    ASSUME ControlInv,
           NEW w \in Workers, NEW step \in Steps, NEW fields \in SUBSET Fields,
           Goto(w, step, fields),
           Placed(step, call[w].op)
    PROVE  /\ call' \in [Workers -> CallSet]
           /\ pc' \in [Workers -> Steps]
           /\ todo' \in [Workers -> SUBSET Fields]
           /\ lost' \in SUBSET Mutexes
           /\ \A v \in Workers : Placed(pc[v], call[v].op)'
BY DEF Goto, ControlInv, RedisTypeOK, CallSet

LEMMA LeaveKeepsControl ==
    ASSUME ControlInv, NEW S \in SUBSET Workers, Leave(S)
    PROVE  /\ call' \in [Workers -> CallSet]
           /\ pc' \in [Workers -> Steps]
           /\ todo' \in [Workers -> SUBSET Fields]
           /\ lost' \in SUBSET Mutexes
           /\ \A v \in Workers : Placed(pc[v], call[v].op)'
<1>1. NoCall \in CallSet /\ Placed("idle", NoCall.op) /\ "idle" \in Steps
  BY DEF NoCall, CallSet, Placed, Steps, Critical, ClearSteps
<1>2. /\ call' \in [Workers -> CallSet]
      /\ pc' \in [Workers -> Steps]
      /\ todo' \in [Workers -> SUBSET Fields]
  BY <1>1 DEF Leave, ControlInv, RedisTypeOK, CallSet
<1>3. \A v \in Workers : Placed(pc[v], call[v].op)'
  BY <1>1 DEF Leave, ControlInv
<1>4. lost' \in SUBSET Mutexes
  BY DEF Leave, StillHeld, ControlInv, RedisTypeOK
<1>. QED
  BY <1>2, <1>3, <1>4

\* The steps outside the mutex.
LEMMA OpenCommandsKeepControl ==
    ASSUME ControlInv, NEW w \in Workers,
           Get(w) \/ SetEmployee(w) \/ SetSearch(w) \/ Delete(w)
    PROVE  ControlInv'
<1>. DEFINE Moved == /\ call' \in [Workers -> CallSet]
                     /\ pc' \in [Workers -> Steps]
                     /\ todo' \in [Workers -> SUBSET Fields]
                     /\ lost' \in SUBSET Mutexes
                     /\ \A v \in Workers : Placed(pc[v], call[v].op)'
<1>. USE DEF ControlInv
<1>1. ASSUME LockOrReturn(w), call[w].op \in Locking
      PROVE  Moved
  <2>1. {w} \in SUBSET Workers /\ "lock" \in Steps /\ {} \in SUBSET Fields
    BY DEF Steps
  <2>2. Placed("lock", call[w].op)
    BY <1>1 DEF Placed, Locking, ClearSteps, PrunerOps
  <2>3. CASE Goto(w, "lock", {})
    BY <2>1, <2>2, <2>3, GotoKeepsControl
  <2>4. CASE Return(w)
    BY <2>1, <2>4, LeaveKeepsControl DEF Return
  <2>. QED
    BY <1>1, <2>3, <2>4 DEF LockOrReturn
<1>2. Placed(pc[w], call[w].op)
  BY DEF ControlInv
<1>3. CASE Get(w)
  <2>1. call[w].op \in Locking
    BY <1>2, <1>3 DEF Get, Placed, Locking
  <2>2. Return(w) => Moved
    BY LeaveKeepsControl DEF Return
  <2>3. Moved
    BY <1>1, <1>3, <2>1, <2>2 DEF Get
  <2>. QED
    BY <1>3, <2>3 DEF Get, hashes, RedisTypeOK, CallSet
<1>4. CASE SetEmployee(w)
  <2>1. PICK k \in todo[w] \cap EmpNos :
            employees' = employees \cup {k} /\ Goto(w, "set", todo[w] \ {k})
    BY <1>4 DEF SetEmployee
  <2>2. Placed("set", call[w].op) /\ "set" \in Steps
    BY <1>2, <1>4 DEF SetEmployee, Steps
  <2>3. todo[w] \ {k} \in SUBSET Fields
    BY DEF RedisTypeOK
  <2>4. Moved
    BY <2>1, <2>2, <2>3, GotoKeepsControl
  <2>. QED
    BY <1>4, <2>1, <2>4 DEF SetEmployee, RedisTypeOK, CallSet
<1>5. CASE SetSearch(w)
  <2>1. call[w].op \in Locking
    BY <1>2, <1>5 DEF SetSearch, Placed, Locking
  <2>2. Moved
    BY <1>1, <1>5, <2>1 DEF SetSearch
  <2>3. call[w].search \in SUBSET Searches /\ call[w].empNos \in SUBSET EmpNos
    BY DEF RedisTypeOK
  <2>4. PICK S \in SUBSET Searches : searches \in [S -> SUBSET EmpNos]
    BY DEF RedisTypeOK
  <2>5. searches' \in [S \cup call[w].search -> SUBSET EmpNos]
    BY <1>5, <2>3, <2>4 DEF SetSearch
  <2>6. searches' \in UNION { [T -> SUBSET EmpNos] : T \in SUBSET Searches }
    BY <2>3, <2>4, <2>5
  <2>. QED
    BY <1>5, <2>2, <2>6 DEF SetSearch, RedisTypeOK, CallSet
<1>6. CASE Delete(w)
  <2>1. call[w].op \in Locking
    BY <1>2, <1>6 DEF Delete, Placed, Locking
  <2>2. Moved
    BY <1>1, <1>6, <2>1 DEF Delete
  <2>. QED
    BY <1>6, <2>2 DEF Delete, RedisTypeOK, CallSet
<1>. QED
  BY <1>3, <1>4, <1>5, <1>6

\* The steps that take, give back and clear a mutex.
LEMMA MutexStepsKeepControl ==
    ASSUME ControlInv, NEW w \in Workers,
           \/ ClearHash(w) \/ ClearMutex(w) \/ TryLock(w) \/ Unlock(w)
           \/ Panic(w) \/ LockAnswerLost(w)
    PROVE  ControlInv'
<1>. USE DEF ControlInv
<1>1. /\ Expiration \in 0..Expiration /\ 0 \in 0..Expiration
      /\ \A o : MutexOf(o) \in Mutexes
  BY ExpirationAssumption DEF MutexOf, Mutexes
<1>2. Placed(pc[w], call[w].op)
  OBVIOUS
<1>3. call[w].search \cup call[w].empNos \in SUBSET Fields
  BY DEF RedisTypeOK, Fields
<1>4. ClearSteps \subseteq Steps /\ {} \in SUBSET Fields
  BY DEF Steps
<1>5. ASSUME pc[w] \in ClearSteps, NEW step \in ClearSteps
      PROVE  Placed(step, call[w].op)
  BY <1>2, <1>5 DEF Placed, ClearSteps
<1>6. CASE ClearHash(w)
  <2>1. pc[w] \in ClearSteps
    BY <1>6 DEF ClearHash, ClearSteps
  <2>2. PICK step \in ClearSteps : Goto(w, step, {})
    BY <1>6 DEF ClearHash, ClearSteps
  <2>3. /\ call' \in [Workers -> CallSet]
        /\ pc' \in [Workers -> Steps]
        /\ todo' \in [Workers -> SUBSET Fields]
        /\ lost' \in SUBSET Mutexes
        /\ \A v \in Workers : Placed(pc[v], call[v].op)'
    BY <1>4, <1>5, <2>1, <2>2, GotoKeepsControl
  <2>4. \/ employees' = {} /\ UNCHANGED <<searches, flags, absences, mutex>>
        \/ searches' = [s \in {} |-> {}] /\ UNCHANGED <<employees, flags, absences, mutex>>
        \/ flags' = {} /\ UNCHANGED <<employees, searches, absences, mutex>>
        \/ absences' = {} /\ UNCHANGED <<employees, searches, flags, mutex>>
    BY <1>6 DEF ClearHash
  <2>5. [s \in {} |-> {}] \in UNION { [S -> SUBSET EmpNos] : S \in SUBSET Searches }
    <3>1. [s \in {} |-> {}] \in [{} -> SUBSET EmpNos] /\ {} \in SUBSET Searches
      OBVIOUS
    <3>. QED
      BY <3>1
  <2>. QED
    BY <2>3, <2>4, <2>5 DEF RedisTypeOK, CallSet
<1>7. CASE ClearMutex(w)
  <2>1. mutex' \in [Mutexes -> 0..Expiration]
    BY <1>1, <1>7 DEF ClearMutex, RedisTypeOK
  <2>2. lost' \in SUBSET Mutexes
    BY <1>7 DEF ClearMutex, StillHeld, RedisTypeOK, Mutexes
  <2>3. NoCall \in CallSet /\ Placed("idle", NoCall.op) /\ "idle" \in Steps
    BY DEF NoCall, CallSet, Placed, Steps, Critical, ClearSteps
  <2>4. CASE pc[w] = "clearFlagsMutex"
    <3>1. "clearAbsences" \in ClearSteps /\ pc[w] \in ClearSteps
      BY <2>4 DEF ClearSteps
    <3>2. pc' = [pc EXCEPT ![w] = "clearAbsences"] /\ UNCHANGED <<call, todo, hashes>>
      BY <1>7, <2>4 DEF ClearMutex
    <3>3. \A v \in Workers : Placed(pc[v], call[v].op)'
      BY <1>5, <3>1, <3>2 DEF RedisTypeOK
    <3>. QED
      BY <1>4, <2>1, <2>2, <3>1, <3>2, <3>3 DEF RedisTypeOK, hashes
  <2>5. CASE pc[w] = "clearAbsencesMutex"
    <3>1. /\ pc' = [pc EXCEPT ![w] = "idle"]
          /\ call' = [call EXCEPT ![w] = NoCall]
          /\ UNCHANGED <<todo, hashes>>
      BY <1>7, <2>5 DEF ClearMutex
    <3>2. \A v \in Workers : Placed(pc[v], call[v].op)'
      BY <2>3, <3>1 DEF RedisTypeOK
    <3>. QED
      BY <2>1, <2>2, <2>3, <3>1, <3>2 DEF RedisTypeOK, hashes, CallSet
  <2>. QED
    BY <1>7, <2>4, <2>5 DEF ClearMutex
<1>8. CASE TryLock(w)
  <2>1. call[w].op \in Locking /\ Enter(w)
    BY <1>2, <1>8 DEF TryLock, Placed
  <2>2. /\ FirstCritical(call[w].op) \in Steps
        /\ Placed(FirstCritical(call[w].op), call[w].op)
    <3>1. CASE call[w].op \in {"read", "search"}
      BY <3>1 DEF FirstCritical, Placed, Steps, Critical, ClearSteps, PrunerOps, Locking
    <3>2. CASE call[w].op = "write"
      BY <3>2 DEF FirstCritical, Placed, Steps, Critical, ClearSteps, PrunerOps, Locking
    <3>3. CASE call[w].op = "delete"
      BY <3>3 DEF FirstCritical, Placed, Steps, Critical, ClearSteps, PrunerOps, Locking
    <3>4. CASE call[w].op = "absent"
      BY <3>4 DEF FirstCritical, Placed, Steps, Critical, ClearSteps, PrunerOps, Locking
    <3>5. CASE call[w].op \in PrunerOps
      BY <3>5 DEF FirstCritical, Placed, Steps, Critical, ClearSteps, PrunerOps, Locking
    <3>. QED
      BY <2>1, <3>1, <3>2, <3>3, <3>4, <3>5 DEF Locking
  <2>3. PICK fields \in SUBSET Fields : Goto(w, FirstCritical(call[w].op), fields)
    BY <1>3, <2>1 DEF Enter
  <2>4. /\ call' \in [Workers -> CallSet]
        /\ pc' \in [Workers -> Steps]
        /\ todo' \in [Workers -> SUBSET Fields]
        /\ lost' \in SUBSET Mutexes
        /\ \A v \in Workers : Placed(pc[v], call[v].op)'
    BY <2>2, <2>3, GotoKeepsControl
  <2>. QED
    BY <1>1, <1>8, <2>4 DEF TryLock, RedisTypeOK, CallSet, hashes
<1>9. CASE Unlock(w)
  <2>1. Leave({w}) /\ {w} \in SUBSET Workers
    BY <1>9 DEF Unlock, Return
  <2>. QED
    BY <1>1, <1>9, <2>1, LeaveKeepsControl DEF Unlock, RedisTypeOK, CallSet, hashes
<1>10. CASE Panic(w)
  <2>1. PICK process \in SUBSET Workers : Leave(process)
    BY <1>10 DEF Panic
  <2>. QED
    BY <1>10, <2>1, LeaveKeepsControl DEF Panic, RedisTypeOK, CallSet, hashes
<1>11. CASE LockAnswerLost(w)
  BY <1>1, <1>11 DEF LockAnswerLost, RedisTypeOK, hashes
<1>. QED
  BY <1>6, <1>7, <1>8, <1>9, <1>10, <1>11

\* The commands under the mutex, and one that fails.
LEMMA CriticalStepsKeepControl ==
    ASSUME ControlInv, NEW w \in Workers,
           \/ Flag(w) \/ Unflag(w) \/ DeleteAgain(w) \/ Record(w)
           \/ Scan(w) \/ Prune(w) \/ CommandFails(w)
    PROVE  ControlInv'
<1>. USE DEF ControlInv
<1>1. /\ Placed(pc[w], call[w].op)
      /\ {} \in SUBSET Fields /\ "unlock" \in Steps
  BY DEF Steps, Critical
<1>2. ASSUME NEW fields \in SUBSET Fields, NEW step \in {"unlock", "record", "prune"},
             Goto(w, step, fields), Placed(step, call[w].op)
      PROVE  /\ call' \in [Workers -> CallSet]
             /\ pc' \in [Workers -> Steps]
             /\ todo' \in [Workers -> SUBSET Fields]
             /\ lost' \in SUBSET Mutexes
             /\ \A v \in Workers : Placed(pc[v], call[v].op)'
  <2>1. step \in Steps
    BY DEF Steps, Critical
  <2>. QED
    BY <1>2, <2>1, GotoKeepsControl
<1>3. pc[w] \in Critical => Placed("unlock", call[w].op)
  BY <1>1 DEF Placed, Critical, Locking, PrunerOps, ClearSteps
<1>4. /\ pc[w] \in {"flag", "record"} =>
             /\ call[w].search \cup call[w].empNos \in SUBSET Fields
             /\ Placed("unlock", call[w].op)
      /\ pc[w] \in {"unflag", "deleteAgain", "scan", "prune"} =>
             Placed("unlock", call[w].op)
  BY <1>3 DEF Critical, RedisTypeOK, Fields
<1>5. CASE Flag(w)
  BY <1>1, <1>2, <1>4, <1>5 DEF Flag, RedisTypeOK, CallSet
<1>6. CASE Unflag(w)
  BY <1>1, <1>2, <1>4, <1>6 DEF Unflag, RedisTypeOK, CallSet
<1>7. CASE DeleteAgain(w)
  BY <1>1, <1>2, <1>4, <1>7 DEF DeleteAgain, RedisTypeOK, CallSet
<1>8. CASE Record(w)
  <2>1. PICK f \in todo[w] :
            /\ absences' = absences \cup {f}
            /\ Goto(w, IF todo[w] = {f} THEN "unlock" ELSE "record", todo[w] \ {f})
    BY <1>8 DEF Record
  <2>2. todo[w] \ {f} \in SUBSET Fields /\ f \in Fields
    BY DEF RedisTypeOK
  <2>3. Placed("unlock", call[w].op) /\ Placed("record", call[w].op)
    BY <1>1, <1>4, <1>8 DEF Record
  <2>. QED
    BY <1>2, <1>8, <2>1, <2>2, <2>3 DEF Record, RedisTypeOK, CallSet
<1>9. CASE Scan(w)
  <2>1. Pruned(call[w].op) \in SUBSET Fields
    BY DEF Pruned, RedisTypeOK
  <2>2. Placed("unlock", call[w].op) /\ Placed("prune", call[w].op)
    BY <1>1, <1>4, <1>9 DEF Scan, Placed, ClearSteps
  <2>. QED
    BY <1>2, <1>9, <2>1, <2>2 DEF Scan, RedisTypeOK, CallSet, hashes
<1>10. CASE Prune(w)
  <2>1. flags' \in SUBSET Fields /\ absences' \in SUBSET Fields
    BY <1>10 DEF Prune, RedisTypeOK
  <2>. QED
    BY <1>1, <1>2, <1>4, <1>10, <2>1 DEF Prune, RedisTypeOK, CallSet
<1>11. CASE CommandFails(w)
  <2>1. CASE Return(w)
    BY <1>11, <2>1, LeaveKeepsControl
       DEF CommandFails, Return, RedisTypeOK, CallSet, hashes
  <2>2. CASE pc[w] \in Critical /\ Goto(w, "unlock", {})
    BY <1>1, <1>2, <1>3, <1>11, <2>2 DEF CommandFails, RedisTypeOK, CallSet, hashes
  <2>. QED
    BY <1>11, <2>1, <2>2 DEF CommandFails
<1>. QED
  BY <1>5, <1>6, <1>7, <1>8, <1>9, <1>10, <1>11

LEMMA OthersKeepControl ==
    ASSUME ControlInv,
           \/ \E w \in Workers : Start(w) \/ StartPruning(w)
           \/ Stop \/ HashExpires \/ Elapse
    PROVE  ControlInv'
<1>. USE DEF ControlInv
<1>1. CASE \E w \in Workers : Start(w)
  <2>. PICK w \in Workers : Start(w)
    BY <1>1
  <2>. PICK o \in Ops : \E c \in Calls(o) :
            /\ pc[w] = "idle"
            /\ call' = [call EXCEPT ![w] = c]
            /\ pc' = [pc EXCEPT ![w] = FirstStep(o)]
            /\ todo' = [todo EXCEPT ![w] =
                            IF o = "write" THEN c.search \cup c.empNos ELSE {}]
            /\ UNCHANGED <<hashes, mutex, lost>>
    BY DEF Start
  <2>1. PICK c \in Calls(o) :
            /\ pc[w] = "idle"
            /\ call' = [call EXCEPT ![w] = c]
            /\ pc' = [pc EXCEPT ![w] = FirstStep(o)]
            /\ todo' = [todo EXCEPT ![w] =
                            IF o = "write" THEN c.search \cup c.empNos ELSE {}]
            /\ UNCHANGED <<hashes, mutex, lost>>
    OBVIOUS
  <2>2. o \in ClientOps /\ c \in CallSet /\ c.op = o
    BY CallsType, ClientOpsAssumption
  <2>3. FirstStep(o) \in Steps /\ Placed(FirstStep(o), o)
    BY <2>2 DEF FirstStep, Steps, Placed, ClientOps, Locking, PrunerOps,
                Critical, ClearSteps
  <2>4. c.search \cup c.empNos \in SUBSET Fields
    BY <2>2 DEF CallSet, Fields
  <2>5. \A v \in Workers : Placed(pc[v], call[v].op)'
    BY <2>1, <2>2, <2>3 DEF RedisTypeOK
  <2>. QED
    BY <2>1, <2>2, <2>3, <2>4, <2>5 DEF RedisTypeOK, CallSet, hashes
<1>2. CASE \E w \in Workers : StartPruning(w)
  <2>1. PICK w \in Workers, o \in PrunerOps :
            /\ call' = [call EXCEPT ![w].op = o]
            /\ pc' = [pc EXCEPT ![w] = "lock"]
            /\ UNCHANGED <<hashes, mutex, lost, todo>>
    BY <1>2 DEF StartPruning, PrunerOps
  <2>2. "lock" \in Steps /\ Placed("lock", o)
    BY DEF Steps, Placed, Locking, PrunerOps, ClearSteps
  <2>3. call' \in [Workers -> CallSet] /\ call'[w].op = o
    BY <2>1 DEF RedisTypeOK, CallSet
  <2>4. \A v \in Workers : Placed(pc[v], call[v].op)'
    BY <2>1, <2>2, <2>3 DEF RedisTypeOK
  <2>. QED
    BY <2>1, <2>2, <2>3, <2>4 DEF RedisTypeOK, CallSet, hashes
<1>3. CASE Stop
  <2>1. PICK process \in SUBSET Workers : Leave(process)
    BY <1>3 DEF Stop
  <2>. QED
    BY <1>3, <2>1, LeaveKeepsControl DEF Stop, RedisTypeOK, CallSet, hashes
<1>4. CASE HashExpires
  <2>1. [s \in {} |-> {}] \in UNION { [S -> SUBSET EmpNos] : S \in SUBSET Searches }
    <3>1. [s \in {} |-> {}] \in [{} -> SUBSET EmpNos] /\ {} \in SUBSET Searches
      OBVIOUS
    <3>. QED
      BY <3>1
  <2>. QED
    BY <1>4, <2>1 DEF HashExpires, RedisTypeOK
<1>5. CASE Elapse
  <2>1. \A m \in Mutexes :
            (IF mutex[m] > 0 THEN mutex[m] - 1 ELSE 0) \in 0..Expiration
    BY ExpirationAssumption DEF RedisTypeOK
  <2>2. mutex' \in [Mutexes -> 0..Expiration] /\ lost' \in SUBSET Mutexes
    BY <1>5, <2>1 DEF Elapse, RedisTypeOK
  <2>. QED
    BY <1>5, <2>2 DEF Elapse, RedisTypeOK, hashes
<1>. QED
  BY <1>1, <1>2, <1>3, <1>4, <1>5

LEMMA ControlStep ==
    ASSUME ControlInv, [Next]_vars
    PROVE  ControlInv'
<1>1. CASE UNCHANGED vars
  BY <1>1 DEF vars, hashes, ControlInv, RedisTypeOK
<1>2. CASE Next
  BY <1>2, OpenCommandsKeepControl, MutexStepsKeepControl,
     CriticalStepsKeepControl, OthersKeepControl DEF Next, Command
<1>. QED
  BY <1>1, <1>2

LEMMA ControlInit ==
    ASSUME Init
    PROVE  ControlInv
<1>1. [s \in {} |-> {}] \in UNION { [S -> SUBSET EmpNos] : S \in SUBSET Searches }
  <2>1. [s \in {} |-> {}] \in [{} -> SUBSET EmpNos] /\ {} \in SUBSET Searches
    OBVIOUS
  <2>. QED
    BY <2>1
<1>2. NoCall \in CallSet /\ Placed("idle", NoCall.op) /\ "idle" \in Steps
  BY DEF NoCall, CallSet, Placed, Steps, Critical, ClearSteps
<1>3. 0 \in 0..Expiration
  BY ExpirationAssumption
<1>4. call \in [Workers -> CallSet] /\ pc \in [Workers -> Steps]
  BY <1>2 DEF Init
<1>5. \A w \in Workers : Placed(pc[w], call[w].op)
  BY <1>2 DEF Init
<1>. QED
  BY <1>1, <1>3, <1>4, <1>5 DEF Init, ControlInv, RedisTypeOK, CallSet

LEMMA ControlInvariant == Spec => []ControlInv
BY ControlInit, ControlStep, PTL DEF Spec

\* The state of the shared cache and of its workers keeps its types, the time
\* a mutex has left its bounds (Lock, Unlock and Redis's clock).
THEOREM RedisTypeCorrect == Spec => []RedisTypeOK
BY ControlInvariant, PTL DEF ControlInv

-----------------------------------------------------------------------------
(* Mutual exclusion                                                        *)

\* Whoever holds a mutex that is not lost held it before, and it was not lost.
HoldersRemain ==
    \A m \in Mutexes \ lost' : \A w \in Workers :
        Holds(w, m)' => Holds(w, m) /\ m \notin lost

LEMMA GotoHolders ==
    ASSUME ControlInv, NEW w \in Workers, NEW step, NEW fields,
           Goto(w, step, fields),
           step \in Critical => pc[w] \in Critical
    PROVE  HoldersRemain /\ lost' = lost
BY DEF HoldersRemain, Goto, Holds, ControlInv, RedisTypeOK

LEMMA LeaveHolders ==
    ASSUME ControlInv, NEW S \in SUBSET Workers, Leave(S)
    PROVE  HoldersRemain /\ \A w \in S, m \in Mutexes : ~Holds(w, m)'
<1>1. "idle" \notin Critical
  BY DEF Critical
<1>2. \A w \in S : pc'[w] \notin Critical
  BY <1>1 DEF Leave
<1>3. \A w \in Workers \ S : pc'[w] = pc[w] /\ call'[w] = call[w]
  BY DEF Leave
<1>4. ASSUME NEW m \in Mutexes \ lost', NEW w \in Workers, Holds(w, m)'
      PROVE  m \notin lost
  BY <1>4 DEF Leave, StillHeld, Holds
<1>. QED
  BY <1>2, <1>3, <1>4 DEF HoldersRemain, Holds

\* A step that lets nobody in and leaves the keys alone.
LEMMA RemainingExclude ==
    ASSUME MutualExclusion, HoldersRemain, UNCHANGED mutex
    PROVE  MutualExclusion'
BY DEF MutualExclusion, HoldersRemain, Holds

LEMMA ReturnOrLockHolders ==
    ASSUME ControlInv, NEW w \in Workers, Return(w) \/ LockOrReturn(w)
    PROVE  HoldersRemain
<1>1. "lock" \notin Critical
  BY DEF Critical
<1>. QED
  BY <1>1, LeaveHolders, GotoHolders DEF Return, LockOrReturn

\* Every step but those that change a mutex.
LEMMA QuietHolders ==
    ASSUME ControlInv, NEW w \in Workers,
           \/ Start(w) \/ StartPruning(w)
           \/ Get(w) \/ SetEmployee(w) \/ SetSearch(w) \/ Delete(w)
           \/ ClearHash(w) \/ Panic(w)
           \/ Flag(w) \/ Unflag(w) \/ DeleteAgain(w) \/ Record(w)
           \/ Scan(w) \/ Prune(w) \/ CommandFails(w)
    PROVE  HoldersRemain /\ UNCHANGED mutex
<1>1. CASE Start(w)
  <2>1. PICK o \in Ops :
            /\ pc' = [pc EXCEPT ![w] = FirstStep(o)]
            /\ \E c : call' = [call EXCEPT ![w] = c]
            /\ UNCHANGED <<mutex, lost>>
    BY <1>1 DEF Start
  <2>2. FirstStep(o) \notin Critical
    BY ClientOpsAssumption DEF FirstStep, Critical, ClientOps
  <2>. QED
    BY <2>1, <2>2 DEF HoldersRemain, Holds, ControlInv, RedisTypeOK
<1>2. CASE StartPruning(w)
  <2>1. "lock" \notin Critical
    BY DEF Critical
  <2>. QED
    BY <1>2, <2>1 DEF StartPruning, HoldersRemain, Holds, ControlInv, RedisTypeOK
<1>3. CASE Get(w) \/ SetSearch(w) \/ Delete(w)
  BY <1>3, ReturnOrLockHolders DEF Get, SetSearch, Delete
<1>4. CASE SetEmployee(w)
  BY <1>4, GotoHolders DEF SetEmployee, Critical
<1>5. CASE ClearHash(w)
  BY <1>5, GotoHolders DEF ClearHash, Critical
<1>6. CASE Panic(w)
  BY <1>6, LeaveHolders DEF Panic
<1>7. CASE Flag(w) \/ Unflag(w) \/ DeleteAgain(w) \/ Prune(w)
  BY <1>7, GotoHolders DEF Flag, Unflag, DeleteAgain, Prune, Critical
<1>8. CASE Record(w)
  BY <1>8, GotoHolders DEF Record, Critical
<1>9. CASE Scan(w)
  BY <1>9, GotoHolders DEF Scan, Critical
<1>10. CASE CommandFails(w)
  BY <1>10, GotoHolders, ReturnOrLockHolders DEF CommandFails
<1>. QED
  BY <1>1, <1>2, <1>3, <1>4, <1>5, <1>6, <1>7, <1>8, <1>9, <1>10

LEMMA ExclusionStep ==
    ASSUME ControlInv, MutualExclusion, [Next]_vars
    PROVE  MutualExclusion'
<1>1. CASE UNCHANGED vars
  BY <1>1 DEF vars, MutualExclusion, Holds
<1>2. CASE \E w \in Workers :
              \/ Start(w) \/ StartPruning(w)
              \/ Get(w) \/ SetEmployee(w) \/ SetSearch(w) \/ Delete(w)
              \/ ClearHash(w) \/ Panic(w)
              \/ Flag(w) \/ Unflag(w) \/ DeleteAgain(w) \/ Record(w)
              \/ Scan(w) \/ Prune(w) \/ CommandFails(w)
  BY <1>2, QuietHolders, RemainingExclude
<1>3. CASE \E w \in Workers : ClearMutex(w)
  <2>1. PICK w \in Workers, m \in Mutexes, step \in {"clearAbsences", "idle"} :
            /\ mutex' = [mutex EXCEPT ![m] = 0]
            /\ pc' = [pc EXCEPT ![w] = step]
            /\ call' = call \/ call' = [call EXCEPT ![w] = NoCall]
            /\ lost' = StillHeld(lost \cup {m})
    BY <1>3 DEF ClearMutex, Mutexes
  <2>2. step \notin Critical
    BY DEF Critical
  <2>3. \A v \in Workers, n \in Mutexes : Holds(v, n)' => Holds(v, n)
    BY <2>1, <2>2 DEF Holds, ControlInv, RedisTypeOK
  <2>4. ASSUME NEW n \in Mutexes \ lost', NEW v \in Workers, Holds(v, n)'
        PROVE  n \notin lost /\ n # m
    BY <2>1, <2>4 DEF StillHeld, Holds
  <2>. QED
    BY <2>1, <2>3, <2>4 DEF MutualExclusion, ControlInv, RedisTypeOK
<1>4. CASE \E w \in Workers : TryLock(w)
  <2>1. PICK w \in Workers : TryLock(w)
    BY <1>4
  <2>2. PICK step, fields : Goto(w, step, fields)
    BY <2>1 DEF TryLock, Enter
  <2>3. /\ lost' = lost
        /\ \A v \in Workers \ {w}, m \in Mutexes : Holds(v, m)' <=> Holds(v, m)
        /\ \A m \in Mutexes : Holds(w, m)' => m = MutexOf(call[w].op)
    BY <2>2 DEF Goto, Holds, ControlInv, RedisTypeOK
  <2>4. \A m \in Mutexes \ lost, v \in Workers :
            m = MutexOf(call[w].op) => ~Holds(v, m)
    BY <2>1 DEF TryLock, MutualExclusion, ControlInv, RedisTypeOK
  <2>5. \A m \in Mutexes :
            mutex'[m] = IF m = MutexOf(call[w].op) THEN Expiration ELSE mutex[m]
    BY <2>1 DEF TryLock, ControlInv, RedisTypeOK
  <2>. QED
    BY <2>3, <2>4, <2>5, ExpirationAssumption DEF MutualExclusion
<1>5. CASE \E w \in Workers : Unlock(w)
  <2>1. PICK w \in Workers : Unlock(w)
    BY <1>5
  <2>2. HoldersRemain /\ \A m \in Mutexes : ~Holds(w, m)'
    BY <2>1, LeaveHolders DEF Unlock, Return
  <2>3. Holds(w, MutexOf(call[w].op)) /\ MutexOf(call[w].op) \in Mutexes
    BY <2>1 DEF Unlock, Holds, Critical, MutexOf, Mutexes
  <2>4. ASSUME NEW m \in Mutexes \ lost', NEW v \in Workers, Holds(v, m)'
        PROVE  m \notin lost /\ Holds(v, m) /\ m # MutexOf(call[w].op)
    BY <2>2, <2>3, <2>4 DEF HoldersRemain, MutualExclusion
  <2>5. \A m \in Mutexes : m # MutexOf(call[w].op) => mutex'[m] = mutex[m]
    BY <2>1 DEF Unlock, ControlInv, RedisTypeOK
  <2>. QED
    BY <2>4, <2>5 DEF MutualExclusion
<1>6. CASE \E w \in Workers : LockAnswerLost(w)
  <2>1. PICK w \in Workers : LockAnswerLost(w)
    BY <1>6
  <2>2. \A m \in Mutexes :
            mutex'[m] = IF m = MutexOf(call[w].op) THEN Expiration ELSE mutex[m]
    BY <2>1 DEF LockAnswerLost, ControlInv, RedisTypeOK
  <2>3. lost' = lost /\ \A m \in Mutexes, v \in Workers : Holds(v, m)' <=> Holds(v, m)
    BY <2>1 DEF LockAnswerLost, Holds
  <2>. QED
    BY <2>2, <2>3, ExpirationAssumption DEF MutualExclusion
<1>7. CASE Stop
  <2>1. PICK process \in SUBSET Workers : Leave(process) /\ UNCHANGED mutex
    BY <1>7 DEF Stop
  <2>. QED
    BY <2>1, LeaveHolders, RemainingExclude
<1>8. CASE HashExpires
  BY <1>8 DEF HashExpires, MutualExclusion, Holds
<1>9. CASE Elapse
  <2>1. /\ \A m \in Mutexes, v \in Workers : Holds(v, m)' <=> Holds(v, m)
        /\ lost \subseteq lost'
    BY <1>9 DEF Elapse, Holds
  <2>2. ASSUME NEW m \in Mutexes \ lost', NEW v \in Workers, Holds(v, m)
        PROVE  mutex'[m] > 0
    <3>1. mutex[m] > 0 /\ mutex[m] \in 0..Expiration
      BY <2>1, <2>2 DEF MutualExclusion, ControlInv, RedisTypeOK
    <3>2. mutex[m] # 1
      BY <1>9, <2>2 DEF Elapse
    <3>3. mutex'[m] = mutex[m] - 1
      BY <1>9, <3>1 DEF Elapse
    <3>. QED
      BY <3>1, <3>2, <3>3, ExpirationAssumption
  <2>. QED
    BY <2>1, <2>2 DEF MutualExclusion
<1>. QED
  BY <1>1, <1>2, <1>3, <1>4, <1>5, <1>6, <1>7, <1>8, <1>9 DEF Next, Command

LEMMA ExclusionInvariant == Spec => [](ControlInv /\ MutualExclusion)
<1>1. Init => MutualExclusion
  BY DEF Init, MutualExclusion, Holds, Critical
<1>. QED
  BY <1>1, ControlInit, ControlStep, ExclusionStep, PTL DEF Spec

\* A mutex that was not taken from under its holder has one holder and its
\* key, for any number of workers in any number of replicas, whichever
\* commands fail and whoever stops (Lock, Unlock, Clear).
THEOREM HoldersExclude == Spec => []MutualExclusion
BY ExclusionInvariant, PTL

-----------------------------------------------------------------------------
(* What a pruner has scanned is still all there is                         *)

\* A pruner about to delete was about to delete the same before.
PruningRemains ==
    \A w \in Workers :
        pc'[w] = "prune" =>
            /\ pc[w] = "prune"
            /\ call'[w] = call[w]
            /\ todo'[w] = todo[w]
            /\ MutexOf(call[w].op) \notin lost' => MutexOf(call[w].op) \notin lost

HashesShrink == flags' \subseteq flags /\ absences' \subseteq absences

LEMMA ShrinkingStaysCurrent ==
    ASSUME ScanIsCurrent, PruningRemains, HashesShrink
    PROVE  ScanIsCurrent'
BY DEF ScanIsCurrent, PruningRemains, HashesShrink, Pruned

LEMMA GotoPruning ==
    ASSUME ControlInv, NEW w \in Workers, NEW step, NEW fields,
           Goto(w, step, fields), step # "prune"
    PROVE  PruningRemains
BY DEF PruningRemains, Goto, ControlInv, RedisTypeOK

LEMMA LeavePruning ==
    ASSUME ControlInv, NEW S \in SUBSET Workers, Leave(S)
    PROVE  PruningRemains
<1>1. \A w \in Workers : pc'[w] = "prune" =>
          /\ pc[w] = "prune" /\ call'[w] = call[w] /\ todo'[w] = todo[w]
  BY DEF Leave
<1>2. ASSUME NEW w \in Workers, pc'[w] = "prune"
      PROVE  MutexOf(call[w].op) \in lost => MutexOf(call[w].op) \in lost'
  BY <1>1, <1>2 DEF Leave, StillHeld, Critical
<1>. QED
  BY <1>1, <1>2 DEF PruningRemains

LEMMA ReturnOrLockPruning ==
    ASSUME ControlInv, NEW w \in Workers, Return(w) \/ LockOrReturn(w)
    PROVE  PruningRemains
BY LeavePruning, GotoPruning DEF Return, LockOrReturn

\* Two workers in their sections hold different mutexes, unless one was lost.
LEMMA OneSection ==
    ASSUME ControlInv, MutualExclusion,
           NEW v \in Workers, NEW w \in Workers, v # w,
           pc[v] \in Critical, pc[w] \in Critical,
           MutexOf(call[v].op) \notin lost
    PROVE  MutexOf(call[v].op) # MutexOf(call[w].op)
<1>1. MutexOf(call[v].op) \in Mutexes
  BY DEF MutexOf, Mutexes
<1>. QED
  BY <1>1 DEF MutualExclusion, Holds

LEMMA AddingStaysCurrent ==
    ASSUME ControlInv, MutualExclusion, ScanIsCurrent,
           NEW w \in Workers, Flag(w) \/ Record(w)
    PROVE  ScanIsCurrent'
<1>1. /\ PruningRemains /\ lost' = lost /\ pc[w] \in Critical
      /\ pc[w] # "prune"
  <2>1. CASE Flag(w)
    BY <2>1, GotoPruning DEF Flag, Goto, Critical
  <2>2. CASE Record(w)
    BY <2>2, GotoPruning DEF Record, Goto, Critical
  <2>. QED
    BY <2>1, <2>2
<1>2. ASSUME NEW v \in Workers, pc'[v] = "prune",
             MutexOf(call'[v].op) \notin lost'
      PROVE  Pruned(call[v].op)' \subseteq todo'[v]
  <2>1. /\ pc[v] = "prune" /\ call'[v] = call[v] /\ todo'[v] = todo[v]
        /\ MutexOf(call[v].op) \notin lost
    BY <1>1, <1>2 DEF PruningRemains
  <2>2. Pruned(call[v].op) \subseteq todo[v]
    BY <2>1 DEF ScanIsCurrent
  <2>3. MutexOf(call[v].op) # MutexOf(call[w].op)
    BY <1>1, <2>1, OneSection DEF Critical
  <2>4. call[v].op \in PrunerOps
    BY <2>1 DEF ControlInv, Placed
  <2>5. CASE Flag(w)
    <3>1. call[w].op \in {"read", "search"}
      BY <2>5 DEF Flag, ControlInv, Placed
    <3>2. call[v].op = "pruneAbsences"
      BY <2>3, <2>4, <3>1 DEF MutexOf, PrunerOps
    <3>. QED
      BY <2>1, <2>2, <2>5, <3>2 DEF Flag, Pruned
  <2>6. CASE Record(w)
    <3>1. call[w].op = "absent"
      BY <2>6 DEF Record, ControlInv, Placed
    <3>2. call[v].op = "pruneFlags"
      BY <2>3, <2>4, <3>1 DEF MutexOf, PrunerOps
    <3>. QED
      BY <2>1, <2>2, <2>6, <3>2 DEF Record, Pruned
  <2>. QED
    BY <2>5, <2>6
<1>. QED
  BY <1>1, <1>2 DEF ScanIsCurrent, PruningRemains

LEMMA ScanningStaysCurrent ==
    ASSUME ControlInv, ScanIsCurrent, NEW w \in Workers, Scan(w)
    PROVE  ScanIsCurrent'
<1>1. /\ UNCHANGED <<flags, absences, call, lost>>
      /\ \A v \in Workers \ {w} : pc'[v] = pc[v] /\ todo'[v] = todo[v]
      /\ todo'[w] = Pruned(call[w].op)
  BY DEF Scan, Goto, hashes, ControlInv, RedisTypeOK
<1>. QED
  BY <1>1 DEF ScanIsCurrent, Pruned

\* Every other command: it adds to neither hash and starts no deletion.
LEMMA OtherCommandsShrink ==
    ASSUME ControlInv, NEW w \in Workers,
           \/ Get(w) \/ SetEmployee(w) \/ SetSearch(w) \/ Delete(w)
           \/ ClearHash(w) \/ Unlock(w) \/ Panic(w) \/ Unflag(w)
           \/ DeleteAgain(w) \/ Prune(w) \/ CommandFails(w)
    PROVE  PruningRemains /\ HashesShrink
<1>1. CASE Get(w) \/ SetSearch(w) \/ Delete(w)
  BY <1>1, ReturnOrLockPruning DEF Get, SetSearch, Delete, HashesShrink, hashes
<1>2. CASE SetEmployee(w)
  BY <1>2, GotoPruning DEF SetEmployee, HashesShrink
<1>3. CASE ClearHash(w)
  BY <1>3, GotoPruning DEF ClearHash, HashesShrink
<1>4. CASE Unlock(w)
  BY <1>4, LeavePruning DEF Unlock, Return, HashesShrink, hashes
<1>5. CASE Panic(w)
  BY <1>5, LeavePruning DEF Panic, HashesShrink, hashes
<1>6. CASE Unflag(w) \/ DeleteAgain(w)
  BY <1>6, GotoPruning DEF Unflag, DeleteAgain, HashesShrink
<1>7. CASE Prune(w)
  BY <1>7, GotoPruning DEF Prune, HashesShrink
<1>8. CASE CommandFails(w)
  BY <1>8, GotoPruning, ReturnOrLockPruning DEF CommandFails, HashesShrink, hashes
<1>. QED
  BY <1>1, <1>2, <1>3, <1>4, <1>5, <1>6, <1>7, <1>8

\* And what is not a command of an operation under way, or takes a mutex.
LEMMA OtherStepsShrink ==
    ASSUME ControlInv,
           \/ \E w \in Workers : Start(w) \/ StartPruning(w) \/ ClearMutex(w)
                                 \/ TryLock(w) \/ LockAnswerLost(w)
           \/ Stop \/ HashExpires \/ Elapse
    PROVE  PruningRemains /\ HashesShrink
<1>1. CASE \E w \in Workers : Start(w)
  <2>. PICK w \in Workers : Start(w)
    BY <1>1
  <2>1. PICK o \in Ops :
            /\ pc[w] = "idle"
            /\ pc' = [pc EXCEPT ![w] = FirstStep(o)]
            /\ \E c : call' = [call EXCEPT ![w] = c]
            /\ \E fields : todo' = [todo EXCEPT ![w] = fields]
            /\ UNCHANGED <<hashes, lost>>
    BY DEF Start
  <2>2. FirstStep(o) # "prune"
    BY ClientOpsAssumption DEF FirstStep, ClientOps
  <2>. QED
    BY <2>1, <2>2 DEF PruningRemains, HashesShrink, hashes, ControlInv, RedisTypeOK
<1>2. CASE \E w \in Workers : StartPruning(w)
  BY <1>2 DEF StartPruning, PruningRemains, HashesShrink, hashes, ControlInv,
              RedisTypeOK
<1>3. CASE \E w \in Workers : ClearMutex(w)
  <2>. PICK w \in Workers : ClearMutex(w)
    BY <1>3
  <2>1. PICK m \in Mutexes, step \in {"clearAbsences", "idle"} :
            /\ pc' = [pc EXCEPT ![w] = step]
            /\ call' = call \/ call' = [call EXCEPT ![w] = NoCall]
            /\ lost' = StillHeld(lost \cup {m})
            /\ UNCHANGED <<todo, hashes>>
    BY DEF ClearMutex, Mutexes
  <2>2. \A v \in Workers : pc'[v] = "prune" => v # w /\ pc[v] = "prune"
    BY <2>1 DEF ControlInv, RedisTypeOK
  <2>3. \A v \in Workers : v # w => call'[v] = call[v]
    BY <2>1 DEF ControlInv, RedisTypeOK
  <2>4. ASSUME NEW v \in Workers, pc'[v] = "prune", MutexOf(call[v].op) \in lost
        PROVE  MutexOf(call[v].op) \in lost'
    BY <2>1, <2>2, <2>3, <2>4 DEF StillHeld, Critical
  <2>. QED
    BY <2>1, <2>2, <2>3, <2>4 DEF PruningRemains, HashesShrink, hashes
<1>4. CASE \E w \in Workers : TryLock(w)
  <2>. PICK w \in Workers : TryLock(w)
    BY <1>4
  <2>1. call[w].op \in Locking
    BY DEF TryLock, ControlInv, Placed
  <2>2. FirstCritical(call[w].op) # "prune"
    BY <2>1 DEF FirstCritical, Locking, PrunerOps
  <2>. QED
    BY <2>2, GotoPruning DEF TryLock, Enter, HashesShrink, hashes
<1>5. CASE \E w \in Workers : LockAnswerLost(w)
  BY <1>5 DEF LockAnswerLost, PruningRemains, HashesShrink, hashes
<1>6. CASE Stop
  BY <1>6, LeavePruning DEF Stop, HashesShrink, hashes
<1>7. CASE HashExpires
  BY <1>7 DEF HashExpires, PruningRemains, HashesShrink
<1>8. CASE Elapse
  BY <1>8 DEF Elapse, PruningRemains, HashesShrink, hashes
<1>. QED
  BY <1>1, <1>2, <1>3, <1>4, <1>5, <1>6, <1>7, <1>8

LEMMA ScanStep ==
    ASSUME ControlInv, MutualExclusion, ScanIsCurrent, [Next]_vars
    PROVE  ScanIsCurrent'
<1>1. CASE UNCHANGED vars
  BY <1>1 DEF vars, hashes, ScanIsCurrent, Pruned
<1>2. CASE \E w \in Workers :
              \/ Get(w) \/ SetEmployee(w) \/ SetSearch(w) \/ Delete(w)
              \/ ClearHash(w) \/ Unlock(w) \/ Panic(w) \/ Unflag(w)
              \/ DeleteAgain(w) \/ Prune(w) \/ CommandFails(w)
  BY <1>2, OtherCommandsShrink, ShrinkingStaysCurrent
<1>3. CASE \E w \in Workers : Flag(w) \/ Record(w)
  BY <1>3, AddingStaysCurrent
<1>4. CASE \E w \in Workers : Scan(w)
  BY <1>4, ScanningStaysCurrent
<1>5. CASE \/ \E w \in Workers : Start(w) \/ StartPruning(w) \/ ClearMutex(w)
                                 \/ TryLock(w) \/ LockAnswerLost(w)
           \/ Stop \/ HashExpires \/ Elapse
  BY <1>5, OtherStepsShrink, ShrinkingStaysCurrent
<1>. QED
  BY <1>1, <1>2, <1>3, <1>4, <1>5 DEF Next, Command

\* A pruner never deletes a flag or an absence that came after its scan,
\* unless its mutex was lost (launchPruneSetRead, launchPruneNotFound).
THEOREM ScansAreCurrent == Spec => []ScanIsCurrent
<1>1. Init => ScanIsCurrent
  BY DEF Init, ScanIsCurrent
<1>. QED
  BY <1>1, ExclusionInvariant, ScanStep, PTL DEF Spec
=============================================================================
