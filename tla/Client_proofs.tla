---------------------------- MODULE Client_proofs ----------------------------
(***************************************************************************)
(* Proof that what a program reads through its client never goes back in   *)
(* time, but for leaks: for any number of clients, callers, employees and  *)
(* changes, with or without a cache at the client.                         *)
(***************************************************************************)
EXTENDS Client, TLAPS

-----------------------------------------------------------------------------
(* Tables                                                                  *)

LEMMA TablesElim ==
    ASSUME NEW m \in Tables
    PROVE  /\ DOMAIN m \subseteq EmpNos
           /\ \A k \in DOMAIN m : m[k] \in Employee
BY DEF Tables

LEMMA TablesIntro ==
    ASSUME NEW S, S \subseteq EmpNos, NEW m \in [S -> Employee]
    PROVE  m \in Tables
BY DEF Tables

\* Tables put together and taken apart are tables.
LEMMA TablesClosed ==
    ASSUME NEW m \in Tables, NEW new \in Tables, NEW ks
    PROVE  Over(m, new) \in Tables /\ Only(m, ks) \in Tables /\ Except(m, ks) \in Tables
<1>1. /\ DOMAIN m \subseteq EmpNos /\ \A k \in DOMAIN m : m[k] \in Employee
      /\ DOMAIN new \subseteq EmpNos /\ \A k \in DOMAIN new : new[k] \in Employee
  BY TablesElim
<1>2. Over(m, new) \in [DOMAIN m \cup DOMAIN new -> Employee]
  BY <1>1 DEF Over
<1>3. Only(m, ks) \in [ks \cap DOMAIN m -> Employee]
  BY <1>1 DEF Only
<1>4. Except(m, ks) \in [DOMAIN m \ ks -> Employee]
  BY <1>1 DEF Except
<1>5. QED
  BY <1>1, <1>2, <1>3, <1>4, TablesIntro

LEMMA NothingIsTable == Nothing \in Tables
<1>1. Nothing \in [{} -> Employee]
  BY DEF Nothing
<1>2. QED
  BY <1>1, TablesIntro

LEMMA OneRow ==
    ASSUME NEW k \in EmpNos, NEW v \in Employee
    PROVE  [j \in {k} |-> v] \in Tables
<1>1. {k} \subseteq EmpNos /\ [j \in {k} |-> v] \in [{k} -> Employee]
  OBVIOUS
<1>2. QED
  BY <1>1, TablesIntro

LEMMA NumbersOfStatements == Employee \subseteq Int /\ 0 \in Employee
BY ClientAssumption DEF Employee

-----------------------------------------------------------------------------
(* Types, and where a call can be.                                         *)

Steps == {"idle", "service", "fill", "invalidate", "answer", "done"}

Requests == [op : Ops \cup {"none"}, key : EmpNos \cup {0}, known : Employee]

Answers == [ok : BOOLEAN, number : Employee, leaked : BOOLEAN]

ServiceTypes ==
    /\ row \in Tables /\ cached \in Tables
    /\ held \in [Procs -> Tables]
    /\ pending \in [Procs -> SUBSET EmpNos]
    /\ leaked \in SUBSET EmpNos
    /\ changes \in 0..MaxChanges

CallTypes ==
    /\ pc \in [Procs -> Steps]
    /\ request \in [Procs -> Requests]
    /\ answer \in [Procs -> Answers]

ClientTypes ==
    /\ own \in [Clients -> Tables]
    /\ known \in [Clients -> [EmpNos -> Employee]]
    /\ stained \in [Clients -> SUBSET EmpNos]
    /\ \A c \in Clients : stained[c] \subseteq DOMAIN own[c]
    /\ \A c \in Clients \ Caching : own[c] = Nothing

\* A call under way is about an employee; one that fills holds it, one that
\* invalidates has nothing else to invalidate, one that returns has read it.
Placed(p) ==
    /\ pc[p] # "idle" => request[p].key \in EmpNos /\ request[p].op \in Ops
    /\ pc[p] = "fill" => request[p].op = "read" /\ request[p].key \in DOMAIN held[p]
    /\ pc[p] = "invalidate" => /\ request[p].op \in {"update", "delete"}
                               /\ pending[p] = {request[p].key}
    /\ pc[p] = "done" => request[p].op = "read" /\ answer[p].ok

TypeInv ==
    /\ ServiceTypes
    /\ CallTypes
    /\ ClientTypes
    /\ \A p \in Procs : Placed(p)

\* What a step of one caller leaves of the others.
OthersKept(p) ==
    \A q \in Procs \ {p} :
        /\ pc'[q] = pc[q] /\ request'[q] = request[q] /\ answer'[q] = answer[q]
        /\ held'[q] = held[q] /\ pending'[q] = pending[q]

\* The steps that call the service's table and cache.
LEMMA StatementType ==
    ASSUME TypeInv, NEW op, NEW k \in EmpNos, Statement(op, k)
    PROVE  /\ row' \in Tables
           /\ changes' \in 0..MaxChanges /\ changes' = changes + 1
           /\ changes + 1 \in Employee
           /\ \/ row' = row
              \/ row' = Over(row, [j \in {k} |-> changes + 1])
              \/ row' = Except(row, {k})
<1>1. /\ changes \in 0..MaxChanges /\ MaxChanges \in Nat /\ row \in Tables
  BY ClientAssumption DEF TypeInv, ServiceTypes
<1>2. /\ changes' \in 0..MaxChanges /\ changes' = changes + 1
      /\ changes + 1 \in Employee
  BY <1>1 DEF Statement, Counted, Employee
<1>3. \/ row' = row
      \/ row' = Over(row, [j \in {k} |-> changes + 1])
      \/ row' = Except(row, {k})
  BY DEF Statement, Sets, Removes
<1>4. row' \in Tables
  <2>1. [j \in {k} |-> changes + 1] \in Tables
    BY <1>2, OneRow
  <2>2. QED
    BY <1>1, <1>3, <2>1, TablesClosed
<1>5. QED
  BY <1>2, <1>3, <1>4

\* A step of a caller that is typed as far as that caller goes.
LEMMA OneCall ==
    ASSUME TypeInv, NEW p \in Procs,
           row' \in Tables, cached' \in Tables,
           leaked' \in SUBSET EmpNos, changes' \in 0..MaxChanges,
           held' = [held EXCEPT ![p] = held'[p]], held'[p] \in Tables,
           pending' = [pending EXCEPT ![p] = pending'[p]],
           pending'[p] \in SUBSET EmpNos,
           pc' = [pc EXCEPT ![p] = pc'[p]], pc'[p] \in Steps,
           request' = [request EXCEPT ![p] = request'[p]],
           request'[p] \in Requests,
           answer' = [answer EXCEPT ![p] = answer'[p]], answer'[p] \in Answers,
           ClientTypes', Placed(p)'
    PROVE  TypeInv' /\ OthersKept(p)
<1>1. OthersKept(p)
  BY DEF OthersKept, TypeInv, ServiceTypes, CallTypes
<1>2. Tables' = Tables
  BY DEF Tables
<1>3. ServiceTypes' /\ CallTypes'
  BY <1>2 DEF TypeInv, ServiceTypes, CallTypes
<1>4. \A q \in Procs : Placed(q)'
  BY <1>1 DEF OthersKept, TypeInv, Placed
<1>5. QED
  BY <1>1, <1>3, <1>4 DEF TypeInv

\* Each variable in the form OneCall asks for.
LEMMA Same ==
    ASSUME TypeInv, NEW p \in Procs
    PROVE  /\ held = [held EXCEPT ![p] = held[p]] /\ held[p] \in Tables
           /\ pending = [pending EXCEPT ![p] = pending[p]]
           /\ pending[p] \in SUBSET EmpNos
           /\ pc = [pc EXCEPT ![p] = pc[p]] /\ pc[p] \in Steps
           /\ request = [request EXCEPT ![p] = request[p]]
           /\ request[p] \in Requests
           /\ answer = [answer EXCEPT ![p] = answer[p]]
           /\ answer[p] \in Answers
           /\ \A x : /\ [held EXCEPT ![p] = x][p] = x
                     /\ [pending EXCEPT ![p] = x][p] = x
                     /\ [pc EXCEPT ![p] = x][p] = x
                     /\ [request EXCEPT ![p] = x][p] = x
                     /\ [answer EXCEPT ![p] = x][p] = x
BY DEF TypeInv, ServiceTypes, CallTypes

LEMMA NoneTypes == NoRequest \in Requests /\ NoAnswer \in Answers
BY NumbersOfStatements DEF NoRequest, NoAnswer, Requests, Answers

LEMMA SuccessType ==
    ASSUME NEW number \in Employee
    PROVE  /\ Success(number, FALSE) \in Answers
           /\ \A x, S : Success(number, x \in S) \in Answers
BY DEF Success, Answers

-----------------------------------------------------------------------------
(* Each action keeps the types.                                            *)

LEMMA CallKeepsTypes ==
    ASSUME TypeInv, NEW p \in Procs, Call(p)
    PROVE  TypeInv' /\ OthersKept(p)
<1>1. PICK k \in EmpNos : \/ OwnHit(p, k) \/ OwnMiss(p, k)
                          \/ \E op \in Ops : Mutate(p, op, k)
  BY DEF Call
<1>2. PICK op \in Ops, step \in {"service", "done"} :
          /\ Asks(p, op, k, step)
          /\ step = "done" => OwnHit(p, k) /\ op = "read"
          /\ step # "done" => UNCHANGED answer
  BY <1>1 DEF OwnHit, OwnMiss, Mutate, Ops
<1>3. ClientOf[p] \in Clients
  BY ClientAssumption
<1>4. UNCHANGED <<row, cached, held, pending, leaked, changes, own, known, stained>>
  BY <1>2 DEF Asks, serviceVars, clientVars
<1>5. /\ row' \in Tables /\ cached' \in Tables /\ leaked' \in SUBSET EmpNos
      /\ changes' \in 0..MaxChanges /\ ClientTypes'
  BY <1>4 DEF TypeInv, ServiceTypes, ClientTypes
<1>6. /\ pc' = [pc EXCEPT ![p] = pc'[p]] /\ pc'[p] = step /\ pc'[p] \in Steps
  BY <1>2, Same DEF Asks, Steps
<1> DEFINE r == [op |-> op, key |-> k,
                 known |-> IF op = "read" THEN known[ClientOf[p]][k] ELSE 0]
<1>7. r \in Requests
  BY <1>3, NumbersOfStatements DEF TypeInv, ClientTypes, Requests
<1>8. request' = [request EXCEPT ![p] = r]
  BY <1>2 DEF Asks
<1>9. r.op = op /\ r.key = k
  OBVIOUS
<1> HIDE DEF r
<1>10. /\ request' = [request EXCEPT ![p] = request'[p]]
       /\ request'[p] = r /\ request'[p] \in Requests
  BY <1>7, <1>8, Same
<1>11. /\ answer' = [answer EXCEPT ![p] = answer'[p]] /\ answer'[p] \in Answers
       /\ step = "done" => answer'[p].ok
  <2>1. CASE UNCHANGED answer /\ step # "done"
    BY <2>1, Same
  <2>2. CASE OwnHit(p, k)
    <3>1. own[ClientOf[p]][k] \in Employee
      BY <1>3, <2>2, TablesElim DEF OwnHit, TypeInv, ClientTypes
    <3>2. PICK a : a = [ok |-> TRUE, number |-> own[ClientOf[p]][k],
                        leaked |-> k \in stained[ClientOf[p]]]
      OBVIOUS
    <3>3. a \in Answers /\ a.ok
      BY <3>1, <3>2 DEF Answers
    <3>4. answer' = [answer EXCEPT ![p] = a]
      BY <2>2, <3>2 DEF OwnHit
    <3>5. QED
      BY <3>3, <3>4, Same
  <2>3. QED
    BY <1>2, <2>1, <2>2
<1>12. Placed(p)'
  BY <1>2, <1>6, <1>9, <1>10, <1>11 DEF Placed
<1>13. QED
  BY <1>4, <1>5, <1>6, <1>10, <1>11, <1>12, Same, OneCall

\* What the service does for a call leaves the clients alone.
LEMMA ServeKeepsClients ==
    ASSUME TypeInv, NEW p \in Procs, Serve(p)
    PROVE  /\ UNCHANGED <<request, own, known, stained>>
           /\ ClientTypes'
           /\ request' = [request EXCEPT ![p] = request'[p]]
           /\ request'[p] = request[p] /\ request'[p] \in Requests
<1>1. UNCHANGED <<request, own, known, stained>>
  BY DEF Serve, ServiceHit, ServiceFetch, ServiceFill, ServiceChange,
     ServiceInvalidate, ServiceAbandon, ServiceCreate, ServiceLosesChange,
     ServiceFails, Respond, Goto, clientVars
<1>2. QED
  BY <1>1, Same DEF TypeInv, ClientTypes

LEMMA RespondTypes ==
    ASSUME TypeInv, NEW p \in Procs, NEW a \in Answers, Respond(p, a)
    PROVE  /\ pc' = [pc EXCEPT ![p] = pc'[p]] /\ pc'[p] = "answer"
           /\ pc'[p] \in Steps
           /\ answer' = [answer EXCEPT ![p] = answer'[p]]
           /\ answer'[p] = a /\ answer'[p] \in Answers
BY Same DEF Respond, Goto, Steps

LEMMA ReadsKeepTypes ==
    ASSUME TypeInv, NEW p \in Procs,
           ServiceHit(p) \/ ServiceFetch(p) \/ ServiceFill(p) \/ ServiceFails(p)
    PROVE  TypeInv' /\ OthersKept(p)
<1> PICK k : k = request[p].key
  OBVIOUS
<1>1. /\ row' \in Tables /\ changes' \in 0..MaxChanges
      /\ row' = row
      /\ UNCHANGED pending
      /\ pc[p] # "idle"
  BY DEF ServiceHit, ServiceFetch, ServiceFill, ServiceFails, Fetch, Fill,
     serviceVars, At, TypeInv, ServiceTypes
<1>2. k \in EmpNos /\ request[p].op \in Ops
  BY <1>1 DEF TypeInv, Placed
<1>3. ServiceTypes
  BY DEF TypeInv
<1>4. CASE ServiceHit(p)
  <2>1. UNCHANGED <<cached, held, leaked>>
    BY <1>4 DEF ServiceHit, serviceVars
  <2>2. PICK a : a = Success(cached[k], k \in leaked)
    OBVIOUS
  <2>3. a \in Answers /\ Respond(p, a)
    <3>1. cached[k] \in Employee /\ Respond(p, a)
      BY <1>3, <1>4, <2>2, TablesElim DEF ServiceHit, ServiceTypes
    <3>2. QED
      BY <2>2, <3>1, SuccessType
  <2>4. Placed(p)'
    BY <1>2, <2>3, RespondTypes, ServeKeepsClients DEF Serve, Placed
  <2>5. QED
    BY <1>1, <1>3, <2>1, <2>3, <2>4, Same, RespondTypes, ServeKeepsClients, OneCall
       DEF Serve, ServiceTypes
<1>5. CASE ServiceFails(p)
  <2>1. UNCHANGED <<cached, held, leaked>>
    BY <1>5 DEF ServiceFails, serviceVars
  <2>2. NoAnswer \in Answers /\ Respond(p, NoAnswer)
    BY <1>5, NoneTypes DEF ServiceFails
  <2>3. Placed(p)'
    BY <1>2, <2>2, RespondTypes, ServeKeepsClients DEF Serve, Placed
  <2>4. QED
    BY <1>1, <1>3, <2>1, <2>2, <2>3, Same, RespondTypes, ServeKeepsClients, OneCall
       DEF Serve, ServiceTypes
<1>6. CASE ServiceFetch(p)
  <2>1. /\ UNCHANGED <<cached, leaked, answer>>
        /\ held' = [held EXCEPT ![p] = Only(row, {k})]
        /\ pc' = [pc EXCEPT ![p] = "fill"]
        /\ k \in DOMAIN row /\ request[p].op = "read"
    BY <1>6 DEF ServiceFetch, Fetch, Goto, At
  <2>2. Only(row, {k}) \in Tables /\ k \in DOMAIN Only(row, {k})
    BY <1>3, <2>1, TablesClosed DEF ServiceTypes, Only
  <2>3. /\ held' = [held EXCEPT ![p] = held'[p]] /\ held'[p] \in Tables
        /\ k \in DOMAIN held'[p]
    <3>1. held'[p] = Only(row, {k})
      BY <2>1 DEF TypeInv, ServiceTypes
    <3>2. QED
      BY <2>1, <2>2, <3>1
  <2>4. pc' = [pc EXCEPT ![p] = pc'[p]] /\ pc'[p] = "fill" /\ pc'[p] \in Steps
    BY <2>1, Same DEF Steps
  <2>5. Placed(p)'
    BY <1>2, <2>1, <2>3, <2>4, ServeKeepsClients DEF Serve, Placed
  <2>6. QED
    BY <1>1, <1>3, <1>6, <2>1, <2>3, <2>4, <2>5, Same, ServeKeepsClients, OneCall
       DEF Serve, ServiceTypes
<1>7. CASE ServiceFill(p)
  <2>1. /\ pc[p] = "fill"
        /\ cached' = Over(cached, Only(held[p], DOMAIN held[p]))
        /\ held' = [held EXCEPT ![p] = Except(held[p], DOMAIN held[p])]
        /\ leaked' \subseteq leaked \cup DOMAIN Only(held[p], DOMAIN held[p])
    BY <1>7 DEF ServiceFill, Fill, At, Wrong
  <2>2. /\ Only(held[p], DOMAIN held[p]) \in Tables
        /\ Except(held[p], DOMAIN held[p]) \in Tables
    BY Same, TablesClosed
  <2>3. cached' \in Tables
    BY <1>3, <2>1, <2>2, TablesClosed DEF ServiceTypes
  <2>4. leaked' \in SUBSET EmpNos
    BY <1>3, <2>1, <2>2, TablesElim DEF ServiceTypes
  <2>5. held' = [held EXCEPT ![p] = held'[p]] /\ held'[p] \in Tables
    BY <2>1, <2>2, Same
  <2>6. PICK a : a = Success(held[p][k], FALSE)
    OBVIOUS
  <2>7. held[p][k] \in Employee
    BY <2>1, Same, TablesElim DEF TypeInv, Placed
  <2>8. a \in Answers /\ Respond(p, a)
    BY <1>7, <2>6, <2>7, SuccessType DEF ServiceFill
  <2>9. Placed(p)'
    BY <1>2, <2>8, RespondTypes, ServeKeepsClients DEF Serve, Placed
  <2>10. QED
    BY <1>1, <2>3, <2>4, <2>5, <2>8, <2>9, Same, RespondTypes, ServeKeepsClients,
       OneCall DEF Serve
<1>8. QED
  BY <1>4, <1>5, <1>6, <1>7


LEMMA ChangesKeepTypes ==
    ASSUME TypeInv, NEW p \in Procs,
           ServiceChange(p) \/ ServiceCreate(p) \/ ServiceLosesChange(p)
    PROVE  TypeInv' /\ OthersKept(p)
<1> PICK k : k = request[p].key
  OBVIOUS
<1>1. /\ Statement(request[p].op, k)
      /\ Changed(k)
      /\ UNCHANGED <<cached, held>>
      /\ pc[p] = "service"
  BY DEF ServiceChange, ServiceCreate, ServiceLosesChange, Change, Add,
     ChangeUnanswered, Changed, At
<1>2. k \in EmpNos /\ request[p].op \in Ops
  BY <1>1 DEF TypeInv, Placed
<1>3. /\ row' \in Tables /\ changes' \in 0..MaxChanges
      /\ changes + 1 \in Employee
  BY <1>1, <1>2, StatementType
<1>4. ServiceTypes
  BY DEF TypeInv
<1>5. PICK a : a = Success(changes + 1, FALSE)
  OBVIOUS
<1>6. a \in Answers /\ NoAnswer \in Answers
  BY <1>3, <1>5, SuccessType, NoneTypes
<1>7. CASE ServiceChange(p)
  <2>1. /\ pending' = [pending EXCEPT ![p] = {k}]
        /\ UNCHANGED leaked
        /\ answer' = [answer EXCEPT ![p] = a]
        /\ pc' = [pc EXCEPT ![p] = "invalidate"]
        /\ request[p].op \in {"update", "delete"}
    BY <1>5, <1>7 DEF ServiceChange, Change, Goto
  <2>2. /\ pending' = [pending EXCEPT ![p] = pending'[p]]
        /\ pending'[p] = {k} /\ pending'[p] \in SUBSET EmpNos
        /\ pc' = [pc EXCEPT ![p] = pc'[p]] /\ pc'[p] = "invalidate"
        /\ pc'[p] \in Steps
        /\ answer' = [answer EXCEPT ![p] = answer'[p]]
        /\ answer'[p] \in Answers
    <3>1. /\ pending'[p] = {k} /\ pc'[p] = "invalidate" /\ answer'[p] = a
      BY <2>1 DEF TypeInv, ServiceTypes, CallTypes
    <3>2. {k} \in SUBSET EmpNos /\ "invalidate" \in Steps
      BY <1>2 DEF Steps
    <3>3. QED
      BY <1>6, <2>1, <3>1, <3>2
  <2>3. Placed(p)'
    BY <1>2, <2>1, <2>2, <1>7, ServeKeepsClients DEF Serve, Placed
  <2>4. QED
    BY <1>1, <1>3, <1>4, <1>7, <2>1, <2>2, <2>3, Same, ServeKeepsClients, OneCall
       DEF Serve, ServiceTypes
<1>8. CASE ServiceCreate(p) \/ ServiceLosesChange(p)
  <2>1. UNCHANGED pending /\ leaked' \in SUBSET EmpNos
    BY <1>2, <1>4, <1>8 DEF ServiceCreate, ServiceLosesChange, Add,
       ChangeUnanswered, ServiceTypes
  <2>2. Respond(p, a) \/ Respond(p, NoAnswer)
    BY <1>5, <1>8 DEF ServiceCreate, ServiceLosesChange
  <2>3. /\ pc' = [pc EXCEPT ![p] = pc'[p]] /\ pc'[p] = "answer"
        /\ pc'[p] \in Steps
        /\ answer' = [answer EXCEPT ![p] = answer'[p]]
        /\ answer'[p] \in Answers
    BY <1>6, <2>2, RespondTypes
  <2>4. Placed(p)'
    BY <1>2, <1>8, <2>3, ServeKeepsClients DEF Serve, Placed
  <2>5. QED
    BY <1>1, <1>3, <1>4, <1>8, <2>1, <2>3, <2>4, Same, ServeKeepsClients, OneCall
       DEF Serve, ServiceTypes
<1>9. QED
  BY <1>7, <1>8

LEMMA InvalidationsKeepTypes ==
    ASSUME TypeInv, NEW p \in Procs, ServiceInvalidate(p) \/ ServiceAbandon(p)
    PROVE  TypeInv' /\ OthersKept(p)
<1>1. /\ pc[p] = "invalidate" /\ UNCHANGED <<row, held, changes>>
      /\ pending' = [pending EXCEPT ![p] = {}]
      /\ cached' = cached \/ cached' = Except(cached, pending[p])
      /\ leaked' \subseteq leaked \cup pending[p]
  BY DEF ServiceInvalidate, ServiceAbandon, At, Invalidate, Abandon, NotThere
<1>2. request[p].key \in EmpNos /\ request[p].op \in Ops
  BY <1>1 DEF TypeInv, Placed
<1>3. /\ row' \in Tables /\ changes' \in 0..MaxChanges /\ cached' \in Tables
      /\ leaked' \in SUBSET EmpNos
  BY <1>1, Same, TablesClosed DEF TypeInv, ServiceTypes
<1>4. /\ pending' = [pending EXCEPT ![p] = pending'[p]]
      /\ pending'[p] \in SUBSET EmpNos
  BY <1>1, Same
<1>5. \E a \in Answers : Respond(p, a)
  BY Same, NoneTypes DEF ServiceInvalidate, ServiceAbandon
<1>6. /\ pc' = [pc EXCEPT ![p] = pc'[p]] /\ pc'[p] = "answer" /\ pc'[p] \in Steps
      /\ answer' = [answer EXCEPT ![p] = answer'[p]]
      /\ answer'[p] \in Answers
  BY <1>5, RespondTypes
<1>7. Placed(p)'
  BY <1>2, <1>6, ServeKeepsClients DEF Serve, Placed
<1>8. QED
  BY <1>1, <1>3, <1>4, <1>6, <1>7, Same, ServeKeepsClients, OneCall DEF Serve

LEMMA EndsTypes ==
    ASSUME TypeInv, NEW p \in Procs, NEW step \in {"idle", "done"}, Ends(p, step)
    PROVE  /\ UNCHANGED <<row, cached, held, pending, leaked, changes>>
           /\ pc' = [pc EXCEPT ![p] = pc'[p]] /\ pc'[p] = step /\ pc'[p] \in Steps
           /\ request' = [request EXCEPT ![p] = request'[p]]
           /\ request'[p] = (IF step = "idle" THEN NoRequest ELSE request[p])
           /\ request'[p] \in Requests
           /\ answer' = [answer EXCEPT ![p] = answer'[p]]
           /\ answer'[p] = (IF step = "idle" THEN NoAnswer ELSE answer[p])
           /\ answer'[p] \in Answers
BY Same, NoneTypes DEF Ends, serviceVars, Steps

\* Caches of clients, what they know and what is wrong in them.
LEMMA WrittenTypes ==
    ASSUME TypeInv, NEW c \in Caching, NEW k \in EmpNos, NEW a \in Answers,
           Written(c, k, a), known' \in [Clients -> [EmpNos -> Employee]]
    PROVE  ClientTypes'
<1>1. c \in Clients /\ ClientTypes /\ a.number \in Employee
  BY ClientAssumption DEF TypeInv, Answers
<1>2. PICK new : new = [j \in {k} |-> a.number]
  OBVIOUS
<1>3. new \in Tables /\ DOMAIN new = {k}
  BY <1>1, <1>2, OneRow
<1>4. /\ Over(own[c], new) \in Tables
      /\ DOMAIN Over(own[c], new) = DOMAIN own[c] \cup {k}
  <2>1. Over(own[c], new) \in Tables
    BY <1>1, <1>3, TablesClosed DEF ClientTypes
  <2>2. QED
    BY <1>3, <2>1 DEF Over
<1>5. own' = [own EXCEPT ![c] = Over(own[c], new)]
  BY <1>2 DEF Written
<1>6. \E s \in {stained[c] \cup {k}, stained[c] \ {k}} : stained' = [stained EXCEPT ![c] = s]
  BY DEF Written
<1>7. Tables' = Tables
  BY DEF Tables
<1>8. own' \in [Clients -> Tables] /\ stained' \in [Clients -> SUBSET EmpNos]
  BY <1>1, <1>4, <1>5, <1>6 DEF ClientTypes
<1>9. ASSUME NEW d \in Clients
      PROVE  /\ stained'[d] \subseteq DOMAIN own'[d]
             /\ d \notin Caching => own'[d] = Nothing
  <2>1. CASE d = c
    BY <1>1, <1>4, <1>5, <1>6, <2>1 DEF ClientTypes
  <2>2. CASE d # c
    BY <1>1, <1>5, <1>6, <2>2 DEF ClientTypes
  <2>3. QED
    BY <2>1, <2>2
<1>10. QED
  BY <1>7, <1>8, <1>9 DEF ClientTypes

LEMMA DroppedTypes ==
    ASSUME TypeInv, NEW c \in Clients, NEW k, Dropped(c, k),
           known' \in [Clients -> [EmpNos -> Employee]]
    PROVE  ClientTypes'
<1>1. ClientTypes
  BY DEF TypeInv
<1>2. /\ Except(own[c], {k}) \in Tables
      /\ DOMAIN Except(own[c], {k}) = DOMAIN own[c] \ {k}
      /\ own[c] = Nothing => Except(own[c], {k}) = Nothing
  BY <1>1, TablesClosed DEF ClientTypes, Except, Nothing
<1>3. /\ own' = [own EXCEPT ![c] = Except(own[c], {k})]
      /\ stained' = [stained EXCEPT ![c] = stained[c] \ {k}]
  BY DEF Dropped
<1>4. Tables' = Tables
  BY DEF Tables
<1>5. own' \in [Clients -> Tables] /\ stained' \in [Clients -> SUBSET EmpNos]
  BY <1>1, <1>2, <1>3 DEF ClientTypes
<1>6. ASSUME NEW d \in Clients
      PROVE  /\ stained'[d] \subseteq DOMAIN own'[d]
             /\ d \notin Caching => own'[d] = Nothing
  <2>1. CASE d = c
    BY <1>1, <1>2, <1>3, <2>1 DEF ClientTypes
  <2>2. CASE d # c
    BY <1>1, <1>3, <2>2 DEF ClientTypes
  <2>3. QED
    BY <2>1, <2>2
<1>7. QED
  BY <1>4, <1>5, <1>6 DEF ClientTypes

\* What one client knows of one employee changes, to what is newer.
LEMMA LearnsTypes ==
    ASSUME TypeInv, NEW c \in Clients, NEW k \in EmpNos, NEW number \in Employee,
           Learns(c, k, number)
    PROVE  /\ known' \in [Clients -> [EmpNos -> Employee]]
           /\ \A d \in Clients : \A j \in EmpNos :
                  known'[d][j] = IF d = c /\ j = k THEN Newer(known[c][k], number)
                                                   ELSE known[d][j]
<1>1. known \in [Clients -> [EmpNos -> Employee]]
  BY DEF TypeInv, ClientTypes
<1>2. Newer(known[c][k], number) \in Employee
  BY <1>1 DEF Newer
<1>3. QED
  BY <1>1, <1>2 DEF Learns

LEMMA ReceiveKeepsTypes ==
    ASSUME TypeInv, NEW p \in Procs, Receive(p)
    PROVE  TypeInv' /\ OthersKept(p)
<1> PICK c, k : c = ClientOf[p] /\ k = request[p].key
  OBVIOUS
<1>1. c \in Clients /\ answer[p].number \in Employee
  BY ClientAssumption, Same DEF Answers
<1>2. PICK step \in {"idle", "done"} :
          /\ Ends(p, step)
          /\ step = "done" => ReadAnswered(p)
  BY DEF Receive, ReadAnswered, ChangeAnswered, CreateAnswered, Failed, Return
<1>3. pc[p] # "idle"
  BY DEF Receive, ReadAnswered, ChangeAnswered, CreateAnswered, Failed, Return, At
<1>4. k \in EmpNos /\ request[p].op \in Ops
  BY <1>3 DEF TypeInv, Placed
<1>5. Placed(p)'
  <2>1. CASE step = "idle"
    BY <1>2, <2>1, EndsTypes DEF Placed
  <2>2. CASE step = "done"
    BY <1>2, <1>4, <2>2, EndsTypes DEF Placed, ReadAnswered, At
  <2>3. QED
    BY <2>1, <2>2
<1>6. ClientTypes'
  <2>1. CASE UNCHANGED clientVars
    BY <2>1 DEF clientVars, TypeInv, ClientTypes
  <2>2. CASE ReadAnswered(p)
    <3>1. known' \in [Clients -> [EmpNos -> Employee]]
      BY <1>1, <1>4, <2>2, LearnsTypes DEF ReadAnswered
    <3>2. CASE c \in Caching
      BY <1>4, <2>2, <3>1, <3>2, Same, WrittenTypes DEF ReadAnswered
    <3>3. CASE c \notin Caching
      BY <2>2, <3>1, <3>3 DEF ReadAnswered, TypeInv, ClientTypes
    <3>4. QED
      BY <3>2, <3>3
  <2>3. CASE ChangeAnswered(p)
    <3>1. known' \in [Clients -> [EmpNos -> Employee]]
      BY <1>1, <1>4, <2>3, LearnsTypes DEF ChangeAnswered
    <3>2. QED
      BY <1>1, <2>3, <3>1, DroppedTypes DEF ChangeAnswered
  <2>4. QED
    BY <2>1, <2>2, <2>3 DEF Receive, CreateAnswered, Failed, Return
<1>7. QED
  BY <1>2, <1>5, <1>6, Same, EndsTypes, OneCall DEF TypeInv, ServiceTypes

LEMMA TypeStep ==
    ASSUME TypeInv, [Next]_vars
    PROVE  TypeInv'
<1>1. ASSUME NEW p \in Procs, Call(p) \/ Serve(p) \/ Receive(p)
      PROVE  TypeInv'
  BY <1>1, CallKeepsTypes, ReadsKeepTypes, ChangesKeepTypes,
     InvalidationsKeepTypes, ReceiveKeepsTypes DEF Serve
<1>2. CASE ServiceEvict
  <2>1. PICK ks : Evict(ks)
    BY <1>2 DEF ServiceEvict
  <2>2. cached' \in Tables
    BY <2>1, TablesClosed DEF Evict, TypeInv, ServiceTypes
  <2>3. UNCHANGED <<row, held, pending, leaked, changes, pc, request, answer,
                    own, known, stained>>
    BY <1>2, <2>1 DEF ServiceEvict, Evict, callVars, clientVars
  <2>4. QED
    BY <2>2, <2>3 DEF TypeInv, ServiceTypes, CallTypes, ClientTypes, Placed
<1>3. CASE OwnEvict
  <2>1. UNCHANGED <<row, cached, held, pending, leaked, changes, pc, request,
                    answer, known>>
    BY <1>3 DEF OwnEvict, serviceVars, callVars
  <2>2. ClientTypes'
    BY <1>3, <2>1, DroppedTypes DEF OwnEvict, TypeInv, ClientTypes
  <2>3. QED
    BY <2>1, <2>2 DEF TypeInv, ServiceTypes, CallTypes, Placed
<1>4. CASE UNCHANGED vars
  BY <1>4 DEF vars, serviceVars, callVars, clientVars, TypeInv, ServiceTypes,
     CallTypes, ClientTypes, Placed
<1>5. QED
  BY <1>1, <1>2, <1>3, <1>4 DEF Next

LEMMA TypeInvInit == Init => TypeInv
<1> SUFFICES ASSUME Init PROVE TypeInv
  OBVIOUS
<1>1. ServiceTypes
  BY NothingIsTable, ClientAssumption DEF Init, RTInit, ServiceTypes
<1>2. CallTypes
  BY NoneTypes DEF Init, CallTypes, Steps
<1>3. ClientTypes
  BY NothingIsTable, NumbersOfStatements DEF Init, ClientTypes
<1>4. \A p \in Procs : Placed(p)
  BY DEF Init, Placed
<1>5. QED
  BY <1>1, <1>2, <1>3, <1>4 DEF TypeInv

LEMMA TypeInvariant == Spec => []TypeInv
BY TypeInvInit, TypeStep, PTL DEF Spec

\* Whatever happens, a client without a cache keeps nothing, and what a client
\* holds wrong is always something it holds (client.go).
THEOREM ClientTypeCorrect == Spec => []ClientTypeOK
<1>1. TypeInv => ClientTypeOK
  BY DEF TypeInv, ServiceTypes, CallTypes, ClientTypes, ClientTypeOK, Steps, Requests,
     Answers
<1>2. QED
  BY <1>1, TypeInvariant, PTL


-----------------------------------------------------------------------------
(* Nothing anybody holds of an employee is newer than its row.             *)

\* v is held of employee k: by the service's cache, by what a client knows, by
\* a read on its way to the cache, by an answer on its way to a client.
Sees(k, v) ==
    \/ k \in DOMAIN cached /\ v = cached[k]
    \/ \E c \in Clients : v = known[c][k]
    \/ \E p \in Procs : k \in DOMAIN held[p] /\ v = held[p][k]
    \/ \E p \in Procs : /\ pc[p] \in {"invalidate", "answer"}
                        /\ request[p].key = k
                        /\ v = answer[p].number

Newest ==
    \A k \in EmpNos :
        /\ k \in DOMAIN row => row[k] <= changes
        /\ \A v : Sees(k, v) => v <= changes /\ (k \in DOMAIN row => v <= row[k])

LEMMA RowsAreNumbers ==
    ASSUME TypeInv
    PROVE  /\ changes \in Nat
           /\ \A k \in DOMAIN row : row[k] \in Nat
           /\ \A k \in DOMAIN cached : cached[k] \in Nat
           /\ \A k \in EmpNos, c \in Clients : known[c][k] \in Nat
           /\ \A p \in Procs : answer[p].number \in Nat
<1>1. Employee \subseteq Nat /\ MaxChanges \in Nat
  BY ClientAssumption DEF Employee
<1>2. changes \in Nat
  BY <1>1 DEF TypeInv, ServiceTypes
<1>3. \A k \in DOMAIN row : row[k] \in Nat
  BY <1>1, TablesElim DEF TypeInv, ServiceTypes
<1>4. \A k \in DOMAIN cached : cached[k] \in Nat
  BY <1>1, TablesElim DEF TypeInv, ServiceTypes
<1>5. \A k \in EmpNos, c \in Clients : known[c][k] \in Nat
  BY <1>1 DEF TypeInv, ClientTypes
<1>6. \A p \in Procs : answer[p].number \in Nat
  BY <1>1 DEF TypeInv, CallTypes, Answers
<1>7. QED
  BY <1>2, <1>3, <1>4, <1>5, <1>6

\* A step without a statement holds nothing new but of a row.
LEMMA NewestKept ==
    ASSUME TypeInv, Newest, UNCHANGED <<row, changes>>,
           \A k \in EmpNos : \A v : Sees(k, v)' =>
               Sees(k, v) \/ v = 0 \/ (k \in DOMAIN row /\ v = row[k])
    PROVE  Newest'
<1>1. ASSUME NEW k \in EmpNos, NEW v, Sees(k, v)'
      PROVE  v <= changes /\ (k \in DOMAIN row => v <= row[k])
  <2>1. Sees(k, v) \/ v = 0 \/ (k \in DOMAIN row /\ v = row[k])
    BY <1>1
  <2>2. QED
    BY <2>1, RowsAreNumbers DEF Newest
<1>2. QED
  BY <1>1 DEF Newest

\* A step of a caller, but a statement, holds nothing new but of a row.
LEMMA CallSeesNothingNew ==
    ASSUME TypeInv, TypeInv', NEW p \in Procs, OthersKept(p), Call(p),
           NEW k \in EmpNos, NEW v, Sees(k, v)'
    PROVE  Sees(k, v)
<1>1. /\ UNCHANGED <<cached, known, held>>
      /\ pc'[p] \in {"service", "done"}
  BY DEF Call, OwnHit, OwnMiss, Mutate, Asks, serviceVars, clientVars, TypeInv,
     CallTypes
<1>2. QED
  BY <1>1 DEF Sees, OthersKept

LEMMA ReadSeesRows ==
    ASSUME TypeInv, TypeInv', NEW p \in Procs, OthersKept(p),
           ServiceHit(p) \/ ServiceFetch(p) \/ ServiceFill(p) \/ ServiceFails(p),
           NEW k \in EmpNos, NEW v, Sees(k, v)'
    PROVE  Sees(k, v) \/ v = 0 \/ (k \in DOMAIN row /\ v = row[k])
<1>1. UNCHANGED <<request, known>> /\ pc \in [Procs -> Steps]
      /\ answer \in [Procs -> Answers] /\ held \in [Procs -> Tables]
  BY ServeKeepsClients DEF Serve, TypeInv, CallTypes, ServiceTypes
<1>2. CASE ServiceHit(p) \/ ServiceFails(p)
  <2>1. UNCHANGED <<cached, held>>
    BY <1>2 DEF ServiceHit, ServiceFails, serviceVars
  <2>2. \/ answer'[p].number = 0
        \/ /\ request[p].key \in DOMAIN cached
           /\ answer'[p].number = cached[request[p].key]
    BY <1>1, <1>2 DEF ServiceHit, ServiceFails, Respond, NoAnswer, Success
  <2>3. QED
    BY <1>1, <2>1, <2>2 DEF Sees, OthersKept
<1>3. CASE ServiceFetch(p)
  <2>1. /\ UNCHANGED cached /\ pc'[p] = "fill"
        /\ held'[p] = Only(row, {request[p].key})
    BY <1>1, <1>3 DEF ServiceFetch, Fetch, Goto
  <2>2. k \in DOMAIN held'[p] => k \in DOMAIN row /\ held'[p][k] = row[k]
    BY <2>1 DEF Only
  <2>3. QED
    BY <1>1, <2>1, <2>2 DEF Sees, OthersKept
<1>4. CASE ServiceFill(p)
  <2>1. /\ cached' = Over(cached, Only(held[p], DOMAIN held[p]))
        /\ held'[p] = Except(held[p], DOMAIN held[p])
        /\ answer'[p].number = held[p][request[p].key]
        /\ pc[p] = "fill"
    BY <1>1, <1>4 DEF ServiceFill, Fill, Respond, Success, At
  <2>2. request[p].key \in DOMAIN held[p]
    BY <2>1 DEF TypeInv, Placed
  <2>3. k \notin DOMAIN held'[p]
    BY <2>1 DEF Except
  <2>4. k \in DOMAIN cached' =>
            \/ k \in DOMAIN held[p] /\ cached'[k] = held[p][k]
            \/ k \in DOMAIN cached /\ cached'[k] = cached[k]
    BY <2>1 DEF Over, Only
  <2>5. QED
    BY <1>1, <2>1, <2>2, <2>3, <2>4 DEF Sees, OthersKept
<1>5. QED
  BY <1>2, <1>3, <1>4

LEMMA InvalidationSeesNothingNew ==
    ASSUME TypeInv, TypeInv', NEW p \in Procs, OthersKept(p),
           ServiceInvalidate(p) \/ ServiceAbandon(p),
           NEW k \in EmpNos, NEW v, Sees(k, v)'
    PROVE  Sees(k, v) \/ v = 0
<1>1. UNCHANGED <<request, known, held>> /\ pc[p] = "invalidate"
      /\ answer \in [Procs -> Answers]
  BY ServeKeepsClients DEF Serve, ServiceInvalidate, ServiceAbandon, At, TypeInv,
     CallTypes, Invalidate, Abandon, NotThere
<1>2. answer'[p] = answer[p] \/ answer'[p].number = 0
  BY <1>1 DEF ServiceInvalidate, ServiceAbandon, Respond, NoAnswer
<1>3. k \in DOMAIN cached' => k \in DOMAIN cached /\ cached'[k] = cached[k]
  BY DEF ServiceInvalidate, ServiceAbandon, Invalidate, Abandon, NotThere, Except
<1>4. QED
  BY <1>1, <1>2, <1>3 DEF Sees, OthersKept

\* What a client learns was on its way to it.
LEMMA ClientLearns ==
    ASSUME TypeInv, NEW p \in Procs, Receive(p), NEW c \in Clients, NEW k \in EmpNos
    PROVE  \/ known'[c][k] = known[c][k]
           \/ /\ pc[p] = "answer" /\ answer[p].ok /\ request[p].op # "create"
              /\ c = ClientOf[p] /\ k = request[p].key
              /\ known'[c][k] = answer[p].number
              /\ known[c][k] <= answer[p].number
<1>1. CASE UNCHANGED known
  BY <1>1
<1>2. CASE ReadAnswered(p) \/ ChangeAnswered(p)
  <2>1. /\ pc[p] = "answer" /\ answer[p].ok /\ request[p].op # "create"
        /\ Learns(ClientOf[p], request[p].key, answer[p].number)
    BY <1>2 DEF ReadAnswered, ChangeAnswered, At
  <2>2. /\ ClientOf[p] \in Clients /\ request[p].key \in EmpNos
        /\ answer[p].number \in Employee
    BY <2>1, ClientAssumption, Same DEF TypeInv, Placed, Answers
  <2>3. known'[c][k] = IF c = ClientOf[p] /\ k = request[p].key
                       THEN Newer(known[ClientOf[p]][request[p].key], answer[p].number)
                       ELSE known[c][k]
    BY <2>1, <2>2, LearnsTypes
  <2>4. QED
    BY <2>1, <2>3, RowsAreNumbers DEF Newer
<1>3. QED
  BY <1>1, <1>2 DEF Receive, CreateAnswered, Failed, Return, clientVars

LEMMA ReceiveSeesNothingNew ==
    ASSUME TypeInv, TypeInv', NEW p \in Procs, OthersKept(p), Receive(p),
           NEW k \in EmpNos, NEW v, Sees(k, v)'
    PROVE  Sees(k, v)
<1>1. /\ UNCHANGED <<cached, held>>
      /\ pc'[p] \in {"idle", "done"}
  BY DEF Receive, ReadAnswered, ChangeAnswered, CreateAnswered, Failed, Return,
     Ends, serviceVars, TypeInv, CallTypes
<1>2. ASSUME NEW c \in Clients, v = known'[c][k]
      PROVE  Sees(k, v)
  BY <1>2, ClientLearns DEF Sees
<1>3. QED
  BY <1>1, <1>2 DEF Sees, OthersKept

\* A statement writes what is newer than all that is held.
LEMMA StatementKeepsNewest ==
    ASSUME TypeInv, TypeInv', Newest, NEW p \in Procs, OthersKept(p),
           ServiceChange(p) \/ ServiceCreate(p) \/ ServiceLosesChange(p)
    PROVE  Newest'
<1> PICK e : e = request[p].key
  OBVIOUS
<1>1. /\ Statement(request[p].op, e) /\ pc[p] = "service"
      /\ UNCHANGED <<cached, held, request, known>>
      /\ answer'[p].number \in {0, changes + 1}
  <2>1. UNCHANGED <<request, known>>
    BY ServeKeepsClients DEF Serve
  <2>2. pc[p] = "service" /\ UNCHANGED <<cached, held>>
    BY DEF ServiceChange, ServiceCreate, ServiceLosesChange, Change, Add,
       ChangeUnanswered, Changed, At
  <2>3. Statement(request[p].op, e)
    BY DEF ServiceChange, ServiceCreate, ServiceLosesChange, At
  <2>4. answer'[p] \in {Success(changes + 1, FALSE), NoAnswer}
    BY DEF ServiceChange, ServiceCreate, ServiceLosesChange, Respond, TypeInv,
       CallTypes
  <2>5. QED
    BY <2>1, <2>2, <2>3, <2>4 DEF Success, NoAnswer
<1>2. e \in EmpNos
  BY <1>1 DEF TypeInv, Placed
<1>3. /\ changes' = changes + 1 /\ changes \in Nat
      /\ \/ row' = row /\ e \notin DOMAIN row
         \/ row' = Over(row, [j \in {e} |-> changes + 1])
         \/ row' = Except(row, {e})
  BY <1>1, RowsAreNumbers DEF Statement, Counted, Sets, Removes
<1>4. ASSUME NEW k \in DOMAIN row'
      PROVE  \/ k = e /\ row'[k] = changes + 1
             \/ k # e /\ k \in DOMAIN row /\ row'[k] = row[k]
  BY <1>3, <1>4 DEF Over, Except
<1>5. ASSUME NEW k \in EmpNos, NEW v, Sees(k, v)'
      PROVE  Sees(k, v) \/ v = 0 \/ (k = e /\ v = changes + 1)
  BY <1>1, <1>5 DEF Sees, OthersKept
<1>6. ASSUME NEW k \in EmpNos, NEW v, Sees(k, v)'
      PROVE  v <= changes' /\ (k \in DOMAIN row' => v <= row'[k])
  <2>1. Sees(k, v) => v <= changes /\ (k \in DOMAIN row => v <= row[k])
    BY DEF Newest
  <2>2. Sees(k, v) => v \in Nat
    <3>1. k \in DOMAIN cached => cached[k] \in Nat
      BY RowsAreNumbers
    <3>2. \A c \in Clients : known[c][k] \in Nat
      BY RowsAreNumbers
    <3>3. \A q \in Procs : k \in DOMAIN held[q] => held[q][k] \in Nat
      BY TablesElim, ClientAssumption DEF TypeInv, ServiceTypes, Employee
    <3>4. \A q \in Procs : answer[q].number \in Nat
      BY RowsAreNumbers
    <3>5. QED
      BY <3>1, <3>2, <3>3, <3>4 DEF Sees
  <2>3. k \in DOMAIN row' => row'[k] \in Nat
    BY RowsAreNumbers, <1>3, <1>4
  <2>4. QED
    BY <1>3, <1>4, <1>5, <1>6, <2>1, <2>2, <2>3
<1>7. \A k \in EmpNos : k \in DOMAIN row' => row'[k] <= changes'
  BY <1>3, <1>4, RowsAreNumbers DEF Newest
<1>8. QED
  BY <1>6, <1>7 DEF Newest


\* A caller's step leaves the other callers as they are.
LEMMA CallersAlone ==
    ASSUME TypeInv, NEW p \in Procs, Call(p) \/ Serve(p) \/ Receive(p)
    PROVE  TypeInv' /\ OthersKept(p)
BY CallKeepsTypes, ReadsKeepTypes, ChangesKeepTypes, InvalidationsKeepTypes,
   ReceiveKeepsTypes DEF Serve

LEMMA NewestStep ==
    ASSUME TypeInv, Newest, [Next]_vars
    PROVE  Newest'
<1>1. ASSUME NEW p \in Procs, Call(p) \/ Receive(p)
      PROVE  Newest'
  <2>1. UNCHANGED <<row, changes>>
    BY <1>1 DEF Call, OwnHit, OwnMiss, Mutate, Asks, Receive, ReadAnswered,
       ChangeAnswered, CreateAnswered, Failed, Return, Ends, serviceVars
  <2>2. QED
    BY <1>1, <2>1, CallersAlone, CallSeesNothingNew, ReceiveSeesNothingNew, NewestKept
<1>2. ASSUME NEW p \in Procs,
             \/ ServiceHit(p) \/ ServiceFetch(p) \/ ServiceFill(p) \/ ServiceFails(p)
             \/ ServiceInvalidate(p) \/ ServiceAbandon(p)
      PROVE  Newest'
  <2>1. UNCHANGED <<row, changes>>
    BY <1>2 DEF ServiceHit, ServiceFetch, ServiceFill, ServiceFails,
       ServiceInvalidate, ServiceAbandon, Fetch, Fill, Invalidate, Abandon,
       NotThere, serviceVars
  <2>2. TypeInv' /\ OthersKept(p)
    BY <1>2, CallersAlone DEF Serve
  <2>3. QED
    BY <1>2, <2>1, <2>2, ReadSeesRows, InvalidationSeesNothingNew, NewestKept
<1>3. ASSUME NEW p \in Procs,
             ServiceChange(p) \/ ServiceCreate(p) \/ ServiceLosesChange(p)
      PROVE  Newest'
  BY <1>3, CallersAlone, StatementKeepsNewest DEF Serve
<1>4. CASE ServiceEvict \/ OwnEvict \/ UNCHANGED vars
  <2>1. /\ UNCHANGED <<row, changes, held, pc, request, answer, known>>
        /\ \A k \in DOMAIN cached' : k \in DOMAIN cached /\ cached'[k] = cached[k]
    BY <1>4 DEF ServiceEvict, Evict, Except, OwnEvict, serviceVars, callVars,
       clientVars, vars
  <2>2. QED
    BY <2>1, NewestKept DEF Sees
<1>5. QED
  BY <1>1, <1>2, <1>3, <1>4 DEF Next, Serve

-----------------------------------------------------------------------------
(* What a client learns is no newer than what the service has cached.      *)

\* A client has learnt v of employee k, or is about to.
Learnt(k, v) ==
    \/ \E c \in Clients : v = known[c][k]
    \/ \E p \in Procs : /\ pc[p] = "answer" /\ answer[p].ok
                        /\ request[p].op # "create" /\ request[p].key = k
                        /\ v = answer[p].number

\* A change reaches its client after the entry it makes stale is gone; later
\* entries are read from the table or leaked.
CachedRecent ==
    \A k \in DOMAIN cached \ leaked :
        \A v : Learnt(k, v) => v <= cached[k]

LEMMA LearntIsSeen ==
    ASSUME NEW k, NEW v, Learnt(k, v) PROVE Sees(k, v)
BY DEF Learnt, Sees

LEMMA CachedRecentKept ==
    ASSUME CachedRecent,
           \A k \in DOMAIN cached' \ leaked' :
              /\ k \in DOMAIN cached \ leaked /\ cached'[k] = cached[k]
              /\ \A v : Learnt(k, v)' => Learnt(k, v)
    PROVE  CachedRecent'
BY DEF CachedRecent

LEMMA CachedRecentStep ==
    ASSUME TypeInv, TypeInv', Newest', CachedRecent, [Next]_vars
    PROVE  CachedRecent'
<1>1. ASSUME NEW p \in Procs, Call(p) \/ Receive(p)
      PROVE  CachedRecent'
  <2>1. UNCHANGED <<cached, leaked>> /\ pc'[p] # "answer"
    BY <1>1 DEF Call, OwnHit, OwnMiss, Mutate, Asks, Receive, ReadAnswered,
       ChangeAnswered, CreateAnswered, Failed, Return, Ends, serviceVars,
       TypeInv, CallTypes
  <2>2. ASSUME NEW k \in EmpNos, NEW c \in Clients
        PROVE  Learnt(k, known'[c][k])
    <3>1. CASE known' = known
      BY <3>1 DEF Learnt
    <3>2. CASE Receive(p)
      BY <3>2, ClientLearns DEF Learnt
    <3>3. QED
      BY <1>1, <3>1, <3>2 DEF Call, OwnHit, OwnMiss, Mutate, Asks, clientVars
  <2>3. ASSUME NEW k \in EmpNos, NEW v, Learnt(k, v)'
        PROVE  Learnt(k, v)
    <3>1. CASE \E c \in Clients : v = known'[c][k]
      BY <2>2, <3>1
    <3>2. CASE \E q \in Procs : /\ pc'[q] = "answer" /\ answer'[q].ok
                                /\ request'[q].op # "create" /\ request'[q].key = k
                                /\ v = answer'[q].number
      BY <1>1, <2>1, <3>2, CallersAlone DEF OthersKept, Learnt
    <3>3. QED
      BY <2>3, <3>1, <3>2 DEF Learnt
  <2>4. DOMAIN cached \subseteq EmpNos
    BY TablesElim DEF TypeInv, ServiceTypes
  <2>5. QED
    BY <2>1, <2>3, <2>4, CachedRecentKept
<1>2. ASSUME NEW p \in Procs, Serve(p), ~ServiceFill(p)
      PROVE  CachedRecent'
  <2> PICK e : e = request[p].key
    OBVIOUS
  <2>1. UNCHANGED <<request, known>> /\ OthersKept(p)
    BY <1>2, ServeKeepsClients, CallersAlone
  <2>2. /\ leaked \subseteq leaked'
        /\ \A k \in DOMAIN cached' : k \in DOMAIN cached /\ cached'[k] = cached[k]
    BY <1>2 DEF Serve, ServiceHit, ServiceFetch, ServiceFails, ServiceChange,
       ServiceInvalidate, ServiceAbandon, ServiceCreate, ServiceLosesChange,
       Fetch, Change, Changed, Invalidate, Abandon, NotThere, Add,
       ChangeUnanswered, Except, serviceVars
  <2>3. ASSUME NEW k \in DOMAIN cached' \ leaked'
        PROVE  \/ ~(pc'[p] = "answer" /\ answer'[p].ok
                    /\ request[p].op # "create" /\ e = k)
               \/ answer'[p].number = cached[k]
    <3>1. CASE ServiceHit(p)
      BY <3>1 DEF ServiceHit, Respond, Success, TypeInv, CallTypes
    <3>2. CASE ServiceFetch(p) \/ ServiceChange(p)
      BY <3>2 DEF ServiceFetch, ServiceChange, Goto, TypeInv, CallTypes
    <3>3. CASE ServiceInvalidate(p)
      <4>1. /\ pending[p] = {e}
            /\ cached' = Except(cached, pending[p])
        BY <3>3 DEF ServiceInvalidate, Invalidate, TypeInv, Placed
      <4>2. k # e
        BY <2>3, <4>1 DEF Except
      <4>3. QED
        BY <4>2
    <3>4. CASE ServiceAbandon(p) \/ ServiceLosesChange(p) \/ ServiceFails(p)
      BY <3>4 DEF ServiceAbandon, ServiceLosesChange, ServiceFails, Respond,
         NoAnswer, TypeInv, CallTypes
    <3>5. CASE ServiceCreate(p)
      BY <3>5 DEF ServiceCreate, At
    <3>6. QED
      BY <1>2, <3>1, <3>2, <3>3, <3>4, <3>5 DEF Serve
  <2>4. ASSUME NEW k \in DOMAIN cached' \ leaked', NEW v, Learnt(k, v)'
        PROVE  Learnt(k, v) \/ v = cached[k]
    BY <2>1, <2>3, <2>4 DEF Learnt, OthersKept
  <2>5. \A k \in DOMAIN cached : cached[k] \in Nat
    BY RowsAreNumbers
  <2>6. QED
    BY <2>2, <2>4, <2>5 DEF CachedRecent
<1>3. ASSUME NEW p \in Procs, ServiceFill(p)
      PROVE  CachedRecent'
  <2> PICK e : e = request[p].key
    OBVIOUS
  <2>1. UNCHANGED <<request, known, row>> /\ OthersKept(p) /\ pc[p] = "fill"
    BY <1>3, ServeKeepsClients, CallersAlone DEF Serve, ServiceFill, Fill, At
  <2>2. /\ cached' = Over(cached, Only(held[p], DOMAIN held[p]))
        /\ leaked' = (leaked \ (DOMAIN held[p] \cap DOMAIN held[p]))
                         \cup Wrong(Only(held[p], DOMAIN held[p]))
    BY <1>3 DEF ServiceFill, Fill
  <2>3. e \in DOMAIN held[p]
    BY <2>1 DEF TypeInv, Placed
  <2>4. ASSUME NEW k \in DOMAIN cached' \ leaked', k \in DOMAIN held[p],
               NEW v, Learnt(k, v)'
        PROVE  v <= cached'[k]
    <3>1. cached'[k] = held[p][k] /\ k \in DOMAIN row' /\ row'[k] = held[p][k]
      BY <2>1, <2>2, <2>4 DEF Over, Only, Wrong
    <3>2. Sees(k, v)'
      BY <2>4, LearntIsSeen DEF Learnt, Sees
    <3>3. k \in EmpNos
      BY <2>4, TablesElim DEF TypeInv, ServiceTypes
    <3>4. QED
      BY <3>1, <3>2, <3>3 DEF Newest
  <2>5. ASSUME NEW k \in DOMAIN cached' \ leaked', k \notin DOMAIN held[p],
               NEW v, Learnt(k, v)'
        PROVE  v <= cached'[k]
    <3>1. k \in DOMAIN cached \ leaked /\ cached'[k] = cached[k]
      BY <2>2, <2>5 DEF Over, Only
    <3>2. Learnt(k, v)
      BY <2>1, <2>3, <2>5 DEF Learnt, OthersKept
    <3>3. QED
      BY <3>1, <3>2 DEF CachedRecent
  <2>6. QED
    BY <2>4, <2>5 DEF CachedRecent
<1>4. CASE ServiceEvict \/ OwnEvict \/ UNCHANGED vars
  <2>1. /\ UNCHANGED <<leaked, pc, request, answer, known>>
        /\ \A k \in DOMAIN cached' : k \in DOMAIN cached /\ cached'[k] = cached[k]
    BY <1>4 DEF ServiceEvict, Evict, Except, OwnEvict, serviceVars, callVars,
       clientVars, vars
  <2>2. QED
    BY <2>1, CachedRecentKept DEF Learnt
<1>5. QED
  BY <1>1, <1>2, <1>3, <1>4 DEF Next


-----------------------------------------------------------------------------
(* A client's own cache.                                                   *)

\* An entry of a client's cache that is not stained is what it knows.
OwnRecent ==
    \A c \in Clients : \A k \in DOMAIN own[c] \ stained[c] :
        known[c][k] <= own[c][k]

LEMMA OwnRecentStep ==
    ASSUME TypeInv, OwnRecent, [Next]_vars
    PROVE  OwnRecent'
<1>1. CASE UNCHANGED clientVars
  BY <1>1 DEF clientVars, OwnRecent
<1>2. ASSUME NEW p \in Procs, ReadAnswered(p)
      PROVE  OwnRecent'
  <2> PICK d, e, a : d = ClientOf[p] /\ e = request[p].key /\ a = answer[p]
    OBVIOUS
  <2>1. d \in Clients /\ e \in EmpNos /\ a.number \in Employee /\ a \in Answers
    BY <1>2, ClientAssumption, Same DEF ReadAnswered, At, TypeInv, Placed, Answers
  <2>2. \A c \in Clients : \A k \in EmpNos :
            known'[c][k] = IF c = d /\ k = e THEN Newer(known[d][e], a.number)
                                             ELSE known[c][k]
    BY <1>2, <2>1, LearnsTypes DEF ReadAnswered
  <2>3. CASE d \notin Caching
    <3>1. UNCHANGED <<own, stained>> /\ DOMAIN own[d] = {}
      BY <1>2, <2>1, <2>3 DEF ReadAnswered, TypeInv, ClientTypes, Nothing
    <3>2. \A c \in Clients : \A k \in DOMAIN own[c] : k \in EmpNos
      BY TablesElim DEF TypeInv, ClientTypes
    <3>3. QED
      BY <2>2, <3>1, <3>2 DEF OwnRecent
  <2>4. CASE d \in Caching
    <3>1. Written(d, e, a)
      BY <1>2, <2>4 DEF ReadAnswered
    <3>2. PICK new : new = [j \in {e} |-> a.number]
      OBVIOUS
    <3>3. /\ own' = [own EXCEPT ![d] = Over(own[d], new)]
          /\ stained' = [stained EXCEPT ![d] =
                 IF a.leaked \/ a.number < known[d][e] THEN stained[d] \cup {e}
                                                       ELSE stained[d] \ {e}]
      BY <3>1, <3>2 DEF Written
    <3>4. /\ \A c \in Clients \ {d} : own'[c] = own[c] /\ stained'[c] = stained[c]
          /\ \A k \in DOMAIN own'[d] \ {e} :
                k \in DOMAIN own[d] /\ own'[d][k] = own[d][k]
          /\ own'[d][e] = a.number
          /\ e \notin stained'[d] => a.number >= known[d][e]
          /\ \A k \in DOMAIN own[d] \ {e} : k \notin stained'[d] => k \notin stained[d]
      <4>1. own'[d] = Over(own[d], new)
        BY <2>1, <3>3 DEF TypeInv, ClientTypes
      <4>2. /\ \A k \in DOMAIN Over(own[d], new) \ {e} :
                  k \in DOMAIN own[d] /\ Over(own[d], new)[k] = own[d][k]
            /\ Over(own[d], new)[e] = a.number
        BY <3>2 DEF Over
      <4>3. /\ \A c \in Clients \ {d} : own'[c] = own[c] /\ stained'[c] = stained[c]
            /\ stained'[d] = IF a.leaked \/ a.number < known[d][e]
                             THEN stained[d] \cup {e} ELSE stained[d] \ {e}
        BY <2>1, <3>3 DEF TypeInv, ClientTypes
      <4>4. known[d][e] \in Nat /\ a.number \in Nat
        BY <2>1, RowsAreNumbers
      <4>5. QED
        BY <4>1, <4>2, <4>3, <4>4
    <3>5. ASSUME NEW c \in Clients, NEW k \in DOMAIN own'[c] \ stained'[c]
          PROVE  known'[c][k] <= own'[c][k]
      <4>1. CASE c = d /\ k = e
        <5>1. known'[d][e] = Newer(known[d][e], a.number)
          BY <2>1, <2>2
        <5>2. known[d][e] \in Nat /\ a.number \in Nat
          BY <2>1, RowsAreNumbers
        <5>3. QED
          BY <3>4, <3>5, <4>1, <5>1, <5>2 DEF Newer
      <4>2. CASE ~(c = d /\ k = e)
        <5>1. k \in DOMAIN own[c] \ stained[c] /\ own'[c][k] = own[c][k]
          BY <3>4, <3>5, <4>2
        <5>2. k \in EmpNos
          BY <5>1, TablesElim DEF TypeInv, ClientTypes
        <5>3. QED
          BY <2>2, <4>2, <5>1, <5>2 DEF OwnRecent
      <4>3. QED
        BY <4>1, <4>2
    <3>6. QED
      BY <3>5 DEF OwnRecent
  <2>5. QED
    BY <2>3, <2>4
<1>3. ASSUME NEW d \in Clients, NEW e, Dropped(d, e),
             \A c \in Clients, k \in EmpNos :
                 ~(c = d /\ k = e) => known'[c][k] = known[c][k]
      PROVE  OwnRecent'
  <2>1. /\ \A c \in Clients \ {d} : own'[c] = own[c] /\ stained'[c] = stained[c]
        /\ own'[d] = Except(own[d], {e}) /\ stained'[d] = stained[d] \ {e}
    BY <1>3 DEF Dropped, TypeInv, ClientTypes
  <2>2. \A k \in DOMAIN own'[d] : /\ k \in DOMAIN own[d] /\ k # e
                                  /\ own'[d][k] = own[d][k]
    BY <2>1 DEF Except
  <2>3. \A c \in Clients : \A k \in DOMAIN own[c] : k \in EmpNos
    BY TablesElim DEF TypeInv, ClientTypes
  <2>4. QED
    BY <1>3, <2>1, <2>2, <2>3 DEF OwnRecent
<1>4. ASSUME NEW p \in Procs, ChangeAnswered(p)
      PROVE  OwnRecent'
  <2> PICK d, e : d = ClientOf[p] /\ e = request[p].key
    OBVIOUS
  <2>1. d \in Clients /\ Dropped(d, e)
    BY <1>4, ClientAssumption DEF ChangeAnswered
  <2>2. \A c \in Clients, k \in EmpNos :
            ~(c = d /\ k = e) => known'[c][k] = known[c][k]
    BY <1>4, ClientLearns DEF Receive
  <2>3. QED
    BY <1>3, <2>1, <2>2
<1>5. CASE OwnEvict
  BY <1>3, <1>5 DEF OwnEvict
<1>6. ASSUME NEW p \in Procs, Serve(p)
      PROVE  UNCHANGED clientVars
  BY <1>6, ServeKeepsClients DEF clientVars
<1>7. QED
  BY <1>1, <1>2, <1>4, <1>5, <1>6 DEF Next, Call, OwnHit, OwnMiss, Mutate, Asks,
     Receive, CreateAnswered, Failed, Return, ServiceEvict, vars

\* An answer says whether it was leaked.
LEMMA SuccessFields ==
    ASSUME NEW number, NEW k, NEW S
    PROVE  LET a == Success(number, k \in S)
           IN  a.ok /\ a.number = number /\ (k \in S => a.leaked)
<1>1. Success(number, k \in S).number = number /\ Success(number, k \in S).ok
  BY DEF Success
<1>2. ASSUME k \in S
      PROVE  Success(number, k \in S).leaked
  <2>1. (k \in S) = TRUE
    BY <1>2
  <2>2. Success(number, k \in S) = Success(number, TRUE)
    BY <2>1
  <2>3. Success(number, TRUE).leaked
    BY DEF Success
  <2>4. QED
    BY <2>2, <2>3
<1>3. QED
  BY <1>1, <1>2

-----------------------------------------------------------------------------
(* A read under way.                                                       *)

\* What a read began with is what its client knew then; what it holds or is
\* answered is no older.
ReadRecent(p) ==
    request[p].op = "read" =>
        /\ pc[p] \in {"service", "fill"}
               => request[p].known <= known[ClientOf[p]][request[p].key]
        /\ pc[p] = "fill" => request[p].known <= held[p][request[p].key]
        /\ pc[p] \in {"answer", "done"} /\ answer[p].ok /\ ~answer[p].leaked
               => request[p].known <= answer[p].number

ReadsRecent == \A p \in Procs : ReadRecent(p)

LEMMA KnownGrows ==
    ASSUME TypeInv, [Next]_vars, NEW c \in Clients, NEW k \in EmpNos
    PROVE  known[c][k] <= known'[c][k]
<1>1. known[c][k] \in Nat
  BY RowsAreNumbers
<1>2. ASSUME NEW p \in Procs, Receive(p)
      PROVE  known[c][k] <= known'[c][k]
  BY <1>1, <1>2, ClientLearns
<1>3. CASE UNCHANGED known
  BY <1>1, <1>3
<1>4. QED
  BY <1>2, <1>3, ServeKeepsClients DEF Next, Call, OwnHit, OwnMiss, Mutate, Asks,
     ServiceEvict, OwnEvict, vars, clientVars

\* It is enough to look at the caller that takes the step.
LEMMA OthersReadsRecent ==
    ASSUME TypeInv, ReadsRecent, [Next]_vars, NEW q \in Procs,
           pc'[q] = pc[q], request'[q] = request[q], answer'[q] = answer[q],
           held'[q] = held[q]
    PROVE  ReadRecent(q)'
<1>1. CASE pc[q] \in {"service", "fill"}
  <2>1. ClientOf[q] \in Clients /\ request[q].key \in EmpNos
    BY <1>1, ClientAssumption DEF TypeInv, Placed
  <2>2. known[ClientOf[q]][request[q].key] <= known'[ClientOf[q]][request[q].key]
    BY <2>1, KnownGrows
  <2>3. /\ known[ClientOf[q]][request[q].key] \in Int
        /\ known'[ClientOf[q]][request[q].key] \in Int
        /\ request[q].known \in Int
    <3>1. TypeInv'
      BY TypeStep
    <3>2. request[q].known \in Int
      BY Same, NumbersOfStatements DEF Requests
    <3>3. QED
      BY <2>1, <3>1, <3>2, NumbersOfStatements DEF TypeInv, ClientTypes
  <2>4. QED
    BY <1>1, <2>2, <2>3 DEF ReadsRecent, ReadRecent
<1>2. CASE pc[q] \notin {"service", "fill"}
  BY <1>2 DEF ReadsRecent, ReadRecent
<1>3. QED
  BY <1>1, <1>2


\* The read begins: what it returns at once is not stained, or what it knows is
\* still to be compared.
LEMMA CallReadsRecent ==
    ASSUME TypeInv, OwnRecent, NEW p \in Procs, Call(p)
    PROVE  ReadRecent(p)'
<1>1. PICK k \in EmpNos, op \in Ops, step \in {"service", "done"} :
          /\ Asks(p, op, k, step)
          /\ step = "done" => OwnHit(p, k)
  BY DEF Call, OwnHit, OwnMiss, Mutate, Ops
<1> PICK c : c = ClientOf[p]
  OBVIOUS
<1>2. c \in Clients /\ known' = known
  BY <1>1, ClientAssumption DEF Asks, clientVars
<1>3. /\ pc'[p] = step /\ request'[p].op = op /\ request'[p].key = k
      /\ op = "read" => request'[p].known = known[c][k]
  BY <1>1 DEF Asks, TypeInv, CallTypes
<1>4. known[c][k] \in Nat
  BY <1>2, RowsAreNumbers
<1>5. CASE step = "service"
  BY <1>2, <1>3, <1>4, <1>5 DEF ReadRecent
<1>6. CASE step = "done"
  <2>1. /\ k \in DOMAIN own[c]
        /\ answer' = [answer EXCEPT ![p] = Success(own[c][k], k \in stained[c])]
    BY <1>1, <1>6 DEF OwnHit, Success
  <2>2. answer'[p] = Success(own[c][k], k \in stained[c])
    BY <2>1 DEF TypeInv, CallTypes
  <2>3. answer'[p].number = own[c][k] /\ (k \notin stained[c] \/ answer'[p].leaked)
    BY <2>2, SuccessFields
  <2>4. ~answer'[p].leaked => known[c][k] <= own[c][k]
    BY <1>2, <2>1, <2>3 DEF OwnRecent
  <2>5. QED
    BY <1>3, <1>6, <2>3, <2>4 DEF ReadRecent
<1>7. QED
  BY <1>5, <1>6

\* The service answers from its cache, or from what it read meanwhile.
LEMMA ServeReadsRecent ==
    ASSUME TypeInv, Newest, CachedRecent, ReadsRecent, NEW p \in Procs, Serve(p)
    PROVE  ReadRecent(p)'
<1> PICK c, k : c = ClientOf[p] /\ k = request[p].key
  OBVIOUS
<1>1. UNCHANGED <<request, known>> /\ c \in Clients
  BY ServeKeepsClients, ClientAssumption
<1>2. SUFFICES ASSUME request[p].op = "read"
               PROVE  ReadRecent(p)'
  BY <1>1 DEF ReadRecent
<1>3. pc \in [Procs -> Steps] /\ answer \in [Procs -> Answers]
      /\ held \in [Procs -> Tables] /\ request[p].known \in Nat
  BY Same, ClientAssumption DEF TypeInv, CallTypes, ServiceTypes, Requests, Employee
<1>4. CASE ServiceHit(p)
  <2>1. /\ pc[p] = "service" /\ k \in DOMAIN cached /\ pc'[p] = "answer"
        /\ answer'[p] = Success(cached[k], k \in leaked)
    BY <1>3, <1>4 DEF ServiceHit, Respond, Goto, At
  <2>2. answer'[p].number = cached[k] /\ (k \notin leaked \/ answer'[p].leaked)
    BY <2>1, SuccessFields
  <2>3. k \in EmpNos /\ request[p].known <= known[c][k]
    BY <1>2, <2>1 DEF ReadsRecent, ReadRecent, TypeInv, Placed
  <2>4. k \notin leaked => known[c][k] <= cached[k]
    BY <1>1, <2>1 DEF CachedRecent, Learnt
  <2>5. known[c][k] \in Nat /\ cached[k] \in Nat
    BY <1>1, <2>1, <2>3, RowsAreNumbers
  <2>6. QED
    BY <1>1, <1>3, <2>1, <2>2, <2>3, <2>4, <2>5 DEF ReadRecent
<1>5. CASE ServiceFetch(p)
  <2>1. /\ pc[p] = "service" /\ k \in DOMAIN row /\ pc'[p] = "fill"
        /\ held'[p] = Only(row, {k})
    BY <1>3, <1>5 DEF ServiceFetch, Fetch, Goto, At
  <2>2. k \in EmpNos /\ request[p].known <= known[c][k]
    BY <1>2, <2>1 DEF ReadsRecent, ReadRecent, TypeInv, Placed
  <2>3. known[c][k] <= row[k]
    BY <1>1, <2>1, <2>2 DEF Newest, Sees
  <2>4. known[c][k] \in Nat /\ row[k] \in Nat
    BY <1>1, <2>1, <2>2, RowsAreNumbers
  <2>5. held'[p][k] = row[k]
    BY <2>1 DEF Only
  <2>6. QED
    BY <1>1, <1>3, <2>1, <2>2, <2>3, <2>4, <2>5 DEF ReadRecent
<1>6. CASE ServiceFill(p)
  <2>1. /\ pc[p] = "fill" /\ pc'[p] = "answer"
        /\ answer'[p] = Success(held[p][k], FALSE)
    BY <1>3, <1>6 DEF ServiceFill, Respond, Goto, At
  <2>2. request[p].known <= held[p][k]
    BY <1>2, <2>1 DEF ReadsRecent, ReadRecent
  <2>3. QED
    BY <1>1, <2>1, <2>2 DEF ReadRecent, Success
<1>7. CASE ServiceLosesChange(p) \/ ServiceFails(p)
  <2>1. pc'[p] = "answer" /\ answer'[p] = NoAnswer
    BY <1>3, <1>7 DEF ServiceLosesChange, ServiceFails, Respond, Goto
  <2>2. QED
    BY <2>1 DEF ReadRecent, NoAnswer
<1>8. CASE \/ ServiceChange(p) \/ ServiceInvalidate(p) \/ ServiceAbandon(p)
           \/ ServiceCreate(p)
  BY <1>2, <1>8 DEF ServiceChange, ServiceInvalidate, ServiceAbandon,
     ServiceCreate, At, TypeInv, Placed
<1>9. QED
  BY <1>4, <1>5, <1>6, <1>7, <1>8 DEF Serve

LEMMA ReceiveReadsRecent ==
    ASSUME TypeInv, ReadsRecent, NEW p \in Procs, Receive(p)
    PROVE  ReadRecent(p)'
<1>1. PICK step \in {"idle", "done"} :
          /\ Ends(p, step)
          /\ step = "done" => ReadAnswered(p)
  BY DEF Receive, ReadAnswered, ChangeAnswered, CreateAnswered, Failed, Return
<1>2. CASE step = "idle"
  BY <1>1, <1>2, EndsTypes DEF ReadRecent, NoRequest
<1>3. CASE step = "done"
  <2>1. pc[p] = "answer" /\ pc'[p] = "done"
        /\ request'[p] = request[p] /\ answer'[p] = answer[p]
    BY <1>1, <1>3, EndsTypes DEF ReadAnswered, At
  <2>2. QED
    BY <2>1 DEF ReadsRecent, ReadRecent
<1>4. QED
  BY <1>2, <1>3

LEMMA ReadsRecentStep ==
    ASSUME TypeInv, Newest, CachedRecent, OwnRecent, ReadsRecent, [Next]_vars
    PROVE  ReadsRecent'
<1>1. ASSUME NEW p \in Procs, Call(p) \/ Serve(p) \/ Receive(p)
      PROVE  ReadsRecent'
  <2>1. OthersKept(p)
    BY <1>1, CallersAlone
  <2>2. ReadRecent(p)'
    BY <1>1, CallReadsRecent, ServeReadsRecent, ReceiveReadsRecent
  <2>3. \A q \in Procs \ {p} : ReadRecent(q)'
    BY <2>1, OthersReadsRecent DEF OthersKept
  <2>4. QED
    BY <2>2, <2>3 DEF ReadsRecent
<1>2. CASE ServiceEvict \/ OwnEvict \/ UNCHANGED vars
  <2>1. UNCHANGED <<pc, request, answer, held>>
    BY <1>2 DEF ServiceEvict, Evict, OwnEvict, vars, serviceVars, callVars
  <2>2. QED
    BY <2>1, OthersReadsRecent DEF ReadsRecent
<1>3. QED
  BY <1>1, <1>2 DEF Next

-----------------------------------------------------------------------------
ClientInv == TypeInv /\ Newest /\ CachedRecent /\ OwnRecent /\ ReadsRecent

LEMMA ClientInvInit == Init => ClientInv
<1> SUFFICES ASSUME Init PROVE ClientInv
  OBVIOUS
<1>1. TypeInv
  BY TypeInvInit
<1>2. /\ \A k \in DOMAIN row : row[k] = 0
      /\ changes = 0 /\ DOMAIN cached = {}
      /\ \A p \in Procs : DOMAIN held[p] = {} /\ pc[p] = "idle"
      /\ \A c \in Clients : DOMAIN own[c] = {} /\ \A k \in EmpNos : known[c][k] = 0
  BY DEF Init, RTInit, Nothing
<1>3. Newest
  BY <1>2 DEF Newest, Sees
<1>4. CachedRecent /\ OwnRecent
  BY <1>2 DEF CachedRecent, OwnRecent
<1>5. ReadsRecent
  BY <1>2 DEF ReadsRecent, ReadRecent
<1>6. QED
  BY <1>1, <1>3, <1>4, <1>5 DEF ClientInv

LEMMA ClientInvStep == ClientInv /\ [Next]_vars => ClientInv'
BY TypeStep, NewestStep, CachedRecentStep, OwnRecentStep, ReadsRecentStep DEF ClientInv

\* No program sees an employee go back in time: a read never returns contents
\* older than what its client had read, or had been told it wrote or removed,
\* before the read began, unless they come from an entry leaked at the service
\* or left by an overtaken read of the same client (EmployeeRead,
\* EmployeeUpdate and EmployeeDelete of client.go over those of logic.go).
THEOREM ClientsReadForward == Spec => []ReadsGoForward
<1>1. ClientInv => ReadsGoForward
  BY DEF ClientInv, ReadsRecent, ReadRecent, ReadsGoForward, TypeInv, Placed
<1>2. QED
  BY <1>1, ClientInvInit, ClientInvStep, PTL DEF Spec
=============================================================================
