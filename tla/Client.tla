------------------------------- MODULE Client -------------------------------
(***************************************************************************)
(* The client (internal/client) with a cache of its own over a service     *)
(* that has one: what a program sees that reads and changes employees      *)
(* through it, while other clients do the same.  The service is            *)
(* ReadThrough, which Logic implements.                                    *)
(***************************************************************************)
EXTENDS Integers, FiniteSets

CONSTANTS
    Clients,    \* programs, each with one client
    Procs,      \* goroutines that call a client, one request at a time each
    ClientOf,   \* the client each of them calls
    Caching,    \* clients with a cache of their own (CACHE_DISABLED is false)
    EmpNos,     \* employee numbers
    MaxChanges  \* bound of the model: statements that change an employee

ASSUME ClientAssumption ==
    /\ ClientOf \in [Procs -> Clients]
    /\ Caching \subseteq Clients
    /\ MaxChanges \in Nat

\* The contents of a row are the number of the statement that wrote it, so
\* newer contents are greater.
Employee == 0..MaxChanges

VARIABLES
    row, cached, held, pending, leaked,   \* the service, see ReadThrough
    changes,  \* statements so far
    own,      \* each client's cache
    pc,       \* what each caller's request does next
    request,  \* what it asked for
    answer,   \* what the service answers it
    known,    \* history: the newest contents each client has read, or has
              \* been told it wrote or removed
    stained   \* history: entries of its own that are older than that, or that
              \* came from one leaked at the service

INSTANCE ReadThrough

serviceVars == <<row, cached, held, pending, leaked>>
callVars    == <<pc, request, answer>>
clientVars  == <<own, known, stained>>
vars        == <<serviceVars, changes, callVars, clientVars>>

Ops == {"read", "update", "delete", "create"}

NoRequest == [op |-> "none", key |-> 0, known |-> 0]
NoAnswer  == [ok |-> FALSE, number |-> 0, leaked |-> FALSE]

Newer(i, j) == IF i > j THEN i ELSE j

Init ==
    /\ RTInit
    /\ \A k \in DOMAIN row : row[k] = 0
    /\ changes = 0
    /\ own = [c \in Clients |-> Nothing]
    /\ pc = [p \in Procs |-> "idle"]
    /\ request = [p \in Procs |-> NoRequest]
    /\ answer = [p \in Procs |-> NoAnswer]
    /\ known = [c \in Clients |-> [k \in EmpNos |-> 0]]
    /\ stained = [c \in Clients |-> {}]

-----------------------------------------------------------------------------
(* A caller calls its client                                               *)

Asks(p, op, k, step) ==
    /\ pc[p] = "idle"
    /\ request' = [request EXCEPT ![p] =
           [op |-> op, key |-> k,
            known |-> IF op = "read" THEN known[ClientOf[p]][k] ELSE 0]]
    /\ pc' = [pc EXCEPT ![p] = step]
    /\ UNCHANGED <<serviceVars, changes, clientVars>>

\* EmployeeRead asks the client's own cache first,
OwnHit(p, k) ==
    LET c == ClientOf[p]
    IN  /\ k \in DOMAIN own[c]
        /\ Asks(p, "read", k, "done")
        /\ answer' = [answer EXCEPT ![p] =
               [ok |-> TRUE, number |-> own[c][k], leaked |-> k \in stained[c]]]

\* then the service.
OwnMiss(p, k) ==
    /\ k \notin DOMAIN own[ClientOf[p]]
    /\ Asks(p, "read", k, "service")
    /\ UNCHANGED answer

\* EmployeeCreate, EmployeeUpdate and EmployeeDelete go to the service.
Mutate(p, op, k) ==
    /\ op # "read"
    /\ Asks(p, op, k, "service")
    /\ UNCHANGED answer

-----------------------------------------------------------------------------
(* The service's endpoints: the logic's work, then handleResponse          *)

At(p, step, op) == pc[p] = step /\ request[p].op = op

Goto(p, step) ==
    /\ pc' = [pc EXCEPT ![p] = step]
    /\ UNCHANGED <<request, clientVars>>

Respond(p, a) ==
    /\ answer' = [answer EXCEPT ![p] = a]
    /\ Goto(p, "answer")

Success(number, isLeaked) ==
    [ok |-> TRUE, number |-> number, leaked |-> isLeaked]

\* endpointEmployeeRead: from the service's cache,
ServiceHit(p) ==
    LET k == request[p].key
    IN  /\ At(p, "service", "read")
        /\ k \in DOMAIN cached
        /\ Respond(p, Success(cached[k], k \in leaked))
        /\ UNCHANGED <<serviceVars, changes>>

\* or from the table, where it may have missed before others filled the cache.
ServiceFetch(p) ==
    /\ At(p, "service", "read")
    /\ request[p].key \in DOMAIN row
    /\ Fetch(p, {request[p].key})
    /\ Goto(p, "fill")
    /\ UNCHANGED <<changes, answer>>

ServiceFill(p) ==
    /\ At(p, "fill", "read")
    /\ Fill(p, DOMAIN held[p])
    /\ Respond(p, Success(held[p][request[p].key], FALSE))
    /\ UNCHANGED changes

\* A statement of the service changes employee k to v, or removes it.
Counted == changes < MaxChanges /\ changes' = changes + 1
Sets(k)    == row' = Over(row, [j \in {k} |-> changes + 1])
Removes(k) == row' = Except(row, {k})

\* What a mutation does to the table; an update of a number that has no row
\* changes nothing.
Statement(op, k) ==
    /\ Counted
    /\ \/ op = "update" /\ k \in DOMAIN row /\ Sets(k)
       \/ op = "update" /\ k \notin DOMAIN row /\ row' = row
       \/ op = "delete" /\ k \in DOMAIN row /\ Removes(k)
       \/ op = "create" /\ k \notin DOMAIN row /\ Sets(k)

\* endpointEmployeeUpdate and endpointEmployeeDelete.
ServiceChange(p) ==
    /\ pc[p] = "service"
    /\ request[p].op \in {"update", "delete"}
    /\ Statement(request[p].op, request[p].key)
    /\ Change(p, request[p].key)
    /\ answer' = [answer EXCEPT ![p] = Success(changes + 1, FALSE)]
    /\ Goto(p, "invalidate")

ServiceInvalidate(p) ==
    /\ pc[p] = "invalidate"
    /\ Invalidate(p)
    /\ Respond(p, answer[p])
    /\ UNCHANGED changes

\* An update that does not read back what it wrote.
ServiceAbandon(p) ==
    /\ At(p, "invalidate", "update")
    /\ Abandon(p) \/ NotThere(p)
    /\ Respond(p, NoAnswer)
    /\ UNCHANGED changes

\* endpointEmployeeCreate: which free number it takes is the store's choice.
ServiceCreate(p) ==
    /\ At(p, "service", "create")
    /\ Statement("create", request[p].key)
    /\ Add(request[p].key)
    /\ Respond(p, Success(changes + 1, FALSE))

\* An error after the statement took effect,
ServiceLosesChange(p) ==
    /\ pc[p] = "service"
    /\ Statement(request[p].op, request[p].key)
    /\ ChangeUnanswered(request[p].key)
    /\ Respond(p, NoAnswer)

\* and one before: no such employee, a failed statement, an unreadable
\* request, a refused mutation.
ServiceFails(p) ==
    /\ pc[p] = "service"
    /\ Respond(p, NoAnswer)
    /\ UNCHANGED <<serviceVars, changes>>

\* The service's entries expire, or a client calls CacheClear.
ServiceEvict ==
    /\ \E ks \in SUBSET EmpNos : Evict(ks)
    /\ UNCHANGED <<changes, callVars, clientVars>>

-----------------------------------------------------------------------------
(* The answer reaches the client                                           *)

Ends(p, step) ==
    /\ pc' = [pc EXCEPT ![p] = step]
    /\ request' = IF step = "idle" THEN [request EXCEPT ![p] = NoRequest]
                                   ELSE request
    /\ answer' = IF step = "idle" THEN [answer EXCEPT ![p] = NoAnswer]
                                  ELSE answer
    /\ UNCHANGED <<serviceVars, changes>>

Learns(c, k, number) ==
    known' = [known EXCEPT ![c][k] = Newer(@, number)]

\* The client's cache, and what is wrong in it, with an answer written to it.
Written(c, k, a) ==
    /\ own' = [own EXCEPT ![c] = Over(@, [j \in {k} |-> a.number])]
    /\ stained' = [stained EXCEPT ![c] =
           IF a.leaked \/ a.number < known[c][k] THEN @ \cup {k} ELSE @ \ {k}]

\* The switch is not asked.
ReadAnswered_Always(p) ==
    /\ At(p, "answer", "read") /\ answer[p].ok
    /\ Written(ClientOf[p], request[p].key, answer[p])
    /\ Learns(ClientOf[p], request[p].key, answer[p].number)
    /\ Ends(p, "done")

\* A read is written to the client's cache, however old it is by now.
ReadAnswered(p) ==
    /\ At(p, "answer", "read") /\ answer[p].ok
    /\ IF ClientOf[p] \in Caching
       THEN Written(ClientOf[p], request[p].key, answer[p])
       ELSE UNCHANGED <<own, stained>>
    /\ Learns(ClientOf[p], request[p].key, answer[p].number)
    /\ Ends(p, "done")

Dropped(c, k) ==
    /\ own' = [own EXCEPT ![c] = Except(@, {k})]
    /\ stained' = [stained EXCEPT ![c] = @ \ {k}]

\* Only the service is told.
ChangeAnswered_KeepsOwn(p) ==
    /\ pc[p] = "answer" /\ answer[p].ok
    /\ request[p].op \in {"update", "delete"}
    /\ UNCHANGED <<own, stained>>
    /\ Learns(ClientOf[p], request[p].key, answer[p].number)
    /\ Ends(p, "idle")

\* A change drops the employee from the client's cache.
ChangeAnswered(p) ==
    /\ pc[p] = "answer" /\ answer[p].ok
    /\ request[p].op \in {"update", "delete"}
    /\ Dropped(ClientOf[p], request[p].key)
    /\ Learns(ClientOf[p], request[p].key, answer[p].number)
    /\ Ends(p, "idle")

\* A new employee touches no cache.
CreateAnswered(p) ==
    /\ At(p, "answer", "create") /\ answer[p].ok
    /\ UNCHANGED clientVars
    /\ Ends(p, "idle")

\* The service answered an error, or its answer was lost or came too late: the
\* client's cache stays as it is.  doRequest retries a request that was
\* answered with 429, but with method and uri exchanged, which is an error
\* without a request.
Failed(p) ==
    /\ pc[p] = "answer"
    /\ UNCHANGED clientVars
    /\ Ends(p, "idle")

\* EmployeeRead returns to its caller.
Return(p) ==
    /\ pc[p] = "done"
    /\ UNCHANGED clientVars
    /\ Ends(p, "idle")

\* Entries of a client's cache expire.
OwnEvict ==
    /\ \E c \in Clients : \E k \in DOMAIN own[c] : Dropped(c, k)
    /\ UNCHANGED <<serviceVars, changes, callVars, known>>

-----------------------------------------------------------------------------
Call(p) ==
    \E k \in EmpNos : \/ OwnHit(p, k) \/ OwnMiss(p, k)
                      \/ \E op \in Ops : Mutate(p, op, k)

Serve(p) ==
    \/ ServiceHit(p) \/ ServiceFetch(p) \/ ServiceFill(p)
    \/ ServiceChange(p) \/ ServiceInvalidate(p) \/ ServiceAbandon(p)
    \/ ServiceCreate(p) \/ ServiceLosesChange(p) \/ ServiceFails(p)

Receive(p) ==
    \/ ReadAnswered(p) \/ ChangeAnswered(p) \/ CreateAnswered(p)
    \/ Failed(p) \/ Return(p)

Next ==
    \/ \E p \in Procs : Call(p) \/ Serve(p) \/ Receive(p)
    \/ ServiceEvict \/ OwnEvict

Spec == Init /\ [][Next]_vars

-----------------------------------------------------------------------------
ClientTypeOK ==
    /\ row \in Tables /\ cached \in Tables
    /\ held \in [Procs -> Tables]
    /\ pending \in [Procs -> SUBSET EmpNos]
    /\ leaked \in SUBSET EmpNos
    /\ changes \in 0..MaxChanges
    /\ own \in [Clients -> Tables]
    /\ pc \in [Procs -> {"idle", "service", "fill", "invalidate", "answer",
                         "done"}]
    /\ \A p \in Procs :
          /\ request[p].op \in Ops \cup {"none"}
          /\ request[p].key \in EmpNos \cup {0}
          /\ request[p].known \in Employee
    /\ answer \in [Procs -> [ok : BOOLEAN, number : Employee, leaked : BOOLEAN]]
    /\ known \in [Clients -> [EmpNos -> Employee]]
    /\ \A c \in Clients : stained[c] \subseteq DOMAIN own[c]
    /\ \A c \in Clients \ Caching : own[c] = Nothing

\* A program sees no employee go back in time: what a read returns is not
\* older than what its client had read, or had been told it wrote or removed,
\* before the read began; in both caches, whoever fills and invalidates them
\* meanwhile.  Two things take that away: an entry that was leaked at the
\* service, and one that an overtaken read of the same client left
\* (EmployeeRead, EmployeeUpdate and EmployeeDelete of client.go and logic.go).
ReadsGoForward ==
    \A p \in Procs :
        pc[p] = "done" /\ ~answer[p].leaked
        => answer[p].number >= request[p].known
=============================================================================
