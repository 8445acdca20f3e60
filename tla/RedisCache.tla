----------------------------- MODULE RedisCache -----------------------------
(***************************************************************************)
(* The cache that service replicas share in Redis                          *)
(* (internal/cache/redis.go), without its sleeps, which go the same way    *)
(* through hashes of their own.  Redis executes one command at a time, so  *)
(* every command is a step and an operation is a sequence of them; what    *)
(* orders the steps of different workers is a mutex the program makes of a *)
(* key: SETNX with an expiration takes it, a script gives it back.         *)
(*                                                                         *)
(* Contents and answers are left out: a hash is the set of its fields, and *)
(* a mutex the number of ticks its key has left, 0 when there is none.     *)
(***************************************************************************)
EXTENDS Integers

CONSTANTS
    Clients,            \* goroutines that serve requests, in all replicas
    FlagPruners,        \* goroutines of launchPruneSetRead
    AbsencePruners,     \* goroutines of launchPruneNotFound
    EmpNos,             \* employee numbers
    Searches,           \* search keys
    Ops,                \* the operations clients call
    Expiration,         \* CACHE_REDIS_MUTEX_EXPIRATION, in ticks
    InProgressEnabled,  \* CACHE_ENABLE_IN_PROGRESS
    NotFoundEnabled,    \* CACHE_NOT_FOUND_ENABLED
    MayFail             \* whether commands may fail and processes stop

Pruners   == FlagPruners \cup AbsencePruners
Workers   == Clients \cup Pruners
ClientOps == {"read", "search", "write", "delete", "absent", "clear"}
PrunerOps == {"pruneFlags", "pruneAbsences"}

ASSUME ClientOpsAssumption == Ops \subseteq ClientOps

\* SETNX with an expiration of 0 would make a key that stays for ever.
ASSUME ExpirationAssumption == Expiration \in Nat \ {0}

ASSUME WorkersAssumption ==
    Clients \cap Pruners = {} /\ FlagPruners \cap AbsencePruners = {}

VARIABLES
    employees,  \* fields of hash "employees"
    searches,   \* hash "employees_search": search -> employee numbers
    flags,      \* fields of hash "in_progress_employees"
    absences,   \* fields of hash "not_found_employees"
    mutex,      \* ticks left of the keys of the two mutexes
    lost,       \* history: mutexes taken from under a worker that holds them
    call,       \* the operation each worker executes, and its arguments
    pc,         \* the command it gives next
    todo        \* the fields that are still to be given to that command

hashes == <<employees, searches, flags, absences>>
vars   == <<hashes, mutex, lost, call, pc, todo>>

Fields  == EmpNos \cup Searches
Mutexes == {"inProgress", "notFound"}
NoCall  == [op |-> "none", search |-> {}, empNos |-> {}]

\* A search is a set of one key, or of none in calls that have no search.
Keys == { {s} : s \in Searches }

\* What a client may call: reads and invalidations of one employee, searches,
\* and what follows a query.  EmployeesWrite of no employees comes from a
\* client of the service whose search was answered with an empty list.
Calls(op) ==
    CASE op \in {"read", "delete"} ->
             [op : {op}, search : {{}}, empNos : { {k} : k \in EmpNos }]
      [] op = "search" -> [op : {op}, search : Keys, empNos : {{}}]
      [] op \in {"write", "absent"} ->
             [op : {op}, search : Keys, empNos : SUBSET EmpNos]
      [] op = "clear" -> [op : {op}, search : {{}}, empNos : {{}}]

\* Commands given while a mutex is held.
Critical ==
    {"flag", "unflag", "deleteAgain", "record", "scan", "prune", "unlock"}

ClearSteps ==
    { "clearEmployees", "clearSearches", "clearFlags", "clearFlagsMutex",
      "clearAbsences", "clearAbsencesMutex" }

Steps == {"idle", "get", "set", "delete", "lock"} \cup Critical \cup ClearSteps

\* Hashes have fields of their kind, and the key of a mutex never has longer to
\* live than the mutex's own expiration, whoever sets it (Lock).
RedisTypeOK ==
    /\ employees \in SUBSET EmpNos
    /\ searches \in UNION { [S -> SUBSET EmpNos] : S \in SUBSET Searches }
    /\ flags \in SUBSET Fields
    /\ absences \in SUBSET Fields
    /\ mutex \in [Mutexes -> 0..Expiration]
    /\ lost \in SUBSET Mutexes
    /\ call \in [Workers -> [op     : ClientOps \cup PrunerOps \cup {"none"},
                             search : SUBSET Searches,
                             empNos : SUBSET EmpNos]]
    /\ pc \in [Workers -> Steps]
    /\ todo \in [Workers -> SUBSET Fields]

\* Open on an empty database.
Init ==
    /\ employees = {}
    /\ searches = [s \in {} |-> {}]
    /\ flags = {}
    /\ absences = {}
    /\ mutex = [m \in Mutexes |-> 0]
    /\ lost = {}
    /\ call = [w \in Workers |-> NoCall]
    /\ pc = [w \in Workers |-> "idle"]
    /\ todo = [w \in Workers |-> {}]

-----------------------------------------------------------------------------
(* Workers                                                                 *)

MutexOf(op) ==
    IF op \in {"absent", "pruneAbsences"} THEN "notFound" ELSE "inProgress"

Holds(w, m) == pc[w] \in Critical /\ MutexOf(call[w].op) = m

\* Of the mutexes that were lost, those somebody still believes to hold.
StillHeld(losses) ==
    { m \in losses : \E w \in Workers :
        pc'[w] \in Critical /\ MutexOf(call'[w].op) = m }

Goto(w, step, fields) ==
    /\ pc' = [pc EXCEPT ![w] = step]
    /\ todo' = [todo EXCEPT ![w] = fields]
    /\ UNCHANGED <<call, lost>>

\* The workers of S return, or stop where they are.
Leave(S) ==
    /\ pc' = [w \in Workers |-> IF w \in S THEN "idle" ELSE pc[w]]
    /\ todo' = [w \in Workers |-> IF w \in S THEN {} ELSE todo[w]]
    /\ call' = [w \in Workers |-> IF w \in S THEN NoCall ELSE call[w]]
    /\ lost' = StillHeld(lost)

Return(w) == Leave({w})

\* What is left of an operation after its first commands is about the flags.
LockOrReturn(w) ==
    IF InProgressEnabled THEN Goto(w, "lock", {}) ELSE Return(w)

FirstStep(op) ==
    CASE op \in {"read", "search"} -> "get"
      [] op = "write"              -> "set"
      [] op = "delete"             -> "delete"
      [] op = "absent"             -> "lock"
      [] op = "clear"              -> "clearEmployees"

Start(w) ==
    /\ w \in Clients
    /\ pc[w] = "idle"
    /\ \E op \in Ops : \E c \in Calls(op) :
          /\ op = "absent" => NotFoundEnabled
          /\ call' = [call EXCEPT ![w] = c]
          /\ pc' = [pc EXCEPT ![w] = FirstStep(op)]
          /\ todo' = [todo EXCEPT ![w] =
                          IF op = "write" THEN c.search \cup c.empNos ELSE {}]
    /\ UNCHANGED <<hashes, mutex, lost>>

\* A pruner, which Open launches if its feature is enabled, takes a tick.
StartPruning(w) ==
    /\ \/ w \in FlagPruners /\ InProgressEnabled
       \/ w \in AbsencePruners /\ NotFoundEnabled
    /\ pc[w] = "idle"
    /\ call' = [call EXCEPT ![w].op =
                    IF w \in FlagPruners THEN "pruneFlags" ELSE "pruneAbsences"]
    /\ pc' = [pc EXCEPT ![w] = "lock"]
    /\ UNCHANGED <<hashes, mutex, lost, todo>>

-----------------------------------------------------------------------------
(* Commands given without a mutex                                          *)

\* A hit: the other commands of a search that was recorded read employees
\* and change nothing.  A search that was not is answered by an error of the
\* library; only one recorded with no employees counts as missed.
Found(c) ==
    IF c.op = "read" THEN c.empNos \subseteq employees
    ELSE c.search \subseteq DOMAIN searches => \A s \in c.search : searches[s] # {}

\* What was missed is flagged at once, without the mutex.
Get_Unlocked(w) ==
    /\ pc[w] = "get"
    /\ flags' = IF Found(call[w]) THEN flags
                ELSE flags \cup call[w].search \cup call[w].empNos
    /\ Return(w)
    /\ UNCHANGED <<employees, searches, absences, mutex>>

\* HGET of EmployeeRead and EmployeesRead
Get(w) ==
    /\ pc[w] = "get"
    /\ IF Found(call[w]) THEN Return(w) ELSE LockOrReturn(w)
    /\ UNCHANGED <<hashes, mutex>>

\* EmployeesWrite: HSET of one employee after another, then of the search.
SetEmployee(w) ==
    /\ pc[w] = "set"
    /\ \E k \in todo[w] \cap EmpNos :
          /\ employees' = employees \cup {k}
          /\ Goto(w, "set", todo[w] \ {k})
    /\ UNCHANGED <<searches, flags, absences, mutex>>

SetSearch(w) ==
    /\ pc[w] = "set"
    /\ todo[w] \cap EmpNos = {}
    /\ searches' = [s \in DOMAIN searches \cup call[w].search |->
                        IF s \in call[w].search THEN call[w].empNos
                                                ELSE searches[s]]
    /\ LockOrReturn(w)
    /\ UNCHANGED <<employees, flags, absences, mutex>>

\* EmployeesDelete: HDEL of the employees.
Delete(w) ==
    /\ pc[w] = "delete"
    /\ employees' = employees \ call[w].empNos
    /\ LockOrReturn(w)
    /\ UNCHANGED <<searches, flags, absences, mutex>>

\* Clear: DEL of one key after another, those of the mutexes included.
ClearHash(w) ==
    \/ /\ pc[w] = "clearEmployees"
       /\ employees' = {}
       /\ Goto(w, "clearSearches", {})
       /\ UNCHANGED <<searches, flags, absences, mutex>>
    \/ /\ pc[w] = "clearSearches"
       /\ searches' = [s \in {} |-> {}]
       /\ Goto(w, "clearFlags", {})
       /\ UNCHANGED <<employees, flags, absences, mutex>>
    \/ /\ pc[w] = "clearFlags"
       /\ flags' = {}
       /\ Goto(w, "clearFlagsMutex", {})
       /\ UNCHANGED <<employees, searches, absences, mutex>>
    \/ /\ pc[w] = "clearAbsences"
       /\ absences' = {}
       /\ Goto(w, "clearAbsencesMutex", {})
       /\ UNCHANGED <<employees, searches, flags, mutex>>

ClearMutex(w) ==
    \/ /\ pc[w] = "clearFlagsMutex"
       /\ mutex' = [mutex EXCEPT !["inProgress"] = 0]
       /\ pc' = [pc EXCEPT ![w] = "clearAbsences"]
       /\ UNCHANGED <<call, todo, hashes>>
       /\ lost' = StillHeld(lost \cup {"inProgress"})
    \/ /\ pc[w] = "clearAbsencesMutex"
       /\ mutex' = [mutex EXCEPT !["notFound"] = 0]
       /\ pc' = [pc EXCEPT ![w] = "idle"]
       /\ call' = [call EXCEPT ![w] = NoCall]
       /\ UNCHANGED <<todo, hashes>>
       /\ lost' = StillHeld(lost \cup {"notFound"})

-----------------------------------------------------------------------------
(* The mutex                                                               *)

\* The first command given under the mutex, and the fields it is given.
FirstCritical(op) ==
    CASE op \in {"read", "search"} -> "flag"
      [] op = "write"              -> "unflag"
      [] op = "delete"             -> "deleteAgain"
      [] op = "absent"             -> "record"
      [] op \in PrunerOps          -> "scan"

Enter(w) ==
    Goto(w, FirstCritical(call[w].op),
         IF call[w].op = "absent" THEN call[w].search \cup call[w].empNos
                                  ELSE {})

\* SET without NX: whoever tries has it.
TryLock_Overwrites(w) ==
    /\ pc[w] = "lock"
    /\ mutex' = [mutex EXCEPT ![MutexOf(call[w].op)] = Expiration]
    /\ Enter(w)
    /\ UNCHANGED hashes

\* A try that comes too late sets the expiration anew.
TryLock_Renews(w) ==
    /\ pc[w] = "lock"
    /\ mutex' = [mutex EXCEPT ![MutexOf(call[w].op)] = Expiration]
    /\ IF mutex[MutexOf(call[w].op)] = 0 THEN Enter(w)
       ELSE UNCHANGED <<pc, call, todo, lost>>
    /\ UNCHANGED hashes

\* The key is given CACHE_TTL, of a tick more, like a hash.
TryLock_CacheTTL(w) ==
    /\ pc[w] = "lock"
    /\ mutex[MutexOf(call[w].op)] = 0
    /\ mutex' = [mutex EXCEPT ![MutexOf(call[w].op)] = Expiration + 1]
    /\ Enter(w)
    /\ UNCHANGED hashes

\* SETNX; a worker that does not get the key tries again with its ticker.
TryLock(w) ==
    /\ pc[w] = "lock"
    /\ mutex[MutexOf(call[w].op)] = 0
    /\ mutex' = [mutex EXCEPT ![MutexOf(call[w].op)] = Expiration]
    /\ Enter(w)
    /\ UNCHANGED hashes

\* The script of Unlock: every holder has set the same value, so it deletes
\* whatever key it finds.
Unlock(w) ==
    /\ pc[w] = "unlock"
    /\ mutex[MutexOf(call[w].op)] > 0
    /\ mutex' = [mutex EXCEPT ![MutexOf(call[w].op)] = 0]
    /\ Return(w)
    /\ UNCHANGED hashes

\* It finds none, and Unlock panics.  The server recovers from the panic of a
\* request; that of a pruner ends its process, with the workers in it, and
\* the process is started again.
Panic(w) ==
    /\ pc[w] = "unlock"
    /\ mutex[MutexOf(call[w].op)] = 0
    /\ \E process \in SUBSET Workers :
          /\ w \in process
          /\ w \in Clients => process = {w}
          /\ Leave(process)
    /\ UNCHANGED <<hashes, mutex>>

-----------------------------------------------------------------------------
(* Commands given with the mutex held                                      *)

\* HSETNX of what was missed; set already or not, the reader returns.
Flag(w) ==
    /\ pc[w] = "flag"
    /\ flags' = flags \cup call[w].search \cup call[w].empNos
    /\ Goto(w, "unlock", {})
    /\ UNCHANGED <<employees, searches, absences, mutex>>

Unflag(w) ==
    /\ pc[w] = "unflag"
    /\ flags' = flags \ (call[w].search \cup call[w].empNos)
    /\ Goto(w, "unlock", {})
    /\ UNCHANGED <<employees, searches, absences, mutex>>

\* The second HDEL of EmployeesDelete is from the employees again, not from
\* the flags.
DeleteAgain(w) ==
    /\ pc[w] = "deleteAgain"
    /\ employees' = employees \ call[w].empNos
    /\ Goto(w, "unlock", {})
    /\ UNCHANGED <<searches, flags, absences, mutex>>

\* EmployeesNotFoundWrite: HSETNX of the search, then of every employee.
Record(w) ==
    /\ pc[w] = "record"
    /\ \E f \in todo[w] :
          /\ todo[w] \cap Searches # {} => f \in Searches
          /\ absences' = absences \cup {f}
          /\ Goto(w, IF todo[w] = {f} THEN "unlock" ELSE "record", todo[w] \ {f})
    /\ UNCHANGED <<employees, searches, flags, mutex>>

Pruned(op) == IF op = "pruneFlags" THEN flags ELSE absences

\* HSCAN, of a hash small enough to come in one answer.  Its iterator gives
\* fields and values in turn, the loop takes each for both, and the name of a
\* field, read as a time, is always too old: every field is to be deleted.
Scan(w) ==
    /\ pc[w] = "scan"
    /\ LET found == Pruned(call[w].op)
       IN  Goto(w, IF found = {} THEN "unlock" ELSE "prune", found)
    /\ UNCHANGED <<hashes, mutex>>

\* HDEL of what was scanned
Prune(w) ==
    /\ pc[w] = "prune"
    /\ IF call[w].op = "pruneFlags"
       THEN flags' = flags \ todo[w] /\ UNCHANGED absences
       ELSE absences' = absences \ todo[w] /\ UNCHANGED flags
    /\ Goto(w, "unlock", {})
    /\ UNCHANGED <<employees, searches, mutex>>

-----------------------------------------------------------------------------
(* Failures and time                                                       *)

\* A command fails.  Outside the mutex the operation returns its error; under
\* it the rest is skipped and the mutex given back; and an Unlock whose script
\* fails returns, the key left to expire.
CommandFails(w) ==
    /\ MayFail
    /\ \/ /\ pc[w] \in {"get", "set", "delete", "unlock"} \cup ClearSteps
          /\ Return(w)
       \/ /\ pc[w] \in Critical \ {"unlock"}
          /\ Goto(w, "unlock", {})
    /\ UNCHANGED <<hashes, mutex>>

\* SETNX took effect but its answer was lost: the worker waits for itself.
LockAnswerLost(w) ==
    /\ MayFail
    /\ pc[w] = "lock"
    /\ mutex[MutexOf(call[w].op)] = 0
    /\ mutex' = [mutex EXCEPT ![MutexOf(call[w].op)] = Expiration]
    /\ UNCHANGED <<hashes, lost, call, pc, todo>>

\* A process stops, with the workers in it, and is started again.
Stop ==
    /\ MayFail
    /\ \E process \in (SUBSET Workers) \ {{}} : Leave(process)
    /\ UNCHANGED <<hashes, mutex>>

\* An Open that finds a hash of an earlier process gives it CACHE_TTL to live.
HashExpires ==
    /\ \/ employees' = {} /\ UNCHANGED searches
       \/ searches' = [s \in {} |-> {}] /\ UNCHANGED employees
    /\ UNCHANGED <<flags, absences, mutex, lost, call, pc, todo>>

Elapse ==
    /\ mutex' = [m \in Mutexes |-> IF mutex[m] > 0 THEN mutex[m] - 1 ELSE 0]
    /\ lost' = lost \cup { m \in Mutexes :
                   mutex[m] = 1 /\ \E w \in Workers : Holds(w, m) }
    /\ UNCHANGED <<hashes, call, pc, todo>>

-----------------------------------------------------------------------------
Command(w) ==
    \/ Get(w) \/ SetEmployee(w) \/ SetSearch(w) \/ Delete(w)
    \/ ClearHash(w) \/ ClearMutex(w)
    \/ TryLock(w) \/ Unlock(w) \/ Panic(w)
    \/ Flag(w) \/ Unflag(w) \/ DeleteAgain(w) \/ Record(w) \/ Scan(w) \/ Prune(w)

Next ==
    \/ \E w \in Workers : Start(w) \/ StartPruning(w) \/ Command(w)
    \/ \E w \in Workers : CommandFails(w) \/ LockAnswerLost(w)
    \/ Stop \/ HashExpires \/ Elapse

\* Redis's clock runs; workers may stop anywhere, so nothing is said of them.
Spec == Init /\ [][Next]_vars /\ WF_vars(Elapse)

-----------------------------------------------------------------------------
(* What the mutex is for                                                   *)

\* As long as it was not taken from under its holder, a mutex has one holder
\* and its key is there for Unlock to delete.  A loss (an expiration or Clear)
\* is over as soon as the last worker that believes to hold it has left,
\* although Unlock may delete another's key (Lock, Unlock).
MutualExclusion ==
    \A m \in Mutexes \ lost : \A w, v \in Workers :
        /\ Holds(w, m) => mutex[m] > 0
        /\ Holds(w, m) /\ Holds(v, m) => w = v

\* Between a pruner's HSCAN and its HDEL nothing is added to the hash: it
\* never deletes a flag, or an absence, that it has not seen, unless its
\* mutex was lost (launchPruneSetRead, launchPruneNotFound).
ScanIsCurrent ==
    \A w \in Workers :
        pc[w] = "prune" /\ MutexOf(call[w].op) \notin lost
        => Pruned(call[w].op) \subseteq todo[w]

\* Whoever stops while it holds a mutex, and however many wait for it, the
\* mutex is free again in the end.
MutexRecovers == \A m \in Mutexes : []<>(mutex[m] = 0)

-----------------------------------------------------------------------------
(* What the code asserts and the program does not keep                     *)

\* redis.go panics with "attempted to unlock an unlocked mutex" if the key it
\* is to delete is not there.
UnlockFindsItsLock ==
    \A w \in Workers : pc[w] = "unlock" => mutex[MutexOf(call[w].op)] > 0
=============================================================================
