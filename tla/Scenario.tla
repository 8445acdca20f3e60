------------------------------ MODULE Scenario ------------------------------
(***************************************************************************)
(* A run of one of the scenarios of cmd/scenario/main.go against the       *)
(* service: the function of the scenario, the goroutines it launches and   *)
(* what is left of its employee.  Its calls are requests of Service; a     *)
(* call that is given up (CLIENT_TIMEOUT, or a signal, which ends the      *)
(* context of all of them) leaves its request to the service.              *)
(***************************************************************************)
EXTENDS Service

CONSTANTS
    Readers,   \* the goroutines of the scenario
    Writer     \* the one that updates, in the stampeding herd

ASSUME ScenarioAssumption == Writer \in Readers

VARIABLES
    kind,      \* SCENARIO, or "none": other programs call the service
    todo,      \* what its function has to do
    told,      \* history: what the calls that create and delete have returned
    via,       \* the connection of whoever waits for an answer
    asked,     \* what each request asks for
    reader,    \* the goroutines
    slot,      \* the index of the timer each of them runs
    own,       \* the utilities.Timers of the scenario
    row        \* history: whose employee has the number of the scenario's

scenarioVars == <<kind, todo, told, via, asked, reader, slot, own, row>>
vars == <<serviceVars, scenarioVars>>

Main == "main"
Nobody == "nobody"

\* The function of the scenario is none of the goroutines it launches.
ASSUME NamesAssumption == Main \notin Readers /\ Nobody \notin Procs

Script == [
    herd     |-> <<"create", "launch", "clearCache", "clearCounters", "start",
                   "stop", "wait", "readCounters", "cleanup">>,
    notFound |-> <<"create", "delete", "launch", "clearCache", "clearCounters",
                   "clearTimers", "start", "stop", "wait", "readCounters",
                   "readAll">>,
    sleep    |-> <<"launch", "start", "stop", "wait", "readAll">>,
    none     |-> << >>]

At(step) == todo # << >> /\ Head(todo) = step
Ended == todo = << >>

\* What the goroutine asks for when its ticker ticks.
Asks(r) ==
    CASE kind = "herd"     -> IF r = Writer THEN "update" ELSE "read"
      [] kind = "notFound" -> "read"
      [] kind = "sleep"    -> "sleep"

\* One group for all.
OwnGroup_Shared(r) == Writer

\* Two scenarios time the calls, in a group for each goroutine.
OwnGroup(r) == r
Timed == kind # "herd"

Init ==
    /\ ServiceInit
    /\ kind \in DOMAIN Script
    /\ todo = Script[kind]
    /\ told = [x \in {"create", "delete", "cleanup"} |-> "none"]
    /\ via = [x \in Readers \cup {Main} |-> Nobody]
    /\ asked = [p \in Procs |-> "other"]
    /\ reader = [r \in Readers |-> "none"]
    /\ slot = [r \in Readers |-> 0]
    /\ own = Timer!NoTimers
    /\ row = "none"

-----------------------------------------------------------------------------
(* Calls                                                                   *)

\* The service that a scenario calls keeps no timers.
Requests(who, p, what) ==
    /\ via[who] = Nobody
    /\ Begin(p, "none")
    /\ via' = [via EXCEPT ![who] = p]
    /\ asked' = [asked EXCEPT ![p] = what]

\* The call of who ends, and takes its answer off the connection or gives it up.
Receives(who) ==
    /\ via[who] \in Procs
    /\ Leave(via[who])
    /\ via' = [via EXCEPT ![who] = Nobody]
    /\ asked' = [asked EXCEPT ![via[who]] = "other"]

GivesUp(who) ==
    /\ via[who] \in Procs
    /\ via' = [via EXCEPT ![who] = Nobody]
    /\ UNCHANGED <<serviceVars, asked>>

\* There was no request: the cache of the client had the answer, the service
\* did not take it, or the context was done.
NoRequest(who) ==
    /\ via[who] = Nobody
    /\ UNCHANGED <<serviceVars, via, asked>>

-----------------------------------------------------------------------------
(* The function of the scenario                                            *)

Goes_On == todo' = Tail(todo)

\* The function returns at once.
Fails_Returns == todo' = << >>

\* employeeDeleted is not looked at.
Fails_DeletesAgain ==
    todo' = IF told["create"] = "ok" THEN <<"cleanup">> ELSE << >>

\* The function waits for its goroutines before it returns.
Fails_Waits == todo' = <<"wait", "cleanup">>

\* It returns an error.  The deferred EmployeeDelete runs if the employee was
\* created and, as far as the function knows, not deleted.
Fails ==
    todo' = IF told["create"] = "ok" /\ told["delete"] # "ok"
            THEN <<"cleanup">> ELSE << >>

\* EmployeeCreate and EmployeeDelete return; nobody looks at what the deferred
\* one returns.
Returns(ok) ==
    /\ told' = [told EXCEPT ![Head(todo)] = IF ok THEN "ok" ELSE "failed"]
    /\ IF ok \/ At("cleanup") THEN Goes_On ELSE Fails

Alters == \E x \in DOMAIN told : At(x)

AltersSends(p) ==
    /\ Alters
    /\ Requests(Main, p, IF At("create") THEN "create" ELSE "delete")
    /\ UNCHANGED <<kind, todo, told, reader, slot, own, row>>

AltersReturns ==
    /\ Alters
    /\ \/ Receives(Main) /\ Returns(/\ answer[via[Main]] = "ok"
                                    /\ via[Main] \notin cut)
       \/ NoRequest(Main) /\ Returns(FALSE)
    /\ UNCHANGED <<kind, reader, slot, own, row>>

AltersGivesUp ==
    /\ Alters
    /\ GivesUp(Main)
    /\ Returns(FALSE)
    /\ UNCHANGED <<kind, reader, slot, own, row>>

\* CacheClear, CacheCountersClear and CacheCountersRead
Administers == At("clearCache") \/ At("clearCounters") \/ At("readCounters")

AdministersSends(p) ==
    /\ Administers
    /\ Requests(Main, p, "cache")
    /\ UNCHANGED <<kind, todo, told, reader, slot, own, row>>

AdministersReturns ==
    /\ Administers
    /\ \/ /\ Receives(Main)
          /\ IF answer[via[Main]] = "ok" /\ via[Main] \notin cut
             THEN Goes_On ELSE Fails
       \/ NoRequest(Main) /\ Fails
    /\ UNCHANGED <<kind, told, reader, slot, own, row>>

AdministersGivesUp ==
    /\ Administers
    /\ GivesUp(Main)
    /\ Fails
    /\ UNCHANGED <<kind, told, reader, slot, own, row>>

\* The goroutines wait for start before their first tick.
Launches ==
    /\ \/ At("launch") /\ reader' = [r \in Readers |-> "blocked"]
       \/ At("start") /\ reader' = [r \in Readers |-> "ready"]
    /\ Goes_On
    /\ UNCHANGED <<serviceVars, kind, told, via, asked, slot, own, row>>

\* Calls may still run.
Waits_NotForCalls ==
    /\ At("stop") \/ (At("wait") /\ \E r \in Readers : reader[r] = "ended")
    /\ Goes_On
    /\ UNCHANGED <<serviceVars, kind, told, via, asked, reader, slot, own, row>>

\* After SCENARIO_DURATION stop is closed, and the goroutines are waited for.
Waits ==
    /\ At("stop") \/ (At("wait") /\ \A r \in Readers : reader[r] = "ended")
    /\ Goes_On
    /\ UNCHANGED <<serviceVars, kind, told, via, asked, reader, slot, own, row>>

UsesTimers ==
    /\ \/ At("clearTimers") /\ own' = Timer!NoTimers
       \/ At("readAll") /\ own' = own
    /\ Goes_On
    /\ UNCHANGED <<serviceVars, kind, told, via, asked, reader, slot, row>>

Function ==
    \/ \E p \in Procs : AltersSends(p) \/ AdministersSends(p)
    \/ AltersReturns \/ AdministersReturns
    \/ Launches \/ Waits \/ UsesTimers

-----------------------------------------------------------------------------
(* The goroutines                                                          *)

\* select may take the tick although stop is closed.
Ticks(r, p) ==
    LET index == Timer!NextIndex(own, OwnGroup(r))
    IN  /\ reader[r] = "ready"
        /\ Requests(r, p, Asks(r))
        /\ reader' = [reader EXCEPT ![r] = "calling"]
        /\ IF Timed
           THEN /\ index <= MaxTimers
                /\ own' = Timer!Started(own, OwnGroup(r), r)
                /\ slot' = [slot EXCEPT ![r] = index]
           ELSE UNCHANGED <<own, slot>>
        /\ UNCHANGED <<kind, todo, told, row>>

TicksAlone(r) ==
    LET index == Timer!NextIndex(own, OwnGroup(r))
        started == Timer!Started(own, OwnGroup(r), r)
    IN  /\ reader[r] = "ready"
        /\ NoRequest(r)
        /\ Timed
        /\ index <= MaxTimers
        /\ own' = Timer!Stopped(started, OwnGroup(r), index)
        /\ UNCHANGED <<kind, todo, told, reader, slot, row>>

\* The call returns, with or without an answer, and its timer is stopped.
Called(r) ==
    /\ reader[r] = "calling"
    /\ reader' = [reader EXCEPT ![r] = "ready"]
    /\ own' = IF Timed THEN Timer!Stopped(own, OwnGroup(r), slot[r]) ELSE own
    /\ slot' = [slot EXCEPT ![r] = 0]
    /\ UNCHANGED <<kind, todo, told, row>>

ReaderReceives(r) == Receives(r) /\ Called(r)
ReaderGivesUp(r) == GivesUp(r) /\ Called(r)

Stops(r) ==
    /\ reader[r] = "ready"
    /\ At("wait")
    /\ reader' = [reader EXCEPT ![r] = "ended"]
    /\ UNCHANGED <<serviceVars, kind, todo, told, via, asked, slot, own, row>>

-----------------------------------------------------------------------------
(* The service, and other programs                                         *)

\* What may have become of the employee when a request that asked for what
\* has given result: an error may come after the statement was executed.
Effects(what, result) ==
    CASE what = "create" -> IF result = "ok" THEN {"mine"} ELSE {row, "mine"}
      [] what = "delete" -> IF result = "ok" THEN {"none"} ELSE {row, "none"}
      [] OTHER           -> {row}

\* Deleting no employee is an error.  The answers of other endpoints are not
\* told apart.
Works(p) ==
    \E result \in {"ok", "error"} :
        /\ asked[p] = "delete" /\ row = "none" => result = "error"
        /\ asked[p] \in {"create", "delete", "cache"} \/ result = "ok"
        /\ Work(p, result)
        /\ row' \in Effects(asked[p], result)
        /\ UNCHANGED <<kind, todo, told, via, asked, reader, slot, own>>

\* A request that the end of the process cuts short may have had its effect.
ServiceMain ==
    /\ MainStep
    /\ \/ row' = row
       \/ /\ main' = "exited"
          /\ \E p \in Procs : pc[p] = "working"
                              /\ row' \in Effects(asked[p], "error")
    /\ UNCHANGED <<kind, todo, told, via, asked, reader, slot, own>>

ServiceAlone ==
    /\ \/ Listen \/ Signal \/ TimersClear
    /\ UNCHANGED scenarioVars

StopsTimer(p) == Stop(p) /\ UNCHANGED scenarioVars

\* Nobody waits for this answer.
Forgets(p) ==
    /\ \A x \in DOMAIN via : via[x] # p
    /\ Leave(p)
    /\ asked' = [asked EXCEPT ![p] = "other"]
    /\ UNCHANGED <<kind, todo, told, via, reader, slot, own, row>>

\* Bound of the model: other programs send requests when no scenario runs.
OthersRequest(p) ==
    /\ kind = "none"
    /\ \E g \in Groups : Begin(p, g)
    /\ UNCHANGED scenarioVars

\* Another program creates an employee, which takes the number after the
\* highest: that of the scenario's once it is free (findEmpNo).
OthersCreate ==
    /\ told["create"] = "ok" /\ row = "none"
    /\ row' = "other"
    /\ UNCHANGED <<serviceVars, kind, todo, told, via, asked, reader, slot, own>>

Next ==
    \/ Function \/ AltersGivesUp \/ AdministersGivesUp
    \/ \E r \in Readers : \/ \E p \in Procs : Ticks(r, p)
                          \/ TicksAlone(r) \/ ReaderReceives(r)
                          \/ ReaderGivesUp(r) \/ Stops(r)
    \/ ServiceMain \/ ServiceAlone \/ OthersCreate
    \/ \E p \in Procs : \/ Works(p) \/ StopsTimer(p) \/ Forgets(p)
                        \/ OthersRequest(p)

Spec == Init /\ [][Next]_vars

\* Handlers and goroutines that can go on do; select is fair between two
\* channels that are ready.  Nothing makes a call time out, a server end or a
\* signal come, and nothing unblocks a handler once Close waits for ever with
\* the mutex of the cache in its hands, which every call of the cache needs.
Fairness ==
    /\ WF_vars(ServiceMain)
    /\ \A p \in Procs : /\ WF_vars(main # "stuck" /\ Works(p))
                        /\ WF_vars(StopsTimer(p))
    /\ WF_vars(Function)
    /\ \A r \in Readers : WF_vars(ReaderReceives(r)) /\ SF_vars(Stops(r))

FairSpec == Spec /\ Fairness

-----------------------------------------------------------------------------
Suffixes(s) == { SubSeq(s, i, Len(s)) : i \in 1..Len(s) + 1 }

ScenarioTypeOK ==
    /\ ServiceTypeOK
    /\ kind \in DOMAIN Script
    /\ todo \in Suffixes(Script[kind]) \cup {<<"cleanup">>}
    /\ told \in [{"create", "delete", "cleanup"} -> {"none", "ok", "failed"}]
    /\ via \in [Readers \cup {Main} -> Procs \cup {Nobody}]
    /\ asked \in [Procs -> {"other", "create", "delete", "cache", "update",
                          "read", "sleep"}]
    /\ reader \in [Readers -> {"none", "blocked", "ready", "calling", "ended"}]
    /\ Timer!AreTimers(own, Readers, Readers, MaxTimers)
    /\ row \in {"none", "mine", "other"}
    /\ slot \in [Readers -> 0..MaxTimers]
    /\ \A r \in Readers : /\ via[r] # Nobody <=> reader[r] = "calling"
                          /\ slot[r] # 0 <=> reader[r] = "calling" /\ Timed

\* A scenario deletes the employee of another program, which took the number
\* of its own, only if its EmployeeDelete failed although the employee was
\* deleted: the deferred call does not follow one that was answered
\* (employeeDeleted in scenarioCacheNotFound), and there is no other, even
\* when requests that were given up are carried out late.
DeletesItsOwn ==
    [][ row = "other" /\ row' # "other" => told["delete"] = "failed" ]_vars

\* Wherever it fails, a scenario leaves its employee behind only if it was
\* never told the number, or the deferred EmployeeDelete failed.
LeavesNothingBehind ==
    Ended /\ row = "mine"
        => told["create"] = "failed" \/ told["cleanup"] = "failed"

\* When a scenario reads its timers each call of its goroutines was timed to
\* its end, however the calls overlap and end, so that ReadAll does not divide
\* by zero (Stop takes the last timer of a group only).
EveryCallIsTimed ==
    At("readAll") => \A g \in DOMAIN own : \A i \in DOMAIN own[g] : own[g][i].stopped

\* Nothing of the scenario calls the service when it reads the counters or
\* the timers, deletes its employee or has returned: its goroutines have
\* ended, or never started (the channels start and stop, the WaitGroup).
NoStragglers ==
    Ended \/ At("readCounters") \/ At("readAll") \/ At("cleanup")
        => \A r \in Readers : reader[r] \notin {"ready", "calling"}

\* A scenario comes to its end, whether the service never listens, ends in
\* the middle or is told to, and whichever call fails; but where Close of the
\* cache waits for ever (memory.go:288-293) a handler may wait with it, and
\* the scenario for that handler's answer, as CLIENT_TIMEOUT is not set.
ScenarioEnds ==
    <>(\/ Ended
       \/ main = "stuck" /\ \E x \in DOMAIN via : /\ via[x] \in Procs
                                                /\ pc[via[x]] = "working")
=============================================================================
