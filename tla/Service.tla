------------------------------ MODULE Service ------------------------------
(***************************************************************************)
(* The life of the service's process (cmd/service/main.go, LaunchContext   *)
(* in internal/execution.go, Open and Close in internal/service) beside    *)
(* the requests its HTTP server serves, which are timed.  What a request   *)
(* does between the two ends of its endpoint is Logic; here it uses the    *)
(* parts that Main opens and closes.                                       *)
(***************************************************************************)
EXTENDS Naturals, Sequences

CONSTANTS
    Procs,         \* connections to the server, one request at a time each
    Groups,        \* groups of timers: the endpoints whose timers are kept
    MaxTimers,     \* bound of the model: timers in a group
    CacheMayHang   \* whether Close of the cache may wait for ever (MemoryLocks)

ASSUME ServiceAssumption == MaxTimers \in Nat /\ CacheMayHang \in BOOLEAN

Timer == INSTANCE Timers

VARIABLES
    main,       \* what Main does next
    part,       \* the parts it opens and closes
    listener,   \* the goroutine of launchServer
    signalled,  \* SIGINT or SIGTERM has ended the context of Main
    hurried,    \* history: Main closes parts with requests in progress
    timers,     \* utilities.Timers
    pc,         \* what each request does next
    timing,     \* the index of its timer, and the group
    answer,     \* what its endpoint has written
    cut,        \* connections that were closed without the answer
    overtaken   \* history: requests that saw the timers cleared

processVars == <<main, part, listener, signalled, hurried>>
requestVars == <<pc, timing, answer, cut, overtaken>>
serviceVars == <<processVars, timers, requestVars>>

Parts == {"sql", "cache", "logic"}
NotTimed == [group |-> "none", index |-> 0]

ServiceInit ==
    /\ main = "sql"
    /\ part = [x \in Parts |-> "new"]
    /\ listener = "none"
    /\ signalled = FALSE
    /\ hurried = FALSE
    /\ timers = Timer!NoTimers
    /\ pc = [p \in Procs |-> "idle"]
    /\ timing = [p \in Procs |-> NotTimed]
    /\ answer = [p \in Procs |-> "none"]
    /\ cut = {}
    /\ overtaken = {}

\* Requests whose handler runs.
Active == { p \in Procs : pc[p] \in {"working", "deferred"} }

-----------------------------------------------------------------------------
(* Main opens the parts                                                    *)

Becomes(x, state) == part' = [part EXCEPT ![x] = state]

\* Main goes on; nothing happens to requests.
Goes(step) ==
    /\ main' = step
    /\ UNCHANGED <<timers, requestVars>>

\* Main returns and the process exits, with the requests in it.
Exits ==
    /\ main' = "exited"
    /\ pc' = [p \in Procs |-> IF p \in Active THEN "over" ELSE pc[p]]
    /\ cut' = cut \cup Active
    /\ UNCHANGED <<timers, timing, answer, overtaken>>

OpenSql ==
    /\ main = "sql"
    /\ \/ Becomes("sql", "open") /\ Goes("cache")
       \/ part' = part /\ Exits
    /\ UNCHANGED <<listener, signalled, hurried>>

\* CACHE_TYPE may name none.  A part that does not open ends Main, and what
\* was opened before is closed again.
OpenCache ==
    /\ main = "cache"
    /\ \/ Becomes("cache", "open") /\ Goes("logic")
       \/ part' = part /\ Goes("logic")
       \/ part' = part /\ Goes("closeSql")
    /\ UNCHANGED <<listener, signalled, hurried>>

\* Open of the logic refuses to go without a cache if it is to use one.
OpenLogic ==
    /\ main = "logic"
    /\ \/ Becomes("logic", "open") /\ Goes("service")
       \/ /\ part' = part
          /\ part["cache"] = "new"
          /\ Goes("closeSql")
    /\ UNCHANGED <<listener, signalled, hurried>>

-----------------------------------------------------------------------------
(* The server                                                              *)

\* Open of the service launches the server's goroutine,
OpenService ==
    /\ main = "service"
    /\ listener' = "starting"
    /\ Goes("launch")
    /\ UNCHANGED <<part, signalled, hurried>>

\* which listens, or cannot; and a server that listens may end by itself.
Listen ==
    /\ \/ listener = "starting" /\ listener' \in {"on", "failed"}
       \/ listener = "on" /\ listener' = "ended"
    /\ main # "exited"
    /\ UNCHANGED <<main, part, signalled, hurried, timers, requestVars>>

\* Within a second its error reaches Open and ends Main,
LaunchFails ==
    /\ main = "launch"
    /\ listener \in {"failed", "ended"}
    /\ hurried' = (listener = "ended")
    /\ Goes("closeLogic")
    /\ UNCHANGED <<part, listener, signalled>>

\* later nobody reads it.
Launched ==
    /\ main = "launch"
    /\ Goes("serving")
    /\ UNCHANGED <<part, listener, signalled, hurried>>

\* A server that ended by itself still serves the connections it has.
Accepting == listener \in {"on", "ended"} /\ main # "exited"

-----------------------------------------------------------------------------
(* The end of the process                                                  *)

\* The operating system sends a signal, and the goroutine of LaunchContext
\* cancels the context.  A second signal is lost.
Signal ==
    /\ main # "exited"
    /\ ~signalled
    /\ signalled' = TRUE
    /\ UNCHANGED <<main, part, listener, hurried, timers, requestVars>>

\* Wait first, for a server that nobody has told to end.
Told_WaitsFirst ==
    /\ main = "serving"
    /\ signalled
    /\ listener \in {"failed", "ended"}
    /\ listener' = "closed"
    /\ Goes("draining")
    /\ UNCHANGED <<part, signalled, hurried>>

\* Close of the service: Shutdown takes no more requests,
Told ==
    /\ main = "serving"
    /\ signalled
    /\ listener' = "closed"
    /\ Goes("draining")
    /\ UNCHANGED <<part, signalled, hurried>>

\* Connections are closed at once, requests or not.
Drained_AtOnce ==
    /\ main = "draining"
    /\ Goes("closeLogic")
    /\ UNCHANGED <<part, listener, signalled, hurried>>

\* waits for those in progress,
Drained ==
    /\ main = "draining"
    /\ Active = {}
    /\ Goes("closeLogic")
    /\ UNCHANGED <<part, listener, signalled, hurried>>

\* and gives them up after SERVICE_SHUTDOWN_TIMEOUT, at once if that is not set.
TimedOut ==
    /\ main = "draining"
    /\ Active # {}
    /\ hurried' = TRUE
    /\ Goes("closeLogic")
    /\ UNCHANGED <<part, listener, signalled>>

\* The deferred calls of Main, last first.
CloseLogic ==
    /\ main = "closeLogic"
    /\ Becomes("logic", "closed")
    /\ Goes(IF part["cache"] = "open" THEN "closeCache" ELSE "closeSql")
    /\ UNCHANGED <<listener, signalled, hurried>>

CloseCache ==
    /\ main = "closeCache"
    /\ \/ Becomes("cache", "closed") /\ Goes("closeSql")
       \/ CacheMayHang /\ part' = part /\ Goes("stuck")
    /\ UNCHANGED <<listener, signalled, hurried>>

CloseSql ==
    /\ main = "closeSql"
    /\ Becomes("sql", "closed")
    /\ Exits
    /\ UNCHANGED <<listener, signalled, hurried>>

MainStep ==
    \/ OpenSql \/ OpenCache \/ OpenLogic \/ OpenService
    \/ LaunchFails \/ Launched
    \/ Told \/ Drained \/ TimedOut
    \/ CloseLogic \/ CloseCache \/ CloseSql

-----------------------------------------------------------------------------
(* Requests                                                                *)

\* A timed endpoint starts the timer of its group.  An endpoint outside
\* Groups leaves the timers alone, as all do if SERVICE_TIMERS_ENABLED is off.
Begin(p, group) ==
    /\ Accepting
    /\ pc[p] = "idle"
    /\ IF group \in Groups
       THEN /\ Timer!NextIndex(timers, group) <= MaxTimers
            /\ timers' = Timer!Started(timers, group, p)
            /\ timing' = [timing EXCEPT ![p] =
                   [group |-> group, index |-> Timer!NextIndex(timers, group)]]
       ELSE UNCHANGED <<timers, timing>>
    /\ pc' = [pc EXCEPT ![p] = "working"]
    /\ overtaken' = overtaken \ {p}
    /\ UNCHANGED <<processVars, answer, cut>>

\* It works, and writes its answer: what was asked for, or an error.
Work(p, result) ==
    /\ pc[p] = "working"
    /\ answer' = [answer EXCEPT ![p] = result]
    /\ pc' = [pc EXCEPT ![p] = "deferred"]
    /\ UNCHANGED <<processVars, timers, timing, cut, overtaken>>

\* Then the deferred Stop runs.  If it panics, the server closes the
\* connection with the answer still in its buffer.
Stop(p) ==
    LET group == timing[p].group
        index == timing[p].index
    IN  /\ pc[p] = "deferred"
        /\ IF timing[p] # NotTimed /\ Timer!PastTheEnd(timers, group, index)
           THEN cut' = cut \cup {p} /\ UNCHANGED timers
           ELSE timers' = Timer!Stopped(timers, group, index) /\ UNCHANGED cut
        /\ pc' = [pc EXCEPT ![p] = "over"]
        /\ UNCHANGED <<processVars, timing, answer, overtaken>>

\* The client has the answer, or the end of the connection.
Leave(p) ==
    /\ pc[p] = "over"
    /\ pc' = [pc EXCEPT ![p] = "idle"]
    /\ timing' = [timing EXCEPT ![p] = NotTimed]
    /\ answer' = [answer EXCEPT ![p] = "none"]
    /\ cut' = cut \ {p}
    /\ overtaken' = overtaken \ {p}
    /\ UNCHANGED <<processVars, timers>>

\* endpointTimersClear
TimersClear ==
    /\ Accepting
    /\ timers' = Timer!NoTimers
    /\ overtaken' = overtaken \cup { p \in Active : timing[p] # NotTimed }
    /\ UNCHANGED <<processVars, pc, timing, answer, cut>>

-----------------------------------------------------------------------------
ServiceTypeOK ==
    /\ main \in {"sql", "cache", "logic", "service", "launch", "serving",
                 "draining", "closeLogic", "closeCache", "closeSql", "stuck",
                 "exited"}
    /\ part \in [Parts -> {"new", "open", "closed"}]
    /\ listener \in {"none", "starting", "on", "failed", "ended", "closed"}
    /\ signalled \in BOOLEAN /\ hurried \in BOOLEAN
    /\ Timer!AreTimers(timers, Groups, Procs, MaxTimers)
    /\ pc \in [Procs -> {"idle", "working", "deferred", "over"}]
    /\ timing \in [Procs -> [group : Groups, index : 1..MaxTimers]
                                \cup {NotTimed}]
    /\ answer \in [Procs -> {"none", "ok", "error"}]
    /\ cut \subseteq Procs /\ overtaken \subseteq Procs

\* No request uses a part that Main has closed, unless Main did not wait for
\* it: Shutdown was out of time, or the server ended within its first second
\* with connections open (Main and its deferred calls, service.Close).
ClosedPartsAreUnused ==
    \A p \in Procs : pc[p] = "working" /\ ~hurried
                     => \A x \in Parts : part[x] # "closed"

\* What an endpoint has written reaches its client, although its timer is
\* stopped after that: only a request that saw the timers cleared, or that
\* Main did not wait for, loses its answer (Stop, endpointTimersClear, Close).
AnswersReachClients == ~hurried => cut \subseteq overtaken

\* Reading the timers is safe at least when nothing runs: a group with no
\* stopped timer, by whose number ReadAll would divide, has a request that is
\* going to stop one, however requests overlap and whenever they are cleared.
IdleTimersAreReadable ==
    Active = {} /\ main # "exited" => Timer!AveragesDefined(timers)

\* A request stops no timer but its own, unless the timers were cleared after
\* it started: only then has its index come to belong to another request.
StopsItsOwn ==
    [][ \A p \in Procs : Stop(p) /\ p \notin overtaken =>
            \A g \in DOMAIN timers : \A i \in DOMAIN timers[g] :
                timers'[g][i] # timers[g][i] => timers[g][i].by = p ]_serviceVars

\* A signal ends the process, whenever it comes and whatever requests do,
\* unless Close of the cache waits for ever.
SignalsEnd == signalled ~> main \in {"exited", "stuck"}
=============================================================================
