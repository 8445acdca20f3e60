--------------------------- MODULE Scenario_proofs ---------------------------
(***************************************************************************)
(* Proofs about Scenario and the Service it runs on, for every number of   *)
(* connections, goroutines and timers.                                     *)
(***************************************************************************)
EXTENDS Scenario, TLAPS

-----------------------------------------------------------------------------
(* The service: Main and its requests.                                     *)

Before == {"sql", "cache", "logic", "service"}
Closing == {"closeLogic", "closeCache", "closeSql", "stuck"}

\* A part is closed only behind the listener, and unless Main was hurried no
\* request is left and none can begin when it starts to close parts.
MainInOrder ==
    /\ main \in Before => listener = "none"
    /\ main = "draining" => listener = "closed"
    /\ listener \in {"none", "starting", "failed"} => Active = {}
    /\ main = "exited" => Active = {}
    /\ main \in Closing /\ ~hurried
           => Active = {} /\ listener \in {"none", "failed", "closed"}
    /\ hurried => main \in Closing \cup {"exited"}
    /\ (\E x \in Parts : part[x] = "closed")
           => main \in {"closeCache", "closeSql", "stuck", "exited"}

\* A request runs its timer: it was timed and has not seen the timers cleared.
Runs(p) == p \in Active /\ timing[p] # NotTimed /\ p \notin overtaken

\* That timer is where the request's index says, and is its own.
KeepsTimer(p) ==
    /\ timing[p].group \in DOMAIN timers
    /\ timing[p].index <= Len(timers[timing[p].group])
    /\ timers[timing[p].group][timing[p].index].by = p

\* The last timer of a group was stopped or is the one a request runs.
LastIsDone(g) ==
    \/ timers[g][Len(timers[g])].stopped
    \/ \E p \in Procs : Runs(p) /\ timing[p] = [group |-> g, index |-> Len(timers[g])]

RequestsInOrder ==
    /\ \A p \in Procs : /\ pc[p] = "idle" => timing[p] = NotTimed
                        /\ p \in cut => pc[p] = "over"
                        /\ answer[p] # "none" => pc[p] \in {"deferred", "over"}
                        /\ Runs(p) => KeepsTimer(p)
    /\ main # "exited" => \A g \in DOMAIN timers : LastIsDone(g)

ServiceInv ==
    /\ ServiceTypeOK
    /\ MainInOrder
    /\ RequestsInOrder
    /\ AnswersReachClients

-----------------------------------------------------------------------------
(* The scenario.                                                           *)

ReadersInOrder ==
    \A r \in Readers :
        reader[r] \in {"ready", "calling"} => At("stop") \/ At("wait")

\* A timer of the scenario that was not stopped is the last of its goroutine's
\* and the one its call runs.
OwnInOrder ==
    /\ \A r \in Readers : slot[r] # 0 => r \in DOMAIN own /\ slot[r] = Len(own[r])
    /\ \A r \in DOMAIN own : \A i \in DOMAIN own[r] :
           ~own[r][i].stopped => i = slot[r]

\* What the function asks the service for, where it is at one of its calls.
Asking == Alters \/ Administers
AskedFor == IF Alters THEN IF At("create") THEN "create" ELSE "delete" ELSE "cache"

\* Who waits for an answer waits for a request that is there, and alone.
ConnectionsInOrder ==
    \A a \in DOMAIN via : via[a] # Nobody =>
        /\ pc[via[a]] # "idle"
        /\ \A b \in DOMAIN via : via[b] = via[a] => b = a
        /\ a = Main => Asking /\ asked[via[a]] = AskedFor

HasEmployee == kind \in {"herd", "notFound"}

\* What the function has been told, by how far it has come.
ToldInOrder ==
    /\ told["create"] = "none" => told["delete"] = "none" /\ told["cleanup"] = "none"
    /\ At("create") => told["create"] = "none"
    /\ ~HasEmployee => told["create"] = "none" /\ ~At("cleanup")
    /\ HasEmployee /\ told["create"] = "none" => At("create")
    /\ HasEmployee /\ ~At("create") /\ ~Ended => told["create"] = "ok"
    /\ told["create"] = "failed" => Ended
    /\ ~Ended => told["cleanup"] = "none"
    /\ At("delete") => told["delete"] = "none"
    /\ At("cleanup") => told["delete"] # "ok"
    /\ kind = "herd" => told["delete"] = "none"
    /\ kind = "notFound" /\ ~Ended /\ ~At("create") /\ ~At("delete") /\ ~At("cleanup")
           => told["delete"] = "ok"
    /\ Ended /\ told["create"] = "ok" => told["delete"] = "ok" \/ told["cleanup"] # "none"

\* The number is the scenario's from the create to the first delete, and after
\* a delete that succeeded it never is again.
RowInOrder ==
    /\ ~HasEmployee => row = "none"
    /\ row = "other" => told["create"] = "ok"
    /\ told["create"] = "ok" /\ (told["delete"] = "ok" \/ told["cleanup"] = "ok")
           => row # "mine"
    /\ /\ told["create"] = "ok" /\ told["delete"] = "none" /\ told["cleanup"] = "none"
       /\ \A p \in Procs : asked[p] # "delete"
       => row = "mine"

CreatesInOrder ==
    \A p \in Procs : asked[p] = "create" =>
        /\ \/ told["create"] = "failed"
           \/ told["create"] = "none" /\ via[Main] = p
        /\ told["create"] = "none" /\ answer[p] = "ok" => row = "mine"

DeletesInOrder ==
    \A p \in Procs : asked[p] = "delete" =>
        /\ told["create"] = "ok"
        /\ answer[p] = "ok" => row # "mine"
        /\ told["delete"] # "failed" =>
               /\ via[Main] = p \/ told["cleanup"] = "failed"
               /\ pc[p] = "working" => row = "mine"
               /\ \A q \in Procs : asked[q] = "delete" => q = p

ScenarioInv ==
    /\ ReadersInOrder
    /\ OwnInOrder
    /\ ConnectionsInOrder
    /\ ToldInOrder
    /\ RowInOrder
    /\ CreatesInOrder
    /\ DeletesInOrder

-----------------------------------------------------------------------------
(* What the operations do to a collection of timers.                       *)

\* Start adds one timer, at the index it returns, and moves no other.
Adds(new, ts, groups, owners, limit, g, by) ==
    LET index == Timer!NextIndex(ts, g)
    IN  /\ Timer!AreTimers(new, groups, owners, limit)
        /\ index \in 1..limit
        /\ DOMAIN new = DOMAIN ts \cup {g}
        /\ Len(new[g]) = index
        /\ new[g][index] = [by |-> by, stopped |-> FALSE]
        /\ g \in DOMAIN ts => /\ index = Len(ts[g]) + 1
                              /\ \A i \in 1..Len(ts[g]) : new[g][i] = ts[g][i]
        /\ g \notin DOMAIN ts => index = 1
        /\ \A h \in DOMAIN ts \ {g} : new[h] = ts[h]

LEMMA StartAdds ==
    ASSUME NEW groups, NEW owners, NEW limit \in Nat, NEW ts,
           Timer!AreTimers(ts, groups, owners, limit),
           NEW g \in groups, NEW by \in owners,
           Timer!NextIndex(ts, g) <= limit
    PROVE  Adds(Timer!Started(ts, g, by), ts, groups, owners, limit, g, by)
<1> DEFINE R == [by : owners, stopped : BOOLEAN]
           old == Timer!ListOf(ts, g)
           rec == [by |-> by, stopped |-> FALSE]
           new == Timer!Started(ts, g, by)
<1>1. /\ DOMAIN ts \subseteq groups
      /\ \A h \in DOMAIN ts : ts[h] \in Seq(R) /\ Len(ts[h]) \in 1..limit
  BY DEF Timer!AreTimers
<1> HIDE DEF R
<1>2. /\ old \in Seq(R) /\ Len(old) \in Nat
      /\ g \in DOMAIN ts => old = ts[g]
      /\ g \notin DOMAIN ts => Len(old) = 0
  <2>1. CASE g \in DOMAIN ts
    <3>1. old = ts[g]
      BY <2>1 DEF Timer!ListOf
    <3>2. QED
      BY <1>1, <2>1, <3>1
  <2>2. CASE g \notin DOMAIN ts
    <3>1. old = << >>
      BY <2>2 DEF Timer!ListOf
    <3>2. QED
      BY <2>2, <3>1
  <2>3. QED
    BY <2>1, <2>2
<1>3. rec \in R
  BY DEF R
<1> HIDE DEF old, rec
<1>4. /\ DOMAIN new = DOMAIN ts \cup {g}
      /\ new[g] = Append(old, rec)
      /\ \A h \in DOMAIN ts \ {g} : new[h] = ts[h]
  BY DEF Timer!Started, old, rec
<1>5. Timer!NextIndex(ts, g) = Len(old) + 1
  BY DEF Timer!NextIndex, old
<1> HIDE DEF new
<1>6. /\ Append(old, rec) \in Seq(R)
      /\ Len(Append(old, rec)) = Len(old) + 1
      /\ Append(old, rec)[Len(old) + 1] = rec
      /\ \A i \in 1..Len(old) : Append(old, rec)[i] = old[i]
  BY <1>2, <1>3
<1>7. Len(old) + 1 \in 1..limit
  BY <1>2, <1>5
<1>8. Timer!AreTimers(new, groups, owners, limit)
  BY <1>1, <1>4, <1>6, <1>7 DEF Timer!AreTimers, R
<1>9. QED
  BY <1>2, <1>4, <1>5, <1>6, <1>7, <1>8 DEF rec, new, Adds

\* Stop stops at most the timer it was given, and that one if it is the last.
StopsLast(new, ts, groups, owners, limit, g, i) ==
    /\ Timer!AreTimers(new, groups, owners, limit)
    /\ DOMAIN new = DOMAIN ts
    /\ \A h \in DOMAIN ts :
           /\ Len(new[h]) = Len(ts[h])
           /\ \A j \in 1..Len(ts[h]) :
                 /\ new[h][j].by = ts[h][j].by
                 /\ IF h = g /\ j = i /\ i = Len(ts[h])
                    THEN new[h][j].stopped
                    ELSE new[h][j] = ts[h][j]

LEMMA StopStops ==
    ASSUME NEW groups, NEW owners, NEW limit \in Nat, NEW ts,
           Timer!AreTimers(ts, groups, owners, limit),
           NEW g, NEW i \in Nat, ~Timer!PastTheEnd(ts, g, i)
    PROVE  StopsLast(Timer!Stopped(ts, g, i), ts, groups, owners, limit, g, i)
<1> DEFINE R == [by : owners, stopped : BOOLEAN]
           new == Timer!Stopped(ts, g, i)
<1>1. /\ DOMAIN ts \subseteq groups
      /\ \A h \in DOMAIN ts : ts[h] \in Seq(R) /\ Len(ts[h]) \in 1..limit
  BY DEF Timer!AreTimers
<1> HIDE DEF R
<1>2. CASE Timer!Refused(ts, g, i)
  <2>1. new = ts
    BY <1>2 DEF Timer!Stopped
  <2>2. ~(g \in DOMAIN ts /\ i = Len(ts[g]))
    BY <1>1, <1>2 DEF Timer!Refused
  <2>3. QED
    BY <2>1, <2>2 DEF StopsLast
<1>3. CASE ~Timer!Refused(ts, g, i)
  <2>1. /\ g \in DOMAIN ts /\ i = Len(ts[g])
        /\ ts[g] \in Seq(R) /\ Len(ts[g]) \in 1..limit
    BY <1>1, <1>3 DEF Timer!Refused, Timer!PastTheEnd
  <2>2. PICK t \in Seq(R) : t = ts[g]
    BY <2>1
  <2>3. i \in 1..Len(t) /\ t[i] \in R
    BY <2>1, <2>2
  <2>4. PICK e : e = [t[i] EXCEPT !.stopped = TRUE]
    OBVIOUS
  <2>5. e \in R /\ e.by = t[i].by /\ e.stopped
    BY <2>3, <2>4 DEF R
  <2>6. PICK u : u = [t EXCEPT ![i] = e]
    OBVIOUS
  <2>7. /\ u \in Seq(R) /\ Len(u) = Len(t) /\ u[i] = e
        /\ \A j \in 1..Len(t) : j # i => u[j] = t[j]
    BY <2>2, <2>3, <2>5, <2>6
  <2>8. new = [ts EXCEPT ![g] = u]
    BY <1>3, <2>1, <2>2, <2>4, <2>6 DEF Timer!Stopped
  <2>9. /\ DOMAIN new = DOMAIN ts /\ new[g] = u
        /\ \A h \in DOMAIN ts \ {g} : new[h] = ts[h]
    BY <2>1, <2>8
  <2>10. Timer!AreTimers(new, groups, owners, limit)
    BY <1>1, <2>1, <2>2, <2>7, <2>9 DEF Timer!AreTimers, R
  <2>11. \A j \in 1..Len(t) : /\ u[j].by = t[j].by
                              /\ j = i => u[j].stopped
                              /\ j # i => u[j] = t[j]
    BY <2>3, <2>5, <2>7
  <2>12. QED
    BY <2>1, <2>2, <2>7, <2>9, <2>10, <2>11 DEF StopsLast
<1>4. QED
  BY <1>2, <1>3

-----------------------------------------------------------------------------
(* The steps of a scenario are steps of the service, or leave it alone.    *)

RequestStep(p) ==
    \/ \E g \in Groups \cup {"none"} : Begin(p, g)
    \/ \E result \in {"ok", "error"} : Work(p, result)
    \/ Stop(p) \/ Leave(p)

ServiceStep ==
    \/ MainStep \/ Listen \/ Signal \/ TimersClear
    \/ \E p \in Procs : RequestStep(p)
    \/ UNCHANGED serviceVars

LEMMA ScenarioStepsService ==
    ASSUME [Next]_vars
    PROVE  ServiceStep
<1>1. ASSUME NEW who, NEW p \in Procs, NEW what, Requests(who, p, what)
      PROVE  RequestStep(p)
  BY <1>1 DEF Requests, RequestStep
<1>2. ASSUME NEW who, Receives(who)
      PROVE  \E p \in Procs : RequestStep(p)
  BY <1>2 DEF Receives, RequestStep
<1>3. CASE Function
  <2>1. CASE \E p \in Procs : AltersSends(p) \/ AdministersSends(p)
    BY <1>1, <2>1 DEF AltersSends, AdministersSends, ServiceStep
  <2>2. CASE AltersReturns \/ AdministersReturns
    BY <1>2, <2>2 DEF AltersReturns, AdministersReturns, NoRequest, ServiceStep
  <2>3. CASE Launches \/ Waits \/ UsesTimers
    BY <2>3 DEF Launches, Waits, UsesTimers, ServiceStep
  <2>4. QED
    BY <1>3, <2>1, <2>2, <2>3 DEF Function
<1>4. CASE AltersGivesUp \/ AdministersGivesUp
  BY <1>4 DEF AltersGivesUp, AdministersGivesUp, GivesUp, ServiceStep
<1>5. ASSUME NEW r \in Readers,
             \/ \E p \in Procs : Ticks(r, p)
             \/ TicksAlone(r) \/ ReaderReceives(r) \/ ReaderGivesUp(r) \/ Stops(r)
      PROVE  ServiceStep
  <2>1. CASE \E p \in Procs : Ticks(r, p)
    BY <1>1, <2>1 DEF Ticks, ServiceStep
  <2>2. CASE ReaderReceives(r)
    BY <1>2, <2>2 DEF ReaderReceives, ServiceStep
  <2>3. CASE TicksAlone(r) \/ ReaderGivesUp(r) \/ Stops(r)
    BY <2>3 DEF TicksAlone, NoRequest, ReaderGivesUp, GivesUp, Stops, ServiceStep
  <2>4. QED
    BY <1>5, <2>1, <2>2, <2>3
<1>6. CASE ServiceMain \/ ServiceAlone
  BY <1>6 DEF ServiceMain, ServiceAlone, ServiceStep
<1>7. CASE OthersCreate
  BY <1>7 DEF OthersCreate, ServiceStep
<1>8. ASSUME NEW p \in Procs,
             Works(p) \/ StopsTimer(p) \/ Forgets(p) \/ OthersRequest(p)
      PROVE  RequestStep(p)
  BY <1>8 DEF Works, StopsTimer, Forgets, OthersRequest, RequestStep
<1>9. CASE UNCHANGED vars
  BY <1>9 DEF vars, ServiceStep
<1>10. QED
  BY <1>3, <1>4, <1>5, <1>6, <1>7, <1>8, <1>9 DEF Next, ServiceStep

-----------------------------------------------------------------------------
(* Types of the service.                                                   *)

LEMMA NoTimersAreTimers ==
    ASSUME NEW groups, NEW owners, NEW limit
    PROVE  Timer!AreTimers(Timer!NoTimers, groups, owners, limit)
BY DEF Timer!AreTimers, Timer!NoTimers

LEMMA ServiceTypeInit == ServiceInit => ServiceTypeOK
<1> SUFFICES ASSUME ServiceInit PROVE ServiceTypeOK
  OBVIOUS
<1>1. Timer!AreTimers(timers, Groups, Procs, MaxTimers)
  BY NoTimersAreTimers DEF ServiceInit
<1>2. QED
  BY <1>1 DEF ServiceInit, ServiceTypeOK, Parts

\* A step of Main leaves the requests as they are, or ends them.
LEMMA MainMoves ==
    ASSUME ServiceTypeOK, MainStep
    PROVE  /\ ServiceTypeOK'
           /\ UNCHANGED <<timers, timing, answer, overtaken, signalled>>
           /\ main # "exited"
           /\ \/ main' # "exited" /\ UNCHANGED <<pc, cut>>
              \/ main' = "exited" /\ Exits
<1>1. /\ UNCHANGED <<timers, timing, answer, overtaken, signalled>>
      /\ main # "exited"
      /\ \/ main' # "exited" /\ UNCHANGED <<pc, cut>>
         \/ main' = "exited" /\ Exits
  BY DEF MainStep, OpenSql, OpenCache, OpenLogic, OpenService, LaunchFails,
         Launched, Told, Drained, TimedOut, CloseLogic, CloseCache, CloseSql,
         Goes, Exits, requestVars
<1>2. pc' \in [Procs -> {"idle", "working", "deferred", "over"}] /\ cut' \subseteq Procs
  BY <1>1 DEF Exits, ServiceTypeOK, Active
<1>3. /\ main' \in {"sql", "cache", "logic", "service", "launch", "serving",
                    "draining", "closeLogic", "closeCache", "closeSql", "stuck",
                    "exited"}
      /\ listener' \in {"none", "starting", "on", "failed", "ended", "closed"}
  BY DEF MainStep, OpenSql, OpenCache, OpenLogic, OpenService, LaunchFails,
         Launched, Told, Drained, TimedOut, CloseLogic, CloseCache, CloseSql,
         Goes, Exits, ServiceTypeOK
<1>4. part' \in [Parts -> {"new", "open", "closed"}]
  BY DEF MainStep, OpenSql, OpenCache, OpenLogic, OpenService, LaunchFails,
         Launched, Told, Drained, TimedOut, CloseLogic, CloseCache, CloseSql,
         Becomes, ServiceTypeOK
<1>5. hurried' \in BOOLEAN
  BY Zenon DEF MainStep, OpenSql, OpenCache, OpenLogic, OpenService, LaunchFails,
         Launched, Told, Drained, TimedOut, CloseLogic, CloseCache, CloseSql,
         ServiceTypeOK
<1>6. QED
  BY <1>1, <1>2, <1>3, <1>4, <1>5 DEF ServiceTypeOK

\* What a timed request does to the timers when it begins.
LEMMA BeginStarts ==
    ASSUME ServiceTypeOK, NEW p \in Procs, NEW g \in Groups, Begin(p, g)
    PROVE  /\ Adds(timers', timers, Groups, Procs, MaxTimers, g, p)
           /\ timing' = [timing EXCEPT ![p] =
                  [group |-> g, index |-> Timer!NextIndex(timers, g)]]
<1>1. /\ Timer!NextIndex(timers, g) <= MaxTimers
      /\ timers' = Timer!Started(timers, g, p)
      /\ timing' = [timing EXCEPT ![p] =
                        [group |-> g, index |-> Timer!NextIndex(timers, g)]]
  BY DEF Begin
<1>2. MaxTimers \in Nat /\ Timer!AreTimers(timers, Groups, Procs, MaxTimers)
  BY ServiceAssumption DEF ServiceTypeOK
<1>3. QED
  BY <1>1, <1>2, StartAdds, Zenon

\* What the deferred Stop of a request does to the timers: it stops the timer
\* at the request's index if that is the last of the request's group.
LEMMA StopChanges ==
    ASSUME ServiceTypeOK, NEW p \in Procs, Stop(p)
    PROVE  /\ Timer!AreTimers(timers', Groups, Procs, MaxTimers)
           /\ DOMAIN timers' = DOMAIN timers
           /\ \A g \in DOMAIN timers :
                 /\ Len(timers'[g]) = Len(timers[g])
                 /\ \A i \in 1..Len(timers[g]) :
                       /\ timers'[g][i].by = timers[g][i].by
                       /\ \/ timers'[g][i] = timers[g][i]
                          \/ /\ timing[p] = [group |-> g, index |-> i]
                             /\ timers'[g][i].stopped
                 /\ timing[p] = [group |-> g, index |-> Len(timers[g])]
                        => timers'[g][Len(timers[g])].stopped
<1> DEFINE group == timing[p].group
           index == timing[p].index
<1>1. /\ Timer!AreTimers(timers, Groups, Procs, MaxTimers)
      /\ \A g \in DOMAIN timers : Len(timers[g]) \in 1..MaxTimers
      /\ MaxTimers \in Nat
  BY ServiceAssumption DEF ServiceTypeOK, Timer!AreTimers
<1>2. CASE timing[p] = NotTimed
  <2>1. index = 0 /\ group = "none"
    BY <1>2 DEF NotTimed
  <2>2. Timer!Refused(timers, group, index)
    BY <1>1, <2>1 DEF Timer!Refused
  <2>3. timers' = timers
    BY <1>2, <2>2 DEF Stop, Timer!Stopped
  <2>4. \A g \in DOMAIN timers : timing[p] # [group |-> g, index |-> Len(timers[g])]
    BY <1>1, <2>1
  <2>5. QED
    BY <1>1, <2>3, <2>4
<1>3. CASE timing[p] # NotTimed
  <2>1. /\ timing[p] = [group |-> group, index |-> index]
        /\ group \in Groups /\ index \in 1..MaxTimers
    BY <1>3 DEF ServiceTypeOK
  <2>2. CASE Timer!PastTheEnd(timers, group, index)
    <3>1. timers' = timers
      BY <1>3, <2>2 DEF Stop
    <3>2. \A g \in DOMAIN timers : timing[p] # [group |-> g, index |-> Len(timers[g])]
      BY <1>1, <2>1, <2>2 DEF Timer!PastTheEnd
    <3>3. QED
      BY <1>1, <3>1, <3>2
  <2>3. CASE ~Timer!PastTheEnd(timers, group, index)
    <3>1. timers' = Timer!Stopped(timers, group, index)
      BY <2>3 DEF Stop
    <3>2. index \in Nat
      BY <1>1, <2>1
    <3> HIDE DEF group, index
    <3>3. StopsLast(timers', timers, Groups, Procs, MaxTimers, group, index)
      BY <1>1, <2>3, <3>1, <3>2, StopStops, Zenon
    <3>4. /\ Timer!AreTimers(timers', Groups, Procs, MaxTimers)
          /\ DOMAIN timers' = DOMAIN timers
          /\ \A h \in DOMAIN timers :
                 /\ Len(timers'[h]) = Len(timers[h])
                 /\ \A j \in 1..Len(timers[h]) :
                       /\ timers'[h][j].by = timers[h][j].by
                       /\ IF h = group /\ j = index /\ index = Len(timers[h])
                          THEN timers'[h][j].stopped
                          ELSE timers'[h][j] = timers[h][j]
      BY <3>3 DEF StopsLast
    <3>5. QED
      BY <1>1, <2>1, <3>4
  <2>4. QED
    BY <2>2, <2>3
<1>4. QED
  BY <1>2, <1>3

LEMMA ServiceTypeStep ==
    ASSUME ServiceTypeOK, ServiceStep
    PROVE  ServiceTypeOK'
<1>1. CASE MainStep
  BY <1>1, MainMoves
<1>2. CASE Listen
  BY <1>2 DEF Listen, requestVars, ServiceTypeOK
<1>3. CASE Signal
  BY <1>3 DEF Signal, requestVars, ServiceTypeOK
<1>4. CASE TimersClear
  BY <1>4, NoTimersAreTimers DEF TimersClear, processVars, Active, ServiceTypeOK
<1>5. ASSUME NEW p \in Procs, NEW g, Begin(p, g)
      PROVE  ServiceTypeOK'
  <2>1. CASE g \in Groups
    <3>1. /\ Timer!AreTimers(timers', Groups, Procs, MaxTimers)
          /\ Timer!NextIndex(timers, g) \in 1..MaxTimers
      BY <1>5, <2>1, BeginStarts DEF Adds
    <3>2. timing' \in [Procs -> [group : Groups, index : 1..MaxTimers] \cup {NotTimed}]
      BY <1>5, <2>1, <3>1 DEF Begin, ServiceTypeOK
    <3>3. QED
      BY <1>5, <3>1, <3>2 DEF Begin, processVars, ServiceTypeOK
  <2>2. CASE g \notin Groups
    BY <1>5, <2>2 DEF Begin, processVars, ServiceTypeOK
  <2>3. QED
    BY <2>1, <2>2
<1>6. ASSUME NEW p \in Procs, NEW result \in {"ok", "error"}, Work(p, result)
      PROVE  ServiceTypeOK'
  BY <1>6 DEF Work, processVars, ServiceTypeOK
<1>7. ASSUME NEW p \in Procs, Stop(p)
      PROVE  ServiceTypeOK'
  <2>1. Timer!AreTimers(timers', Groups, Procs, MaxTimers)
    BY <1>7, StopChanges
  <2>2. pc' \in [Procs -> {"idle", "working", "deferred", "over"}] /\ cut' \subseteq Procs
    BY <1>7 DEF Stop, ServiceTypeOK
  <2>3. QED
    BY <1>7, <2>1, <2>2 DEF Stop, processVars, ServiceTypeOK
<1>8. ASSUME NEW p \in Procs, Leave(p)
      PROVE  ServiceTypeOK'
  BY <1>8 DEF Leave, processVars, ServiceTypeOK
<1>9. CASE UNCHANGED serviceVars
  BY <1>9 DEF serviceVars, processVars, requestVars, ServiceTypeOK
<1>10. QED
  BY <1>1, <1>2, <1>3, <1>4, <1>5, <1>6, <1>7, <1>8, <1>9 DEF ServiceStep, RequestStep

-----------------------------------------------------------------------------
(* Main and the requests that are left.                                    *)

LEMMA MainInOrderStep ==
    ASSUME ServiceTypeOK, MainInOrder, ServiceStep
    PROVE  MainInOrder'
<1>1. CASE MainStep
  <2>1. CASE main' = "exited"
    <3>1. Active' = {}
      BY <1>1, <2>1, MainMoves DEF Exits, Active, ServiceTypeOK
    <3>2. QED
      BY <2>1, <3>1 DEF MainInOrder, Before, Closing
  <2>2. CASE main' # "exited"
    <3>1. Active' = Active
      BY <1>1, <2>2, MainMoves DEF Active
    <3>2. CASE OpenSql \/ OpenCache \/ OpenLogic
      BY <2>2, <3>1, <3>2 DEF OpenSql, OpenCache, OpenLogic, Becomes, Goes,
             Exits, MainInOrder, Before, Closing, ServiceTypeOK
    <3>3. CASE OpenService \/ Launched
      BY <3>1, <3>3 DEF OpenService, Launched, Goes,
             MainInOrder, Before, Closing, ServiceTypeOK
    <3>8. CASE LaunchFails
      <4>1. hurried' <=> listener = "ended"
        BY <3>8, Zenon DEF LaunchFails
      <4>2. QED
        BY <3>1, <3>8, <4>1 DEF LaunchFails, Goes, MainInOrder, Before, Closing
    <3>4. CASE Told \/ Drained \/ TimedOut
      BY <3>1, <3>4 DEF Told, Drained, TimedOut, Goes,
             MainInOrder, Before, Closing, ServiceTypeOK
    <3>5. CASE CloseLogic \/ CloseCache
      BY <3>1, <3>5 DEF CloseLogic, CloseCache, Goes,
             MainInOrder, Before, Closing, ServiceTypeOK
    <3>6. CASE CloseSql
      BY <2>2, <3>6 DEF CloseSql, Exits
    <3>7. QED
      BY <1>1, <3>2, <3>3, <3>4, <3>5, <3>6, <3>8 DEF MainStep
  <2>3. QED
    BY <2>1, <2>2
<1>2. CASE Listen
  <2>1. Active' = Active
    BY <1>2 DEF Listen, requestVars, Active
  <2>2. QED
    BY <1>2, <2>1 DEF Listen, MainInOrder, Before, Closing
<1>3. CASE Signal
  <2>1. Active' = Active
    BY <1>3 DEF Signal, requestVars, Active
  <2>2. QED
    BY <1>3, <2>1 DEF Signal, MainInOrder
<1>4. ASSUME NEW p \in Procs, NEW g, Begin(p, g)
      PROVE  MainInOrder'
  <2>1. Accepting /\ UNCHANGED processVars
    BY <1>4 DEF Begin
  <2>2. QED
    BY <2>1 DEF Accepting, processVars, MainInOrder, Before, Closing
<1>5. ASSUME UNCHANGED processVars, Active' \subseteq Active
      PROVE  MainInOrder'
  BY <1>5 DEF processVars, MainInOrder
<1>6. ASSUME NEW p \in Procs,
             (\E result \in {"ok", "error"} : Work(p, result)) \/ Stop(p) \/ Leave(p)
      PROVE  UNCHANGED processVars /\ Active' \subseteq Active
  BY <1>6 DEF Work, Stop, Leave, Active, ServiceTypeOK
<1>7. CASE TimersClear \/ UNCHANGED serviceVars
  BY <1>5, <1>7 DEF TimersClear, serviceVars, requestVars, Active
<1>8. QED
  BY <1>1, <1>2, <1>3, <1>4, <1>5, <1>6, <1>7 DEF ServiceStep, RequestStep

-----------------------------------------------------------------------------
(* Requests and their timers.                                              *)

\* A step of the request p leaves what the others have.
LEMMA OneRequest ==
    ASSUME ServiceTypeOK, NEW p \in Procs, RequestStep(p)
    PROVE  /\ UNCHANGED processVars
           /\ \A q \in Procs \ {p} :
                 /\ pc'[q] = pc[q] /\ timing'[q] = timing[q] /\ answer'[q] = answer[q]
                 /\ q \in cut' <=> q \in cut
                 /\ q \in overtaken' <=> q \in overtaken
                 /\ Runs(q)' <=> Runs(q)
<1>1. /\ UNCHANGED processVars
      /\ \A q \in Procs \ {p} :
                 /\ pc'[q] = pc[q] /\ timing'[q] = timing[q] /\ answer'[q] = answer[q]
                 /\ q \in cut' <=> q \in cut
                 /\ q \in overtaken' <=> q \in overtaken
  <2>1. CASE \E g \in Groups \cup {"none"} : Begin(p, g)
    BY <2>1 DEF Begin, ServiceTypeOK
  <2>2. CASE (\E result \in {"ok", "error"} : Work(p, result)) \/ Leave(p)
    BY <2>2 DEF Work, Leave, ServiceTypeOK
  <2>3. CASE Stop(p)
    BY <2>3 DEF Stop, ServiceTypeOK
  <2>4. QED
    BY <2>1, <2>2, <2>3 DEF RequestStep
<1>2. QED
  BY <1>1 DEF Runs, Active

\* A timer that stays where it is keeps its owner.
LEMMA KeepsTimerStep ==
    ASSUME NEW p \in Procs, ServiceTypeOK, KeepsTimer(p), timing'[p] = timing[p],
           timing[p] # NotTimed, DOMAIN timers \subseteq DOMAIN timers',
           \A g \in DOMAIN timers :
               /\ Len(timers'[g]) \in Nat /\ Len(timers[g]) <= Len(timers'[g])
               /\ \A i \in 1..Len(timers[g]) : timers'[g][i].by = timers[g][i].by
    PROVE  KeepsTimer(p)'
<1>1. /\ timing[p].group \in DOMAIN timers
      /\ timing[p].index \in Nat /\ timing[p].index >= 1
      /\ timing[p].index <= Len(timers[timing[p].group])
      /\ Len(timers[timing[p].group]) \in Nat
  BY ServiceAssumption DEF ServiceTypeOK, KeepsTimer, Timer!AreTimers
<1>2. timing[p].index \in 1..Len(timers[timing[p].group])
  BY <1>1
<1>3. QED
  BY <1>1, <1>2 DEF KeepsTimer

LEMMA RequestsInOrderStep ==
    ASSUME ServiceTypeOK, RequestsInOrder, ServiceStep
    PROVE  RequestsInOrder'
<1>0. /\ \A g \in DOMAIN timers : Len(timers[g]) \in 1..MaxTimers
      /\ MaxTimers \in Nat
  BY ServiceAssumption DEF ServiceTypeOK, Timer!AreTimers
<1>1. CASE MainStep
  <2>1. CASE main' = "exited"
    <3>1. Active' = {}
      BY <1>1, <2>1, MainMoves DEF Exits, Active, ServiceTypeOK
    <3>2. QED
      BY <1>1, <2>1, <3>1, MainMoves DEF Exits, Active, Runs, RequestsInOrder, ServiceTypeOK
  <2>2. CASE main' # "exited"
    BY <1>1, <2>2, MainMoves DEF Runs, Active, KeepsTimer, LastIsDone, RequestsInOrder
  <2>3. QED
    BY <2>1, <2>2
<1>2. CASE Listen \/ Signal \/ UNCHANGED serviceVars
  BY <1>2 DEF Listen, Signal, serviceVars, processVars, requestVars, Runs,
         Active, KeepsTimer, LastIsDone, RequestsInOrder
<1>3. CASE TimersClear
  <2>1. \A p \in Procs : ~Runs(p)'
    BY <1>3 DEF TimersClear, Runs, Active
  <2>2. DOMAIN timers' = {}
    BY <1>3 DEF TimersClear, Timer!NoTimers
  <2>3. QED
    BY <1>3, <2>1, <2>2 DEF TimersClear, RequestsInOrder
<1>4. ASSUME NEW p \in Procs, RequestStep(p),
             pc'[p] = "idle" => timing'[p] = NotTimed,
             p \in cut' => pc'[p] = "over",
             answer'[p] # "none" => pc'[p] \in {"deferred", "over"},
             Runs(p)' => KeepsTimer(p)',
             \A q \in Procs \ {p} : KeepsTimer(q) /\ timing[q] # NotTimed => KeepsTimer(q)',
             main # "exited" => \A g \in DOMAIN timers' : LastIsDone(g)'
      PROVE  RequestsInOrder'
  <2>1. /\ UNCHANGED processVars
        /\ \A q \in Procs \ {p} :
              /\ pc'[q] = pc[q] /\ timing'[q] = timing[q] /\ answer'[q] = answer[q]
              /\ q \in cut' <=> q \in cut
              /\ Runs(q)' <=> Runs(q)
    BY <1>4, OneRequest
  <2>2. \A q \in Procs \ {p} : Runs(q)' => KeepsTimer(q)'
    BY <1>4, <2>1 DEF Runs, RequestsInOrder
  <2>3. QED
    BY <1>4, <2>1, <2>2 DEF processVars, RequestsInOrder
<1>5. ASSUME NEW p \in Procs, NEW g \in Groups \cup {"none"}, Begin(p, g)
      PROVE  RequestsInOrder'
  <2>1. /\ RequestStep(p) /\ pc[p] = "idle" /\ timing[p] = NotTimed
        /\ pc'[p] = "working" /\ p \notin overtaken' /\ p \notin cut'
        /\ answer'[p] = "none" /\ ~Runs(p)
    BY <1>5 DEF RequestStep, Begin, RequestsInOrder, Runs, Active, ServiceTypeOK
  <2>2. CASE g \notin Groups
    <3>1. timers' = timers /\ timing' = timing
      BY <1>5, <2>2 DEF Begin
    <3>2. \A q \in Procs : Runs(q)' <=> Runs(q)
      BY <2>1, <3>1, OneRequest DEF Runs
    <3>3. QED
      BY <1>4, <2>1, <3>1, <3>2 DEF KeepsTimer, LastIsDone, RequestsInOrder
  <2>3. CASE g \in Groups
    <3> DEFINE index == Timer!NextIndex(timers, g)
    <3>1. /\ Adds(timers', timers, Groups, Procs, MaxTimers, g, p)
          /\ timing' = [timing EXCEPT ![p] = [group |-> g, index |-> index]]
      BY <1>5, <2>3, BeginStarts
    <3>2. /\ timing'[p] = [group |-> g, index |-> index] /\ index >= 1 /\ index \in Nat
      BY <1>0, <3>1 DEF ServiceTypeOK, Adds
    <3> HIDE DEF index
    <3>3. /\ DOMAIN timers' = DOMAIN timers \cup {g}
          /\ Len(timers'[g]) = index
          /\ timers'[g][index].by = p
          /\ g \in DOMAIN timers => /\ index = Len(timers[g]) + 1
                                    /\ \A i \in 1..Len(timers[g]) : timers'[g][i] = timers[g][i]
          /\ \A h \in DOMAIN timers \ {g} : timers'[h] = timers[h]
      BY <3>1 DEF Adds, index
    <3>4. Runs(p)' /\ KeepsTimer(p)'
      BY <2>1, <3>2, <3>3 DEF Runs, Active, KeepsTimer, NotTimed
    <3>5. \A q \in Procs \ {p} : KeepsTimer(q) /\ timing[q] # NotTimed => KeepsTimer(q)'
      <4>1. \A h \in DOMAIN timers :
               /\ Len(timers'[h]) \in Nat /\ Len(timers[h]) <= Len(timers'[h])
               /\ \A i \in 1..Len(timers[h]) : timers'[h][i].by = timers[h][i].by
        BY <1>0, <3>2, <3>3
      <4>2. \A q \in Procs \ {p} : timing'[q] = timing[q]
        BY <2>1, OneRequest
      <4>3. QED
        BY <3>3, <4>1, <4>2, KeepsTimerStep
    <3>6. LastIsDone(g)'
      BY <3>2, <3>3, <3>4 DEF LastIsDone
    <3>7. ASSUME main # "exited", NEW h \in DOMAIN timers, h # g
          PROVE  LastIsDone(h)'
      <4>1. LastIsDone(h) /\ timers'[h] = timers[h]
        BY <3>3, <3>7 DEF RequestsInOrder
      <4>2. \A q \in Procs : Runs(q) => Runs(q)' /\ timing'[q] = timing[q]
        BY <2>1, OneRequest
      <4>3. QED
        BY <4>1, <4>2 DEF LastIsDone
    <3>8. QED
      BY <1>4, <2>1, <3>3, <3>4, <3>5, <3>6, <3>7
  <2>4. QED
    BY <2>2, <2>3
<1>6. ASSUME NEW p \in Procs,
             (\E result \in {"ok", "error"} : Work(p, result)) \/ Leave(p)
      PROVE  RequestsInOrder'
  <2>1. /\ RequestStep(p) /\ timers' = timers
        /\ pc'[p] = "idle" => timing'[p] = NotTimed
        /\ p \in cut' => pc'[p] = "over"
        /\ answer'[p] # "none" => pc'[p] \in {"deferred", "over"}
        /\ Runs(p)' <=> Runs(p)
        /\ Runs(p) => timing'[p] = timing[p]
    BY <1>6 DEF RequestStep, Work, Leave, Runs, Active, RequestsInOrder, ServiceTypeOK
  <2>2. \A q \in Procs : /\ Runs(q)' <=> Runs(q)
                         /\ Runs(q) => timing'[q] = timing[q]
    BY <2>1, OneRequest
  <2>3. \A q \in Procs \ {p} : timing'[q] = timing[q]
    BY <2>1, OneRequest
  <2>4. QED
    BY <1>4, <2>1, <2>2, <2>3 DEF KeepsTimer, LastIsDone, RequestsInOrder
<1>7. ASSUME NEW p \in Procs, Stop(p)
      PROVE  RequestsInOrder'
  <2>1. /\ RequestStep(p) /\ timing' = timing /\ answer' = answer
        /\ pc'[p] = "over" /\ ~Runs(p)'
    BY <1>7 DEF RequestStep, Stop, Runs, Active, ServiceTypeOK
  <2>2. /\ DOMAIN timers' = DOMAIN timers
        /\ \A g \in DOMAIN timers :
              /\ Len(timers'[g]) = Len(timers[g])
              /\ \A i \in 1..Len(timers[g]) :
                    /\ timers'[g][i].by = timers[g][i].by
                    /\ timers'[g][i] = timers[g][i] \/ timers'[g][i].stopped
              /\ timing[p] = [group |-> g, index |-> Len(timers[g])]
                     => timers'[g][Len(timers[g])].stopped
    BY <1>7, StopChanges
  <2>3. \A q \in Procs \ {p} : KeepsTimer(q) /\ timing[q] # NotTimed => KeepsTimer(q)'
    <3>1. \A g \in DOMAIN timers :
             /\ Len(timers'[g]) \in Nat /\ Len(timers[g]) <= Len(timers'[g])
             /\ \A i \in 1..Len(timers[g]) : timers'[g][i].by = timers[g][i].by
      <4>1. ASSUME NEW g \in DOMAIN timers
            PROVE  Len(timers'[g]) \in Nat /\ Len(timers[g]) <= Len(timers'[g])
        <5>1. Len(timers'[g]) = Len(timers[g])
          BY <2>2
        <5>2. Len(timers[g]) \in Nat
          BY <1>0
        <5>3. QED
          BY <5>1, <5>2
      <4>2. QED
        BY <2>2, <4>1
    <3>2. QED
      BY <2>1, <2>2, <3>1, KeepsTimerStep
  <2>4. ASSUME main # "exited", NEW g \in DOMAIN timers
        PROVE  LastIsDone(g)'
    <3>1. LastIsDone(g) /\ Len(timers[g]) \in 1..Len(timers[g])
      BY <1>0, <2>4 DEF RequestsInOrder
    <3>2. \A q \in Procs \ {p} : Runs(q) => Runs(q)'
      BY <2>1, OneRequest
    <3>3. CASE timers[g][Len(timers[g])].stopped
      BY <2>2, <3>1, <3>3 DEF LastIsDone
    <3>4. ASSUME NEW q \in Procs, Runs(q),
                 timing[q] = [group |-> g, index |-> Len(timers[g])]
          PROVE  LastIsDone(g)'
      <4>1. CASE q = p
        BY <2>2, <3>4, <4>1 DEF LastIsDone
      <4>2. CASE q # p
        BY <2>1, <2>2, <3>2, <3>4, <4>2 DEF LastIsDone
      <4>3. QED
        BY <4>1, <4>2
    <3>5. QED
      BY <3>1, <3>3, <3>4 DEF LastIsDone
  <2>5. QED
    BY <1>4, <2>1, <2>2, <2>3, <2>4
<1>8. QED
  BY <1>1, <1>2, <1>3, <1>5, <1>6, <1>7 DEF ServiceStep, RequestStep

-----------------------------------------------------------------------------
(* What the service promises.                                              *)

LEMMA AnswersStep ==
    ASSUME ServiceTypeOK, MainInOrder, RequestsInOrder, AnswersReachClients,
           MainInOrder', ServiceStep
    PROVE  AnswersReachClients'
<1>1. CASE MainStep
  <2>1. hurried => hurried'
    <3>1. CASE main \in Closing
      BY <1>1, <3>1 DEF MainStep, OpenSql, OpenCache, OpenLogic, OpenService,
             LaunchFails, Launched, Told, Drained, TimedOut, CloseLogic,
             CloseCache, CloseSql, Closing
    <3>2. QED
      BY <1>1, <3>1, MainMoves DEF MainInOrder
  <2>2. CASE main' = "exited"
    <3>1. hurried' <=> hurried
      BY <1>1, <2>2 DEF MainStep, OpenSql, OpenCache, OpenLogic, OpenService,
             LaunchFails, Launched, Told, Drained, TimedOut, CloseLogic,
             CloseCache, CloseSql, Goes
    <3>2. main \in Before \cup {"closeSql"}
      BY <1>1, <2>2 DEF MainStep, OpenSql, OpenCache, OpenLogic, OpenService,
             LaunchFails, Launched, Told, Drained, TimedOut, CloseLogic,
             CloseCache, CloseSql, Goes, Before
    <3>3. ~hurried => Active = {}
      BY <3>2 DEF MainInOrder, Before, Closing
    <3>4. QED
      BY <1>1, <2>2, <3>1, <3>3, MainMoves DEF Exits, AnswersReachClients
  <2>3. CASE main' # "exited"
    BY <1>1, <2>1, <2>3, MainMoves DEF AnswersReachClients
  <2>4. QED
    BY <2>2, <2>3
<1>2. CASE Listen \/ Signal \/ TimersClear \/ UNCHANGED serviceVars
  BY <1>2 DEF Listen, Signal, TimersClear, serviceVars, processVars, requestVars,
         AnswersReachClients
<1>3. ASSUME NEW p \in Procs, RequestStep(p)
      PROVE  AnswersReachClients'
  <2>1. SUFFICES ASSUME ~hurried, p \in cut'
                 PROVE  p \in overtaken'
    <3>1. /\ cut' \subseteq Procs
          /\ \A q \in Procs \ {p} : /\ q \in cut' <=> q \in cut
                                    /\ q \in overtaken' <=> q \in overtaken
      BY <1>3, OneRequest, ServiceTypeStep DEF ServiceTypeOK, ServiceStep
    <3>2. hurried' <=> hurried
      BY <1>3, OneRequest DEF processVars
    <3>3. SUFFICES ASSUME ~hurried, NEW q \in cut', q # p
                   PROVE  q \in overtaken'
      BY <3>2 DEF AnswersReachClients
    <3>4. q \in cut /\ (q \in overtaken' <=> q \in overtaken)
      BY <3>1, <3>3
    <3>5. QED
      BY <3>3, <3>4 DEF AnswersReachClients
  <2>2. CASE \E g \in Groups \cup {"none"} : Begin(p, g)
    BY <2>1, <2>2 DEF Begin, RequestsInOrder
  <2>3. CASE (\E result \in {"ok", "error"} : Work(p, result)) \/ Leave(p)
    BY <2>1, <2>3 DEF Work, Leave, AnswersReachClients
  <2>4. CASE Stop(p)
    <3>1. CASE p \in cut
      BY <2>1, <2>4, <3>1 DEF Stop, AnswersReachClients
    <3>2. CASE p \notin cut
      <4>1. /\ timing[p] # NotTimed /\ p \in Active /\ overtaken' = overtaken
            /\ Timer!PastTheEnd(timers, timing[p].group, timing[p].index)
        BY <2>1, <2>4, <3>2 DEF Stop, Active
      <4>2. SUFFICES ASSUME KeepsTimer(p) PROVE FALSE
        BY <4>1 DEF RequestsInOrder, Runs
      <4>3. /\ timing[p].index \in Nat
            /\ Len(timers[timing[p].group]) \in Nat
        BY <4>1, <4>2, ServiceAssumption DEF ServiceTypeOK, KeepsTimer, Timer!AreTimers
      <4>4. QED
        BY <4>1, <4>2, <4>3 DEF KeepsTimer, Timer!PastTheEnd
    <3>3. QED
      BY <3>1, <3>2
  <2>5. QED
    BY <1>3, <2>2, <2>3, <2>4 DEF RequestStep
<1>4. QED
  BY <1>1, <1>2, <1>3 DEF ServiceStep

LEMMA ServiceInvInit == ServiceInit => ServiceInv
<1> SUFFICES ASSUME ServiceInit PROVE ServiceInv
  OBVIOUS
<1>1. ServiceTypeOK
  BY ServiceTypeInit
<1>2. MainInOrder
  BY DEF ServiceInit, MainInOrder, Before, Closing, Active
<1>3. RequestsInOrder
  BY DEF ServiceInit, RequestsInOrder, Runs, Active, NotTimed, Timer!NoTimers
<1>4. AnswersReachClients
  BY DEF ServiceInit, AnswersReachClients
<1>5. QED
  BY <1>1, <1>2, <1>3, <1>4 DEF ServiceInv

LEMMA ServiceInvStep == ServiceInv /\ [Next]_vars => ServiceInv'
<1> SUFFICES ASSUME ServiceInv, [Next]_vars PROVE ServiceInv'
  OBVIOUS
<1>1. ServiceStep
  BY ScenarioStepsService
<1>2. QED
  BY <1>1, ServiceTypeStep, MainInOrderStep, RequestsInOrderStep, AnswersStep DEF ServiceInv

LEMMA ServiceInvariant == Spec => []ServiceInv
<1>1. Init => ServiceInv
  BY ServiceInvInit DEF Init
<1>2. QED
  BY <1>1, ServiceInvStep, PTL DEF Spec

\* No request runs in a part that Main has closed, unless Main did not wait
\* for it (Main's deferred calls and the Shutdown of service.Close).
THEOREM NoUseAfterClose == Spec => []ClosedPartsAreUnused
<1>1. ServiceInv => ClosedPartsAreUnused
  <2> SUFFICES ASSUME ServiceInv, NEW p \in Procs, pc[p] = "working", ~hurried,
                      NEW x \in Parts, part[x] = "closed"
               PROVE  FALSE
    BY DEF ClosedPartsAreUnused
  <2>1. p \in Active
    BY DEF Active
  <2>2. QED
    BY <2>1 DEF ServiceInv, MainInOrder, Closing
<1>2. QED
  BY <1>1, ServiceInvariant, PTL

\* An answer that was written reaches its client: the deferred Stop of a timer
\* panics only for requests that saw the timers cleared (timer.go), and Main
\* exits with requests in progress only if it was hurried.
THEOREM AnswersAreNotLost == Spec => []AnswersReachClients
<1>1. ServiceInv => AnswersReachClients
  BY DEF ServiceInv
<1>2. QED
  BY <1>1, ServiceInvariant, PTL

\* ReadAll of an idle service has a stopped timer in every group, so that it
\* does not divide by zero (endpointTimersRead, timer.go).
THEOREM IdleReadsAreDefined == Spec => []IdleTimersAreReadable
<1>1. ServiceInv => IdleTimersAreReadable
  <2> SUFFICES ASSUME ServiceInv, Active = {}, main # "exited", NEW g \in DOMAIN timers
               PROVE  \E i \in DOMAIN timers[g] : timers[g][i].stopped
    BY DEF IdleTimersAreReadable, Timer!AveragesDefined
  <2>1. LastIsDone(g)
    BY DEF ServiceInv, RequestsInOrder
  <2>2. timers[g][Len(timers[g])].stopped
    BY <2>1 DEF LastIsDone, Runs
  <2>3. Len(timers[g]) \in DOMAIN timers[g]
    <3>1. /\ timers[g] \in Seq([by : Procs, stopped : BOOLEAN])
          /\ Len(timers[g]) \in 1..MaxTimers
      BY DEF ServiceInv, ServiceTypeOK, Timer!AreTimers
    <3>2. DOMAIN timers[g] = 1..Len(timers[g])
      BY <3>1
    <3>3. QED
      BY <3>1, <3>2, ServiceAssumption
  <2>4. QED
    BY <2>2, <2>3
<1>2. QED
  BY <1>1, ServiceInvariant, PTL

\* The deferred Stop of a request stops no timer of another, unless the timers
\* were cleared in between (Start and Stop of timer.go).
THEOREM StopsOnlyItsOwn == Spec => StopsItsOwn
<1> DEFINE StopOwn ==
        \A p \in Procs : Stop(p) /\ p \notin overtaken =>
            \A g \in DOMAIN timers : \A i \in DOMAIN timers[g] :
                timers'[g][i] # timers[g][i] => timers[g][i].by = p
<1>1. ServiceInv /\ [Next]_vars => [StopOwn]_serviceVars
  <2> SUFFICES ASSUME ServiceInv, NEW p \in Procs, Stop(p), p \notin overtaken,
                      NEW g \in DOMAIN timers, NEW i \in DOMAIN timers[g],
                      timers'[g][i] # timers[g][i]
               PROVE  timers[g][i].by = p
    OBVIOUS
  <2>1. i \in 1..Len(timers[g]) /\ Len(timers[g]) \in 1..MaxTimers
    BY DEF ServiceInv, ServiceTypeOK, Timer!AreTimers
  <2>2. timing[p] = [group |-> g, index |-> i]
    BY <2>1, StopChanges DEF ServiceInv
  <2>3. timing[p] # NotTimed
    BY <2>1, <2>2, ServiceAssumption DEF NotTimed
  <2>4. KeepsTimer(p)
    BY <2>3 DEF ServiceInv, RequestsInOrder, Runs, Active, Stop
  <2>5. QED
    BY <2>2, <2>4 DEF KeepsTimer
<1>2. QED
  BY <1>1, ServiceInvariant, PTL DEF Spec, StopsItsOwn

-----------------------------------------------------------------------------
(* The scripts of the scenarios.                                           *)

Todos(k) == Suffixes(Script[k]) \cup {<<"cleanup">>}

\* What follows a step, by its name.
Follows(k, step, rest) ==
    /\ step = "create"
           => /\ k \in {"herd", "notFound"} /\ rest # << >>
              /\ Head(rest) = IF k = "notFound" THEN "delete" ELSE "launch"
    /\ step = "delete" => k = "notFound" /\ rest # << >> /\ Head(rest) = "launch"
    /\ step = "start" => rest # << >> /\ Head(rest) = "stop"
    /\ step = "stop" => rest # << >> /\ Head(rest) = "wait"
    /\ step = "cleanup" => rest = << >>
    /\ step = "readAll" => k # "herd"
    /\ k = "none" => step = "cleanup"
    /\ rest = << >> => step \in {"cleanup", "readAll"}
    /\ rest # << >> => /\ Head(rest) # "create"
                       /\ Head(rest) = "delete" => step = "create"
                       /\ Head(rest) = "cleanup" => k = "herd"

LEMMA ScriptSteps ==
    ASSUME NEW k \in DOMAIN Script, NEW i \in 1..Len(Script[k]),
           NEW rest, i = Len(Script[k]) => rest = << >>,
           i < Len(Script[k]) => rest # << >> /\ Head(rest) = Script[k][i + 1]
    PROVE  Follows(k, Script[k][i], rest)
<1>1. CASE k = "herd"
  <2>1. PICK s : s = Script[k]
    OBVIOUS
  <2>2. s = <<"create", "launch", "clearCache", "clearCounters", "start",
              "stop", "wait", "readCounters", "cleanup">>
    BY <1>1, <2>1 DEF Script
  <2>3. QED
    BY <1>1, <2>1, <2>2 DEF Follows
<1>2. CASE k = "notFound"
  <2>1. PICK s : s = Script[k]
    OBVIOUS
  <2>2. s = <<"create", "delete", "launch", "clearCache", "clearCounters",
              "clearTimers", "start", "stop", "wait", "readCounters", "readAll">>
    BY <1>2, <2>1 DEF Script
  <2>3. QED
    BY <1>2, <2>1, <2>2 DEF Follows
<1>3. CASE k = "sleep"
  <2>1. PICK s : s = Script[k]
    OBVIOUS
  <2>2. s = <<"launch", "start", "stop", "wait", "readAll">>
    BY <1>3, <2>1 DEF Script
  <2>3. QED
    BY <1>3, <2>1, <2>2 DEF Follows
<1>4. CASE k = "none"
  BY <1>4 DEF Script
<1>5. QED
  BY <1>1, <1>2, <1>3, <1>4 DEF Script

Calls == {"create", "delete", "launch", "clearCache", "clearCounters",
          "clearTimers", "start", "stop", "wait", "readCounters", "readAll",
          "cleanup"}

LEMMA ScriptsAreSequences ==
    ASSUME NEW k \in DOMAIN Script
    PROVE  Script[k] \in Seq(Calls) /\ Len(Script[k]) \in Nat
<1>1. Script[k] \in Seq(Calls)
  <2>1. k \in {"herd", "notFound", "sleep", "none"}
    BY DEF Script
  <2>2. CASE k = "herd"
    <3>1. Script[k] = <<"create", "launch", "clearCache", "clearCounters", "start",
                        "stop", "wait", "readCounters", "cleanup">>
      BY <2>2 DEF Script
    <3>2. QED
      BY <3>1 DEF Calls
  <2>3. CASE k = "notFound"
    <3>1. Script[k] = <<"create", "delete", "launch", "clearCache", "clearCounters",
                        "clearTimers", "start", "stop", "wait", "readCounters",
                        "readAll">>
      BY <2>3 DEF Script
    <3>2. QED
      BY <3>1 DEF Calls
  <2>4. CASE k = "sleep"
    <3>1. Script[k] = <<"launch", "start", "stop", "wait", "readAll">>
      BY <2>4 DEF Script
    <3>2. QED
      BY <3>1 DEF Calls
  <2>5. CASE k = "none"
    BY <2>5 DEF Script
  <2>6. QED
    BY <2>1, <2>2, <2>3, <2>4, <2>5
<1>2. QED
  BY <1>1

LEMMA TodoGoesOn ==
    ASSUME NEW k \in DOMAIN Script, NEW t \in Todos(k), t # << >>
    PROVE  Tail(t) \in Todos(k) /\ Follows(k, Head(t), Tail(t))
<1>1. CASE t = <<"cleanup">>
  <2>1. Head(t) = "cleanup" /\ Tail(t) = << >>
    BY <1>1
  <2>2. SubSeq(Script[k], Len(Script[k]) + 1, Len(Script[k])) = << >>
    BY ScriptsAreSequences
  <2>3. << >> \in Todos(k)
    BY <2>2, ScriptsAreSequences DEF Todos, Suffixes
  <2>4. QED
    BY <2>1, <2>3 DEF Follows
<1>2. CASE t # <<"cleanup">>
  <2>1. PICK s \in Seq(Calls) : s = Script[k]
    BY ScriptsAreSequences
  <2>2. PICK i \in 1..(Len(s) + 1) : t = SubSeq(s, i, Len(s))
    BY <1>2, <2>1 DEF Todos, Suffixes
  <2>3. i \in 1..Len(s) /\ Len(s) \in Nat
    BY <2>2
  <2>4. Head(t) = s[i] /\ Tail(t) = SubSeq(s, i + 1, Len(s))
    BY <2>2, <2>3
  <2>5. Tail(t) \in Todos(k)
    <3>1. PICK j \in 1..(Len(s) + 1) : j = i + 1
      BY <2>3
    <3>2. Tail(t) = SubSeq(s, j, Len(s))
      BY <2>4, <3>1
    <3>3. QED
      BY <2>1, <3>2 DEF Todos, Suffixes
  <2>6. /\ i = Len(s) => Tail(t) = << >>
        /\ i < Len(s) => Tail(t) # << >> /\ Head(Tail(t)) = s[i + 1]
    <3>1. CASE i = Len(s)
      BY <2>3, <2>4, <3>1
    <3>2. CASE i < Len(s)
      <4>1. PICK j \in 1..Len(s) : j = i + 1
        BY <2>3, <3>2
      <4>2. PICK u : u = SubSeq(s, j, Len(s))
        OBVIOUS
      <4>3. Len(u) = Len(s) - j + 1 /\ Len(u) >= 1 /\ Head(u) = s[j]
        BY <2>3, <4>1, <4>2
      <4>4. u # << >>
        BY <4>3
      <4>5. Tail(t) = u
        BY <2>4, <4>1, <4>2
      <4>6. s[j] = s[i + 1] /\ i # Len(s)
        BY <2>3, <3>2, <4>1
      <4>7. QED
        BY <4>3, <4>4, <4>5, <4>6
    <3>3. QED
      BY <2>3, <3>1, <3>2
  <2>7. Follows(k, Script[k][i], Tail(t))
    BY <2>1, <2>3, <2>6, ScriptSteps
  <2>8. QED
    BY <2>1, <2>4, <2>5, <2>7
<1>3. QED
  BY <1>1, <1>2

LEMMA TodoEnds ==
    ASSUME NEW k \in DOMAIN Script
    PROVE  << >> \in Todos(k) /\ <<"cleanup">> \in Todos(k) /\ Script[k] \in Todos(k)
<1>1. PICK s \in Seq(Calls) : s = Script[k]
  BY ScriptsAreSequences
<1>2. SubSeq(s, Len(s) + 1, Len(s)) = << >> /\ SubSeq(s, 1, Len(s)) = s
  OBVIOUS
<1>3. QED
  BY <1>1, <1>2 DEF Todos, Suffixes

-----------------------------------------------------------------------------
(* The timers of the scenario.                                             *)

OwnTypes == /\ Timer!AreTimers(own, Readers, Readers, MaxTimers)
            /\ slot \in [Readers -> 0..MaxTimers]

LEMMA OwnIndices ==
    ASSUME OwnTypes
    PROVE  /\ MaxTimers \in Nat /\ DOMAIN own \subseteq Readers
           /\ \A r \in DOMAIN own : /\ Len(own[r]) \in 1..MaxTimers
                                    /\ DOMAIN own[r] = 1..Len(own[r])
<1>1. /\ MaxTimers \in Nat /\ DOMAIN own \subseteq Readers
      /\ \A r \in DOMAIN own : Len(own[r]) \in 1..MaxTimers
  BY ServiceAssumption DEF OwnTypes, Timer!AreTimers
<1>2. \A r \in DOMAIN own : own[r] \in Seq([by : Readers, stopped : BOOLEAN])
  BY DEF OwnTypes, Timer!AreTimers
<1>3. QED
  BY <1>1, <1>2

\* A tick of r starts a timer, which is then the last of r.
LEMMA TickStarts ==
    ASSUME OwnTypes, OwnInOrder, NEW r \in Readers, slot[r] = 0,
           NEW index, index = Timer!NextIndex(own, r), index <= MaxTimers,
           own' = Timer!Started(own, r, r), slot' = [slot EXCEPT ![r] = index]
    PROVE  OwnTypes' /\ OwnInOrder' /\ index # 0
<1>1. MaxTimers \in Nat /\ Timer!AreTimers(own, Readers, Readers, MaxTimers)
  BY OwnIndices DEF OwnTypes
<1>2. Adds(own', own, Readers, Readers, MaxTimers, r, r)
  BY <1>1, StartAdds, Zenon
<1>3. /\ Timer!AreTimers(own', Readers, Readers, MaxTimers)
      /\ index \in 1..MaxTimers /\ DOMAIN own' = DOMAIN own \cup {r}
      /\ Len(own'[r]) = index
      /\ r \in DOMAIN own => /\ index = Len(own[r]) + 1
                             /\ \A i \in 1..Len(own[r]) : own'[r][i] = own[r][i]
      /\ r \notin DOMAIN own => index = 1
      /\ \A h \in DOMAIN own \ {r} : own'[h] = own[h]
  BY <1>2 DEF Adds
<1>4. OwnTypes'
  BY <1>1, <1>3 DEF OwnTypes
<1>5. \A h \in Readers : slot'[h] # 0 => h \in DOMAIN own' /\ slot'[h] = Len(own'[h])
  BY <1>3 DEF OwnTypes, OwnInOrder
<1>6. ASSUME NEW i \in DOMAIN own'[r], ~own'[r][i].stopped
      PROVE  i = slot'[r]
  <2>1. i \in 1..index /\ slot'[r] = index
    BY <1>3, <1>4, <1>6, OwnIndices DEF OwnTypes
  <2>2. SUFFICES ASSUME i # index PROVE FALSE
    BY <2>1
  <2>3. r \in DOMAIN own /\ i \in 1..Len(own[r]) /\ own'[r][i] = own[r][i]
    BY <1>1, <1>3, <2>1, <2>2, OwnIndices
  <2>4. QED
    BY <1>6, <2>3, OwnIndices DEF OwnInOrder
<1>7. \A h \in DOMAIN own \ {r} : own'[h] = own[h] /\ slot'[h] = slot[h]
  BY <1>3, OwnIndices DEF OwnTypes
<1>8. QED
  BY <1>3, <1>4, <1>5, <1>6, <1>7 DEF OwnInOrder


\* The end of a call stops the timer that it runs.
LEMMA CallStops ==
    ASSUME OwnTypes, OwnInOrder, NEW r \in Readers, slot[r] # 0,
           own' = Timer!Stopped(own, r, slot[r]), slot' = [slot EXCEPT ![r] = 0]
    PROVE  OwnTypes' /\ OwnInOrder'
<1>1. /\ MaxTimers \in Nat /\ Timer!AreTimers(own, Readers, Readers, MaxTimers)
      /\ slot[r] \in Nat
  BY OwnIndices DEF OwnTypes
<1>2. r \in DOMAIN own /\ slot[r] = Len(own[r])
  BY DEF OwnInOrder
<1>3. ~Timer!PastTheEnd(own, r, slot[r])
  BY <1>1, <1>2 DEF Timer!PastTheEnd
<1>4. StopsLast(own', own, Readers, Readers, MaxTimers, r, slot[r])
  BY <1>1, <1>3, StopStops, Zenon
<1>5. /\ Timer!AreTimers(own', Readers, Readers, MaxTimers)
      /\ DOMAIN own' = DOMAIN own
      /\ \A h \in DOMAIN own : /\ Len(own'[h]) = Len(own[h])
                               /\ \A j \in 1..Len(own[h]) :
                                     IF h = r /\ j = Len(own[r])
                                     THEN own'[h][j].stopped
                                     ELSE own'[h][j] = own[h][j]
  BY <1>2, <1>4 DEF StopsLast
<1>6. OwnTypes'
  BY <1>1, <1>5 DEF OwnTypes
<1>7. \A h \in DOMAIN own : DOMAIN own'[h] = 1..Len(own[h])
  <2>1. \A h \in DOMAIN own : own'[h] \in Seq([by : Readers, stopped : BOOLEAN])
    BY <1>5 DEF Timer!AreTimers
  <2>2. QED
    BY <1>5, <2>1
<1>8. \A h \in Readers : slot'[h] # 0 => h # r /\ slot'[h] = slot[h]
  BY DEF OwnTypes
<1>9. \A h \in Readers : slot'[h] # 0 => h \in DOMAIN own' /\ slot'[h] = Len(own'[h])
  BY <1>5, <1>8 DEF OwnInOrder
<1>10. ASSUME NEW h \in DOMAIN own, NEW i \in 1..Len(own[h]), ~own'[h][i].stopped
       PROVE  i = slot'[h]
  <2>1. /\ ~(h = r /\ i = Len(own[r]))
        /\ own'[h][i] = own[h][i]
    BY <1>5, <1>10
  <2>2. i = slot[h]
    BY <1>10, <2>1, OwnIndices DEF OwnInOrder
  <2>3. h # r
    BY <1>2, <2>1, <2>2
  <2>4. QED
    BY <2>2, <2>3, OwnIndices DEF OwnTypes
<1>11. QED
  BY <1>5, <1>6, <1>7, <1>9, <1>10 DEF OwnInOrder

\* A tick that calls nobody starts a timer and stops it.
LEMMA TickStops ==
    ASSUME OwnTypes, OwnInOrder, NEW r \in Readers, slot[r] = 0, slot' = slot,
           NEW index, index = Timer!NextIndex(own, r), index <= MaxTimers,
           own' = Timer!Stopped(Timer!Started(own, r, r), r, index)
    PROVE  OwnTypes' /\ OwnInOrder'
<1>1. MaxTimers \in Nat /\ Timer!AreTimers(own, Readers, Readers, MaxTimers)
  BY OwnIndices DEF OwnTypes
<1>2. PICK mid : mid = Timer!Started(own, r, r)
  OBVIOUS
<1>3. Adds(mid, own, Readers, Readers, MaxTimers, r, r)
  BY <1>1, <1>2, StartAdds, Zenon
<1>4. /\ Timer!AreTimers(mid, Readers, Readers, MaxTimers)
      /\ index \in 1..MaxTimers /\ DOMAIN mid = DOMAIN own \cup {r}
      /\ Len(mid[r]) = index
      /\ r \in DOMAIN own => /\ index = Len(own[r]) + 1
                             /\ \A i \in 1..Len(own[r]) : mid[r][i] = own[r][i]
      /\ r \notin DOMAIN own => index = 1
      /\ \A h \in DOMAIN own \ {r} : mid[h] = own[h]
  BY <1>3 DEF Adds
<1>5. ~Timer!PastTheEnd(mid, r, index) /\ index \in Nat
  BY <1>1, <1>4 DEF Timer!PastTheEnd
<1>6. StopsLast(own', mid, Readers, Readers, MaxTimers, r, index)
  BY <1>1, <1>2, <1>4, <1>5, StopStops, Zenon
<1>7. /\ Timer!AreTimers(own', Readers, Readers, MaxTimers)
      /\ DOMAIN own' = DOMAIN mid
      /\ \A h \in DOMAIN mid : /\ Len(own'[h]) = Len(mid[h])
                               /\ \A j \in 1..Len(mid[h]) :
                                     IF h = r /\ j = index
                                     THEN own'[h][j].stopped
                                     ELSE own'[h][j] = mid[h][j]
  BY <1>4, <1>6 DEF StopsLast
<1>8. OwnTypes'
  BY <1>1, <1>7 DEF OwnTypes
<1>9. \A h \in DOMAIN mid : DOMAIN own'[h] = 1..Len(mid[h])
  <2>1. \A h \in DOMAIN mid : own'[h] \in Seq([by : Readers, stopped : BOOLEAN])
    BY <1>7 DEF Timer!AreTimers
  <2>2. QED
    BY <1>7, <2>1
<1>10. \A h \in Readers : slot'[h] # 0 => h \in DOMAIN own' /\ slot'[h] = Len(own'[h])
  BY <1>4, <1>7 DEF OwnInOrder
<1>11. ASSUME NEW h \in DOMAIN mid, NEW i \in 1..Len(mid[h]), ~own'[h][i].stopped
       PROVE  i = slot'[h]
  <2>1. /\ ~(h = r /\ i = index)
        /\ own'[h][i] = mid[h][i]
    BY <1>7, <1>11
  <2>2. CASE h = r
    <3>1. r \in DOMAIN own /\ i \in 1..Len(own[r]) /\ mid[r][i] = own[r][i]
      BY <1>1, <1>4, <1>11, <2>1, <2>2, OwnIndices
    <3>2. QED
      BY <1>11, <2>1, <2>2, <3>1, OwnIndices DEF OwnInOrder
  <2>3. CASE h # r
    BY <1>4, <1>11, <2>1, <2>3, OwnIndices DEF OwnInOrder
  <2>4. QED
    BY <2>2, <2>3
<1>12. QED
  BY <1>7, <1>8, <1>9, <1>10, <1>11 DEF OwnInOrder

-----------------------------------------------------------------------------
(* Types of the scenario, and its goroutines.                              *)

FunctionTypes ==
    /\ kind \in DOMAIN Script
    /\ todo \in Todos(kind)
    /\ told \in [{"create", "delete", "cleanup"} -> {"none", "ok", "failed"}]

CallTypes ==
    /\ via \in [Readers \cup {Main} -> Procs \cup {Nobody}]
    /\ asked \in [Procs -> {"other", "create", "delete", "cache", "update",
                          "read", "sleep"}]
    /\ row \in {"none", "mine", "other"}

ReaderTypes ==
    /\ reader \in [Readers -> {"none", "blocked", "ready", "calling", "ended"}]
    /\ OwnTypes
    /\ \A r \in Readers : /\ via[r] # Nobody <=> reader[r] = "calling"
                          /\ slot[r] # 0 <=> reader[r] = "calling" /\ Timed

LEMMA TypeParts == ScenarioTypeOK <=> ServiceTypeOK /\ FunctionTypes /\ CallTypes /\ ReaderTypes
BY DEF ScenarioTypeOK, FunctionTypes, CallTypes, ReaderTypes, OwnTypes, Todos

\* The function has returned, or goes on with the next of its steps.
LEMMA StepFollows ==
    ASSUME FunctionTypes, todo # << >>
    PROVE  Tail(todo) \in Todos(kind) /\ Follows(kind, Head(todo), Tail(todo))
BY TodoGoesOn DEF FunctionTypes

LEMMA ReturnsTypes ==
    ASSUME FunctionTypes, Alters, NEW ok, Returns(ok), kind' = kind
    PROVE  FunctionTypes'
<1>1. todo # << >> /\ Head(todo) \in DOMAIN told
  BY DEF Alters, At
<1>2. told' \in [{"create", "delete", "cleanup"} -> {"none", "ok", "failed"}]
  BY <1>1 DEF Returns, FunctionTypes
<1>3. todo' \in Todos(kind)
  BY <1>1, StepFollows, TodoEnds DEF Returns, Goes_On, Fails, FunctionTypes
<1>4. QED
  BY <1>2, <1>3 DEF FunctionTypes

LEMMA FunctionTypesStep ==
    ASSUME FunctionTypes, [Next]_vars
    PROVE  FunctionTypes'
<1>1. CASE AltersReturns \/ AltersGivesUp
  BY <1>1, ReturnsTypes DEF AltersReturns, AltersGivesUp
<1>2. CASE AdministersReturns \/ AdministersGivesUp \/ Launches \/ Waits \/ UsesTimers
  <2>1. todo # << >> /\ UNCHANGED <<kind, told>> /\ (Goes_On \/ Fails)
    BY <1>2 DEF AdministersReturns, AdministersGivesUp, Administers, Launches, Waits,
           UsesTimers, At
  <2>2. QED
    BY <2>1, StepFollows, TodoEnds DEF Goes_On, Fails, FunctionTypes
<1>3. CASE UNCHANGED <<kind, todo, told>>
  BY <1>3 DEF FunctionTypes
<1>4. ASSUME ~(AltersReturns \/ AltersGivesUp),
             ~(AdministersReturns \/ AdministersGivesUp \/ Launches \/ Waits \/ UsesTimers)
      PROVE  UNCHANGED <<kind, todo, told>>
  <2>1. ASSUME NEW p \in Procs, AltersSends(p) \/ AdministersSends(p)
        PROVE  UNCHANGED <<kind, todo, told>>
    BY <2>1 DEF AltersSends, AdministersSends
  <2>2. ASSUME NEW r \in Readers,
               \/ \E p \in Procs : Ticks(r, p)
               \/ TicksAlone(r) \/ ReaderReceives(r) \/ ReaderGivesUp(r) \/ Stops(r)
        PROVE  UNCHANGED <<kind, todo, told>>
    BY <2>2 DEF Ticks, TicksAlone, ReaderReceives, ReaderGivesUp, Called, Stops
  <2>3. CASE ServiceMain \/ ServiceAlone \/ OthersCreate
    BY <2>3 DEF ServiceMain, ServiceAlone, OthersCreate, scenarioVars
  <2>4. ASSUME NEW p \in Procs,
               Works(p) \/ StopsTimer(p) \/ Forgets(p) \/ OthersRequest(p)
        PROVE  UNCHANGED <<kind, todo, told>>
    BY <2>4 DEF Works, StopsTimer, Forgets, OthersRequest, scenarioVars
  <2>5. CASE UNCHANGED vars
    BY <2>5 DEF vars, scenarioVars
  <2>6. QED
    BY <1>4, <2>1, <2>2, <2>3, <2>4, <2>5 DEF Next, Function
<1>5. QED
  BY <1>1, <1>2, <1>3, <1>4

\* What a goroutine asks for; it asks only when its scenario has one.
LEMMA AsksAnything ==
    ASSUME FunctionTypes, ReadersInOrder, NEW r \in Readers, reader[r] = "ready"
    PROVE  /\ Asks(r) \in {"update", "read", "sleep"}
           /\ At("stop") \/ At("wait")
<1>1. todo # << >> /\ Head(todo) \in {"stop", "wait"} /\ (At("stop") \/ At("wait"))
  BY DEF ReadersInOrder, At
<1>2. kind # "none"
  BY <1>1, StepFollows DEF Follows
<1>3. kind \in {"herd", "notFound", "sleep"}
  BY <1>2 DEF FunctionTypes, Script
<1>4. QED
  BY <1>1, <1>3 DEF Asks

LEMMA CallTypesStep ==
    ASSUME FunctionTypes, ReadersInOrder, CallTypes, [Next]_vars
    PROVE  CallTypes'
<1>1. ASSUME NEW who \in Readers \cup {Main}, NEW p \in Procs,
             NEW what \in {"create", "delete", "cache", "update", "read", "sleep"},
             Requests(who, p, what), row' = row
      PROVE  CallTypes'
  BY <1>1 DEF Requests, CallTypes
<1>2. ASSUME NEW who \in Readers \cup {Main}, Receives(who) \/ GivesUp(who) \/ NoRequest(who),
             row' = row
      PROVE  CallTypes'
  BY <1>2 DEF Receives, GivesUp, NoRequest, CallTypes
<1>3. CASE UNCHANGED <<via, asked, row>>
  BY <1>3 DEF CallTypes
<1>4. ASSUME NEW p \in Procs, NEW result, row' \in Effects(asked[p], result),
             UNCHANGED <<via, asked>>
      PROVE  CallTypes'
  BY <1>4 DEF Effects, CallTypes
<1>5. CASE Function \/ AltersGivesUp \/ AdministersGivesUp
  <2>1. ASSUME NEW p \in Procs, AltersSends(p) \/ AdministersSends(p)
        PROVE  CallTypes'
    BY <1>1, <2>1 DEF AltersSends, AdministersSends
  <2>2. CASE AltersReturns \/ AltersGivesUp \/ AdministersReturns \/ AdministersGivesUp
    BY <1>2, <2>2 DEF AltersReturns, AltersGivesUp, AdministersReturns, AdministersGivesUp
  <2>3. CASE Launches \/ Waits \/ UsesTimers
    BY <1>3, <2>3 DEF Launches, Waits, UsesTimers
  <2>4. QED
    BY <1>5, <2>1, <2>2, <2>3 DEF Function
<1>6. ASSUME NEW r \in Readers,
             \/ \E p \in Procs : Ticks(r, p)
             \/ TicksAlone(r) \/ ReaderReceives(r) \/ ReaderGivesUp(r) \/ Stops(r)
      PROVE  CallTypes'
  <2>1. CASE \E p \in Procs : Ticks(r, p)
    BY <1>1, <2>1, AsksAnything DEF Ticks
  <2>2. CASE TicksAlone(r) \/ ReaderReceives(r) \/ ReaderGivesUp(r)
    BY <1>2, <2>2 DEF TicksAlone, ReaderReceives, ReaderGivesUp, Called
  <2>3. CASE Stops(r)
    BY <1>3, <2>3 DEF Stops
  <2>4. QED
    BY <1>6, <2>1, <2>2, <2>3
<1>7. CASE ServiceMain
  BY <1>3, <1>4, <1>7 DEF ServiceMain
<1>8. CASE OthersCreate
  BY <1>8 DEF OthersCreate, CallTypes
<1>9. ASSUME NEW p \in Procs,
             Works(p) \/ StopsTimer(p) \/ Forgets(p) \/ OthersRequest(p)
      PROVE  CallTypes'
  <2>1. CASE Works(p)
    BY <1>4, <2>1 DEF Works
  <2>2. CASE Forgets(p)
    BY <2>2 DEF Forgets, CallTypes
  <2>3. CASE StopsTimer(p) \/ OthersRequest(p)
    BY <1>3, <2>3 DEF StopsTimer, OthersRequest, scenarioVars
  <2>4. QED
    BY <1>9, <2>1, <2>2, <2>3
<1>10. CASE ServiceAlone \/ UNCHANGED vars
  BY <1>3, <1>10 DEF ServiceAlone, vars, scenarioVars
<1>11. QED
  BY <1>5, <1>6, <1>7, <1>8, <1>9, <1>10 DEF Next


\* What a step of the goroutine r leaves to the others.
LEMMA OneReader ==
    ASSUME CallTypes, ReaderTypes, NEW r \in Readers, kind' = kind, OwnTypes',
           via' = [via EXCEPT ![r] = via'[r]],
           reader' = [reader EXCEPT ![r] = reader'[r]],
           slot' = [slot EXCEPT ![r] = slot'[r]],
           reader'[r] \in {"none", "blocked", "ready", "calling", "ended"},
           via'[r] # Nobody <=> reader'[r] = "calling",
           slot'[r] # 0 <=> reader'[r] = "calling" /\ Timed
    PROVE  ReaderTypes'
<1>1. reader' \in [Readers -> {"none", "blocked", "ready", "calling", "ended"}]
  BY DEF ReaderTypes
<1>2. \A h \in Readers \ {r} : /\ via'[h] = via[h] /\ reader'[h] = reader[h]
                              /\ slot'[h] = slot[h]
  BY DEF CallTypes, ReaderTypes, OwnTypes
<1>3. Timed' <=> Timed
  BY DEF Timed
<1>4. ASSUME NEW h \in Readers
      PROVE  /\ via'[h] # Nobody <=> reader'[h] = "calling"
             /\ slot'[h] # 0 <=> reader'[h] = "calling" /\ Timed'
  BY <1>2, <1>3 DEF ReaderTypes
<1>5. QED
  BY <1>1, <1>4 DEF ReaderTypes

LEMMA ReaderTypesStep ==
    ASSUME FunctionTypes, CallTypes, ReaderTypes, ReadersInOrder, OwnInOrder, [Next]_vars
    PROVE  ReaderTypes' /\ OwnInOrder'
<1>0. kind' = kind /\ (Timed' <=> Timed)
  <2>1. kind' = kind
    BY DEF Next, Function, AltersSends, AltersReturns, AltersGivesUp,
           AdministersSends, AdministersReturns, AdministersGivesUp, Launches, Waits, UsesTimers, Ticks, TicksAlone, ReaderReceives,
           ReaderGivesUp, Called, Stops, ServiceMain, ServiceAlone, OthersCreate,
           Works, StopsTimer, Forgets, OthersRequest, vars, scenarioVars
  <2>2. QED
    BY <2>1 DEF Timed
<1>1. ASSUME UNCHANGED <<reader, slot, own>>, \A r \in Readers : via'[r] = via[r]
      PROVE  ReaderTypes' /\ OwnInOrder'
  <2>1. OwnTypes' /\ OwnInOrder'
    BY <1>1 DEF ReaderTypes, OwnTypes, OwnInOrder
  <2>2. QED
    BY <1>0, <1>1, <2>1 DEF ReaderTypes
<1>2. CASE Function \/ AltersGivesUp \/ AdministersGivesUp
  <2>1. CASE (\E p \in Procs : AltersSends(p)) \/ AltersReturns \/ AltersGivesUp
    <3>1. UNCHANGED <<reader, slot, own>> /\ \A r \in Readers : via'[r] = via[r]
      BY <2>1, NamesAssumption DEF AltersSends, AltersReturns, AltersGivesUp,
             Requests, Receives, GivesUp, NoRequest, CallTypes
    <3>2. QED
      BY <1>1, <3>1
  <2>2. CASE (\E p \in Procs : AdministersSends(p)) \/ AdministersReturns \/ AdministersGivesUp
    <3>1. UNCHANGED <<reader, slot, own>> /\ \A r \in Readers : via'[r] = via[r]
      BY <2>2, NamesAssumption DEF AdministersSends, AdministersReturns,
             AdministersGivesUp, Requests, Receives, GivesUp, NoRequest, CallTypes
    <3>2. QED
      BY <1>1, <3>1
  <2>3. CASE Waits
    BY <1>1, <2>3 DEF Waits
  <2>4. CASE Launches
    <3>1. todo # << >> /\ ~At("stop") /\ ~At("wait")
      BY <2>4 DEF Launches, At
    <3>2. \A r \in Readers : via[r] = Nobody /\ slot[r] = 0
      BY <3>1 DEF ReadersInOrder, ReaderTypes
    <3>3. /\ \A r \in Readers : reader'[r] \in {"blocked", "ready"}
          /\ reader' \in [Readers -> {"none", "blocked", "ready", "calling", "ended"}]
          /\ UNCHANGED <<via, slot, own>>
      BY <2>4 DEF Launches
    <3>4. OwnTypes' /\ OwnInOrder'
      BY <3>3 DEF ReaderTypes, OwnTypes, OwnInOrder
    <3>5. QED
      BY <3>2, <3>3, <3>4 DEF ReaderTypes
  <2>5. CASE UsesTimers
    <3>1. todo # << >> /\ ~At("stop") /\ ~At("wait") /\ UNCHANGED <<via, reader, slot>>
      BY <2>5 DEF UsesTimers, At
    <3>2. \A r \in Readers : slot[r] = 0
      BY <3>1 DEF ReadersInOrder, ReaderTypes
    <3>3. CASE own' = Timer!NoTimers
      <4>1. OwnTypes'
        BY <3>1, <3>3, NoTimersAreTimers DEF ReaderTypes, OwnTypes
      <4>2. DOMAIN own' = {}
        BY <3>3 DEF Timer!NoTimers
      <4>3. OwnInOrder'
        BY <3>1, <3>2, <4>2 DEF OwnInOrder
      <4>4. QED
        BY <1>0, <3>1, <4>1, <4>3 DEF ReaderTypes
    <3>4. CASE own' = own
      BY <1>1, <3>1, <3>4
    <3>5. QED
      BY <2>5, <3>3, <3>4 DEF UsesTimers
  <2>6. QED
    BY <1>2, <2>1, <2>2, <2>3, <2>4, <2>5 DEF Function
<1>3. ASSUME NEW r \in Readers, NEW p \in Procs, Ticks(r, p)
      PROVE  ReaderTypes' /\ OwnInOrder'
  <2> DEFINE index == Timer!NextIndex(own, r)
  <2>1. /\ reader[r] = "ready" /\ slot[r] = 0 /\ p # Nobody
        /\ via' = [via EXCEPT ![r] = p]
        /\ reader' = [reader EXCEPT ![r] = "calling"]
    BY <1>3, NamesAssumption DEF Ticks, Requests, ReaderTypes
  <2>2. CASE Timed
    <3>1. /\ index <= MaxTimers /\ own' = Timer!Started(own, r, r)
          /\ slot' = [slot EXCEPT ![r] = index]
      BY <1>3, <2>2 DEF Ticks, OwnGroup
    <3>2. OwnTypes' /\ OwnInOrder' /\ index # 0
      BY <2>1, <3>1, TickStarts DEF ReaderTypes
    <3> HIDE DEF index
    <3>3. QED
      <4>1. via'[r] = p /\ reader'[r] = "calling" /\ slot'[r] = index
        BY <2>1, <3>1 DEF CallTypes, ReaderTypes, OwnTypes
      <4>2. QED
        BY <1>0, <2>1, <2>2, <3>1, <3>2, <4>1, OneReader
  <2>3. CASE ~Timed
    <3>1. own' = own /\ slot' = slot /\ slot' = [slot EXCEPT ![r] = 0]
      BY <1>3, <2>1, <2>3 DEF Ticks, ReaderTypes, OwnTypes
    <3>2. OwnTypes' /\ OwnInOrder'
      BY <3>1 DEF ReaderTypes, OwnTypes, OwnInOrder
    <3>3. QED
      <4>1. via'[r] = p /\ reader'[r] = "calling" /\ slot'[r] = 0
        BY <2>1, <3>1 DEF CallTypes, ReaderTypes, OwnTypes
      <4>2. QED
        BY <1>0, <2>1, <2>3, <3>1, <3>2, <4>1, OneReader
  <2>4. QED
    BY <2>2, <2>3
<1>4. ASSUME NEW r \in Readers, TicksAlone(r)
      PROVE  ReaderTypes' /\ OwnInOrder'
  <2> DEFINE index == Timer!NextIndex(own, r)
  <2>1. /\ slot[r] = 0 /\ UNCHANGED <<via, reader, slot>> /\ index <= MaxTimers
        /\ own' = Timer!Stopped(Timer!Started(own, r, r), r, index)
    BY <1>4 DEF TicksAlone, NoRequest, OwnGroup, ReaderTypes
  <2>2. OwnTypes' /\ OwnInOrder'
    BY <2>1, TickStops DEF ReaderTypes
  <2>3. QED
    BY <1>0, <2>1, <2>2 DEF ReaderTypes
<1>5. ASSUME NEW r \in Readers, ReaderReceives(r) \/ ReaderGivesUp(r)
      PROVE  ReaderTypes' /\ OwnInOrder'
  <2>1. /\ via' = [via EXCEPT ![r] = Nobody] /\ reader[r] = "calling"
        /\ reader' = [reader EXCEPT ![r] = "ready"]
        /\ slot' = [slot EXCEPT ![r] = 0]
        /\ own' = IF Timed THEN Timer!Stopped(own, r, slot[r]) ELSE own
    BY <1>5 DEF ReaderReceives, ReaderGivesUp, Receives, GivesUp, Called, OwnGroup
  <2>2. CASE Timed
    <3>1. slot[r] # 0 /\ own' = Timer!Stopped(own, r, slot[r])
      BY <2>1, <2>2 DEF ReaderTypes
    <3>2. OwnTypes' /\ OwnInOrder'
      BY <2>1, <3>1, CallStops DEF ReaderTypes
    <3>3. QED
      <4>1. via'[r] = Nobody /\ reader'[r] = "ready" /\ slot'[r] = 0
        BY <2>1 DEF CallTypes, ReaderTypes, OwnTypes
      <4>2. QED
        BY <1>0, <2>1, <3>2, <4>1, OneReader
  <2>3. CASE ~Timed
    <3>1. slot[r] = 0 /\ own' = own /\ slot' = slot
      BY <2>1, <2>3 DEF ReaderTypes, OwnTypes
    <3>2. OwnTypes' /\ OwnInOrder'
      BY <3>1 DEF ReaderTypes, OwnTypes, OwnInOrder
    <3>3. QED
      <4>1. via'[r] = Nobody /\ reader'[r] = "ready" /\ slot'[r] = 0
        BY <2>1 DEF CallTypes, ReaderTypes, OwnTypes
      <4>2. QED
        BY <1>0, <2>1, <3>2, <4>1, OneReader
  <2>4. QED
    BY <2>2, <2>3
<1>6. ASSUME NEW r \in Readers, Stops(r)
      PROVE  ReaderTypes' /\ OwnInOrder'
  <2>1. /\ reader[r] = "ready" /\ reader' = [reader EXCEPT ![r] = "ended"]
        /\ UNCHANGED <<via, slot, own>>
    BY <1>6 DEF Stops
  <2>2. OwnTypes' /\ OwnInOrder'
    BY <2>1 DEF ReaderTypes, OwnTypes, OwnInOrder
  <2>3. QED
    BY <1>0, <2>1, <2>2 DEF ReaderTypes
<1>7. CASE ServiceMain \/ ServiceAlone \/ OthersCreate \/ UNCHANGED vars
  BY <1>1, <1>7 DEF ServiceMain, ServiceAlone, OthersCreate, vars, scenarioVars
<1>8. ASSUME NEW p \in Procs,
             Works(p) \/ StopsTimer(p) \/ Forgets(p) \/ OthersRequest(p)
      PROVE  ReaderTypes' /\ OwnInOrder'
  BY <1>1, <1>8 DEF Works, StopsTimer, Forgets, OthersRequest, scenarioVars
<1>9. QED
  BY <1>2, <1>3, <1>4, <1>5, <1>6, <1>7, <1>8 DEF Next

\* Goroutines call between start and the end of wait only.
LEMMA ReadersInOrderStep ==
    ASSUME FunctionTypes, ReaderTypes, ReadersInOrder, [Next]_vars
    PROVE  ReadersInOrder'
<1>1. ASSUME todo' = todo,
             \A r \in Readers : reader'[r] \in {"ready", "calling"}
                                    => reader[r] \in {"ready", "calling"}
      PROVE  ReadersInOrder'
  BY <1>1 DEF ReadersInOrder, At
<1>2. ASSUME reader' = reader, todo # << >>, ~At("stop"), ~At("wait")
      PROVE  ReadersInOrder'
  BY <1>2 DEF ReadersInOrder
<1>3. CASE Function \/ AltersGivesUp \/ AdministersGivesUp
  <2>1. CASE \E p \in Procs : AltersSends(p) \/ AdministersSends(p)
    BY <1>1, <2>1 DEF AltersSends, AdministersSends
  <2>2. CASE AltersReturns \/ AltersGivesUp
    <3>1. reader' = reader /\ Alters
      BY <2>2 DEF AltersReturns, AltersGivesUp
    <3>2. todo # << >> /\ ~At("stop") /\ ~At("wait")
      BY <3>1 DEF Alters, At, FunctionTypes
    <3>3. QED
      BY <1>2, <3>1, <3>2
  <2>3. CASE AdministersReturns \/ AdministersGivesUp \/ UsesTimers
    <3>1. reader' = reader /\ todo # << >> /\ ~At("stop") /\ ~At("wait")
      BY <2>3 DEF AdministersReturns, AdministersGivesUp, Administers, UsesTimers, At
    <3>2. QED
      BY <1>2, <3>1
  <2>4. CASE Launches
    <3>1. CASE At("launch")
      <4>1. \A r \in Readers : reader'[r] = "blocked"
        BY <2>4, <3>1 DEF Launches, At
      <4>2. QED
        BY <4>1 DEF ReadersInOrder
    <3>2. CASE At("start")
      BY <2>4, <3>2, StepFollows DEF Launches, Goes_On, Follows, ReadersInOrder, At
    <3>3. QED
      BY <2>4, <3>1, <3>2 DEF Launches
  <2>5. CASE Waits
    <3>1. CASE At("stop")
      BY <2>5, <3>1, StepFollows DEF Waits, Goes_On, Follows, ReadersInOrder, At
    <3>2. CASE At("wait")
      <4>1. \A r \in Readers : reader'[r] = "ended"
        BY <2>5, <3>2 DEF Waits, At
      <4>2. QED
        BY <4>1 DEF ReadersInOrder
    <3>3. QED
      BY <2>5, <3>1, <3>2 DEF Waits
  <2>6. QED
    BY <1>3, <2>1, <2>2, <2>3, <2>4, <2>5 DEF Function
<1>4. ASSUME NEW r \in Readers,
             \/ \E p \in Procs : Ticks(r, p)
             \/ TicksAlone(r) \/ ReaderReceives(r) \/ ReaderGivesUp(r) \/ Stops(r)
      PROVE  ReadersInOrder'
  <2>1. /\ todo' = todo
        /\ \A h \in Readers : reader'[h] \in {"ready", "calling"}
                                  => reader[h] \in {"ready", "calling"}
    BY <1>4 DEF Ticks, TicksAlone, ReaderReceives, ReaderGivesUp, Called, Stops,
           ReaderTypes
  <2>2. QED
    BY <1>1, <2>1
<1>5. CASE ServiceMain \/ ServiceAlone \/ OthersCreate \/ UNCHANGED vars
  BY <1>1, <1>5 DEF ServiceMain, ServiceAlone, OthersCreate, vars, scenarioVars
<1>6. ASSUME NEW p \in Procs,
             Works(p) \/ StopsTimer(p) \/ Forgets(p) \/ OthersRequest(p)
      PROVE  ReadersInOrder'
  BY <1>1, <1>6 DEF Works, StopsTimer, Forgets, OthersRequest, scenarioVars
<1>7. QED
  BY <1>3, <1>4, <1>5, <1>6 DEF Next

-----------------------------------------------------------------------------
(* Who waits for which request.                                            *)

LEMMA AltersIs ==
    ASSUME FunctionTypes
    PROVE  Alters <=> At("create") \/ At("delete") \/ At("cleanup")
BY DEF Alters, FunctionTypes

\* No new connection is waited for, and the function stays where it waits.
LEMMA ConnectionsKept ==
    ASSUME FunctionTypes, CallTypes, ConnectionsInOrder, CallTypes', FunctionTypes',
           \A a \in DOMAIN via : via'[a] = via[a] \/ via'[a] = Nobody,
           \A p \in Procs : pc'[p] = "idle"
               => pc[p] = "idle" \/ \A a \in DOMAIN via : via'[a] # p,
           via'[Main] # Nobody
               => asked'[via[Main]] = asked[via[Main]] /\ todo' = todo
    PROVE  ConnectionsInOrder'
<1>1. DOMAIN via = Readers \cup {Main} /\ DOMAIN via' = Readers \cup {Main}
      /\ \A a \in DOMAIN via : via'[a] \in Procs \cup {Nobody}
  BY DEF CallTypes
<1>2. SUFFICES ASSUME NEW a \in Readers \cup {Main}, via'[a] # Nobody
               PROVE  /\ pc'[via'[a]] # "idle"
                      /\ \A b \in Readers \cup {Main} : via'[b] = via'[a] => b = a
                      /\ a = Main => Asking' /\ asked'[via'[a]] = AskedFor'
  BY <1>1 DEF ConnectionsInOrder
<1>3. via'[a] = via[a] /\ via[a] \in Procs
  BY <1>1, <1>2
<1>4. /\ pc[via[a]] # "idle"
      /\ \A b \in Readers \cup {Main} : via[b] = via[a] => b = a
      /\ a = Main => Asking /\ asked[via[a]] = AskedFor
  BY <1>1, <1>2, <1>3 DEF ConnectionsInOrder
<1>5. pc'[via'[a]] # "idle"
  BY <1>1, <1>2, <1>3, <1>4
<1>6. \A b \in Readers \cup {Main} : via'[b] = via'[a] => b = a
  BY <1>1, <1>2, <1>3, <1>4
<1>7. ASSUME a = Main
      PROVE  Asking' /\ asked'[via'[a]] = AskedFor'
  <2>1. todo' = todo /\ asked'[via[a]] = asked[via[a]]
    BY <1>2, <1>7
  <2>2. (Asking' <=> Asking) /\ AskedFor' = AskedFor
    BY <2>1 DEF Asking, AskedFor, Alters, Administers, At, FunctionTypes
  <2>3. QED
    BY <1>3, <1>4, <1>7, <2>1, <2>2
<1>8. QED
  BY <1>5, <1>6, <1>7

\* An idle connection is taken by one that waited for none.
LEMMA ConnectionsTaken ==
    ASSUME ServiceTypeOK, FunctionTypes, CallTypes, ConnectionsInOrder,
           CallTypes', FunctionTypes', todo' = todo,
           NEW who \in Readers \cup {Main}, NEW p \in Procs, NEW what,
           Requests(who, p, what),
           who = Main => Asking /\ what = AskedFor
    PROVE  ConnectionsInOrder'
<1>1. /\ DOMAIN via = Readers \cup {Main} /\ DOMAIN via' = Readers \cup {Main}
      /\ p # Nobody
      /\ via'[who] = p /\ \A a \in (Readers \cup {Main}) \ {who} : via'[a] = via[a]
      /\ asked'[p] = what /\ \A q \in Procs \ {p} : asked'[q] = asked[q]
      /\ pc[p] = "idle" /\ pc'[p] = "working"
      /\ \A q \in Procs \ {p} : pc'[q] = pc[q]
  BY NamesAssumption DEF Requests, Begin, CallTypes, ServiceTypeOK
<1>2. \A a \in Readers \cup {Main} : via[a] # p
  BY <1>1 DEF ConnectionsInOrder
<1>3. (Asking' <=> Asking) /\ AskedFor' = AskedFor
  BY DEF Asking, AskedFor, Alters, Administers, At, FunctionTypes
<1>4. SUFFICES ASSUME NEW a \in Readers \cup {Main}, via'[a] # Nobody
               PROVE  /\ pc'[via'[a]] # "idle"
                      /\ \A b \in Readers \cup {Main} : via'[b] = via'[a] => b = a
                      /\ a = Main => Asking' /\ asked'[via'[a]] = AskedFor'
  BY <1>1 DEF ConnectionsInOrder
<1>5. CASE a = who
  BY <1>1, <1>2, <1>3, <1>5
<1>6. CASE a # who
  <2>1. via'[a] = via[a] /\ via[a] \in Procs \ {p}
    BY <1>1, <1>2, <1>4, <1>6 DEF CallTypes
  <2>2. /\ pc[via[a]] # "idle"
        /\ \A b \in Readers \cup {Main} : via[b] = via[a] => b = a
        /\ a = Main => Asking /\ asked[via[a]] = AskedFor
    BY <1>1, <1>4, <2>1 DEF ConnectionsInOrder
  <2>3. QED
    BY <1>1, <1>2, <1>3, <2>1, <2>2
<1>7. QED
  BY <1>5, <1>6

LEMMA ConnectionsStep ==
    ASSUME ServiceTypeOK, FunctionTypes, CallTypes, ReaderTypes, ReadersInOrder,
           ConnectionsInOrder, CallTypes', FunctionTypes', [Next]_vars
    PROVE  ConnectionsInOrder'
<1>0. DOMAIN via = Readers \cup {Main}
  BY DEF CallTypes
<1>1. ASSUME UNCHANGED <<todo, via, asked>>,
             \A p \in Procs : pc'[p] = "idle" => pc[p] = "idle"
      PROVE  ConnectionsInOrder'
  BY <1>1, ConnectionsKept
<1>2. ASSUME NEW who \in Readers \cup {Main}, NEW p \in Procs, via[who] = p, Leave(p),
             via' = [via EXCEPT ![who] = Nobody],
             asked' = [asked EXCEPT ![p] = "other"],
             who # Main => todo' = todo
      PROVE  ConnectionsInOrder'
  <2>1. /\ \A q \in Procs \ {p} : pc'[q] = pc[q] /\ asked'[q] = asked[q]
        /\ via'[who] = Nobody
        /\ \A a \in (Readers \cup {Main}) \ {who} : via'[a] = via[a]
    BY <1>2 DEF Leave, CallTypes, ServiceTypeOK
  <2>2. \A a \in (Readers \cup {Main}) \ {who} : via[a] # p
    BY <1>0, <1>2, NamesAssumption DEF ConnectionsInOrder
  <2>3. \A a \in DOMAIN via : via'[a] = via[a] \/ via'[a] = Nobody
    BY <1>0, <2>1
  <2>4. \A a \in DOMAIN via : via'[a] # p
    BY <1>0, <2>1, <2>2, NamesAssumption
  <2>5. via'[Main] # Nobody => via[Main] \in Procs \ {p} /\ who # Main
    BY <2>1, <2>2 DEF CallTypes
  <2>6. QED
    BY <1>2, <2>1, <2>3, <2>4, <2>5, ConnectionsKept
<1>3. ASSUME NEW who \in Readers \cup {Main}, UNCHANGED <<serviceVars, asked>>,
             via' = [via EXCEPT ![who] = Nobody], who # Main => todo' = todo
      PROVE  ConnectionsInOrder'
  <2>1. /\ \A a \in DOMAIN via : via'[a] = via[a] \/ via'[a] = Nobody
        /\ who = Main => via'[Main] = Nobody
        /\ pc' = pc
    BY <1>0, <1>3 DEF CallTypes, serviceVars, requestVars
  <2>2. QED
    BY <1>3, <2>1, ConnectionsKept
<1>4. ASSUME UNCHANGED <<serviceVars, via, asked>>, via[Main] = Nobody
      PROVE  ConnectionsInOrder'
  BY <1>4, ConnectionsKept DEF serviceVars, requestVars
<1>5. CASE Function \/ AltersGivesUp \/ AdministersGivesUp
  <2>1. ASSUME NEW p \in Procs, AltersSends(p)
        PROVE  ConnectionsInOrder'
    BY <2>1, ConnectionsTaken DEF AltersSends, Asking, AskedFor
  <2>2. ASSUME NEW p \in Procs, AdministersSends(p)
        PROVE  ConnectionsInOrder'
    <3>1. Asking /\ AskedFor = "cache"
      BY <2>2, AltersIs DEF AdministersSends, Administers, Asking, AskedFor, At
    <3>2. QED
      BY <2>2, <3>1, ConnectionsTaken DEF AdministersSends
  <2>3. CASE AltersReturns \/ AdministersReturns
    <3>1. CASE Receives(Main)
      BY <1>2, <3>1 DEF Receives
    <3>2. CASE NoRequest(Main)
      BY <1>4, <3>2 DEF NoRequest
    <3>3. QED
      BY <2>3, <3>1, <3>2 DEF AltersReturns, AdministersReturns
  <2>4. CASE AltersGivesUp \/ AdministersGivesUp
    BY <1>3, <2>4 DEF AltersGivesUp, AdministersGivesUp, GivesUp
  <2>5. CASE Launches \/ Waits \/ UsesTimers
    <3>1. ~Asking /\ UNCHANGED <<serviceVars, via, asked>>
      BY <2>5, AltersIs DEF Launches, Waits, UsesTimers, Asking, Administers, At
    <3>2. via[Main] = Nobody
      BY <1>0, <3>1 DEF ConnectionsInOrder
    <3>3. QED
      BY <1>4, <3>1, <3>2
  <2>6. QED
    BY <1>5, <2>1, <2>2, <2>3, <2>4, <2>5 DEF Function
<1>6. ASSUME NEW r \in Readers,
             \/ \E p \in Procs : Ticks(r, p)
             \/ TicksAlone(r) \/ ReaderReceives(r) \/ ReaderGivesUp(r) \/ Stops(r)
      PROVE  ConnectionsInOrder'
  <2>1. r # Main
    BY NamesAssumption
  <2>2. CASE \E p \in Procs : Ticks(r, p)
    BY <2>1, <2>2, ConnectionsTaken DEF Ticks
  <2>3. CASE ReaderReceives(r)
    BY <1>2, <2>3 DEF ReaderReceives, Receives, Called
  <2>4. CASE ReaderGivesUp(r)
    BY <1>3, <2>4 DEF ReaderGivesUp, GivesUp, Called
  <2>5. CASE TicksAlone(r) \/ Stops(r)
    BY <1>1, <2>5 DEF TicksAlone, NoRequest, Stops, serviceVars, requestVars
  <2>6. QED
    BY <1>6, <2>2, <2>3, <2>4, <2>5
<1>7. CASE ServiceMain
  <2>1. \A p \in Procs : pc'[p] = "idle" => pc[p] = "idle"
    BY <1>7, MainMoves DEF ServiceMain, Exits, ServiceTypeOK
  <2>2. QED
    BY <1>1, <1>7, <2>1 DEF ServiceMain
<1>8. CASE ServiceAlone \/ OthersCreate \/ UNCHANGED vars
  <2>1. pc' = pc /\ UNCHANGED <<todo, via, asked>>
    BY <1>8 DEF ServiceAlone, Listen, Signal, TimersClear, OthersCreate, vars,
           scenarioVars, serviceVars, requestVars
  <2>2. QED
    BY <1>1, <2>1
<1>9. ASSUME NEW p \in Procs,
             Works(p) \/ StopsTimer(p) \/ Forgets(p) \/ OthersRequest(p)
      PROVE  ConnectionsInOrder'
  <2>1. CASE Works(p) \/ StopsTimer(p) \/ OthersRequest(p)
    <3>1. /\ \A q \in Procs : pc'[q] = "idle" => pc[q] = "idle"
          /\ UNCHANGED <<todo, via, asked>>
      BY <2>1 DEF Works, Work, StopsTimer, Stop, OthersRequest, Begin,
             scenarioVars, ServiceTypeOK
    <3>2. QED
      BY <1>1, <3>1
  <2>2. CASE Forgets(p)
    <3>1. /\ \A a \in DOMAIN via : via[a] # p
          /\ \A q \in Procs \ {p} : pc'[q] = pc[q] /\ asked'[q] = asked[q]
          /\ UNCHANGED <<todo, via>>
      BY <2>2 DEF Forgets, Leave, CallTypes, ServiceTypeOK
    <3>2. via[Main] # Nobody => via[Main] \in Procs \ {p}
      BY <1>0, <3>1 DEF CallTypes
    <3>3. QED
      BY <1>0, <3>1, <3>2, ConnectionsKept
  <2>3. QED
    BY <1>9, <2>1, <2>2
<1>10. QED
  BY <1>5, <1>6, <1>7, <1>8, <1>9 DEF Next

-----------------------------------------------------------------------------
(* What the function of the scenario has been told.                        *)

\* How a step changes what is left to do and what was told.
LEMMA FunctionMoves ==
    ASSUME FunctionTypes, [Next]_vars
    PROVE  /\ kind' = kind
           /\ \/ UNCHANGED <<todo, told>>
              \/ Alters /\ (Returns(TRUE) \/ Returns(FALSE))
              \/ todo # << >> /\ ~Alters /\ told' = told /\ (Goes_On \/ Fails)
<1>1. CASE AltersReturns \/ AltersGivesUp
  <2>1. ASSUME NEW ok, Returns(ok)
        PROVE  Returns(TRUE) \/ Returns(FALSE)
    <3>1. CASE ok
      BY <2>1, <3>1 DEF Returns
    <3>2. CASE ~ok
      BY <2>1, <3>2 DEF Returns
    <3>3. QED
      BY <3>1, <3>2
  <2>2. /\ kind' = kind /\ Alters
        /\ \/ Returns(answer[via[Main]] = "ok" /\ via[Main] \notin cut)
           \/ Returns(FALSE)
    BY <1>1 DEF AltersReturns, AltersGivesUp
  <2>3. QED
    BY <2>1, <2>2
<1>2. CASE AdministersReturns \/ AdministersGivesUp \/ Launches \/ Waits \/ UsesTimers
  BY <1>2, AltersIs DEF AdministersReturns, AdministersGivesUp, Administers, Launches,
         Waits, UsesTimers, At
<1>3. CASE UNCHANGED <<kind, todo, told>>
  BY <1>3
<1>4. CASE \E p \in Procs : AltersSends(p) \/ AdministersSends(p)
  BY <1>4 DEF AltersSends, AdministersSends
<1>5. ASSUME NEW r \in Readers,
             \/ \E p \in Procs : Ticks(r, p)
             \/ TicksAlone(r) \/ ReaderReceives(r) \/ ReaderGivesUp(r) \/ Stops(r)
      PROVE  UNCHANGED <<kind, todo, told>>
  BY <1>5 DEF Ticks, TicksAlone, ReaderReceives, ReaderGivesUp, Called, Stops
<1>6. CASE ServiceMain \/ ServiceAlone \/ OthersCreate \/ UNCHANGED vars
  BY <1>6 DEF ServiceMain, ServiceAlone, OthersCreate, vars, scenarioVars
<1>7. ASSUME NEW p \in Procs,
             Works(p) \/ StopsTimer(p) \/ Forgets(p) \/ OthersRequest(p)
      PROVE  UNCHANGED <<kind, todo, told>>
  BY <1>7 DEF Works, StopsTimer, Forgets, OthersRequest, scenarioVars
<1>8. QED
  BY <1>1, <1>2, <1>3, <1>4, <1>5, <1>6, <1>7 DEF Next, Function

LEMMA ToldStep ==
    ASSUME FunctionTypes, ToldInOrder, [Next]_vars
    PROVE  ToldInOrder'
<1>1. kind' = kind
  BY FunctionMoves
<1>2. CASE UNCHANGED <<todo, told>>
  BY <1>1, <1>2 DEF ToldInOrder, HasEmployee, Ended, At
<1>3. CASE Alters /\ (Returns(TRUE) \/ Returns(FALSE))
  <2>1. /\ todo # << >> /\ Follows(kind, Head(todo), Tail(todo))
        /\ At("create") \/ At("delete") \/ At("cleanup")
    BY <1>3, AltersIs, StepFollows DEF At
  <2>2. ASSUME At("create"), Returns(TRUE)
        PROVE  ToldInOrder'
    <3>1. /\ told' = [told EXCEPT !["create"] = "ok"] /\ todo' = Tail(todo)
          /\ Follows(kind, "create", Tail(todo))
      BY <2>1, <2>2 DEF At, Returns, Goes_On
    <3>2. /\ told["create"] = "none" /\ told["delete"] = "none"
          /\ told["cleanup"] = "none"
      BY <2>2 DEF ToldInOrder
    <3>3. QED
      BY <1>1, <3>1, <3>2 DEF ToldInOrder, HasEmployee, Ended, At, Follows, FunctionTypes
  <2>3. ASSUME At("create"), Returns(FALSE)
        PROVE  ToldInOrder'
    <3>1. /\ told["create"] = "none" /\ told["delete"] = "none"
          /\ told["cleanup"] = "none" /\ HasEmployee
      BY <2>1, <2>3 DEF ToldInOrder, At, Follows, HasEmployee
    <3>2. /\ told' = [told EXCEPT !["create"] = "failed"] /\ todo' = << >>
      BY <2>1, <2>3, <3>1 DEF At, Returns, Fails
    <3>3. QED
      BY <1>1, <3>1, <3>2 DEF ToldInOrder, HasEmployee, Ended, At, FunctionTypes
  <2>4. ASSUME At("delete"), Returns(TRUE)
        PROVE  ToldInOrder'
    <3>1. /\ told' = [told EXCEPT !["delete"] = "ok"] /\ todo' = Tail(todo)
          /\ Follows(kind, "delete", Tail(todo))
      BY <2>1, <2>4 DEF At, Returns, Goes_On
    <3>2. /\ told["create"] = "ok" /\ told["cleanup"] = "none" /\ kind = "notFound"
      BY <2>4, <3>1 DEF ToldInOrder, HasEmployee, Ended, At, Follows
    <3>3. QED
      BY <1>1, <3>1, <3>2 DEF ToldInOrder, HasEmployee, Ended, At, Follows, FunctionTypes
  <2>5. ASSUME At("delete"), Returns(FALSE)
        PROVE  ToldInOrder'
    <3>1. /\ told["create"] = "ok" /\ told["delete"] = "none"
          /\ told["cleanup"] = "none" /\ kind = "notFound"
      BY <2>1, <2>5 DEF ToldInOrder, HasEmployee, Ended, At, Follows
    <3>2. /\ told' = [told EXCEPT !["delete"] = "failed"] /\ todo' = <<"cleanup">>
      BY <2>1, <2>5, <3>1 DEF At, Returns, Fails
    <3>3. todo' # << >> /\ Head(todo') = "cleanup"
      BY <3>2
    <3>4. QED
      BY <1>1, <3>1, <3>2, <3>3 DEF ToldInOrder, HasEmployee, Ended, At, FunctionTypes
  <2>6. ASSUME At("cleanup"), NEW result \in {"ok", "failed"},
               told' = [told EXCEPT !["cleanup"] = result], todo' = << >>
        PROVE  ToldInOrder'
    <3>1. HasEmployee /\ told["create"] = "ok"
      BY <2>6 DEF ToldInOrder, HasEmployee, Ended, At
    <3>2. QED
      BY <1>1, <2>6, <3>1 DEF ToldInOrder, HasEmployee, Ended, At, FunctionTypes
  <2>7. ASSUME At("cleanup")
        PROVE  ToldInOrder'
    <3>1. /\ todo' = << >>
          /\ \/ told' = [told EXCEPT !["cleanup"] = "ok"]
             \/ told' = [told EXCEPT !["cleanup"] = "failed"]
      BY <1>3, <2>1, <2>7 DEF At, Returns, Goes_On, Follows
    <3>2. QED
      BY <2>6, <2>7, <3>1
  <2>8. QED
    BY <1>3, <2>1, <2>2, <2>3, <2>4, <2>5, <2>7
<1>4. CASE todo # << >> /\ ~Alters /\ told' = told /\ (Goes_On \/ Fails)
  <2>1. /\ Follows(kind, Head(todo), Tail(todo))
        /\ Head(todo) \notin {"create", "delete", "cleanup"}
    BY <1>4, AltersIs, StepFollows DEF At
  <2>2. CASE Goes_On
    BY <1>1, <1>4, <2>1, <2>2 DEF Goes_On, ToldInOrder, HasEmployee, Ended, At,
           Follows, FunctionTypes, Script
  <2>3. CASE Fails
    <3>1. CASE told["create"] = "ok" /\ told["delete"] # "ok"
      <4>1. todo' # << >> /\ Head(todo') = "cleanup"
        BY <2>3, <3>1 DEF Fails
      <4>2. QED
        BY <1>1, <1>4, <2>1, <3>1, <4>1 DEF ToldInOrder, HasEmployee, Ended, At, FunctionTypes
    <3>2. CASE ~(told["create"] = "ok" /\ told["delete"] # "ok")
      <4>1. todo' = << >>
        BY <2>3, <3>2 DEF Fails
      <4>2. QED
        BY <1>1, <1>4, <2>1, <3>2, <4>1 DEF ToldInOrder, HasEmployee, Ended, At, FunctionTypes
    <3>3. QED
      BY <3>1, <3>2
  <2>4. QED
    BY <1>4, <2>2, <2>3
<1>5. QED
  BY <1>2, <1>3, <1>4, FunctionMoves

-----------------------------------------------------------------------------
(* What has become of the scenario's employee.                             *)

RowStory == RowInOrder /\ CreatesInOrder /\ DeletesInOrder

\* Requests end or go on without an effect, or are forgotten; the one that the
\* function waits for is none of them.
LEMMA StoryKept ==
    ASSUME CallTypes, ToldInOrder, RowStory, UNCHANGED <<kind, told, row>>,
           \/ via'[Main] = via[Main]
           \/ \A p \in Procs : p = via[Main] => asked[p] \notin {"create", "delete"},
           \A p \in Procs :
               \/ /\ asked'[p] = asked[p]
                  /\ pc'[p] = "working" =>
                         pc[p] = "working" \/ asked[p] \notin {"create", "delete"}
                  /\ answer'[p] = "ok" =>
                         answer[p] = "ok" \/ asked[p] \notin {"create", "delete"}
               \/ /\ asked'[p] \notin {"create", "delete"}
                  /\ p # via[Main] \/ asked[p] \notin {"create", "delete"}
    PROVE  RowStory'
<1>1. \A p \in Procs : asked'[p] = "delete" => asked[p] = "delete"
  OBVIOUS
<1>2. CreatesInOrder'
  BY DEF RowStory, CreatesInOrder
<1>3. DeletesInOrder'
  BY <1>1 DEF RowStory, DeletesInOrder
<1>4. ASSUME told["create"] = "ok", told["delete"] = "none", told["cleanup"] = "none",
             \A p \in Procs : asked'[p] # "delete"
      PROVE  \A p \in Procs : asked[p] # "delete"
  BY <1>4 DEF RowStory, DeletesInOrder
<1>5. RowInOrder'
  BY <1>4 DEF RowStory, RowInOrder, HasEmployee
<1>6. QED
  BY <1>2, <1>3, <1>5 DEF RowStory

\* A request of the scenario has its effect, or the process ends in it.
LEMMA StoryEffect ==
    ASSUME FunctionTypes, CallTypes, ConnectionsInOrder, ToldInOrder, RowStory,
           UNCHANGED <<kind, told, via, asked>>,
           NEW p \in Procs, NEW result \in {"ok", "error"},
           row' \in Effects(asked[p], result),
           pc[p] = "working", pc'[p] # "working",
           answer'[p] = "ok" => answer[p] = "ok" \/ result = "ok",
           \A q \in Procs \ {p} : /\ pc'[q] = "working" => pc[q] = "working"
                                  /\ answer'[q] = answer[q]
    PROVE  RowStory'
<1>1. CASE asked[p] \notin {"create", "delete"}
  <2>1. row' = row
    BY <1>1 DEF Effects
  <2>2. QED
    BY <1>1, <2>1, StoryKept
<1>2. CASE asked[p] = "create"
  <2>1. /\ told["create"] # "ok" /\ row' \in {row, "mine"}
        /\ result = "ok" => row' = "mine"
    BY <1>2 DEF RowStory, CreatesInOrder, Effects
  <2>2. HasEmployee
    <3>1. CASE told["create"] = "failed"
      BY <3>1 DEF ToldInOrder
    <3>2. CASE told["create"] = "none"
      <4>1. via[Main] = p
        BY <1>2, <3>2 DEF RowStory, CreatesInOrder
      <4>2. Alters /\ At("create")
        BY <1>2, <4>1, NamesAssumption DEF ConnectionsInOrder, CallTypes, AskedFor
      <4>3. QED
        BY <4>2, StepFollows DEF At, Follows, HasEmployee
    <3>3. QED
      BY <2>1, <3>1, <3>2 DEF FunctionTypes
  <2>3. \A q \in Procs : asked[q] # "delete"
    BY <2>1 DEF RowStory, DeletesInOrder
  <2>4. RowInOrder'
    BY <2>1, <2>2 DEF RowStory, RowInOrder, HasEmployee
  <2>5. CreatesInOrder'
    BY <1>2, <2>1 DEF RowStory, CreatesInOrder
  <2>6. DeletesInOrder'
    BY <2>3 DEF DeletesInOrder
  <2>7. QED
    BY <2>4, <2>5, <2>6 DEF RowStory
<1>3. CASE asked[p] = "delete"
  <2>1. /\ told["create"] = "ok" /\ row' \in {row, "none"}
        /\ result = "ok" => row' = "none"
    BY <1>3 DEF RowStory, DeletesInOrder, Effects
  <2>2. RowInOrder'
    BY <1>3, <2>1 DEF RowStory, RowInOrder, HasEmployee
  <2>3. CreatesInOrder'
    BY <2>1 DEF RowStory, CreatesInOrder
  <2>4. DeletesInOrder'
    BY <1>3, <2>1 DEF RowStory, DeletesInOrder
  <2>5. QED
    BY <2>2, <2>3, <2>4 DEF RowStory
<1>4. QED
  BY <1>1, <1>2, <1>3

\* The number is taken by another program once it is free.
LEMMA StoryTaken ==
    ASSUME CallTypes, ToldInOrder, RowStory, UNCHANGED <<kind, told, via, asked, pc, answer>>,
           told["create"] = "ok", row = "none", row' = "other"
    PROVE  RowStory'
<1>1. RowInOrder'
  BY DEF RowStory, RowInOrder, HasEmployee, ToldInOrder
<1>2. CreatesInOrder'
  BY DEF RowStory, CreatesInOrder
<1>3. DeletesInOrder'
  BY DEF RowStory, DeletesInOrder
<1>4. QED
  BY <1>1, <1>2, <1>3 DEF RowStory

\* The function creates or deletes.
LEMMA StorySent ==
    ASSUME ServiceTypeOK, RequestsInOrder, FunctionTypes, CallTypes,
           ConnectionsInOrder, ToldInOrder, RowStory, NEW p \in Procs, AltersSends(p)
    PROVE  RowStory'
<1>1. /\ via[Main] = Nobody /\ via'[Main] = p /\ p # Nobody
      /\ \A q \in Procs : via[Main] # q
      /\ UNCHANGED <<kind, todo, told, row, answer>>
      /\ answer[p] = "none"
      /\ asked' = [asked EXCEPT ![p] = IF At("create") THEN "create" ELSE "delete"]
      /\ \A q \in Procs \ {p} : pc'[q] = pc[q]
  BY NamesAssumption DEF AltersSends, Requests, Begin, RequestsInOrder, CallTypes,
         ServiceTypeOK
<1>2. /\ At("create") \/ At("delete") \/ At("cleanup")
      /\ todo # << >> /\ Follows(kind, Head(todo), Tail(todo))
  BY AltersIs, StepFollows DEF AltersSends, At
<1>3. CASE At("create")
  <2>1. /\ told["create"] = "none" /\ asked'[p] = "create"
        /\ \A q \in Procs \ {p} : asked'[q] = asked[q]
    BY <1>1, <1>3 DEF ToldInOrder, CallTypes
  <2>2. \A q \in Procs : asked[q] # "create" /\ asked[q] # "delete"
    BY <1>1, <2>1 DEF RowStory, CreatesInOrder, DeletesInOrder
  <2>3. RowInOrder'
    BY <1>1, <2>1 DEF RowStory, RowInOrder, HasEmployee
  <2>4. CreatesInOrder' /\ DeletesInOrder'
    BY <1>1, <2>1, <2>2 DEF CreatesInOrder, DeletesInOrder
  <2>5. QED
    BY <2>3, <2>4 DEF RowStory
<1>4. CASE ~At("create")
  <2>1. /\ asked'[p] = "delete" /\ \A q \in Procs \ {p} : asked'[q] = asked[q]
    BY <1>1, <1>4 DEF CallTypes
  <2>2. /\ told["create"] = "ok" /\ told["cleanup"] = "none"
        /\ told["delete"] # "failed" => told["delete"] = "none"
    BY <1>2, <1>4 DEF ToldInOrder, HasEmployee, Ended, At, Follows, FunctionTypes
  <2>3. told["delete"] # "failed" => row = "mine" /\ \A q \in Procs : asked[q] # "delete"
    BY <1>1, <2>2 DEF RowStory, RowInOrder, DeletesInOrder
  <2>4. RowInOrder'
    BY <1>1, <2>1, <2>2 DEF RowStory, RowInOrder, HasEmployee
  <2>5. CreatesInOrder'
    BY <1>1, <2>1, <2>2 DEF RowStory, CreatesInOrder
  <2>6. DeletesInOrder'
    BY <1>1, <2>1, <2>2, <2>3 DEF RowStory, DeletesInOrder
  <2>7. QED
    BY <2>4, <2>5, <2>6 DEF RowStory
<1>5. QED
  BY <1>3, <1>4

\* The function is told that it failed; the request that it gives up, if there
\* is one, is still there.
LEMMA StoryFailed ==
    ASSUME FunctionTypes, CallTypes, ToldInOrder, RowStory, Alters, Returns(FALSE),
           UNCHANGED <<kind, row, pc, answer, asked>>, via'[Main] = Nobody
    PROVE  RowStory'
<1>1. /\ At("create") \/ At("delete") \/ At("cleanup")
      /\ todo # << >> /\ Follows(kind, Head(todo), Tail(todo))
      /\ told' = [told EXCEPT ![Head(todo)] = "failed"]
  BY AltersIs, StepFollows DEF At, Returns
<1>2. CASE At("create")
  <2>1. told["create"] = "none" /\ told' = [told EXCEPT !["create"] = "failed"]
    BY <1>1, <1>2 DEF At, ToldInOrder
  <2>2. QED
    BY <2>1 DEF RowStory, RowInOrder, HasEmployee, CreatesInOrder, DeletesInOrder,
           FunctionTypes
<1>3. ASSUME ~At("create")
      PROVE  told["create"] = "ok" /\ told["cleanup"] = "none"
  BY <1>1, <1>3 DEF ToldInOrder, HasEmployee, Ended, At, Follows, FunctionTypes
<1>4. CASE At("delete")
  <2>1. told' = [told EXCEPT !["delete"] = "failed"] /\ ~At("create")
    BY <1>1, <1>4 DEF At
  <2>2. QED
    BY <1>3, <2>1 DEF RowStory, RowInOrder, HasEmployee, CreatesInOrder,
           DeletesInOrder, FunctionTypes
<1>5. CASE At("cleanup")
  <2>1. told' = [told EXCEPT !["cleanup"] = "failed"] /\ ~At("create")
    BY <1>1, <1>5 DEF At
  <2>2. RowInOrder' /\ CreatesInOrder'
    BY <1>3, <2>1 DEF RowStory, RowInOrder, HasEmployee, CreatesInOrder,
           FunctionTypes
  <2>3. DeletesInOrder'
    BY <1>3, <2>1 DEF RowStory, DeletesInOrder, FunctionTypes
  <2>4. QED
    BY <2>2, <2>3 DEF RowStory
<1>6. QED
  BY <1>1, <1>2, <1>4, <1>5

\* The function is told what its request has come to.
LEMMA StoryReceived ==
    ASSUME ServiceTypeOK, FunctionTypes, CallTypes, ConnectionsInOrder, ToldInOrder,
           RowStory, Alters, NEW p \in Procs, p = via[Main],
           NEW ok, Returns(ok), ok => answer[p] = "ok",
           UNCHANGED <<kind, row>>, via'[Main] = Nobody,
           asked' = [asked EXCEPT ![p] = "other"],
           \A q \in Procs \ {p} : pc'[q] = pc[q] /\ answer'[q] = answer[q]
    PROVE  RowStory'
<1>1. /\ At("create") \/ At("delete") \/ At("cleanup")
      /\ todo # << >> /\ Follows(kind, Head(todo), Tail(todo))
      /\ told' = [told EXCEPT ![Head(todo)] = IF ok THEN "ok" ELSE "failed"]
  BY AltersIs, StepFollows DEF At, Returns
<1>2. /\ asked[p] = IF At("create") THEN "create" ELSE "delete"
      /\ asked'[p] = "other" /\ \A q \in Procs \ {p} : asked'[q] = asked[q]
  BY NamesAssumption DEF ConnectionsInOrder, CallTypes, AskedFor
<1>3. CASE At("create")
  <2>1. /\ told["create"] = "none" /\ told["delete"] = "none" /\ told["cleanup"] = "none"
        /\ told' = [told EXCEPT !["create"] = IF ok THEN "ok" ELSE "failed"]
        /\ HasEmployee
    BY <1>1, <1>3 DEF At, ToldInOrder, Follows, HasEmployee
  <2>2. \A q \in Procs : asked'[q] # "create" /\ asked'[q] # "delete"
    BY <1>2, <2>1 DEF RowStory, CreatesInOrder, DeletesInOrder
  <2>3. ok => row = "mine"
    BY <1>2, <1>3, <2>1 DEF RowStory, CreatesInOrder
  <2>4. RowInOrder'
    BY <2>1, <2>3 DEF RowStory, RowInOrder, HasEmployee, FunctionTypes
  <2>5. CreatesInOrder' /\ DeletesInOrder'
    BY <2>2 DEF CreatesInOrder, DeletesInOrder
  <2>6. QED
    BY <2>4, <2>5 DEF RowStory
<1>4. CASE ~At("create")
  <2>1. /\ told["create"] = "ok" /\ told["cleanup"] = "none"
        /\ At("delete") => told["delete"] = "none"
        /\ At("cleanup") => told["delete"] # "ok"
    BY <1>1, <1>4 DEF ToldInOrder, HasEmployee, Ended, At, Follows, FunctionTypes
  <2>2. asked[p] = "delete" /\ (ok => row # "mine")
    BY <1>2, <1>4 DEF RowStory, DeletesInOrder
  <2>3. PICK x \in {"delete", "cleanup"} :
            /\ At(x) /\ told' = [told EXCEPT ![x] = IF ok THEN "ok" ELSE "failed"]
    BY <1>1, <1>4 DEF At
  <2>4. /\ told'["create"] = "ok" /\ told'[x] # "none"
        /\ told'["delete"] = "ok" \/ told'["cleanup"] = "ok" => ok
        /\ told'["delete"] # "failed" => told["delete"] # "failed"
    BY <2>1, <2>3 DEF FunctionTypes
  <2>5. RowInOrder'
    BY <2>2, <2>3, <2>4 DEF RowStory, RowInOrder, HasEmployee
  <2>6. CreatesInOrder'
    BY <1>2, <2>1 DEF RowStory, CreatesInOrder
  <2>7. DeletesInOrder'
    BY <1>2, <2>1, <2>2, <2>4 DEF RowStory, DeletesInOrder
  <2>8. QED
    BY <2>5, <2>6, <2>7 DEF RowStory
<1>5. QED
  BY <1>3, <1>4


LEMMA StoryStep ==
    ASSUME ServiceTypeOK, RequestsInOrder, FunctionTypes, CallTypes, ReadersInOrder,
           ConnectionsInOrder, ToldInOrder, RowStory, [Next]_vars
    PROVE  RowStory'
<1>0. DOMAIN via = Readers \cup {Main} /\ Main \notin Readers
  BY NamesAssumption DEF CallTypes
<1>1. ASSUME UNCHANGED <<kind, told, row, via, asked>>,
             \A p \in Procs : /\ pc'[p] = "working" => pc[p] = "working"
                              /\ answer'[p] = "ok" => answer[p] = "ok"
      PROVE  RowStory'
  BY <1>1, StoryKept
<1>2. ASSUME NEW p \in Procs, p # via[Main], Leave(p),
             asked' = [asked EXCEPT ![p] = "other"],
             UNCHANGED <<kind, told, row>>, via'[Main] = via[Main]
      PROVE  RowStory'
  <2>1. /\ asked'[p] = "other"
        /\ \A q \in Procs \ {p} : asked'[q] = asked[q] /\ pc'[q] = pc[q]
                                  /\ answer'[q] = answer[q]
    BY <1>2 DEF Leave, CallTypes, ServiceTypeOK
  <2>2. QED
    BY <1>2, <2>1, StoryKept
<1>3. CASE Function \/ AltersGivesUp \/ AdministersGivesUp
  <2>1. CASE \E p \in Procs : AltersSends(p)
    BY <2>1, StorySent
  <2>2. CASE \E p \in Procs : AdministersSends(p)
    <3>1. PICK p \in Procs : AdministersSends(p)
      BY <2>2
    <3>2. /\ asked'[p] = "cache" /\ pc[p] = "idle" /\ via[Main] = Nobody
          /\ p # Nobody /\ UNCHANGED <<kind, told, row, answer>>
          /\ \A q \in Procs \ {p} : asked'[q] = asked[q] /\ pc'[q] = pc[q]
      BY <3>1, NamesAssumption DEF AdministersSends, Requests, Begin, CallTypes,
             ServiceTypeOK
    <3>3. QED
      BY <3>2, NamesAssumption, StoryKept
  <2>3. CASE AdministersReturns \/ AdministersGivesUp
    <3>1. AskedFor = "cache" /\ UNCHANGED <<kind, told, row>> /\ via'[Main] = Nobody
      <4>1. AskedFor = "cache"
        BY <2>3, AltersIs DEF AdministersReturns, AdministersGivesUp, Administers,
               AskedFor, At
      <4>2. QED
        BY <1>0, <2>3, <4>1 DEF AdministersReturns, AdministersGivesUp, Receives,
               GivesUp, NoRequest
    <3>2. via[Main] # Nobody => asked[via[Main]] = "cache"
      BY <1>0, <3>1 DEF ConnectionsInOrder
    <3>3. \A q \in Procs : q # via[Main] => /\ asked'[q] = asked[q] /\ pc'[q] = pc[q]
                                               /\ answer'[q] = answer[q]
      BY <2>3 DEF AdministersReturns, AdministersGivesUp, Receives, GivesUp, NoRequest,
             Leave, CallTypes, ServiceTypeOK, serviceVars, requestVars
    <3>4. via[Main] \in Procs => asked'[via[Main]] \in {"cache", "other"}
                                /\ (asked'[via[Main]] = asked[via[Main]]
                                    => UNCHANGED <<pc, answer>>)
      BY <2>3, <3>2, NamesAssumption DEF AdministersReturns, AdministersGivesUp, Receives,
             GivesUp, NoRequest, Leave, CallTypes, serviceVars, requestVars
    <3>5. QED
      BY <3>1, <3>2, <3>3, <3>4, NamesAssumption, StoryKept
  <2>4. CASE AltersReturns
    <3>1. CASE Receives(Main)
      <4>1. PICK p \in Procs : p = via[Main]
        BY <3>1 DEF Receives
      <4>2. PICK ok \in BOOLEAN : ok <=> answer[via[Main]] = "ok" /\ via[Main] \notin cut
        OBVIOUS
      <4>3. /\ Alters
            /\ \/ Returns(answer[via[Main]] = "ok" /\ via[Main] \notin cut)
               \/ Returns(FALSE) /\ NoRequest(Main)
        BY <2>4, Zenon DEF AltersReturns
      <4>4. ~NoRequest(Main)
        BY <4>1, NamesAssumption DEF NoRequest
      <4>5. Returns(ok)
        <5>1. CASE ok
          BY <4>2, <4>3, <4>4, <5>1 DEF Returns
        <5>2. CASE ~ok
          BY <4>2, <4>3, <4>4, <5>2 DEF Returns
        <5>3. QED
          BY <5>1, <5>2
      <4>6. /\ UNCHANGED <<kind, row>> /\ via'[Main] = Nobody
            /\ asked' = [asked EXCEPT ![p] = "other"]
            /\ \A q \in Procs \ {p} : pc'[q] = pc[q] /\ answer'[q] = answer[q]
        BY <2>4, <3>1, <4>1 DEF AltersReturns, Receives, Leave, CallTypes, ServiceTypeOK
      <4>7. ok => answer[p] = "ok"
        BY <4>1, <4>2
      <4>8. QED
        BY <4>1, <4>3, <4>5, <4>6, <4>7, StoryReceived
    <3>2. CASE ~Receives(Main)
      <4>1. /\ Alters /\ Returns(FALSE) /\ UNCHANGED <<kind, row, pc, answer, asked, via>>
            /\ via[Main] = Nobody
        BY <2>4, <3>2 DEF AltersReturns, NoRequest, serviceVars, requestVars
      <4>2. QED
        BY <4>1, StoryFailed
    <3>3. QED
      BY <3>1, <3>2
  <2>5. CASE AltersGivesUp
    <3>1. /\ Alters /\ Returns(FALSE) /\ UNCHANGED <<kind, row, pc, answer, asked>>
          /\ via'[Main] = Nobody
      BY <1>0, <2>5 DEF AltersGivesUp, GivesUp, serviceVars, requestVars
    <3>2. QED
      BY <3>1, StoryFailed
  <2>6. CASE Launches \/ Waits \/ UsesTimers
    <3>1. UNCHANGED <<kind, told, row, via, asked, pc, answer>>
      BY <2>6 DEF Launches, Waits, UsesTimers, serviceVars, requestVars
    <3>2. QED
      BY <1>1, <3>1
  <2>7. QED
    BY <1>3, <2>1, <2>2, <2>3, <2>4, <2>5, <2>6 DEF Function
<1>4. ASSUME NEW r \in Readers,
             \/ \E p \in Procs : Ticks(r, p)
             \/ TicksAlone(r) \/ ReaderReceives(r) \/ ReaderGivesUp(r) \/ Stops(r)
      PROVE  RowStory'
  <2>1. ASSUME NEW p \in Procs, Ticks(r, p)
        PROVE  RowStory'
    <3>1. /\ asked'[p] \in {"update", "read", "sleep"} /\ pc[p] = "idle"
          /\ via'[Main] = via[Main] /\ UNCHANGED <<kind, told, row, answer>>
          /\ \A q \in Procs \ {p} : asked'[q] = asked[q] /\ pc'[q] = pc[q]
      BY <1>0, <2>1, AsksAnything DEF Ticks, Requests, Begin, CallTypes, ServiceTypeOK
    <3>2. p # via[Main]
      BY <1>0, <3>1, NamesAssumption DEF ConnectionsInOrder
    <3>3. QED
      BY <3>1, <3>2, StoryKept
  <2>2. CASE ReaderReceives(r)
    <3>1. PICK p \in Procs : p = via[r]
      BY <2>2 DEF ReaderReceives, Receives
    <3>2. p # via[Main]
      BY <1>0, <3>1, NamesAssumption DEF ConnectionsInOrder
    <3>3. /\ Leave(p) /\ asked' = [asked EXCEPT ![p] = "other"]
          /\ UNCHANGED <<kind, told, row>> /\ via'[Main] = via[Main]
      BY <1>0, <2>2, <3>1 DEF ReaderReceives, Receives, Called
    <3>4. QED
      BY <1>2, <3>2, <3>3
  <2>3. CASE ReaderGivesUp(r)
    <3>1. /\ UNCHANGED <<kind, told, row, asked, pc, answer>> /\ via'[Main] = via[Main]
      BY <1>0, <2>3 DEF ReaderGivesUp, GivesUp, Called, serviceVars, requestVars
    <3>2. QED
      BY <3>1, StoryKept
  <2>4. CASE TicksAlone(r) \/ Stops(r)
    <3>1. UNCHANGED <<kind, told, row, via, asked, pc, answer>>
      BY <2>4 DEF TicksAlone, NoRequest, Stops, serviceVars, requestVars
    <3>2. QED
      BY <1>1, <3>1
  <2>5. QED
    BY <1>4, <2>1, <2>2, <2>3, <2>4
<1>5. CASE ServiceMain
  <2>1. /\ UNCHANGED <<kind, told, via, asked, answer>>
        /\ \A p \in Procs : pc'[p] = "working" => pc[p] = "working"
        /\ main' = "exited" => \A p \in Procs : pc'[p] # "working"
    BY <1>5, MainMoves DEF ServiceMain, Exits, Active, ServiceTypeOK
  <2>2. CASE row' = row
    BY <1>1, <2>1, <2>2
  <2>3. ASSUME main' = "exited", NEW p \in Procs, pc[p] = "working",
               row' \in Effects(asked[p], "error")
        PROVE  RowStory'
    BY <2>1, <2>3, StoryEffect
  <2>4. QED
    BY <1>5, <2>2, <2>3 DEF ServiceMain
<1>6. CASE OthersCreate
  <2>1. /\ UNCHANGED <<kind, told, via, asked, pc, answer>>
        /\ told["create"] = "ok" /\ row = "none" /\ row' = "other"
    BY <1>6 DEF OthersCreate, serviceVars, requestVars
  <2>2. QED
    BY <2>1, StoryTaken
<1>7. CASE ServiceAlone \/ UNCHANGED vars
  <2>1. UNCHANGED <<kind, told, row, via, asked, pc, answer>>
    BY <1>7 DEF ServiceAlone, Listen, Signal, TimersClear, vars, scenarioVars,
           serviceVars, requestVars
  <2>2. QED
    BY <1>1, <2>1
<1>8. ASSUME NEW p \in Procs, Works(p)
      PROVE  RowStory'
  <2>1. PICK result \in {"ok", "error"} :
            Work(p, result) /\ row' \in Effects(asked[p], result)
    BY <1>8 DEF Works
  <2>2. UNCHANGED <<kind, told, via, asked>>
    BY <1>8 DEF Works
  <2>3. /\ pc[p] = "working" /\ pc'[p] = "deferred" /\ answer'[p] = result
        /\ \A q \in Procs \ {p} : pc'[q] = pc[q] /\ answer'[q] = answer[q]
    BY <2>1 DEF Work, ServiceTypeOK
  <2>4. QED
    BY <2>1, <2>2, <2>3, StoryEffect
<1>9. ASSUME NEW p \in Procs, StopsTimer(p) \/ Forgets(p) \/ OthersRequest(p)
      PROVE  RowStory'
  <2>1. CASE StopsTimer(p)
    <3>1. /\ UNCHANGED <<kind, told, row, via, asked, answer>>
          /\ \A q \in Procs : pc'[q] = "working" => pc[q] = "working"
      BY <2>1 DEF StopsTimer, Stop, scenarioVars, ServiceTypeOK
    <3>2. QED
      BY <1>1, <3>1
  <2>2. CASE Forgets(p)
    <3>1. /\ Leave(p) /\ asked' = [asked EXCEPT ![p] = "other"] /\ p # via[Main]
          /\ UNCHANGED <<kind, told, row, via>>
      BY <1>0, <2>2 DEF Forgets
    <3>2. QED
      BY <1>2, <3>1
  <2>3. CASE OthersRequest(p)
    <3>1. /\ kind = "none" /\ pc[p] = "idle"
          /\ UNCHANGED <<kind, told, row, via, asked, answer>>
          /\ \A q \in Procs \ {p} : pc'[q] = pc[q]
      BY <2>3 DEF OthersRequest, Begin, scenarioVars, ServiceTypeOK
    <3>2. told["create"] = "none" /\ p # via[Main]
      BY <1>0, <3>1, NamesAssumption DEF ToldInOrder, HasEmployee, ConnectionsInOrder
    <3>3. asked[p] \notin {"create", "delete"}
      BY <3>2 DEF RowStory, CreatesInOrder, DeletesInOrder
    <3>4. QED
      BY <3>1, <3>3, StoryKept
  <2>4. QED
    BY <1>9, <2>1, <2>2, <2>3
<1>10. QED
  BY <1>3, <1>4, <1>5, <1>6, <1>7, <1>8, <1>9 DEF Next

-----------------------------------------------------------------------------
(* The inductive invariant, and what it implies.                           *)

IInv == ServiceInv /\ ScenarioTypeOK /\ ScenarioInv

LEMMA IInvInit == Init => IInv
<1> SUFFICES ASSUME Init PROVE IInv
  OBVIOUS
<1>1. ServiceInv /\ ServiceTypeOK
  BY ServiceInvInit DEF Init, ServiceInv
<1>2. FunctionTypes
  BY TodoEnds DEF Init, FunctionTypes
<1>3. CallTypes
  BY DEF Init, CallTypes
<1>4. OwnTypes /\ DOMAIN own = {}
  <2>1. Timer!AreTimers(own, Readers, Readers, MaxTimers)
    BY NoTimersAreTimers DEF Init
  <2>2. slot \in [Readers -> 0..MaxTimers]
    BY ServiceAssumption DEF Init
  <2>3. DOMAIN own = {}
    BY DEF Init, Timer!NoTimers
  <2>4. QED
    BY <2>1, <2>2, <2>3 DEF OwnTypes
<1>5. ReaderTypes /\ OwnInOrder /\ ReadersInOrder
  BY <1>4 DEF Init, ReaderTypes, OwnInOrder, ReadersInOrder
<1>6. ConnectionsInOrder
  BY DEF Init, ConnectionsInOrder
<1>7. /\ told["create"] = "none" /\ told["delete"] = "none" /\ told["cleanup"] = "none"
      /\ row = "none" /\ \A p \in Procs : asked[p] = "other"
      /\ kind \in {"herd", "notFound", "sleep", "none"}
  BY DEF Init, Script
<1>8. /\ HasEmployee => At("create")
      /\ ~HasEmployee => ~At("cleanup")
      /\ ~At("delete") /\ ~At("cleanup")
  <2>1. CASE kind = "herd"
    <3>1. todo = Script.herd
      BY <2>1 DEF Init
    <3>2. todo # << >> /\ Head(todo) = "create"
      BY <3>1 DEF Script
    <3>3. QED
      BY <2>1, <3>2 DEF HasEmployee, At
  <2>2. CASE kind = "notFound"
    <3>1. todo = Script.notFound
      BY <2>2 DEF Init
    <3>2. todo # << >> /\ Head(todo) = "create"
      BY <3>1 DEF Script
    <3>3. QED
      BY <2>2, <3>2 DEF HasEmployee, At
  <2>3. CASE kind = "sleep"
    <3>1. todo = Script.sleep
      BY <2>3 DEF Init
    <3>2. Head(todo) = "launch"
      BY <3>1 DEF Script
    <3>3. QED
      BY <2>3, <3>2 DEF HasEmployee, At
  <2>4. CASE kind = "none"
    <3>1. todo = << >>
      BY <2>4 DEF Init, Script
    <3>2. QED
      BY <2>4, <3>1 DEF HasEmployee, At
  <2>5. QED
    BY <1>7, <2>1, <2>2, <2>3, <2>4
<1>9. ToldInOrder
  BY <1>7, <1>8 DEF ToldInOrder, HasEmployee
<1>10. RowInOrder /\ CreatesInOrder /\ DeletesInOrder
  BY <1>7 DEF RowInOrder, CreatesInOrder, DeletesInOrder
<1>11. QED
  BY <1>1, <1>2, <1>3, <1>5, <1>6, <1>9, <1>10, TypeParts DEF IInv, ScenarioInv

LEMMA IInvStep == IInv /\ [Next]_vars => IInv'
<1> SUFFICES ASSUME IInv, [Next]_vars PROVE IInv'
  OBVIOUS
<1>1. /\ ServiceInv /\ ServiceTypeOK /\ RequestsInOrder
      /\ FunctionTypes /\ CallTypes /\ ReaderTypes
      /\ ReadersInOrder /\ OwnInOrder /\ ConnectionsInOrder /\ ToldInOrder
      /\ RowStory
  BY TypeParts DEF IInv, ScenarioInv, ServiceInv, RowStory
<1>2. ServiceInv' /\ ServiceTypeOK'
  BY <1>1, ServiceInvStep DEF ServiceInv
<1>3. FunctionTypes' /\ CallTypes'
  BY <1>1, FunctionTypesStep, CallTypesStep
<1>4. ReaderTypes' /\ OwnInOrder'
  BY <1>1, ReaderTypesStep
<1>5. ReadersInOrder'
  BY <1>1, ReadersInOrderStep
<1>6. ConnectionsInOrder'
  BY <1>1, <1>3, ConnectionsStep
<1>7. ToldInOrder'
  BY <1>1, ToldStep
<1>8. RowStory'
  BY <1>1, StoryStep
<1>9. ScenarioTypeOK'
  BY <1>2, <1>3, <1>4 DEF ScenarioTypeOK, FunctionTypes, CallTypes, ReaderTypes, OwnTypes, Todos
<1>10. QED
  BY <1>2, <1>4, <1>5, <1>6, <1>7, <1>8, <1>9 DEF IInv, ScenarioInv, RowStory

LEMMA ScenarioInvariant == Spec => []IInv
BY IInvInit, IInvStep, PTL DEF Spec

\* Types, and that a goroutine waits for an answer, and runs a timer where its
\* scenario has timers, just when it calls.
THEOREM ScenarioTypeCorrect == Spec => []ScenarioTypeOK
<1>1. IInv => ScenarioTypeOK
  BY DEF IInv
<1>2. QED
  BY <1>1, ScenarioInvariant, PTL

\* A scenario that has ended leaves its employee behind only if it was never
\* told the number or its deferred EmployeeDelete failed (scenarioCacheNotFound
\* and scenarioStampedingHerd), wherever the scenario or the service fails.
THEOREM CleansUp == Spec => []LeavesNothingBehind
<1>1. IInv => LeavesNothingBehind
  <2> SUFFICES ASSUME IInv, Ended, row = "mine"
               PROVE  told["create"] = "failed" \/ told["cleanup"] = "failed"
    BY DEF LeavesNothingBehind
  <2>1. FunctionTypes /\ ToldInOrder /\ RowInOrder
    BY TypeParts DEF IInv, ScenarioInv
  <2>2. HasEmployee
    BY <2>1 DEF RowInOrder
  <2>3. ~At("create")
    BY DEF Ended, At
  <2>4. told["create"] # "none"
    BY <2>1, <2>2, <2>3 DEF ToldInOrder
  <2>5. ASSUME told["create"] = "ok"
        PROVE  told["cleanup"] = "failed"
    BY <2>1, <2>5 DEF ToldInOrder, RowInOrder, FunctionTypes
  <2>6. QED
    BY <2>1, <2>4, <2>5 DEF FunctionTypes
<1>2. QED
  BY <1>1, ScenarioInvariant, PTL

\* Nothing of a scenario calls any more when it reads what was counted or timed,
\* cleans up or has returned (the channels start and stop, and the WaitGroup).
THEOREM ScenarioIsQuiet == Spec => []NoStragglers
<1>1. IInv => NoStragglers
  <2> SUFFICES ASSUME IInv, Ended \/ At("readCounters") \/ At("readAll") \/ At("cleanup"),
                      NEW r \in Readers, reader[r] \in {"ready", "calling"}
               PROVE  FALSE
    BY DEF NoStragglers
  <2>1. At("stop") \/ At("wait")
    BY DEF IInv, ScenarioInv, ReadersInOrder
  <2>2. QED
    BY <2>1 DEF At, Ended
<1>2. QED
  BY <1>1, ScenarioInvariant, PTL

\* All timers of a scenario are stopped when it reads them, so that ReadAll does
\* not divide by zero.
THEOREM ScenarioTimersAreStopped == Spec => []EveryCallIsTimed
<1>1. IInv => EveryCallIsTimed
  <2> SUFFICES ASSUME IInv, At("readAll"), NEW g \in DOMAIN own,
                      NEW i \in DOMAIN own[g], ~own[g][i].stopped
               PROVE  FALSE
    BY DEF EveryCallIsTimed
  <2>1. ReaderTypes /\ OwnInOrder /\ ReadersInOrder
    BY TypeParts DEF IInv, ScenarioInv
  <2>2. g \in Readers /\ i # 0 /\ i = slot[g]
    BY <2>1, OwnIndices DEF ReaderTypes, OwnInOrder
  <2>3. reader[g] = "calling"
    BY <2>1, <2>2 DEF ReaderTypes
  <2>4. At("stop") \/ At("wait")
    BY <2>1, <2>2, <2>3 DEF ReadersInOrder
  <2>5. QED
    BY <2>4 DEF At
<1>2. QED
  BY <1>1, ScenarioInvariant, PTL

\* An employee of another program, which has taken the number of the scenario's,
\* is deleted by the scenario only if its first EmployeeDelete failed although
\* it took effect (employeeDeleted in scenarioCacheNotFound).
THEOREM SparesOthers == Spec => DeletesItsOwn
<1> DEFINE Spares == row = "other" /\ row' # "other" => told["delete"] = "failed"
<1>1. IInv /\ [Next]_vars => [Spares]_vars
  <2> SUFFICES ASSUME IInv, [Next]_vars, row = "other", row' # "other"
               PROVE  told["delete"] = "failed"
    OBVIOUS
  <2>1. RowInOrder /\ CreatesInOrder /\ DeletesInOrder
    BY DEF IInv, ScenarioInv
  <2>2. ASSUME NEW p \in Procs, NEW result, pc[p] = "working",
               row' \in Effects(asked[p], result)
        PROVE  told["delete"] = "failed"
    <3>1. told["create"] = "ok"
      BY <2>1 DEF RowInOrder
    <3>2. asked[p] # "create"
      BY <2>1, <3>1 DEF CreatesInOrder
    <3>3. asked[p] = "delete"
      BY <2>2, <3>2 DEF Effects
    <3>4. QED
      BY <2>1, <2>2, <3>3 DEF DeletesInOrder
  <2>3. CASE ServiceMain
    BY <2>2, <2>3 DEF ServiceMain
  <2>4. CASE \E p \in Procs : Works(p)
    BY <2>2, <2>4 DEF Works, Work
  <2>5. CASE Function \/ AltersGivesUp \/ AdministersGivesUp
    BY <2>5 DEF Function, AltersSends, AltersReturns, AltersGivesUp, AdministersSends,
           AdministersReturns, AdministersGivesUp, Launches, Waits, UsesTimers
  <2>6. ASSUME NEW r \in Readers,
               \/ \E p \in Procs : Ticks(r, p)
               \/ TicksAlone(r) \/ ReaderReceives(r) \/ ReaderGivesUp(r) \/ Stops(r)
        PROVE  row' = row
    BY <2>6 DEF Ticks, TicksAlone, ReaderReceives, ReaderGivesUp, Called, Stops
  <2>7. CASE ServiceAlone \/ OthersCreate \/ UNCHANGED vars
    BY <2>7 DEF ServiceAlone, OthersCreate, vars, scenarioVars
  <2>8. ASSUME NEW p \in Procs, StopsTimer(p) \/ Forgets(p) \/ OthersRequest(p)
        PROVE  row' = row
    BY <2>8 DEF StopsTimer, Forgets, OthersRequest, scenarioVars
  <2>9. QED
    BY <2>3, <2>4, <2>5, <2>6, <2>7, <2>8 DEF Next
<1>2. QED
  BY <1>1, ScenarioInvariant, PTL DEF Spec, DeletesItsOwn
=============================================================================
