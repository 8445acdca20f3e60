------------------------------- MODULE Timers -------------------------------
(***************************************************************************)
(* The timers of internal/utilities/timer.go: per group, a list of what    *)
(* was started.  Every operation holds the mutex of the timers for its     *)
(* whole body, so it is a function of what they are.  Readings of the      *)
(* clock are left out: a timer was stopped or was not.                     *)
(*                                                                         *)
(* Whoever starts a timer keeps its index and stops it by that index.      *)
(* Indices count from 1 here, from 0 in Go.                                *)
(***************************************************************************)
EXTENDS Naturals, Sequences

\* NewTimers and Clear
NoTimers == [g \in {} |-> << >>]

ListOf(timers, group) ==
    IF group \in DOMAIN timers THEN timers[group] ELSE << >>

\* Start; "by" is whose timer it is, which the code does not keep.
Started(timers, group, by) ==
    [g \in DOMAIN timers \cup {group} |->
        IF g = group
        THEN Append(ListOf(timers, g), [by |-> by, stopped |-> FALSE])
        ELSE timers[g]]

\* Taken as if the timer had been appended after all, one too low.
NextIndex_BeforeAppend(timers, group) == Len(ListOf(timers, group))

\* The index Start returns.
NextIndex(timers, group) == Len(ListOf(timers, group)) + 1

\* One place too far from the end.
Refused_LastToo(timers, group, index) ==
    Len(ListOf(timers, group)) >= index

\* Stop does nothing for a group it does not know, or for a timer that is not
\* the last of its group.
Refused(timers, group, index) ==
    \/ group \notin DOMAIN timers
    \/ Len(timers[group]) > index

\* Off by one.
PastTheEnd_AtTheEnd(timers, group, index) ==
    /\ group \in DOMAIN timers
    /\ Len(timers[group]) <= index

\* The index is beyond the end of the list, which Clear has cut: Stop panics.
PastTheEnd(timers, group, index) ==
    /\ group \in DOMAIN timers
    /\ Len(timers[group]) < index

\* The last of the group, whatever the index.
Stopped_Last(timers, group, index) ==
    IF group \notin DOMAIN timers THEN timers
    ELSE [timers EXCEPT ![group][Len(timers[group])].stopped = TRUE]

\* What Stop leaves, if it does not panic.
Stopped(timers, group, index) ==
    IF Refused(timers, group, index) THEN timers
    ELSE [timers EXCEPT ![group][index].stopped = TRUE]

\* ReadAll divides the total of each group by how many of its timers were
\* stopped.
AveragesDefined(timers) ==
    \A g \in DOMAIN timers : \E i \in DOMAIN timers[g] : timers[g][i].stopped

AreTimers(timers, groups, owners, limit) ==
    /\ DOMAIN timers \subseteq groups
    /\ \A g \in DOMAIN timers :
          /\ timers[g] \in Seq([by : owners, stopped : BOOLEAN])
          /\ Len(timers[g]) \in 1..limit
=============================================================================
