------------------------------- MODULE Chaos -------------------------------
(***************************************************************************)
(* internal/harness/chaos: schedules of broker kills and restarts.  An     *)
(* event is an instant (seconds), an action and a broker.                  *)
(***************************************************************************)
EXTENDS Integers, SequencesExt

Event(at, action, broker) == [at |-> at, action |-> action, broker |-> broker]

DefaultSchedule == <<Event(60, "kill", 1), Event(90, "start", 1),
                     Event(150, "kill", 2), Event(180, "start", 2)>>

DefaultSpan == 240

\* Every event at the same fraction of a run of d seconds, rounded down.
Scale(schedule, d) ==
    IF d <= 0 THEN schedule
    ELSE [k \in DOMAIN schedule |-> [schedule[k] EXCEPT !.at = (schedule[k].at * d) \div DefaultSpan]]

\* The brokers whose last event among the first k is a kill.
DownAfter(schedule, k) ==
    {schedule[i].broker :
        i \in {j \in 1 .. k : /\ schedule[j].action = "kill"
                              /\ \A l \in j + 1 .. k : schedule[l].broker # schedule[j].broker}}

\* Mutant of Validate: the brokers that are down at once are not counted.
ValidateMutant(schedule) ==
    /\ schedule # <<>>
    /\ \A k \in DOMAIN schedule :
           CASE schedule[k].action = "kill"  -> schedule[k].broker \notin DownAfter(schedule, k - 1)
             [] schedule[k].action = "start" -> schedule[k].broker \in DownAfter(schedule, k - 1)
             [] OTHER -> FALSE
    /\ DownAfter(schedule, Len(schedule)) = {}

\* Followed in the order of the list: no broker is killed twice or started
\* without being killed, no two are down at once, and all are restarted.
Validate(schedule) ==
    /\ schedule # <<>>
    /\ \A k \in DOMAIN schedule :
           /\ CASE schedule[k].action = "kill"  -> schedule[k].broker \notin DownAfter(schedule, k - 1)
                [] schedule[k].action = "start" -> schedule[k].broker \in DownAfter(schedule, k - 1)
                [] OTHER -> FALSE
           /\ Cardinality(DownAfter(schedule, k)) <= 1
    /\ DownAfter(schedule, Len(schedule)) = {}

\* The order in which Run executes: by time, and stable.  An event comes after
\* those that are earlier, in time or, at the same time, in the list.
NotAfter(schedule, i, j) == \/ schedule[i].at < schedule[j].at
                            \/ schedule[i].at = schedule[j].at /\ i <= j
Place(schedule, i) == Cardinality({j \in DOMAIN schedule : NotAfter(schedule, j, i)})
Ordered(schedule) ==
    [k \in DOMAIN schedule |-> schedule[CHOOSE i \in DOMAIN schedule : Place(schedule, i) = k]]
=============================================================================
