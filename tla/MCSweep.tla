------------------------------ MODULE MCSweep ------------------------------
(***************************************************************************)
(* Instances of Sweep: schedules that are in order, out of order and that  *)
(* Validate rejects, on a real and on a simulated cluster, and sweeps of   *)
(* one, of two and twice of the same configuration.                        *)
(***************************************************************************)
EXTENDS Sweep

Real == <<"redpanda", "v24">>
Simulated == <<"sim:", "kfake-3">>

Sweeping(configs, version, schedule, duration) ==
    [configs |-> configs, runs |-> MinRuns, version |-> version, schedule |-> schedule,
     duration |-> duration]

\* In the order of the list one broker is down at a time, in the order of time two.
OutOfOrder == <<Event(60, "kill", 1), Event(90, "start", 1), Event(70, "kill", 2), Event(80, "start", 2)>>
TwoDown == <<Event(60, "kill", 1), Event(70, "kill", 2), Event(90, "start", 1), Event(95, "start", 2)>>

MCSpecs == {Sweeping(<<c>>, Real, DefaultSchedule, 2) : c \in {"A", "B", "C"}}
             \cup {Sweeping(<<"B", "C">>, Real, DefaultSchedule, 240),
                   Sweeping(<<"B", "B">>, Real, DefaultSchedule, 240),
                   Sweeping(<<"C", "C">>, Real, DefaultSchedule, 240),
                   Sweeping(<<"C">>, Simulated, DefaultSchedule, 240),
                   Sweeping(<<"C">>, Real, OutOfOrder, 240),
                   Sweeping(<<"C">>, Real, TwoDown, 240)}
=============================================================================
