------------------------------- MODULE Sweep -------------------------------
(***************************************************************************)
(* The ablation: cmd/harness and internal/harness/ablation.  A sweep runs  *)
(* every configuration several times; a run drives load at a cluster whose *)
(* brokers the chaos schedule kills, while a ledger process consumes, and  *)
(* then waits, measures and writes an artefact, which a later command      *)
(* folds into a table.                                                     *)
(*                                                                         *)
(* Load, chaos, consumer and measurement interleave.  The ledger is its    *)
(* consumer over one partition, one record at a time (Consumer has its     *)
(* inside).  Clock instants are left out: a timeout is a step that may be  *)
(* taken while what it waits for has not happened.                         *)
(***************************************************************************)
EXTENDS Artefact, Chaos

CONSTANTS Specs,        \* what the ablate command is asked for
          Total,        \* rate * duration: the movements of a run
          Batch,        \* movements of a produce
          MaxRuns,      \* bound: runs, over all sweeps
          MaxFaults     \* bound: failures of the surroundings

ASSUME SweepAssumption ==
    /\ Total \in Nat \ {0} /\ Batch \in Nat \ {0}
    /\ MaxRuns \in Nat /\ MaxFaults \in Nat
    /\ Specs # {}
    /\ \A s \in Specs : /\ s.runs \in Nat /\ s.duration \in Nat
                        /\ s.configs \in Seq(STRING) \ {<<>>}
                        /\ s.schedule \in Seq([at : Nat, action : STRING, broker : Nat])

VARIABLES cmd,      \* the command in progress: the position in the sweep
          art,      \* the artefact of the run in progress
          arts,     \* the artefacts of the sweep so far
          dir,      \* the artefact directory, by run id
          topics,   \* each topic of the broker: whose movements, and the group's offset
          cons,     \* the consumer of the ledger process
          effects,  \* how often each movement was applied in the run's database
          chaos,    \* the chaos goroutine: the schedule, the next event
          down,     \* the brokers that are down
          drain,    \* what waitForDrain and measure have read
          planned,  \* the runs of the sweeps so far
          faults,   \* the failures so far
          orderly   \* no schedule was out of order, interrupted or failed an action
                    \* since the brokers were all up (for the properties)

vars == <<cmd, art, arts, dir, topics, cons, effects, chaos, down, drain, planned, faults,
          orderly>>

NoArt == [run |-> <<>>, config |-> "none", params |-> 0, version |-> <<"", "">>, sweep |-> 0,
          sent |-> 0, applied |-> 0, lost |-> 0, dup |-> 0, effects |-> 0, drained |-> FALSE,
          exact |-> FALSE, executed |-> 0, why |-> "none"]
NoCons == [pc |-> "off", pos |-> 0, moved |-> FALSE]
NoChaos == [events |-> <<>>, next |-> 1, live |-> FALSE]
NoDrain == [n |-> 0, last |-> 0, inbox |-> 0]
NoCmd == [pc |-> "idle", spec |-> CHOOSE s \in Specs : TRUE, sweep |-> 0, config |-> 1, i |-> 1,
          result |-> "none"]

Init == /\ cmd = NoCmd /\ art = NoArt /\ arts = {} /\ dir = <<>>
        /\ topics = <<>>
        /\ cons = NoCons /\ effects = <<>> /\ chaos = NoChaos /\ down = {} /\ drain = NoDrain
        /\ planned = 0 /\ faults = 0 /\ orderly = TRUE

Put(f, k, v) == [x \in DOMAIN f \cup {k} |-> IF x = k THEN v ELSE f[x]]
Stored == {dir[id] : id \in DOMAIN dir}

MayFail == faults < MaxFaults /\ faults' = faults + 1

-----------------------------------------------------------------------------
\* The commands.

\* What Run refuses up front, and what ablate does.
Accepts(s) ==
    /\ s.runs >= MinRuns
    /\ Validate(Scale(s.schedule, s.duration))
    /\ \A a \in Stored : Kind(a) = Kind([version |-> s.version])

\* Unique for each invocation: unix seconds in the code, here the number of runs
\* planned so far.  Two sweeps within a second would share one id; a sweep that
\* leaves an artefact takes longer.
sweepID == planned + 1

Ablate(s) ==
    /\ cmd.pc = "idle"
    /\ Accepts(s)
    /\ planned' = planned + Len(s.configs) * s.runs
    /\ planned' <= MaxRuns
    /\ cmd' = [NoCmd EXCEPT !.pc = "setup", !.spec = s, !.sweep = sweepID]
    /\ arts' = {}
    /\ UNCHANGED <<art, dir, topics, cons, effects, chaos, down, drain, faults, orderly>>

\* What the fold command writes, whenever it is given: the rows of all that is in
\* the directory, or why there are none.
fold == [arts |-> Stored, rows |-> Table(Stored), exact |-> allExact(Stored)]

-----------------------------------------------------------------------------
\* One run.

Mode == cmd.spec.configs[cmd.config]
runID == <<Mode, cmd.i>>
topic == <<cmd.sweep, runID>>
Movements == topics[topic].log
Committed == topics[topic].committed

\* A fresh database, whatever an earlier run of this id has left.
provision == effects' = <<>>

\* The topic of the run, unless it exists.
EnsureTopic == topics' = IF topic \in DOMAIN topics THEN topics
                         ELSE Put(topics, topic, [log |-> <<>>, committed |-> 0])

\* The ledger process, which has answered its health check.
startLedger == cons' = [NoCons EXCEPT !.pc = "poll", !.pos = topics'[topic].committed]

Setup ==
    /\ cmd.pc = "setup"
    /\ art' = [NoArt EXCEPT !.run = runID, !.config = Mode, !.params = cmd.spec.schedule,
                            !.version = cmd.spec.version, !.sweep = cmd.sweep]
    /\ provision /\ EnsureTopic /\ startLedger
    /\ chaos' = [events |-> Ordered(Scale(cmd.spec.schedule, cmd.spec.duration)), next |-> 1, live |-> TRUE]
    /\ orderly' = ((orderly \/ down = {}) /\ Ordered(cmd.spec.schedule) = cmd.spec.schedule)
    /\ drain' = NoDrain
    /\ cmd' = [cmd EXCEPT !.pc = "drive"]
    /\ UNCHANGED <<arts, dir, down, planned, faults>>

\* one returns: the ledger is killed, the load context cancelled, and the
\* database dropped; a cluster in this process ends with it.
Leave(result) ==
    /\ cmd' = [NoCmd EXCEPT !.result = result]
    /\ art' = NoArt /\ cons' = NoCons /\ effects' = <<>> /\ chaos' = NoChaos /\ drain' = NoDrain
    /\ down' = IF Kind([version |-> cmd.spec.version]) = "simulated" THEN {} ELSE down
    /\ topics' = IF Kind([version |-> cmd.spec.version]) = "simulated" THEN <<>> ELSE topics
    /\ orderly' = (orderly /\ (chaos.live => chaos.next > Len(chaos.events)))

\* A step of the run fails, or the operator interrupts it.
Abort ==
    /\ cmd.pc # "idle"
    /\ MayFail
    /\ Leave("failed")
    /\ UNCHANGED <<arts, dir, planned>>

-----------------------------------------------------------------------------
\* The chaos goroutine.

\* The broker is gone, and with it the coordinators that it had.
Kill(broker) ==
    /\ down' = down \cup {broker}
    /\ cons' = IF broker \in down THEN cons ELSE [cons EXCEPT !.moved = TRUE]

Restart(broker) == down' = down \ {broker} /\ UNCHANGED cons

\* Run takes the next event when its time has come, and goes on after an error.
Act(failed) ==
    LET e == chaos.events[chaos.next]
    IN  /\ chaos.live
        /\ chaos.next <= Len(chaos.events)
        /\ chaos' = [chaos EXCEPT !.next = chaos.next + 1]
        /\ IF failed THEN UNCHANGED <<down, cons>>
           ELSE IF e.action = "kill" THEN Kill(e.broker) ELSE Restart(e.broker)
        /\ orderly' = (orderly /\ ~failed)
        /\ UNCHANGED <<cmd, art, arts, dir, topics, effects, drain, planned>>

\* Killing a broker that is down is an error, starting one that is up is not.
ChaosAct == Act(FALSE) /\ UNCHANGED faults
ChaosActFails == MayFail /\ Act(TRUE)

-----------------------------------------------------------------------------
\* drive.

Record(k) == [sweep |-> cmd.sweep, seq |-> k]

\* A produce of n movements, of which the broker keeps the first k.
Write(n, k) ==
    topics' = [topics EXCEPT ![topic].log = @ \o [i \in 1 .. k |-> Record(art.sent + i)]]

DriveEnds == cmd' = [cmd EXCEPT !.pc = "chaos"]

Produce ==
    LET n == MinOf(Batch, Total - art.sent)
    IN  /\ cmd.pc = "drive"
        /\ art.sent < Total
        /\ Write(n, n)
        /\ art' = [art EXCEPT !.sent = art.sent + n]
        /\ IF art'.sent = Total THEN DriveEnds ELSE UNCHANGED cmd
        /\ UNCHANGED <<arts, dir, cons, effects, chaos, down, drain, planned, faults, orderly>>

\* The rest of the load is given up; the first produce ends the run (Abort).
ProduceFails ==
    LET n == MinOf(Batch, Total - art.sent)
    IN  /\ cmd.pc = "drive"
        /\ MayFail
        /\ art.sent > 0
        /\ \E k \in 0 .. n : Write(n, k)
        /\ DriveEnds
        /\ UNCHANGED <<art, arts, dir, cons, effects, chaos, down, drain, planned, orderly>>

\* The schedule has finished.
ChaosDone ==
    /\ cmd.pc = "chaos"
    /\ chaos.next > Len(chaos.events)
    /\ art' = [art EXCEPT !.executed = Len(chaos.events)]
    /\ cmd' = [cmd EXCEPT !.pc = "count"]
    /\ UNCHANGED <<arts, dir, topics, cons, effects, chaos, down, drain, planned, faults, orderly>>

\* Two minutes pass first, because the load ended early or a command hangs, and the
\* schedule is cancelled.
ChaosTimesOut ==
    /\ cmd.pc = "chaos"
    /\ chaos.next <= Len(chaos.events)
    /\ (art.sent < Total /\ UNCHANGED faults) \/ MayFail
    /\ chaos' = [chaos EXCEPT !.live = FALSE]
    /\ orderly' = FALSE
    /\ cmd' = [cmd EXCEPT !.pc = "count"]
    /\ UNCHANGED <<art, arts, dir, topics, cons, effects, down, drain, planned>>

-----------------------------------------------------------------------------
\* The consumer: A commits and then applies, B applies and then commits, and C
\* applies what its inbox has not seen.

Consuming == UNCHANGED <<cmd, art, arts, dir, chaos, down, drain, planned, orderly>>

Commit == topics' = [topics EXCEPT ![topic].committed = cons.pos + 1]
Advance == cons' = [cons EXCEPT !.pc = "poll", !.pos = cons.pos + 1]

Poll == /\ cons.pc = "poll"
        /\ cons.pos < Len(Movements)
        /\ cons' = [cons EXCEPT !.pc = IF Mode = "A" THEN "commit" ELSE "apply"]
        /\ UNCHANGED <<topics, effects, faults>>
        /\ Consuming

Apply ==
    LET m == Movements[cons.pos + 1]
        n == IF m \in DOMAIN effects THEN effects[m] ELSE 0
    IN  /\ cons.pc = "apply"
        /\ effects' = IF HasInbox(Mode) /\ n > 0 THEN effects ELSE Put(effects, m, n + 1)
        /\ IF Mode = "A" THEN Advance ELSE cons' = [cons EXCEPT !.pc = "commit"]
        /\ UNCHANGED <<topics, faults>>
        /\ Consuming

CommitOffset ==
    /\ cons.pc = "commit"
    /\ Commit
    /\ IF Mode = "A" THEN cons' = [cons EXCEPT !.pc = "apply"] ELSE Advance
    /\ UNCHANGED <<effects, faults>>
    /\ Consuming

\* A transient failure: the next commit covers it, and A passes the record over.
CommitFails ==
    /\ cons.pc = "commit"
    /\ MayFail
    /\ Advance
    /\ UNCHANGED <<topics, effects>>
    /\ Consuming

\* The coordinator moved with a broker: the group is back at its offset.
Rebalance ==
    /\ cons.pc = "poll"
    /\ cons.moved
    /\ cons' = [cons EXCEPT !.pos = Committed, !.moved = FALSE]
    /\ UNCHANGED <<topics, effects, faults>>
    /\ Consuming

\* The ledger ends; nothing restarts it.
LedgerEnds ==
    /\ cons.pc # "off"
    /\ MayFail
    /\ cons' = NoCons
    /\ UNCHANGED <<topics, effects>>
    /\ Consuming

-----------------------------------------------------------------------------
\* waitForDrain and measure.

Count(tally) ==
    MapThenSumSet(LAMBDA r : r.amount, {[of |-> m, amount |-> tally[m]] : m \in DOMAIN tally})
Postings == Count(effects)
Inbox == IF HasInbox(Mode) THEN Cardinality(DOMAIN effects) ELSE 0
Lag == Len(Movements) - Committed

Measuring == UNCHANGED <<arts, dir, topics, cons, effects, chaos, down, planned, orderly>>

AppliedCount ==
    /\ cmd.pc = "count"
    /\ drain' = [drain EXCEPT !.n = Postings, !.last = drain.n]
    /\ cmd' = [cmd EXCEPT !.pc = "lag"]
    /\ UNCHANGED <<art, faults>>
    /\ Measuring

Verdict(drained, why) ==
    /\ art' = [art EXCEPT !.drained = drained, !.why = why]
    /\ cmd' = [cmd EXCEPT !.pc = "inbox"]

\* Mutant of LagIsZero: any progress will do.
LagIsZeroMutant(lag) == drain.n > 0

\* Nothing left on the broker, and something applied.
LagIsZero(lag) == lag = 0 /\ drain.n > 0

\* The verdict after a reading: from the lag, from the count, or to go on.
GroupLag ==
    /\ cmd.pc = "lag"
    /\ IF LagIsZero(Lag) THEN Verdict(TRUE, "lag")
       ELSE IF drain.n >= art.sent THEN Verdict(TRUE, "count")
       ELSE cmd' = [cmd EXCEPT !.pc = "count"] /\ UNCHANGED art
    /\ UNCHANGED <<drain, faults>>
    /\ Measuring

\* A group that cannot be described counts as no lag.
GroupLagSkipped ==
    /\ cmd.pc = "lag"
    /\ LagIsZero(0)
    /\ MayFail
    /\ Verdict(TRUE, "skipped")
    /\ UNCHANGED drain
    /\ Measuring

\* Thirty seconds without progress.
Stall ==
    /\ cmd.pc = "lag"
    /\ drain.n = drain.last
    /\ drain.n < art.sent
    /\ ~LagIsZero(Lag)
    /\ Verdict(TRUE, "stall")
    /\ UNCHANGED <<drain, faults>>
    /\ Measuring

\* Twenty minutes, with progress to the end.
Ceiling ==
    /\ cmd.pc = "count"
    /\ drain.n # drain.last
    /\ Verdict(FALSE, "ceiling")
    /\ UNCHANGED <<drain, faults>>
    /\ Measuring

CountInbox ==
    /\ cmd.pc = "inbox"
    /\ drain' = [drain EXCEPT !.inbox = Inbox]
    /\ cmd' = [cmd EXCEPT !.pc = "postings"]
    /\ UNCHANGED <<art, faults>>
    /\ Measuring

\* The artefact is written over one of its run id; after the last run the sweep's
\* own artefacts must form a table.
FinishRun ==
    LET done   == Measured(art, drain.inbox, Postings)
        isLast == cmd.config = Len(cmd.spec.configs) /\ cmd.i = cmd.spec.runs
    IN  /\ cmd.pc = "postings"
        /\ ~Contaminated(drain.inbox, art.sent)
        /\ arts' = arts \cup {done}
        /\ dir' = Put(dir, runID, done)
        /\ IF isLast
           THEN Leave(IF TableIsAllowed(arts') THEN "table" ELSE "failed")
           ELSE /\ cmd' = IF cmd.i < cmd.spec.runs
                          THEN [cmd EXCEPT !.pc = "setup", !.i = cmd.i + 1]
                          ELSE [cmd EXCEPT !.pc = "setup", !.i = 1, !.config = cmd.config + 1]
                /\ art' = NoArt /\ cons' = NoCons /\ effects' = <<>> /\ chaos' = NoChaos /\ drain' = NoDrain
                /\ UNCHANGED <<topics, down, orderly>>
        /\ UNCHANGED <<planned, faults>>

\* More movements than were sent: the sweep ends.
RefuseRun ==
    /\ cmd.pc = "postings"
    /\ Contaminated(drain.inbox, art.sent)
    /\ Leave("refused")
    /\ UNCHANGED <<arts, dir, planned, faults>>

-----------------------------------------------------------------------------
Next == \/ \E s \in Specs : Ablate(s)
        \/ Setup \/ Abort
        \/ ChaosAct \/ ChaosActFails
        \/ Produce \/ ProduceFails \/ ChaosDone \/ ChaosTimesOut
        \/ Poll \/ Apply \/ CommitOffset \/ CommitFails \/ Rebalance \/ LedgerEnds
        \/ AppliedCount \/ GroupLag \/ GroupLagSkipped \/ Stall \/ Ceiling
        \/ CountInbox \/ FinishRun \/ RefuseRun

Spec == Init /\ [][Next]_vars

-----------------------------------------------------------------------------
\* Types; a measurement is a count.
TypeOK == /\ cmd.pc \in {"idle", "setup", "drive", "chaos", "count", "lag", "inbox", "postings"}
          /\ cons.pc \in {"off", "poll", "apply", "commit"}
          /\ cons.pc # "off" => cons.pos \in 0 .. Len(Movements)
          /\ down \subseteq Nat
          /\ \A a \in arts \cup Stored : a.applied \in 0 .. a.sent /\ {a.lost, a.dup} \subseteq Nat

\* Validate's promise, "quorum preserved throughout": at most one broker is down,
\* and every run starts with all of them, as long as the schedules that were
\* accepted were listed in the order of their times, no docker command failed
\* and no schedule was cut short.
QuorumKept == orderly => /\ Cardinality(down) <= 1
                         /\ cmd.pc \in {"idle", "setup"} => down = {}

\* "Nothing left on the broker: the consumer is genuinely finished": a run that
\* drained because the group had no lag lost nothing in B, and in C applied every
\* movement it sent, once; and no run applies a movement of another sweep.
DrainedMeansDone ==
    /\ \A a \in Stored :
           /\ a.why = "lag" /\ a.config # "A" => a.lost = 0
           /\ a.why = "lag" /\ a.config = "C" => a.applied = a.sent /\ a.dup = 0
           /\ a.why = "count" => a.lost = 0
           /\ a.exact => a.applied + a.lost = a.sent
    /\ \A m \in DOMAIN effects : m.sweep = cmd.sweep

\* A finding describes one sweep against one kind of cluster, without a run that
\* was cut off, however many sweeps left artefacts in the directory and whenever
\* it is folded; and a sweep that formed a table folds into one if and only if it
\* replaced all that was there, with no loss and no duplicate in the row of C if
\* its runs drained.
FindingIsOneSweep ==
    /\ TableIsAllowed(Stored) =>
           /\ \E k \in 1 .. planned : \A a \in Stored : a.sweep = k
           /\ \A a \in Stored : a.why # "ceiling"
    /\ cmd.result = "table" =>
           /\ fold.rows # {} <=> Stored \subseteq arts
           /\ (\A a \in Stored : a.why = "lag") =>
                  \A r \in fold.rows : r.config = "C" => r.lost.hi = 0 /\ r.dup.hi = 0
=============================================================================
