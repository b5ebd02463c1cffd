------------------------------ MODULE Consumer ------------------------------
(***************************************************************************)
(* internal/ledger/consumer: the four delivery modes, run by the processes *)
(* of one consumer group against one partition of the movements topic and  *)
(* one PostgreSQL database.                                                *)
(*                                                                         *)
(* The broker is external (Redpanda behind franz-go): a log, the group's   *)
(* committed offset and the assignment of the partition to at most one     *)
(* member.  A rebalance resets the new owner's fetch position to the       *)
(* committed offset and does not interrupt a batch that the application    *)
(* already holds.  A commit may land although its caller sees an error, an *)
(* acknowledged one may be lost with the coordinator, and a plain commit   *)
(* is accepted from a member that has lost the partition, so it may take   *)
(* the group back; the transactional session of mode D is aborted instead. *)
(*                                                                         *)
(* A process that gets an error other than a transient commit error stops  *)
(* (Run returns it, the errgroup ends the ledger); it may be restarted.    *)
(* Offsets count from 1; committed and pos are numbers of records.         *)
(***************************************************************************)
EXTENDS Integers, Sequences, FiniteSets, FiniteSetsExt

CONSTANTS Procs,        \* ledger processes, members of the group
          Messages,     \* message ids; a record carries one
          Undecodable,  \* the records that apply cannot parse
          Modes,        \* the delivery modes to run
          MaxLog,       \* bound: records produced
          MaxBatch,     \* Options.Batch
          MaxFaults     \* bound: failures and rebalances

CONSTANT NoProc         \* the partition has no owner

ASSUME ConsumerAssumption ==
    /\ Undecodable \subseteq Messages
    /\ Modes \subseteq {"A", "B", "C", "D"}
    /\ MaxLog \in Nat
    /\ MaxBatch \in Nat \ {0}
    /\ MaxFaults \in Nat
    /\ NoProc \notin Procs

VARIABLES mode,       \* the delivery mode of this deployment
          log,        \* the partition: the message ids of its records
          committed,  \* the group's committed offset
          owner,      \* the member that has the partition
          pc,         \* where each process stands in RunOnce
          pos,        \* its client's fetch position
          cur,        \* the record of its batch that it applies next
          end,        \* the last record of its batch
          applied,    \* for each message id, its postings in the ledger
          inbox,      \* the inbox table
          faults,     \* failures and rebalances so far
          unsettled   \* was a batch in hand when its partition was reassigned, or
                      \* an acknowledged commit lost

process == <<pc, pos, cur, end>>
tables == <<applied, inbox>>
vars == <<mode, log, committed, owner, pc, pos, cur, end, applied, inbox, faults, unsettled>>

InHand == {"commitFirst", "apply", "claimed", "commit"}
Alive == InHand \cup {"poll"}

\* The modes that claim the message id and derive the posting id from it.
Deduplicates(m) == m \in {"C", "D"}

Init == /\ mode \in Modes
        /\ log = <<>>
        /\ committed = 0
        /\ owner = NoProc
        /\ pc = [p \in Procs |-> "poll"]
        /\ pos = [p \in Procs |-> 0]
        /\ cur = [p \in Procs |-> 1]
        /\ end = [p \in Procs |-> 0]
        /\ applied = [m \in Messages |-> 0]
        /\ inbox = {}
        /\ faults = 0
        /\ unsettled = FALSE

-----------------------------------------------------------------------------
\* The environment: producers, the group coordinator.

\* A movement is produced; a producer that retries produces it again.
Produce(m) ==
    /\ Len(log) < MaxLog
    /\ log' = Append(log, m)
    /\ UNCHANGED <<mode, committed, owner, process, tables, faults, unsettled>>

Fault == /\ faults < MaxFaults
         /\ faults' = faults + 1

\* The partition is given to p, which will fetch from the committed offset.
Assign(p) ==
    /\ pc[p] \in Alive
    /\ owner' = p
    /\ pos' = [pos EXCEPT ![p] = committed]
    /\ unsettled' = (unsettled \/ \E q \in Procs : pc[q] \in InHand)
    /\ UNCHANGED <<mode, log, committed, pc, cur, end, tables>>

Join(p) == owner = NoProc /\ Assign(p) /\ UNCHANGED faults
Rebalance(p) == owner # NoProc /\ Assign(p) /\ Fault

\* "A coordinator failover can lose the commit": the group is back at an earlier
\* offset, from which the next member to be assigned will fetch.
LoseCommit ==
    /\ committed' \in 0 .. committed - 1
    /\ unsettled' = TRUE
    /\ Fault
    /\ UNCHANGED <<mode, log, owner, process, tables>>

-----------------------------------------------------------------------------
\* One process.

\* Mutant of AfterPoll: every mode commits first.
AfterPollMutant == "commitFirst"

AfterPoll == IF mode = "A" THEN "commitFirst" ELSE "apply"

\* Poll returns a non-empty batch.
Poll(p) ==
    /\ pc[p] = "poll"
    /\ owner = p
    /\ \E n \in 1 .. Min({MaxBatch, Len(log) - pos[p]}) :
           /\ cur' = [cur EXCEPT ![p] = pos[p] + 1]
           /\ end' = [end EXCEPT ![p] = pos[p] + n]
           /\ pos' = [pos EXCEPT ![p] = pos[p] + n]
    /\ pc' = [pc EXCEPT ![p] = AfterPoll]
    /\ UNCHANGED <<mode, log, committed, owner, tables, faults, unsettled>>

\* Mode D, nothing to read: the transaction that Poll began is aborted, which
\* puts the client back at the committed offset.
EmptyPoll(p) ==
    /\ mode = "D"
    /\ pc[p] = "poll"
    /\ owner = p
    /\ pos[p] = Len(log)
    /\ pos' = [pos EXCEPT ![p] = committed]
    /\ UNCHANGED <<mode, log, committed, owner, pc, cur, end, tables, faults, unsettled>>

\* The process ends and what it held in memory is gone.
Stop(p) ==
    /\ pc' = [pc EXCEPT ![p] = "down"]
    /\ owner' = IF owner = p THEN NoProc ELSE owner
    /\ pos' = [pos EXCEPT ![p] = 0]
    /\ cur' = [cur EXCEPT ![p] = 1]
    /\ end' = [end EXCEPT ![p] = 0]

\* A crash, a database error in apply, a fetch error, a fatal commit error that
\* did not land, a shutdown: an open database transaction is rolled back.
Exit(p) ==
    /\ pc[p] \in Alive
    /\ Stop(p)
    /\ Fault
    /\ UNCHANGED <<mode, log, committed, tables, unsettled>>

Restart(p) ==
    /\ pc[p] = "down"
    /\ pc' = [pc EXCEPT ![p] = "poll"]
    /\ UNCHANGED <<mode, log, committed, owner, pos, cur, end, tables, faults, unsettled>>

\* Mutant of Reject: the violation of inbox_pkey is an error like any other.
RejectMutant(p) ==
    /\ pc[p] = "apply"
    /\ log[cur[p]] \in Undecodable \cup inbox
    /\ Stop(p)
    /\ UNCHANGED <<mode, log, committed, tables, faults, unsettled>>

\* A record that cannot be parsed is an error of apply: the process ends.
Reject(p) ==
    /\ pc[p] = "apply"
    /\ log[cur[p]] \in Undecodable
    /\ Stop(p)
    /\ UNCHANGED <<mode, log, committed, tables, faults, unsettled>>

\* On to the next record, or out of the loop.
Advance(p) ==
    /\ cur' = [cur EXCEPT ![p] = @ + 1]
    /\ pc' = [pc EXCEPT ![p] = IF cur[p] < end[p] THEN "apply"
                                 ELSE IF mode = "A" THEN "poll" ELSE "commit"]
    /\ UNCHANGED <<pos, end>>

\* Mutant of Claim: a message that another transaction has claimed and not yet
\* committed passes for a duplicate.
ClaimMutant(p) ==
    LET m == log[cur[p]]
    IN  /\ pc[p] = "apply"
        /\ m \notin Undecodable
        /\ IF /\ Deduplicates(mode)
              /\ \/ m \in inbox
                 \/ \E q \in Procs \ {p} : pc[q] = "claimed" /\ log[cur[q]] = m
           THEN Advance(p)
           ELSE pc' = [pc EXCEPT ![p] = "claimed"] /\ UNCHANGED <<pos, cur, end>>
        /\ UNCHANGED <<mode, log, committed, owner, tables, faults, unsettled>>

\* BEGIN; modes C and D insert the message id, waiting for a transaction that
\* has inserted it and is still open.  A duplicate is suppressed.
Claim(p) ==
    LET m == log[cur[p]]
    IN  /\ pc[p] = "apply"
        /\ m \notin Undecodable
        /\ Deduplicates(mode) =>
               \A q \in Procs \ {p} : pc[q] = "claimed" => log[cur[q]] # m
        /\ IF Deduplicates(mode) /\ m \in inbox
           THEN Advance(p)
           ELSE pc' = [pc EXCEPT ![p] = "claimed"] /\ UNCHANGED <<pos, cur, end>>
        /\ UNCHANGED <<mode, log, committed, owner, tables, faults, unsettled>>

\* One more posting of m.  Mode B repeats without end the records ahead of one
\* that cannot be parsed; the count stops at MaxLog + 1, more than was produced.
Book(m) == applied' = [applied EXCEPT ![m] = IF @ > MaxLog THEN @ ELSE @ + 1]

\* Mutant of Record: the inbox row is not written in the transaction.
RecordMutant(m) == Book(m) /\ UNCHANGED inbox

\* The transaction's writes: the posting and, in modes C and D, the inbox row.
Record(m) ==
    /\ Book(m)
    /\ inbox' = IF Deduplicates(mode) THEN inbox \cup {m} ELSE inbox

\* The posting id of modes C and D is a function of the message id, so a second
\* posting of it is refused by the primary key.
PostingIsNew(m) == Deduplicates(mode) => applied[m] = 0

\* The posting and its entries are inserted and COMMIT is acknowledged.
CommitApply(p) ==
    LET m == log[cur[p]]
    IN  /\ pc[p] = "claimed"
        /\ IF PostingIsNew(m)
           THEN Record(m) /\ Advance(p) /\ UNCHANGED owner
           ELSE Stop(p) /\ UNCHANGED tables
        /\ UNCHANGED <<mode, log, committed, faults, unsettled>>

\* COMMIT takes effect and its caller gets an error, which ends the process.
CommitApplyUnacknowledged(p) ==
    LET m == log[cur[p]]
    IN  /\ pc[p] = "claimed"
        /\ PostingIsNew(m)
        /\ Record(m)
        /\ Stop(p)
        /\ Fault
        /\ UNCHANGED <<mode, log, committed, unsettled>>

\* After a commit of the batch's offsets: mode A goes on to apply it.
AfterCommit == IF mode = "A" THEN "apply" ELSE "poll"

\* The partition was not taken from p since it polled the batch it holds.
Undisturbed(p) == owner = p /\ pos[p] = end[p]

\* br.Commit has a say about the batch of p: the transactional session only if
\* there was no rebalance.
MayCommit(p) == /\ pc[p] \in {"commitFirst", "commit"}
                /\ mode = "D" => Undisturbed(p)

\* Mutant of Commit: the offset committed is one too high.
CommitMutant(p) ==
    /\ MayCommit(p)
    /\ committed' = end[p] + 1
    /\ pc' = [pc EXCEPT ![p] = AfterCommit]
    /\ UNCHANGED <<mode, log, owner, pos, cur, end, tables, faults, unsettled>>

\* br.Commit succeeds.
Commit(p) ==
    /\ MayCommit(p)
    /\ committed' = end[p]
    /\ pc' = [pc EXCEPT ![p] = AfterCommit]
    /\ UNCHANGED <<mode, log, owner, pos, cur, end, tables, faults, unsettled>>

\* Mutant of Deferred: the batch of mode A is applied although the commit of its
\* offsets failed.
DeferredMutant == AfterCommit

\* What RunOnce does about a transient error: "commit_deferred", return nil.
Deferred == "poll"

\* Mode D: "transaction aborted by rebalance", a transient error.
CommitAborted(p) ==
    /\ mode = "D"
    /\ pc[p] = "commit"
    /\ ~Undisturbed(p)
    /\ pc' = [pc EXCEPT ![p] = Deferred]
    /\ UNCHANGED <<mode, log, committed, owner, pos, cur, end, tables, faults, unsettled>>

\* br.Commit returns a transient error.  The commit may have landed; in mode D
\* the session may have gone back to the committed offset.
CommitTransient(p) ==
    /\ MayCommit(p)
    /\ committed' \in {committed, end[p]}
    /\ pos' \in {pos} \cup IF mode = "D" THEN {[pos EXCEPT ![p] = committed']} ELSE {}
    /\ pc' = [pc EXCEPT ![p] = Deferred]
    /\ Fault
    /\ UNCHANGED <<mode, log, owner, cur, end, tables, unsettled>>

\* br.Commit returns another error, which ends the process, although the commit
\* landed.  Every error of mode D is marked transient.
CommitFatal(p) ==
    /\ MayCommit(p)
    /\ mode # "D"
    /\ committed' = end[p]
    /\ Stop(p)
    /\ Fault
    /\ UNCHANGED <<mode, log, tables, unsettled>>

-----------------------------------------------------------------------------
\* What a process does on its own, without a failure.
Step(p) == \/ Poll(p)
           \/ Reject(p)
           \/ Claim(p)
           \/ CommitApply(p)
           \/ Commit(p)
           \/ CommitAborted(p)

Failure(p) == \/ Exit(p)
              \/ CommitApplyUnacknowledged(p)
              \/ CommitTransient(p)
              \/ CommitFatal(p)

\* All that was produced is behind the group's committed offset and nobody has a
\* batch in hand.
Idle == /\ Len(log) = MaxLog
        /\ \A p \in Procs : pc[p] = "poll" /\ (owner = p => pos[p] = Len(log))
        /\ owner # NoProc
        /\ UNCHANGED vars

Next == \/ \E m \in Messages : Produce(m)
        \/ LoseCommit
        \/ \E p \in Procs : \/ Join(p)
                            \/ Rebalance(p)
                            \/ EmptyPoll(p)
                            \/ Restart(p)
                            \/ Step(p)
                            \/ Failure(p)
        \/ Idle

Spec == Init /\ [][Next]_vars

\* The client keeps polling, and the coordinator gives a partition without an
\* owner to a member.  Nothing in the repository starts a ledger that ended.
Fairness == \A p \in Procs : WF_vars(Join(p)) /\ WF_vars(Step(p))
FairSpec == Spec /\ Fairness

-----------------------------------------------------------------------------
Deliveries(m) == Cardinality({i \in DOMAIN log : log[i] = m})
Poisoned == \E i \in DOMAIN log : log[i] \in Undecodable

\* Types, and the bounds that the offsets keep to.
TypeOK == /\ mode \in Modes
          /\ log \in Seq(Messages)
          /\ committed \in 0 .. Len(log)
          /\ owner \in Procs \cup {NoProc}
          /\ pc \in [Procs -> Alive \cup {"down"}]
          /\ pos \in [Procs -> 0 .. Len(log)]
          /\ cur \in [Procs -> 1 .. Len(log) + 1]
          /\ end \in [Procs -> 0 .. Len(log)]
          /\ applied \in [Messages -> Nat]
          /\ inbox \in SUBSET Messages
          /\ faults \in Nat
          /\ unsettled \in BOOLEAN

\* FR-L8, modes C and D: whatever is redelivered, to whichever process, each
\* message has one posting, and an inbox row exactly when it has one.
ExactlyOnce == Deduplicates(mode) =>
    \A m \in Messages : applied[m] = IF m \in inbox THEN 1 ELSE 0

\* Modes B, C and D: no record behind the committed offset is without its
\* posting, so a restart or a rebalance never skips one.
NoLoss == mode # "A" => \A i \in 1 .. committed : applied[log[i]] > 0

\* The same of a batch in hand: by the time a process commits it, each of its
\* records and all before them are in the ledger.
CommitAfterEffect ==
    mode # "A" => \A p \in Procs : pc[p] \in InHand =>
                      \A i \in 1 .. cur[p] - 1 : applied[log[i]] > 0

\* "Expected: lost > 0, duplicated = 0" for mode A, provided that no partition
\* moved while somebody held a batch of it and that no commit was lost: "it buys
\* you 'no duplicates' only while commits are durable".
AtMostOnceWhileSettled ==
    mode = "A" /\ ~unsettled => \A m \in Messages : applied[m] <= Deliveries(m)

\* Whoever runs the ledgers starts one again when it has ended.
Restarted == \A p \in Procs : []<>(pc[p] # "down")

\* Modes B, C and D: a record is applied in the end, provided that ledgers are
\* started again, unless one that cannot be parsed blocks its partition.
EventuallyApplied ==
    Restarted => \A m \in Messages \ Undecodable :
                     mode # "A" /\ Deliveries(m) > 0 ~> applied[m] > 0 \/ Poisoned
=============================================================================
