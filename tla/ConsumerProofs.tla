--------------------------- MODULE ConsumerProofs ---------------------------
(***************************************************************************)
(* The delivery modes, for any number of processes, messages, records,     *)
(* failures and rebalances.                                                *)
(***************************************************************************)
EXTENDS Consumer, TLAPS, FiniteSetTheorems

-----------------------------------------------------------------------------
\* Part 1.  Types and where a process stands in its batch.

\* A process is inside its batch while it applies it and past its last record
\* when it commits it; mode A commits first, the others last.
Positions ==
    \A p \in Procs :
        /\ pc[p] \in {"commitFirst", "apply", "claimed"} => cur[p] <= end[p]
        /\ pc[p] = "commit" => cur[p] = end[p] + 1
        /\ pc[p] = "commit" => mode # "A"
        /\ pc[p] = "commitFirst" => mode = "A"

PInv == TypeOK /\ Positions

\* The smaller of two integers is one of them, and neither is below it.
LEMMA MinOfTwo ==
    ASSUME NEW a \in Int, NEW b \in Int
    PROVE  /\ Min({a, b}) \in Int
           /\ Min({a, b}) <= a
           /\ Min({a, b}) <= b
<1>1. \E x \in {a, b} : \A y \in {a, b} : x <= y
  <2>1. CASE a <= b
    BY <2>1
  <2>2. CASE b <= a
    BY <2>2
  <2> QED
    BY <2>1, <2>2
<1>2. /\ Min({a, b}) \in {a, b}
      /\ \A y \in {a, b} : Min({a, b}) <= y
  BY <1>1 DEF Min
<1> QED
  BY <1>2

\* A poll hands over records that the log has, the ones after the position.
LEMMA PollBatch ==
    ASSUME TypeOK, NEW p \in Procs, Poll(p)
    PROVE  \E n \in Nat \ {0} :
               /\ pos[p] + n <= Len(log)
               /\ cur' = [cur EXCEPT ![p] = pos[p] + 1]
               /\ end' = [end EXCEPT ![p] = pos[p] + n]
               /\ pos' = [pos EXCEPT ![p] = pos[p] + n]
<1>1. PICK n \in 1 .. Min({MaxBatch, Len(log) - pos[p]}) :
               /\ cur' = [cur EXCEPT ![p] = pos[p] + 1]
               /\ end' = [end EXCEPT ![p] = pos[p] + n]
               /\ pos' = [pos EXCEPT ![p] = pos[p] + n]
  BY DEF Poll
<1>2. Len(log) \in Nat /\ pos[p] \in 0 .. Len(log) /\ MaxBatch \in Nat
  <2>1. log \in Seq(Messages) /\ pos[p] \in 0 .. Len(log)
    BY DEF TypeOK
  <2> QED
    BY <2>1, ConsumerAssumption
<1>3. /\ Min({MaxBatch, Len(log) - pos[p]}) \in Int
      /\ Min({MaxBatch, Len(log) - pos[p]}) <= Len(log) - pos[p]
  <2>1. MaxBatch \in Int /\ Len(log) - pos[p] \in Int
    BY <1>2
  <2> QED
    BY <2>1, MinOfTwo
<1>4. n \in Nat \ {0} /\ pos[p] + n <= Len(log)
  BY <1>2, <1>3
<1> QED
  BY <1>1, <1>4

\* The record that a process applies is in the log.
LEMMA RecordInLog ==
    ASSUME PInv, NEW p \in Procs, pc[p] \in {"apply", "claimed"}
    PROVE  cur[p] \in 1 .. Len(log) /\ log[cur[p]] \in Messages
<1>1. cur[p] <= end[p] /\ end[p] \in 0 .. Len(log) /\ cur[p] \in 1 .. Len(log) + 1
  BY DEF PInv, Positions, TypeOK
<1>2. Len(log) \in Nat /\ log \in Seq(Messages)
  BY DEF PInv, TypeOK
<1>3. cur[p] \in 1 .. Len(log)
  BY <1>1, <1>2
<1> QED
  BY <1>2, <1>3

\* A process that ends drops its batch.
LEMMA StopKeeps ==
    ASSUME PInv, NEW p \in Procs, Stop(p), UNCHANGED <<mode, log>>
    PROVE  /\ Positions'
           /\ owner' \in Procs \cup {NoProc}
           /\ pc' \in [Procs -> Alive \cup {"down"}]
           /\ pos' \in [Procs -> 0 .. Len(log')]
           /\ cur' \in [Procs -> 1 .. Len(log') + 1]
           /\ end' \in [Procs -> 0 .. Len(log')]
<1>1. Len(log) \in Nat
  BY DEF PInv, TypeOK
<1>2. 0 \in 0 .. Len(log) /\ 1 \in 1 .. Len(log) + 1
  BY <1>1
<1>3. Positions'
  BY DEF PInv, TypeOK, Positions, Stop
<1> QED
  BY <1>2, <1>3 DEF PInv, TypeOK, Stop

\* Moving to the next record keeps to the batch.
LEMMA AdvanceKeeps ==
    ASSUME PInv, NEW p \in Procs, pc[p] \in {"apply", "claimed"}, Advance(p),
           UNCHANGED <<mode, log>>
    PROVE  /\ Positions'
           /\ pc' \in [Procs -> Alive \cup {"down"}]
           /\ pos' \in [Procs -> 0 .. Len(log')]
           /\ cur' \in [Procs -> 1 .. Len(log') + 1]
           /\ end' \in [Procs -> 0 .. Len(log')]
<1>1. Len(log) \in Nat
  BY DEF PInv, TypeOK
<1>2. cur[p] \in 1 .. Len(log) /\ cur[p] + 1 \in 1 .. Len(log) + 1
  BY <1>1, RecordInLog
<1>3. cur[p] <= end[p] /\ end[p] \in Nat
  BY <1>1 DEF PInv, TypeOK, Positions
<1>4. Positions'
  BY <1>2, <1>3 DEF PInv, TypeOK, Positions, Advance
<1> QED
  BY <1>2, <1>4 DEF PInv, TypeOK, Advance, Alive, InHand

\* A transaction adds at most one posting and, for its message, an inbox row.
LEMMA RecordKeeps ==
    ASSUME TypeOK, NEW m \in Messages, Record(m)
    PROVE  /\ applied' \in [Messages -> Nat]
           /\ inbox' \in SUBSET Messages
<1>1. MaxLog \in Nat
  BY ConsumerAssumption
<1> QED
  BY <1>1 DEF TypeOK, Record, Book

\* Every step keeps the types and the positions.
LEMMA PositionsStep == PInv /\ [Next]_vars => PInv'
<1> SUFFICES ASSUME PInv, [Next]_vars
             PROVE  PInv'
  OBVIOUS
<1>1. log \in Seq(Messages) /\ Len(log) \in Nat
  BY DEF PInv, TypeOK
<1>2. ASSUME NEW m \in Messages, Produce(m)
      PROVE  PInv'
  <2>1. log' \in Seq(Messages) /\ Len(log') = Len(log) + 1
    BY <1>1, <1>2 DEF Produce
  <2>2. TypeOK'
    BY <1>1, <1>2, <2>1 DEF PInv, TypeOK, Produce, process, tables
  <2>3. Positions'
    BY <1>2 DEF PInv, Positions, Produce, process
  <2> QED
    BY <2>2, <2>3 DEF PInv
<1>3. ASSUME NEW p \in Procs, Join(p) \/ Rebalance(p)
      PROVE  PInv'
  <2>1. Assign(p) /\ faults' \in Nat
    BY <1>3 DEF PInv, TypeOK, Join, Rebalance, Fault
  <2>2. TypeOK'
    BY <1>1, <2>1 DEF PInv, TypeOK, Assign, tables
  <2>3. Positions'
    BY <2>1 DEF PInv, Positions, Assign
  <2> QED
    BY <2>2, <2>3 DEF PInv
<1>4. ASSUME NEW p \in Procs, EmptyPoll(p)
      PROVE  PInv'
  BY <1>1, <1>4 DEF PInv, TypeOK, Positions, EmptyPoll, tables
<1>5. ASSUME NEW p \in Procs, Restart(p)
      PROVE  PInv'
  BY <1>5 DEF PInv, TypeOK, Positions, Restart, tables, Alive, InHand
<1>6. ASSUME NEW p \in Procs, Poll(p)
      PROVE  PInv'
  <2>1. PICK n \in Nat \ {0} :
               /\ pos[p] + n <= Len(log)
               /\ cur' = [cur EXCEPT ![p] = pos[p] + 1]
               /\ end' = [end EXCEPT ![p] = pos[p] + n]
               /\ pos' = [pos EXCEPT ![p] = pos[p] + n]
    BY <1>6, PollBatch DEF PInv
  <2>2. pos[p] \in 0 .. Len(log)
    BY DEF PInv, TypeOK
  <2>3. /\ pos[p] + n \in 0 .. Len(log)
        /\ pos[p] + 1 \in 1 .. Len(log) + 1
        /\ pos[p] + 1 <= pos[p] + n
    BY <1>1, <2>1, <2>2
  <2>4. pc' = [pc EXCEPT ![p] = AfterPoll] /\ UNCHANGED mode
    BY <1>6 DEF Poll
  <2>5. TypeOK'
    <3>1. /\ pos' \in [Procs -> 0 .. Len(log)]
          /\ cur' \in [Procs -> 1 .. Len(log) + 1]
          /\ end' \in [Procs -> 0 .. Len(log)]
      BY <2>1, <2>3 DEF PInv, TypeOK
    <3>2. pc' \in [Procs -> Alive \cup {"down"}]
      BY <2>4 DEF PInv, TypeOK, AfterPoll, Alive, InHand
    <3> QED
      BY <1>6, <3>1, <3>2 DEF PInv, TypeOK, Poll, tables
  <2>6. Positions'
    BY <2>1, <2>3, <2>4 DEF PInv, TypeOK, Positions, AfterPoll
  <2> QED
    BY <2>5, <2>6 DEF PInv
<1>7. ASSUME NEW p \in Procs, Exit(p) \/ Reject(p)
      PROVE  PInv'
  <2>1. /\ Stop(p) /\ faults' \in Nat
        /\ UNCHANGED <<mode, log, committed, tables, unsettled>>
    BY <1>7 DEF PInv, TypeOK, Exit, Reject, Fault
  <2> QED
    BY <2>1, StopKeeps DEF PInv, TypeOK, tables
<1>8. ASSUME NEW p \in Procs, Claim(p)
      PROVE  PInv'
  <2>1. CASE Advance(p)
    BY <1>8, <2>1, AdvanceKeeps DEF PInv, TypeOK, Claim, tables
  <2>2. CASE pc' = [pc EXCEPT ![p] = "claimed"] /\ UNCHANGED <<pos, cur, end>>
    BY <1>8, <2>2 DEF PInv, TypeOK, Positions, Claim, tables, Alive, InHand
  <2> QED
    BY <1>8, <2>1, <2>2 DEF Claim
<1>9. ASSUME NEW p \in Procs, CommitApply(p) \/ CommitApplyUnacknowledged(p)
      PROVE  PInv'
  <2>1. /\ pc[p] = "claimed"
        /\ faults' \in Nat
        /\ UNCHANGED <<mode, log, committed, unsettled>>
        /\ \/ Record(log[cur[p]]) /\ Advance(p) /\ UNCHANGED owner
           \/ Stop(p) /\ UNCHANGED tables
           \/ Record(log[cur[p]]) /\ Stop(p)
    BY <1>9 DEF PInv, TypeOK, CommitApply, CommitApplyUnacknowledged, Fault
  <2>2. log[cur[p]] \in Messages
    BY <2>1, RecordInLog
  <2>3. applied' \in [Messages -> Nat] /\ inbox' \in SUBSET Messages
    BY <2>1, <2>2, RecordKeeps DEF PInv, TypeOK, tables
  <2>4. CASE Advance(p) /\ UNCHANGED owner
    BY <2>1, <2>3, <2>4, AdvanceKeeps DEF PInv, TypeOK
  <2>5. CASE Stop(p)
    BY <2>1, <2>3, <2>5, StopKeeps DEF PInv, TypeOK
  <2> QED
    BY <2>1, <2>4, <2>5
<1>10. ASSUME NEW p \in Procs, Commit(p) \/ CommitAborted(p) \/ CommitTransient(p)
       PROVE  PInv'
  <2>1. /\ faults' \in Nat
        /\ committed' \in {committed, end[p]}
        /\ pos' = pos \/ pos' = [pos EXCEPT ![p] = committed']
        /\ pc' = [pc EXCEPT ![p] = AfterCommit] \/ pc' = [pc EXCEPT ![p] = "poll"]
        /\ UNCHANGED <<mode, log, owner, cur, end, tables, unsettled>>
    BY <1>10 DEF PInv, TypeOK, Commit, CommitAborted, CommitTransient, Fault, Deferred
  <2>2. committed' \in 0 .. Len(log)
    BY <2>1 DEF PInv, TypeOK
  <2>3. pos' \in [Procs -> 0 .. Len(log)]
    BY <2>1, <2>2 DEF PInv, TypeOK
  <2>4. pc' \in [Procs -> Alive \cup {"down"}]
    BY <2>1 DEF PInv, TypeOK, AfterCommit, Alive, InHand
  <2>5. pc[p] \in {"commitFirst", "commit"}
    BY <1>10 DEF Commit, CommitAborted, CommitTransient, MayCommit
  <2>6. Positions'
    BY <2>1, <2>5 DEF PInv, TypeOK, Positions, AfterCommit
  <2> QED
    BY <2>1, <2>2, <2>3, <2>4, <2>6 DEF PInv, TypeOK, tables
<1>11. ASSUME NEW p \in Procs, CommitFatal(p)
       PROVE  PInv'
  <2>1. /\ Stop(p) /\ faults' \in Nat /\ committed' = end[p]
        /\ UNCHANGED <<mode, log, tables, unsettled>>
    BY <1>11 DEF PInv, TypeOK, CommitFatal, Fault
  <2> QED
    BY <2>1, StopKeeps DEF PInv, TypeOK, tables
<1>12. CASE UNCHANGED vars
  BY <1>12 DEF PInv, TypeOK, Positions, vars
<1>13. CASE LoseCommit
  <2>1. faults' \in Nat /\ committed' \in 0 .. Len(log)
    BY <1>1, <1>13 DEF PInv, TypeOK, LoseCommit, Fault
  <2> QED
    BY <1>13, <2>1 DEF PInv, TypeOK, Positions, LoseCommit, process, tables
<1> QED
  BY <1>2, <1>3, <1>4, <1>5, <1>6, <1>7, <1>8, <1>9, <1>10, <1>11, <1>12, <1>13
     DEF Next, Step, Failure, Idle

\* No batch is in hand at the start.
LEMMA PositionsInit == Init => PInv
<1> SUFFICES ASSUME Init
             PROVE  PInv
  OBVIOUS
<1>1. log \in Seq(Messages) /\ Len(log) = 0
  BY DEF Init
<1>2. 0 \in 0 .. Len(log) /\ 1 \in 1 .. Len(log) + 1
  BY <1>1
<1>3. TypeOK
  BY <1>1, <1>2 DEF Init, TypeOK, Alive
<1>4. Positions
  BY DEF Init, Positions
<1> QED
  BY <1>3, <1>4 DEF PInv

\* Offsets, positions and the records in hand stay within the log, whatever the
\* order of polls, commits, rebalances and failures.
THEOREM TypeCorrect == Spec => []TypeOK
<1>1. PInv => TypeOK
  BY DEF PInv
<1> QED
  BY <1>1, PositionsInit, PositionsStep, PTL DEF Spec

-----------------------------------------------------------------------------
\* Part 2.  Modes B, C and D: an effect never falls behind an offset.

\* The first n records of the log are in the ledger.
Booked(n) == \A i \in 1 .. n : applied[log[i]] > 0

\* What a process knows of the ledger: the records of its batch that it has
\* passed are booked, and so are the ones its client will not fetch again,
\* except for the batch in hand.
Behind(p) == /\ pc[p] \in InHand => Booked(cur[p] - 1)
             /\ Booked(pos[p]) \/ (pc[p] \in InHand /\ pos[p] = end[p])

EffectInv == /\ PInv
             /\ ExactlyOnce
             /\ mode # "A" => Booked(committed) /\ \A p \in Procs : Behind(p)

\* The log and the ledger only grow.
Grows == /\ mode' = mode
         /\ Len(log') \in Nat
         /\ Len(log) <= Len(log')
         /\ \A i \in 1 .. Len(log) : log'[i] = log[i]
         /\ \A m \in Messages : applied[m] > 0 => applied'[m] > 0

\* A posting is added to its message alone and none is taken back.
LEMMA RecordGrows ==
    ASSUME TypeOK, NEW m \in Messages, Record(m)
    PROVE  /\ applied'[m] > 0
           /\ \A k \in Messages \ {m} : applied'[k] = applied[k]
           /\ applied[m] = 0 => applied'[m] = 1
           /\ inbox' = IF Deduplicates(mode) THEN inbox \cup {m} ELSE inbox
<1>1. MaxLog \in Nat /\ applied \in [Messages -> Nat]
  BY ConsumerAssumption DEF TypeOK
<1>2. applied' = [applied EXCEPT ![m] = IF @ > MaxLog THEN @ ELSE @ + 1]
  BY DEF Record, Book
<1>3. applied'[m] = IF applied[m] > MaxLog THEN applied[m] ELSE applied[m] + 1
  BY <1>1, <1>2
<1>4. applied[m] \in Nat
  BY <1>1
<1>5. applied'[m] > 0 /\ (applied[m] = 0 => applied'[m] = 1)
  BY <1>1, <1>3, <1>4
<1> QED
  BY <1>1, <1>2, <1>5 DEF Record

\* Every step lets the log and the ledger grow.
LEMMA NextGrows == PInv /\ [Next]_vars => Grows
<1> SUFFICES ASSUME PInv, [Next]_vars
             PROVE  Grows
  OBVIOUS
<1>1. log \in Seq(Messages) /\ Len(log) \in Nat
  BY DEF PInv, TypeOK
<1>2. ASSUME NEW m \in Messages, Produce(m)
      PROVE  Grows
  <2>1. /\ Len(log') = Len(log) + 1
        /\ \A i \in 1 .. Len(log) : log'[i] = log[i]
    BY <1>1, <1>2 DEF Produce
  <2> QED
    BY <1>1, <1>2, <2>1 DEF Grows, Produce, tables
<1>3. ASSUME NEW p \in Procs, CommitApply(p) \/ CommitApplyUnacknowledged(p)
      PROVE  Grows
  <2>1. /\ pc[p] = "claimed"
        /\ UNCHANGED <<mode, log>>
        /\ Record(log[cur[p]]) \/ UNCHANGED tables
    BY <1>3 DEF CommitApply, CommitApplyUnacknowledged
  <2>2. log[cur[p]] \in Messages
    BY <2>1, RecordInLog
  <2>3. \A m \in Messages : applied[m] > 0 => applied'[m] > 0
    BY <2>1, <2>2, RecordGrows DEF PInv, tables
  <2> QED
    BY <1>1, <2>1, <2>3 DEF Grows
<1>4. CASE UNCHANGED <<mode, log, tables>>
  BY <1>1, <1>4 DEF Grows, tables
<1> QED
  BY <1>2, <1>3, <1>4
     DEF Next, Step, Failure, Idle, vars, tables, Join, Rebalance, Assign, EmptyPoll, Restart,
         Poll, Reject, Claim, Commit, CommitAborted, Exit, CommitTransient, CommitFatal,
         LoseCommit

\* What is booked stays booked.
LEMMA BookedKept ==
    ASSUME PInv, Grows, NEW n \in 0 .. Len(log), Booked(n)
    PROVE  \A i \in 1 .. n : applied'[log'[i]] > 0
<1>1. log \in Seq(Messages) /\ Len(log) \in Nat
  BY DEF PInv, TypeOK
<1>2. TAKE i \in 1 .. n
<1>3. i \in 1 .. Len(log)
  BY <1>1
<1>4. log[i] \in Messages /\ log'[i] = log[i] /\ applied[log[i]] > 0
  BY <1>1, <1>3 DEF Grows, Booked
<1> QED
  BY <1>4 DEF Grows

\* A process that does not move knows what it knew.
LEMMA BehindKept ==
    ASSUME PInv, Grows, NEW p \in Procs, Behind(p),
           pc'[p] = pc[p], pos'[p] = pos[p], cur'[p] = cur[p], end'[p] = end[p]
    PROVE  Behind(p)'
<1>1. Len(log) \in Nat
  BY DEF PInv, TypeOK
<1>2. pos[p] \in 0 .. Len(log) /\ cur[p] \in 1 .. Len(log) + 1
  BY DEF PInv, TypeOK
<1>3. cur[p] - 1 \in 0 .. Len(log)
  BY <1>1, <1>2
<1>4. pc[p] \in InHand => Booked(cur[p] - 1)'
  BY <1>3, BookedKept DEF Behind, Booked
<1>5. Booked(pos[p]) => Booked(pos[p])'
  BY <1>2, BookedKept DEF Booked
<1> QED
  BY <1>4, <1>5 DEF Behind

\* Modes C and D: a posting and its inbox row appear in the same step.
LEMMA ExactlyOnceStep == PInv /\ ExactlyOnce /\ [Next]_vars => ExactlyOnce'
<1> SUFFICES ASSUME PInv, ExactlyOnce, [Next]_vars
             PROVE  ExactlyOnce'
  OBVIOUS
<1>1. ASSUME NEW p \in Procs, CommitApply(p) \/ CommitApplyUnacknowledged(p)
      PROVE  ExactlyOnce'
  <2>1. /\ pc[p] = "claimed"
        /\ mode' = mode
        /\ \/ PostingIsNew(log[cur[p]]) /\ Record(log[cur[p]])
           \/ UNCHANGED tables
    BY <1>1 DEF CommitApply, CommitApplyUnacknowledged
  <2>2. log[cur[p]] \in Messages
    BY <2>1, RecordInLog
  <2>3. CASE UNCHANGED tables
    BY <2>1, <2>3 DEF ExactlyOnce, tables
  <2>4. CASE PostingIsNew(log[cur[p]]) /\ Record(log[cur[p]])
    BY <2>1, <2>2, <2>4, RecordGrows DEF PInv, ExactlyOnce, PostingIsNew
  <2> QED
    BY <2>1, <2>3, <2>4
<1>2. CASE UNCHANGED <<mode, tables>>
  BY <1>2 DEF ExactlyOnce, tables
<1> QED
  BY <1>1, <1>2
     DEF Next, Step, Failure, Idle, vars, tables, Produce, Join, Rebalance, Assign, EmptyPoll,
         Restart, Poll, Reject, Claim, Commit, CommitAborted, Exit, CommitTransient, CommitFatal,
         LoseCommit

\* A process that has come to its next record has booked the one before.
LEMMA AdvanceBehind ==
    ASSUME PInv, Grows, NEW p \in Procs, pc[p] \in {"apply", "claimed"}, Behind(p),
           Advance(p), mode # "A", applied'[log[cur[p]]] > 0
    PROVE  Behind(p)'
<1>1. cur[p] \in 1 .. Len(log) /\ Len(log) \in Nat /\ pos[p] \in 0 .. Len(log)
  BY RecordInLog DEF PInv, TypeOK
<1>2. /\ cur'[p] = cur[p] + 1
      /\ pc'[p] \in {"apply", "commit"}
      /\ pos'[p] = pos[p] /\ end'[p] = end[p]
  BY DEF Advance, PInv, TypeOK
<1>3. Booked(cur[p] - 1)
  BY DEF Behind, InHand
<1>4. \A i \in 1 .. cur[p] - 1 : applied'[log'[i]] > 0
  BY <1>1, <1>3, BookedKept
<1>5. applied'[log'[cur[p]]] > 0
  BY <1>1 DEF Grows
<1>6. \A i \in 1 .. cur[p] : applied'[log'[i]] > 0
  BY <1>1, <1>4, <1>5
<1>7. cur'[p] - 1 = cur[p]
  BY <1>1, <1>2
<1>8. Booked(cur[p] - 1)'
  BY <1>6, <1>7 DEF Booked
<1>9. Booked(pos[p]) => Booked(pos[p])'
  BY <1>1, <1>2, BookedKept DEF Booked
<1> QED
  BY <1>2, <1>8, <1>9 DEF Behind, InHand

\* A process that has ended knows nothing, and needs nothing.
LEMMA StopBehind ==
    ASSUME PInv, NEW p \in Procs, Stop(p)
    PROVE  Behind(p)'
<1>1. pc'[p] = "down" /\ pos'[p] = 0
  BY DEF Stop, PInv, TypeOK
<1> QED
  BY <1>1 DEF Behind, Booked, InHand

\* A batch that is committed is booked to its end.
LEMMA CommitBooked ==
    ASSUME PInv, mode # "A", NEW p \in Procs, pc[p] \in {"commitFirst", "commit"}, Behind(p)
    PROVE  pc[p] = "commit" /\ Booked(end[p]) /\ Booked(pos[p]) /\ end[p] \in 0 .. Len(log)
<1>1. pc[p] = "commit" /\ cur[p] = end[p] + 1 /\ end[p] \in 0 .. Len(log) /\ Len(log) \in Nat
  BY DEF PInv, TypeOK, Positions
<1>2. cur[p] - 1 = end[p]
  BY <1>1
<1> QED
  BY <1>1, <1>2 DEF Behind, InHand

\* Every step of modes B, C and D keeps the offsets behind the effects.
LEMMA EffectStep == EffectInv /\ [Next]_vars => EffectInv'
<1> SUFFICES ASSUME EffectInv, [Next]_vars
             PROVE  EffectInv'
  OBVIOUS
<1>1. PInv /\ PInv' /\ Grows /\ ExactlyOnce' /\ ExactlyOnce
  BY PositionsStep, NextGrows, ExactlyOnceStep DEF EffectInv
<1> SUFFICES ASSUME mode # "A"
             PROVE  Booked(committed)' /\ \A p \in Procs : Behind(p)'
  BY <1>1 DEF EffectInv, Grows
<1>2. Booked(committed) /\ \A p \in Procs : Behind(p)
  BY DEF EffectInv
<1>3. Len(log) \in Nat /\ committed \in 0 .. Len(log)
  BY <1>1 DEF PInv, TypeOK
<1>4. committed' = committed => Booked(committed)'
  BY <1>1, <1>2, <1>3, BookedKept DEF Booked
<1> DEFINE Moves(p) == \A q \in Procs \ {p} : /\ pc'[q] = pc[q] /\ pos'[q] = pos[q]
                                            /\ cur'[q] = cur[q] /\ end'[q] = end[q]
<1>5. ASSUME NEW p \in Procs, Moves(p), Behind(p)'
      PROVE  \A q \in Procs : Behind(q)'
  BY <1>1, <1>2, <1>5, BehindKept
<1> HIDE DEF Moves
<1>6. ASSUME NEW m \in Messages, Produce(m)
      PROVE  Booked(committed)' /\ \A p \in Procs : Behind(p)'
  <2>1. committed' = committed /\ UNCHANGED <<pc, pos, cur, end>>
    BY <1>6 DEF Produce, process
  <2> QED
    BY <1>1, <1>2, <1>4, <2>1, BehindKept
<1>7. ASSUME NEW p \in Procs, Join(p) \/ Rebalance(p) \/ EmptyPoll(p)
      PROVE  Booked(committed)' /\ \A q \in Procs : Behind(q)'
  <2>1. /\ pos' = [pos EXCEPT ![p] = committed]
        /\ UNCHANGED <<committed, pc, cur, end, log, applied>>
    BY <1>7 DEF Join, Rebalance, Assign, EmptyPoll, tables
  <2>2. Moves(p) /\ pos'[p] = committed
    BY <1>1, <2>1 DEF Moves, PInv, TypeOK
  <2>3. Behind(p)'
    BY <1>2, <2>1, <2>2 DEF Behind, Booked
  <2> QED
    BY <1>4, <1>5, <2>1, <2>2, <2>3
<1>8. ASSUME NEW p \in Procs, Restart(p)
      PROVE  Booked(committed)' /\ \A q \in Procs : Behind(q)'
  <2>1. /\ pc' = [pc EXCEPT ![p] = "poll"] /\ pc[p] = "down"
        /\ UNCHANGED <<committed, pos, cur, end, log, applied>>
    BY <1>8 DEF Restart, tables
  <2>2. Moves(p) /\ pc'[p] = "poll"
    BY <1>1, <2>1 DEF Moves, PInv, TypeOK
  <2>3. Behind(p)'
    BY <1>2, <2>1, <2>2 DEF Behind, Booked, InHand
  <2> QED
    BY <1>4, <1>5, <2>1, <2>2, <2>3
<1>9. ASSUME NEW p \in Procs, Poll(p)
      PROVE  Booked(committed)' /\ \A q \in Procs : Behind(q)'
  <2>1. PICK n \in Nat \ {0} :
               /\ pos[p] + n <= Len(log)
               /\ cur' = [cur EXCEPT ![p] = pos[p] + 1]
               /\ end' = [end EXCEPT ![p] = pos[p] + n]
               /\ pos' = [pos EXCEPT ![p] = pos[p] + n]
    BY <1>1, <1>9, PollBatch DEF PInv
  <2>2. /\ pc[p] = "poll" /\ pc' = [pc EXCEPT ![p] = "apply"]
        /\ UNCHANGED <<committed, log, applied>>
    BY <1>9 DEF Poll, AfterPoll, tables
  <2>3. /\ Moves(p) /\ pc'[p] = "apply"
        /\ cur'[p] = pos[p] + 1 /\ pos'[p] = end'[p]
    BY <1>1, <2>1, <2>2 DEF Moves, PInv, TypeOK
  <2>4. pos[p] \in Nat
    BY <1>1, <1>3 DEF PInv, TypeOK
  <2>5. cur'[p] - 1 = pos[p]
    BY <2>3, <2>4
  <2>6. Booked(pos[p])
    BY <1>2, <2>2 DEF Behind, InHand
  <2>7. Behind(p)'
    BY <2>2, <2>3, <2>5, <2>6 DEF Behind, Booked, InHand
  <2> QED
    BY <1>4, <1>5, <2>2, <2>3, <2>7
<1>10. ASSUME NEW p \in Procs, Exit(p) \/ Reject(p)
       PROVE  Booked(committed)' /\ \A q \in Procs : Behind(q)'
  <2>1. Stop(p) /\ committed' = committed
    BY <1>10 DEF Exit, Reject
  <2>2. Moves(p)
    BY <1>1, <2>1 DEF Moves, PInv, TypeOK, Stop
  <2> QED
    BY <1>1, <1>4, <1>5, <2>1, <2>2, StopBehind
<1>11. ASSUME NEW p \in Procs, Claim(p)
       PROVE  Booked(committed)' /\ \A q \in Procs : Behind(q)'
  <2>1. pc[p] = "apply" /\ UNCHANGED <<committed, log, applied>>
    BY <1>11 DEF Claim, tables
  <2>2. CASE Deduplicates(mode) /\ log[cur[p]] \in inbox
    <3>1. Advance(p)
      BY <1>11, <2>2 DEF Claim
    <3>2. Moves(p)
      BY <1>1, <3>1 DEF Moves, PInv, TypeOK, Advance
    <3>3. log[cur[p]] \in Messages
      BY <1>1, <2>1, RecordInLog
    <3>4. applied'[log[cur[p]]] > 0
      BY <1>1, <2>1, <2>2, <3>3 DEF ExactlyOnce
    <3> QED
      BY <1>1, <1>2, <1>4, <1>5, <2>1, <3>1, <3>2, <3>4, AdvanceBehind
  <2>3. CASE ~(Deduplicates(mode) /\ log[cur[p]] \in inbox)
    <3>1. pc' = [pc EXCEPT ![p] = "claimed"] /\ UNCHANGED <<pos, cur, end>>
      BY <1>11, <2>3 DEF Claim
    <3>2. Moves(p) /\ pc'[p] = "claimed"
      BY <1>1, <3>1 DEF Moves, PInv, TypeOK
    <3>3. Behind(p)'
      BY <1>2, <2>1, <3>1, <3>2 DEF Behind, Booked, InHand
    <3> QED
      BY <1>4, <1>5, <2>1, <3>2, <3>3
  <2> QED
    BY <2>2, <2>3
<1>12. ASSUME NEW p \in Procs, CommitApply(p) \/ CommitApplyUnacknowledged(p)
       PROVE  Booked(committed)' /\ \A q \in Procs : Behind(q)'
  <2>1. /\ pc[p] = "claimed" /\ UNCHANGED <<committed, log>>
        /\ Stop(p) \/ (Record(log[cur[p]]) /\ Advance(p))
    BY <1>12 DEF CommitApply, CommitApplyUnacknowledged
  <2>2. Moves(p)
    BY <1>1, <2>1 DEF Moves, PInv, TypeOK, Stop, Advance
  <2>3. CASE Stop(p)
    BY <1>1, <1>4, <1>5, <2>1, <2>2, <2>3, StopBehind
  <2>4. CASE Record(log[cur[p]]) /\ Advance(p)
    <3>1. log[cur[p]] \in Messages
      BY <1>1, <2>1, RecordInLog
    <3>2. applied'[log[cur[p]]] > 0
      BY <1>1, <2>4, <3>1, RecordGrows DEF PInv
    <3> QED
      BY <1>1, <1>2, <1>4, <1>5, <2>1, <2>2, <2>4, <3>2, AdvanceBehind
  <2> QED
    BY <2>1, <2>3, <2>4
<1>13. ASSUME NEW p \in Procs,
              Commit(p) \/ CommitAborted(p) \/ CommitTransient(p) \/ CommitFatal(p)
       PROVE  Booked(committed)' /\ \A q \in Procs : Behind(q)'
  <2>1. /\ pc[p] \in {"commitFirst", "commit"}
        /\ committed' \in {committed, end[p]}
        /\ UNCHANGED <<log, applied>>
        /\ \/ Stop(p)
           \/ /\ pc' = [pc EXCEPT ![p] = "poll"]
              /\ pos' = pos \/ pos' = [pos EXCEPT ![p] = committed']
              /\ UNCHANGED <<cur, end>>
    BY <1>13 DEF Commit, CommitAborted, CommitTransient, CommitFatal, MayCommit, AfterCommit,
                 Deferred, tables
  <2>2. Booked(end[p]) /\ Booked(pos[p])
    BY <1>1, <1>2, <2>1, CommitBooked
  <2>3. Booked(committed)'
    BY <1>2, <2>1, <2>2 DEF Booked
  <2>4. CASE Stop(p)
    <3>1. Moves(p)
      BY <1>1, <2>4 DEF Moves, PInv, TypeOK, Stop
    <3> QED
      BY <1>1, <1>5, <2>3, <2>4, <3>1, StopBehind
  <2>5. CASE /\ pc' = [pc EXCEPT ![p] = "poll"]
             /\ pos' = pos \/ pos' = [pos EXCEPT ![p] = committed']
             /\ UNCHANGED <<cur, end>>
    <3>1. Moves(p) /\ pc'[p] = "poll" /\ pos'[p] \in {pos[p], committed'}
      BY <1>1, <2>5 DEF Moves, PInv, TypeOK
    <3>2. Behind(p)'
      BY <2>1, <2>2, <2>3, <3>1 DEF Behind, Booked, InHand
    <3> QED
      BY <1>5, <2>3, <3>1, <3>2
  <2> QED
    BY <2>1, <2>4, <2>5
<1>14. CASE UNCHANGED vars
  BY <1>1, <1>2, <1>4, <1>14, BehindKept DEF vars
<1>15. CASE LoseCommit
  <2>1. /\ committed' \in 0 .. committed - 1
        /\ UNCHANGED <<log, applied, pc, pos, cur, end>>
    BY <1>15 DEF LoseCommit, process, tables
  <2>2. Booked(committed)'
    BY <1>2, <1>3, <2>1 DEF Booked
  <2> QED
    BY <1>1, <1>2, <2>1, <2>2, BehindKept
<1> QED
  BY <1>6, <1>7, <1>8, <1>9, <1>10, <1>11, <1>12, <1>13, <1>14, <1>15 DEF Next, Step, Failure, Idle

\* Booked(0) holds of the empty ledger.
LEMMA EffectInit == Init => EffectInv
<1> SUFFICES ASSUME Init
             PROVE  EffectInv
  OBVIOUS
<1>1. PInv
  BY PositionsInit
<1>2. ExactlyOnce
  BY DEF Init, ExactlyOnce
<1>3. Booked(committed) /\ \A p \in Procs : Behind(p)
  BY DEF Init, Booked, Behind, InHand
<1> QED
  BY <1>1, <1>2, <1>3 DEF EffectInv

LEMMA EffectInvariant == Spec => []EffectInv
BY EffectInit, EffectStep, PTL DEF Spec

\* Modes C and D book a message once, however often it is delivered, to however
\* many processes, and whatever fails in between.
THEOREM MessagesAreAppliedOnce == Spec => []ExactlyOnce
<1>1. EffectInv => ExactlyOnce
  BY DEF EffectInv
<1> QED
  BY <1>1, EffectInvariant, PTL

\* Modes B, C and D never commit an offset past a record that is not booked.
THEOREM NothingIsLost == Spec => []NoLoss
<1>1. EffectInv => NoLoss
  BY DEF EffectInv, NoLoss, Booked
<1> QED
  BY <1>1, EffectInvariant, PTL

\* Nor does a process pass a record of its batch that is not booked.
THEOREM BatchIsBookedInOrder == Spec => []CommitAfterEffect
<1>1. EffectInv => CommitAfterEffect
  BY DEF EffectInv, CommitAfterEffect, Behind, Booked
<1> QED
  BY <1>1, EffectInvariant, PTL

-----------------------------------------------------------------------------
\* Part 3.  Mode A while no batch in hand is reassigned and no commit is lost.

\* How often m is among the first n records, and that m is booked no oftener.
Count(n, m) == Cardinality({i \in 1 .. n : log[i] = m})
Within(n) == \A m \in Messages : applied[m] <= Count(n, m)

\* A process that has a batch has the partition and has polled nothing since;
\* what is booked was committed before, and of the batch in hand only the
\* records already passed are booked.
Settled ==
    /\ \A p \in Procs : pc[p] \in InHand => owner = p /\ pos[p] = end[p]
    /\ owner # NoProc => committed <= pos[owner]
    /\ \A p \in Procs : pc[p] = "commitFirst" => committed < cur[p]
    /\ \A p \in Procs : pc[p] \in {"apply", "claimed"} =>
                            committed = end[p] /\ Within(cur[p] - 1)
    /\ (\A p \in Procs : pc[p] \notin {"apply", "claimed"}) => Within(committed)

SettledInv == PInv /\ (mode = "A" /\ ~unsettled => Settled)

\* Counting one record further, and further still.
LEMMA CountFacts ==
    ASSUME NEW n \in Nat, NEW m
    PROVE  /\ Count(n, m) \in Nat
           /\ \A k \in Nat : n <= k => Count(n, m) <= Count(k, m)
           /\ log[n + 1] = m => Count(n + 1, m) = Count(n, m) + 1
<1> DEFINE S(k) == {i \in 1 .. k : log[i] = m}
<1>1. ASSUME NEW k \in Nat
      PROVE  IsFiniteSet(S(k)) /\ Cardinality(S(k)) \in Nat
  <2>1. IsFiniteSet(1 .. k)
    BY FS_Interval
  <2>2. S(k) \subseteq 1 .. k
    OBVIOUS
  <2> QED
    BY <2>1, <2>2, FS_Subset, FS_CardinalityType
<1>2. ASSUME NEW k \in Nat, n <= k
      PROVE  Cardinality(S(n)) <= Cardinality(S(k))
  <2>1. S(n) \subseteq S(k)
    BY <1>2
  <2> QED
    BY <1>1, <2>1, FS_Subset
<1>3. ASSUME log[n + 1] = m
      PROVE  Cardinality(S(n + 1)) = Cardinality(S(n)) + 1
  <2>1. S(n + 1) = S(n) \cup {n + 1}
    BY <1>3
  <2>2. n + 1 \notin S(n)
    OBVIOUS
  <2> QED
    BY <1>1, <2>1, <2>2, FS_AddElement
<1> QED
  BY <1>1, <1>2, <1>3 DEF Count

\* The records counted stay where they are.
LEMMA CountKept ==
    ASSUME PInv, Grows, NEW n \in 0 .. Len(log), NEW m
    PROVE  Cardinality({i \in 1 .. n : log'[i] = m}) = Count(n, m)
<1>1. Len(log) \in Nat
  BY DEF PInv, TypeOK
<1>2. {i \in 1 .. n : log'[i] = m} = {i \in 1 .. n : log[i] = m}
  BY <1>1 DEF Grows
<1> QED
  BY <1>2 DEF Count

\* A bound on what is booked keeps when records are added or the bound is raised.
LEMMA WithinKept ==
    ASSUME PInv, Grows, applied' = applied,
           NEW n \in 0 .. Len(log), NEW k \in 0 .. Len(log), n <= k, Within(n)
    PROVE  \A m \in Messages : applied'[m] <= Cardinality({i \in 1 .. k : log'[i] = m})
<1>1. Len(log) \in Nat /\ applied \in [Messages -> Nat]
  BY DEF PInv, TypeOK
<1>2. n \in Nat /\ k \in Nat
  BY <1>1
<1>3. TAKE m \in Messages
<1>4. applied[m] <= Count(n, m) /\ applied[m] \in Nat
  BY <1>1 DEF Within
<1>5. Count(n, m) \in Nat /\ Count(k, m) \in Nat /\ Count(n, m) <= Count(k, m)
  BY <1>2, CountFacts
<1>6. applied'[m] <= Count(k, m)
  BY <1>4, <1>5
<1> QED
  BY <1>6, CountKept

\* One posting more for the record at hand.
LEMMA WithinRecord ==
    ASSUME PInv, NEW p \in Procs, pc[p] = "claimed", Record(log[cur[p]]), UNCHANGED log,
           Within(cur[p] - 1), NEW k \in 0 .. Len(log), cur[p] <= k
    PROVE  \A m \in Messages : applied'[m] <= Cardinality({i \in 1 .. k : log'[i] = m})
<1>1. /\ Len(log) \in Nat /\ applied \in [Messages -> Nat] /\ MaxLog \in Nat
      /\ cur[p] \in 1 .. Len(log) /\ log[cur[p]] \in Messages
  <2>1. log \in Seq(Messages) /\ applied \in [Messages -> Nat]
    BY DEF PInv, TypeOK
  <2>2. MaxLog \in Nat
    BY ConsumerAssumption
  <2>3. cur[p] \in 1 .. Len(log) /\ log[cur[p]] \in Messages
    BY RecordInLog
  <2> QED
    BY <2>1, <2>2, <2>3
<1>2. cur[p] - 1 \in Nat /\ k \in Nat /\ cur[p] - 1 <= k /\ cur[p] = (cur[p] - 1) + 1
  BY <1>1
<1>3. TAKE m \in Messages
<1>4. applied[m] <= Count(cur[p] - 1, m) /\ applied[m] \in Nat
  BY <1>1 DEF Within
<1>5. /\ Count(cur[p] - 1, m) \in Nat /\ Count(k, m) \in Nat /\ Count(cur[p], m) \in Nat
      /\ Count(cur[p] - 1, m) <= Count(k, m)
      /\ Count(cur[p], m) <= Count(k, m)
      /\ log[cur[p]] = m => Count(cur[p], m) = Count(cur[p] - 1, m) + 1
  <2>1. cur[p] \in Nat
    BY <1>1
  <2> QED
    BY <1>2, <2>1, CountFacts
<1>6. applied'[m] <= IF log[cur[p]] = m THEN applied[m] + 1 ELSE applied[m]
  BY <1>1, <1>4 DEF Record, Book
<1>7. applied'[m] \in Nat
  BY <1>1, RecordKeeps DEF PInv
<1>8. applied'[m] <= Count(k, m)
  BY <1>4, <1>5, <1>6, <1>7
<1> QED
  BY <1>8 DEF Count

\* Every step of mode A that takes no batch away and loses no commit keeps Settled.
LEMMA SettledStep == SettledInv /\ [Next]_vars => SettledInv'
<1> SUFFICES ASSUME SettledInv, [Next]_vars
             PROVE  SettledInv'
  OBVIOUS
<1>1. PInv /\ PInv' /\ Grows
  BY PositionsStep, NextGrows DEF SettledInv
<1>2. mode' = mode /\ (unsettled => unsettled')
  <2>1. (\E p \in Procs : Assign(p)) \/ LoseCommit => (unsettled => unsettled')
    BY DEF Assign, LoseCommit
  <2>2. (\E p \in Procs : Assign(p)) \/ LoseCommit \/ UNCHANGED unsettled
    BY DEF Next, Step, Failure, Idle, vars, Produce, Join, Rebalance, EmptyPoll, Restart, Poll,
           Reject, Claim, CommitApply, CommitApplyUnacknowledged, Commit, CommitAborted, Exit,
           CommitTransient, CommitFatal
  <2> QED
    BY <1>1, <2>1, <2>2 DEF Grows
<1> SUFFICES ASSUME mode = "A", ~unsettled, ~unsettled'
             PROVE  Settled'
  BY <1>1, <1>2 DEF SettledInv
<1>3. Settled
  BY DEF SettledInv
<1>4. /\ log \in Seq(Messages) /\ Len(log) \in Nat /\ committed \in 0 .. Len(log)
      /\ pos \in [Procs -> 0 .. Len(log)] /\ end \in [Procs -> 0 .. Len(log)]
      /\ cur \in [Procs -> 1 .. Len(log) + 1] /\ pc \in [Procs -> Alive \cup {"down"}]
      /\ owner \in Procs \cup {NoProc} /\ NoProc \notin Procs
  <2>1. TypeOK
    BY <1>1 DEF PInv
  <2>2. log \in Seq(Messages) /\ committed \in 0 .. Len(log)
    BY <2>1 DEF TypeOK
  <2>3. /\ pos \in [Procs -> 0 .. Len(log)] /\ end \in [Procs -> 0 .. Len(log)]
        /\ cur \in [Procs -> 1 .. Len(log) + 1] /\ pc \in [Procs -> Alive \cup {"down"}]
        /\ owner \in Procs \cup {NoProc}
    BY <2>1 DEF TypeOK
  <2> QED
    BY <2>2, <2>3, ConsumerAssumption
<1>5. ASSUME UNCHANGED applied, Within(committed), committed' = committed
      PROVE  Within(committed)'
  <2>1. committed \in 0 .. Len(log) /\ committed <= committed
    BY <1>4
  <2>2. \A m \in Messages : applied'[m] <= Cardinality({i \in 1 .. committed : log'[i] = m})
    BY <1>1, <1>5, <2>1, WithinKept
  <2> QED
    BY <1>5, <2>2 DEF Within, Count
<1>6. ASSUME NEW m \in Messages, Produce(m)
      PROVE  Settled'
  <2>1. UNCHANGED <<committed, owner, pc, pos, cur, end, applied>>
    BY <1>6 DEF Produce, process, tables
  <2>2. ASSUME NEW p \in Procs, pc[p] \in {"apply", "claimed"}
        PROVE  Within(cur[p] - 1)'
    <3>1. Within(cur[p] - 1) /\ cur[p] \in 1 .. Len(log) + 1
      BY <1>3, <1>4, <2>2 DEF Settled
    <3>2. cur[p] - 1 \in 0 .. Len(log) /\ cur[p] - 1 <= cur[p] - 1
      BY <1>4, <3>1
    <3>3. \A k \in Messages : applied'[k] <= Cardinality({i \in 1 .. cur[p] - 1 : log'[i] = k})
      BY <1>1, <2>1, <3>1, <3>2, WithinKept
    <3> QED
      BY <2>1, <3>3 DEF Within, Count
  <2> QED
    BY <1>3, <1>5, <2>1, <2>2 DEF Settled
<1>7. ASSUME NEW p \in Procs, Join(p) \/ Rebalance(p)
      PROVE  Settled'
  <2>1. /\ owner' = p /\ pos' = [pos EXCEPT ![p] = committed]
        /\ \A q \in Procs : pc[q] \notin InHand
        /\ UNCHANGED <<committed, pc, cur, end, applied>>
    BY <1>7 DEF Join, Rebalance, Assign, tables
  <2>2. Within(committed)'
    BY <1>3, <1>5, <2>1 DEF Settled, InHand
  <2> QED
    BY <1>4, <2>1, <2>2 DEF Settled, InHand
<1>8. ASSUME NEW p \in Procs, Restart(p)
      PROVE  Settled'
  <2>1. /\ pc' = [pc EXCEPT ![p] = "poll"] /\ pc[p] = "down"
        /\ UNCHANGED <<committed, owner, pos, cur, end, log, applied>>
    BY <1>8 DEF Restart, tables
  <2>2. \A q \in Procs : pc'[q] = pc[q] \/ (pc[q] = "down" /\ pc'[q] = "poll")
    BY <1>4, <2>1
  <2>3. \A n : Within(n) => \A m \in Messages : applied'[m] <= Cardinality({i \in 1 .. n : log'[i] = m})
    BY <2>1 DEF Within, Count
  <2> QED
    BY <1>3, <2>1, <2>2, <2>3 DEF Settled, InHand, Within, Count
<1>9. ASSUME NEW p \in Procs, Poll(p)
      PROVE  Settled'
  <2>1. PICK n \in Nat \ {0} :
               /\ pos[p] + n <= Len(log)
               /\ cur' = [cur EXCEPT ![p] = pos[p] + 1]
               /\ end' = [end EXCEPT ![p] = pos[p] + n]
               /\ pos' = [pos EXCEPT ![p] = pos[p] + n]
    BY <1>1, <1>9, PollBatch DEF PInv
  <2>2. /\ pc[p] = "poll" /\ owner = p /\ pc' = [pc EXCEPT ![p] = "commitFirst"]
        /\ UNCHANGED <<committed, owner, applied>>
    BY <1>9 DEF Poll, AfterPoll, tables
  <2>3. \A q \in Procs : pc[q] \notin InHand
    BY <1>3, <2>2 DEF Settled, InHand
  <2>4. \A q \in Procs : pc'[q] = IF q = p THEN "commitFirst" ELSE pc[q]
    BY <1>4, <2>2
  <2>5. committed <= pos[p] /\ committed \in Nat /\ pos[p] \in Nat
    BY <1>3, <1>4, <2>2 DEF Settled
  <2>6. cur'[p] = pos[p] + 1 /\ pos'[p] = pos[p] + n /\ end'[p] = pos'[p]
    BY <1>4, <2>1
  <2>7. committed < cur'[p] /\ committed <= pos'[p]
    BY <2>5, <2>6
  <2>8. Within(committed)'
    BY <1>3, <1>5, <2>2, <2>3 DEF Settled, InHand
  <2> QED
    BY <2>2, <2>3, <2>4, <2>6, <2>7, <2>8 DEF Settled, InHand
<1>10. ASSUME NEW p \in Procs, pc[p] \in InHand, Stop(p), Within(committed)'
       PROVE  Settled'
  <2>1. /\ \A q \in Procs : pc'[q] = IF q = p THEN "down" ELSE pc[q]
        /\ owner' = IF owner = p THEN NoProc ELSE owner
    BY <1>4, <1>10 DEF Stop
  <2>2. owner = p /\ \A q \in Procs \ {p} : pc[q] \notin InHand
    BY <1>3, <1>10 DEF Settled
  <2> QED
    BY <1>10, <2>1, <2>2 DEF Settled, InHand
<1>11. ASSUME NEW p \in Procs, Exit(p) \/ Reject(p)
       PROVE  Settled'
  <2>1. Stop(p) /\ pc[p] \in Alive /\ UNCHANGED <<log, committed, applied>>
    BY <1>11 DEF Exit, Reject, Alive, InHand, tables
  <2>2. CASE pc[p] = "poll"
    <3>1. /\ \A q \in Procs : pc'[q] = IF q = p THEN "down" ELSE pc[q]
          /\ \A q \in Procs \ {p} : pos'[q] = pos[q] /\ cur'[q] = cur[q] /\ end'[q] = end[q]
          /\ owner' = IF owner = p THEN NoProc ELSE owner
      BY <1>4, <2>1 DEF Stop
    <3>2. \A n : Within(n) => \A m \in Messages : applied'[m] <= Cardinality({i \in 1 .. n : log'[i] = m})
      BY <2>1 DEF Within, Count
    <3>3. Within(committed) => Within(committed)'
      BY <2>1, <3>2 DEF Within, Count
    <3>4. \A q \in Procs : pc'[q] \in {"apply", "claimed"} =>
                              committed' = end'[q] /\ Within(cur[q] - 1)'
      <4>1. ASSUME NEW q \in Procs, pc'[q] \in {"apply", "claimed"}
            PROVE  committed' = end'[q] /\ Within(cur[q] - 1)'
        <5>1. q # p /\ pc[q] \in {"apply", "claimed"} /\ cur'[q] = cur[q] /\ end'[q] = end[q]
          BY <3>1, <4>1
        <5>2. committed = end[q] /\ Within(cur[q] - 1)
          BY <1>3, <5>1 DEF Settled
        <5>3. Within(cur'[q] - 1)
          BY <5>1, <5>2
        <5>4. Within(cur[q] - 1)'
          BY <2>1, <5>3 DEF Within, Count
        <5> QED
          BY <2>1, <5>1, <5>2, <5>4
      <4> QED
        BY <4>1
    <3>5. \A q \in Procs : pc'[q] \in InHand =>
                              /\ owner' = q /\ pos'[q] = end'[q]
                              /\ pc'[q] = "commitFirst" => committed' < cur'[q]
      <4>1. ASSUME NEW q \in Procs, pc'[q] \in InHand
            PROVE  /\ owner' = q /\ pos'[q] = end'[q]
                   /\ pc'[q] = "commitFirst" => committed' < cur'[q]
        <5>1. q # p /\ pc'[q] = pc[q]
          BY <3>1, <4>1 DEF InHand
        <5>2. /\ owner = q /\ pos[q] = end[q]
              /\ pc[q] = "commitFirst" => committed < cur[q]
          BY <1>3, <4>1, <5>1 DEF Settled
        <5> QED
          BY <2>1, <3>1, <5>1, <5>2
      <4> QED
        BY <4>1
    <3>6. owner' # NoProc => committed' <= pos'[owner']
      BY <1>3, <1>4, <2>1, <3>1 DEF Settled
    <3>7. (\A q \in Procs : pc'[q] \notin {"apply", "claimed"}) => Within(committed)'
      BY <1>3, <2>2, <3>1, <3>3 DEF Settled
    <3> QED
      BY <3>4, <3>5, <3>6, <3>7 DEF Settled, InHand
  <2>3. CASE pc[p] = "commitFirst"
    <3>1. Within(committed)
      BY <1>3, <2>3 DEF Settled, InHand
    <3> QED
      BY <1>5, <1>10, <2>1, <2>3, <3>1 DEF InHand
  <2>4. CASE pc[p] \in {"apply", "claimed"}
    <3>1. /\ cur[p] \in 1 .. Len(log) /\ cur[p] <= end[p]
          /\ end[p] \in 0 .. Len(log)
          /\ committed = end[p] /\ Within(cur[p] - 1)
      BY <1>1, <1>3, <1>4, <2>4, RecordInLog DEF Settled, PInv, Positions
    <3>2. /\ cur[p] - 1 \in 0 .. Len(log)
          /\ cur[p] - 1 <= committed
      BY <1>4, <3>1
    <3>3. \A m \in Messages : applied'[m] <= Cardinality({i \in 1 .. committed : log'[i] = m})
      BY <1>1, <1>4, <2>1, <3>1, <3>2, WithinKept
    <3> QED
      BY <1>10, <2>1, <2>4, <3>3 DEF Within, Count, InHand
  <2>5. pc[p] # "commit"
    BY <1>1 DEF PInv, Positions
  <2> QED
    BY <2>1, <2>2, <2>3, <2>4, <2>5 DEF Alive, InHand
<1>12. ASSUME NEW p \in Procs, Claim(p)
       PROVE  Settled'
  <2>1. /\ pc[p] = "apply" /\ pc' = [pc EXCEPT ![p] = "claimed"]
        /\ UNCHANGED <<pos, cur, end, log, committed, owner, applied>>
    BY <1>12 DEF Claim, Deduplicates, tables
  <2>2. \A q \in Procs : pc'[q] = IF q = p THEN "claimed" ELSE pc[q]
    BY <1>4, <2>1
  <2>3. \A n : Within(n) => \A m \in Messages : applied'[m] <= Cardinality({i \in 1 .. n : log'[i] = m})
    BY <2>1 DEF Within, Count
  <2>4. \A q \in Procs : pc'[q] \in {"apply", "claimed"} <=> pc[q] \in {"apply", "claimed"}
    BY <2>1, <2>2
  <2> QED
    BY <1>3, <2>1, <2>2, <2>3, <2>4 DEF Settled, InHand, Within, Count
<1>13. ASSUME NEW p \in Procs, CommitApply(p) \/ CommitApplyUnacknowledged(p)
       PROVE  Settled'
  <2>1. /\ pc[p] = "claimed" /\ Record(log[cur[p]])
        /\ UNCHANGED <<log, committed>>
        /\ Stop(p) \/ (Advance(p) /\ UNCHANGED owner)
    BY <1>13 DEF CommitApply, CommitApplyUnacknowledged, PostingIsNew, Deduplicates
  <2>2. /\ cur[p] \in 1 .. Len(log) /\ cur[p] <= end[p] /\ end[p] \in 0 .. Len(log)
        /\ committed = end[p] /\ Within(cur[p] - 1)
    BY <1>1, <1>3, <1>4, <2>1, RecordInLog DEF Settled, PInv, Positions
  <2>3. \A q \in Procs \ {p} : pc[q] \notin InHand
    BY <1>3, <2>1 DEF Settled, InHand
  <2>4. \A k \in 0 .. Len(log) : cur[p] <= k =>
            \A m \in Messages : applied'[m] <= Cardinality({i \in 1 .. k : log'[i] = m})
    BY <1>1, <2>1, <2>2, WithinRecord
  <2>5. CASE Stop(p)
    <3>1. Within(committed)'
      BY <2>1, <2>2, <2>4 DEF Within, Count
    <3> QED
      BY <1>10, <2>1, <2>5, <3>1 DEF InHand
  <2>6. CASE Advance(p) /\ UNCHANGED owner
    <3>1. /\ pc'[p] = IF cur[p] < end[p] THEN "apply" ELSE "poll"
          /\ \A q \in Procs \ {p} : pc'[q] = pc[q]
          /\ cur'[p] = cur[p] + 1 /\ UNCHANGED <<pos, end>>
      BY <1>4, <2>6 DEF Advance
    <3>2. cur'[p] - 1 = cur[p] /\ cur[p] \in 0 .. Len(log) /\ cur[p] <= cur[p]
      BY <1>4, <2>2, <3>1
    <3>3. Within(cur[p] - 1)'
      BY <2>4, <3>2 DEF Within, Count
    <3>4. Within(committed)'
      BY <2>1, <2>2, <2>4 DEF Within, Count
    <3> QED
      BY <1>3, <2>1, <2>2, <2>3, <2>6, <3>1, <3>3, <3>4 DEF Settled, InHand
  <2> QED
    BY <2>1, <2>5, <2>6
<1>14. ASSUME NEW p \in Procs, Commit(p) \/ CommitTransient(p) \/ CommitFatal(p)
       PROVE  Settled'
  <2>1. /\ pc[p] = "commitFirst"
        /\ UNCHANGED <<log, applied>>
        /\ \/ /\ Stop(p) /\ committed' = end[p]
           \/ /\ pc' = [pc EXCEPT ![p] = "apply"] /\ committed' = end[p]
              /\ UNCHANGED <<owner, pos, cur, end>>
           \/ /\ pc' = [pc EXCEPT ![p] = "poll"] /\ committed' \in {committed, end[p]}
              /\ UNCHANGED <<owner, pos, cur, end>>
    BY <1>1, <1>14 DEF Commit, CommitTransient, CommitFatal, MayCommit, AfterCommit, Deferred,
                       tables, PInv, Positions
  <2>2. /\ owner = p /\ pos[p] = end[p] /\ committed < cur[p]
        /\ \A q \in Procs \ {p} : pc[q] \notin InHand
        /\ Within(committed)
    BY <1>3, <2>1 DEF Settled, InHand
  <2>3. cur[p] <= end[p] /\ end[p] \in 0 .. Len(log) /\ cur[p] \in 1 .. Len(log) + 1
    BY <1>1, <1>4, <2>1 DEF PInv, Positions
  <2>4. /\ cur[p] - 1 \in 0 .. Len(log) /\ committed <= cur[p] - 1
        /\ committed <= end[p] /\ committed <= committed
    BY <1>4, <2>2, <2>3
  <2>5. \A k \in 0 .. Len(log) : committed <= k =>
            \A m \in Messages : applied'[m] <= Cardinality({i \in 1 .. k : log'[i] = m})
    BY <1>1, <1>4, <2>1, <2>2, WithinKept
  <2>6. Within(committed)'
    BY <1>4, <2>1, <2>3, <2>4, <2>5 DEF Within, Count
  <2>7. CASE Stop(p)
    BY <1>10, <2>1, <2>6, <2>7 DEF InHand
  <2>8. CASE /\ pc' = [pc EXCEPT ![p] = "apply"] /\ committed' = end[p]
             /\ UNCHANGED <<owner, pos, cur, end>>
    <3>1. \A q \in Procs : pc'[q] = IF q = p THEN "apply" ELSE pc[q]
      BY <1>4, <2>8
    <3>2. Within(cur[p] - 1)'
      BY <2>4, <2>5, <2>8 DEF Within, Count
    <3>3. committed' <= pos[p]
      BY <2>2, <2>3, <2>8, <1>4
    <3> QED
      BY <2>2, <2>8, <3>1, <3>2, <3>3 DEF Settled, InHand
  <2>9. CASE /\ pc' = [pc EXCEPT ![p] = "poll"] /\ committed' \in {committed, end[p]}
             /\ UNCHANGED <<owner, pos, cur, end>>
    <3>1. \A q \in Procs : pc'[q] = IF q = p THEN "poll" ELSE pc[q]
      BY <1>4, <2>9
    <3>2. committed' <= pos[p]
      BY <1>4, <2>2, <2>3, <2>4, <2>9
    <3> QED
      BY <2>2, <2>6, <2>9, <3>1, <3>2 DEF Settled, InHand
  <2> QED
    BY <2>1, <2>7, <2>8, <2>9
<1>15. CASE UNCHANGED vars
  BY <1>3, <1>15 DEF Settled, Within, Count, vars
<1>16. ~LoseCommit /\ \A p \in Procs : ~EmptyPoll(p) /\ ~CommitAborted(p)
  BY DEF LoseCommit, EmptyPoll, CommitAborted
<1> QED
  BY <1>6, <1>7, <1>8, <1>9, <1>11, <1>12, <1>13, <1>14, <1>15, <1>16
     DEF Next, Step, Failure, Idle

\* A message is on the log at least as often as among its first n records.
LEMMA CountedIsDelivered ==
    ASSUME PInv, NEW n \in 0 .. Len(log), NEW m
    PROVE  Count(n, m) <= Deliveries(m)
<1>1. log \in Seq(Messages)
  BY DEF PInv, TypeOK
<1>2. Len(log) \in Nat /\ n \in Nat /\ n <= Len(log) /\ DOMAIN log = 1 .. Len(log)
  BY <1>1
<1>3. Deliveries(m) = Count(Len(log), m)
  BY <1>2 DEF Count, Deliveries
<1> QED
  BY <1>2, <1>3, CountFacts

\* Mode A books a message at most as often as it was delivered, as long as no
\* partition is reassigned while somebody holds a batch of it and no commit that
\* the coordinator acknowledged is lost.
THEOREM AtMostOncePerDelivery == Spec => []AtMostOnceWhileSettled
<1>1. Init => SettledInv
  <2> SUFFICES ASSUME Init
               PROVE  SettledInv
    OBVIOUS
  <2>1. PInv
    BY PositionsInit
  <2>2. committed = 0 /\ \A m \in Messages : Count(0, m) \in Nat
    BY CountFacts DEF Init
  <2>3. Within(committed)
    BY <2>2 DEF Init, Within
  <2> QED
    BY <2>1, <2>3 DEF Init, SettledInv, Settled, InHand
<1>2. SettledInv => AtMostOnceWhileSettled
  <2> SUFFICES ASSUME SettledInv, mode = "A", ~unsettled, NEW m \in Messages
               PROVE  applied[m] <= Deliveries(m)
    BY DEF AtMostOnceWhileSettled
  <2>1. PInv /\ Settled
    BY DEF SettledInv
  <2>2. /\ Len(log) \in Nat /\ committed \in 0 .. Len(log)
        /\ \A p \in Procs : cur[p] \in 1 .. Len(log) + 1
        /\ applied[m] \in Nat
    BY <2>1 DEF PInv, TypeOK
  <2>3. \E n \in 0 .. Len(log) : Within(n)
    <3>1. CASE \A p \in Procs : pc[p] \notin {"apply", "claimed"}
      BY <2>1, <2>2, <3>1 DEF Settled
    <3>2. ASSUME NEW p \in Procs, pc[p] \in {"apply", "claimed"}
          PROVE  \E n \in 0 .. Len(log) : Within(n)
      <4>1. cur[p] - 1 \in 0 .. Len(log)
        BY <2>2
      <4> QED
        BY <2>1, <3>2, <4>1 DEF Settled
    <3> QED
      BY <3>1, <3>2
  <2>4. PICK n \in 0 .. Len(log) : Within(n)
    BY <2>3
  <2>5. applied[m] <= Count(n, m) /\ Count(n, m) <= Deliveries(m)
    BY <2>1, <2>4, CountedIsDelivered DEF Within
  <2>6. Count(n, m) \in Nat /\ Count(Len(log), m) = Deliveries(m) /\ Count(Len(log), m) \in Nat
    <3>1. n \in Nat /\ DOMAIN log = 1 .. Len(log)
      BY <2>1, <2>2 DEF PInv, TypeOK
    <3> QED
      BY <2>2, <3>1, CountFacts DEF Count, Deliveries
  <2> QED
    BY <2>2, <2>5, <2>6
<1> QED
  BY <1>1, <1>2, SettledStep, PTL DEF Spec
=============================================================================
