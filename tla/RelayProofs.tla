---------------------------- MODULE RelayProofs ----------------------------
(***************************************************************************)
(* The outbox relay, for any number of handlers, accounts, rows, failures  *)
(* and SIGTERMs, and for every batch size.                                 *)
(***************************************************************************)
EXTENDS Relay, TLAPS, FiniteSetTheorems, SequenceTheorems

-----------------------------------------------------------------------------
\* Part 1.  The order of a batch and what a topic holds of a row.

\* The ids of a finite set of rows are natural numbers and tell its rows apart.
Keyed(set) == /\ IsFiniteSet(set)
              /\ \A r \in set : r.id \in Nat
              /\ \A r, s \in set : r.id = s.id => r = s

Distinct(seq) == \A i, j \in DOMAIN seq : seq[i] = seq[j] => i = j

\* A row's rank is one of the places in the batch, and a larger id ranks higher.
LEMMA RankFacts ==
    ASSUME NEW set, Keyed(set), NEW r \in set
    PROVE  /\ Rank(set, r) \in 1 .. Cardinality(set)
           /\ \A s \in set : s.id < r.id => Rank(set, s) < Rank(set, r)
<1> DEFINE UpTo(s) == {q \in set : q.id <= s.id}
<1>1. /\ Cardinality(set) \in Nat
      /\ \A s \in set : /\ IsFiniteSet(UpTo(s)) /\ Cardinality(UpTo(s)) \in Nat
                        /\ Cardinality(UpTo(s)) <= Cardinality(set)
  <2>1. \A s \in set : UpTo(s) \subseteq set
    OBVIOUS
  <2> QED
    BY <2>1, FS_Subset, FS_CardinalityType DEF Keyed
<1>2. Cardinality(UpTo(r)) # 0
  <2>1. r \in UpTo(r)
    BY DEF Keyed
  <2> QED
    BY <1>1, <2>1, FS_EmptySet
<1>3. ASSUME NEW s \in set, s.id < r.id
      PROVE  Cardinality(UpTo(s)) < Cardinality(UpTo(r))
  <2>1. r \in UpTo(r) /\ r \notin UpTo(s) /\ UpTo(s) \subseteq UpTo(r)
    BY <1>3 DEF Keyed
  <2>2. UpTo(s) # UpTo(r)
    BY <2>1
  <2>3. /\ Cardinality(UpTo(s)) <= Cardinality(UpTo(r))
        /\ Cardinality(UpTo(s)) = Cardinality(UpTo(r)) => UpTo(s) = UpTo(r)
    BY <1>1, <2>1, FS_Subset
  <2> QED
    BY <1>1, <2>2, <2>3
<1> QED
  BY <1>1, <1>2, <1>3 DEF Rank

\* Ordering a set by id lists each of its rows once, and nothing else.
LEMMA OrderFacts ==
    ASSUME NEW set, Keyed(set)
    PROVE  /\ InIDOrder(set) \in Seq(set)
           /\ Len(InIDOrder(set)) = Cardinality(set)
           /\ Distinct(InIDOrder(set))
           /\ Range(InIDOrder(set)) = set
<1> DEFINE n == Cardinality(set)
           f == [r \in set |-> Rank(set, r)]
<1>1. n \in Nat /\ IsFiniteSet(1 .. n) /\ Cardinality(1 .. n) = n
  BY FS_CardinalityType, FS_Interval DEF Keyed
<1>2. f \in Injection(set, 1 .. n)
  <2>1. \A r \in set : Rank(set, r) \in 1 .. n
    BY RankFacts
  <2>2. ASSUME NEW r \in set, NEW s \in set, Rank(set, r) = Rank(set, s)
        PROVE  r = s
    <3>1. r.id \in Nat /\ s.id \in Nat /\ (r.id = s.id => r = s)
      BY DEF Keyed
    <3>2. ~(r.id < s.id) /\ ~(s.id < r.id)
      BY <1>1, <2>1, <2>2, RankFacts
    <3> QED
      BY <3>1, <3>2
  <2> QED
    BY <2>1, <2>2 DEF Injection, IsInjective
<1>3. f \in Surjection(set, 1 .. n)
  BY <1>1, <1>2, FS_Injection
<1>4. \A i \in 1 .. n : \E r \in set : Rank(set, r) = i
  BY <1>3 DEF Surjection
<1>5. \A i \in 1 .. n : InIDOrder(set)[i] \in set /\ Rank(set, InIDOrder(set)[i]) = i
  BY <1>4 DEF InIDOrder
<1>6. InIDOrder(set) \in [1 .. n -> set]
  BY <1>5 DEF InIDOrder
<1>7. InIDOrder(set) \in Seq(set) /\ Len(InIDOrder(set)) = n /\ DOMAIN InIDOrder(set) = 1 .. n
  BY <1>1, <1>6
<1>8. Distinct(InIDOrder(set))
  BY <1>5, <1>7 DEF Distinct
<1>9. ASSUME NEW r \in set
      PROVE  InIDOrder(set)[Rank(set, r)] = r
  <2>1. Rank(set, r) \in 1 .. n
    BY RankFacts
  <2>2. \A s \in set : Rank(set, s) = Rank(set, r) => s = r
    BY <1>2 DEF Injection, IsInjective
  <2> QED
    BY <1>5, <2>1, <2>2
<1>10. set \subseteq Range(InIDOrder(set))
  BY <1>7, <1>9, RankFacts DEF Range
<1>11. Range(InIDOrder(set)) \subseteq set
  BY <1>5, <1>7 DEF Range
<1> QED
  BY <1>7, <1>8, <1>10, <1>11

\* A batch is some rows that wait to be sent, each once, and no more than fit.
LEMMA OldestFacts ==
    ASSUME Keyed(Unsent)
    PROVE  /\ Oldest \in Seq(Unsent)
           /\ Len(Oldest) <= BatchSize
           /\ Distinct(Oldest)
           /\ Range(Oldest) \subseteq Unsent
<1> DEFINE seq == InIDOrder(Unsent)
           n == Min({BatchSize, Len(seq)})
<1>1. BatchSize \in Nat \ {0}
  BY RelayAssumption
<1>2. seq \in Seq(Unsent) /\ Distinct(seq)
  BY OrderFacts
<1>3. Len(seq) \in Nat /\ DOMAIN seq = 1 .. Len(seq) /\ \A i \in 1 .. Len(seq) : seq[i] \in Unsent
  BY <1>2
<1> HIDE DEF seq
<1>4. n \in Nat /\ n <= BatchSize /\ n <= Len(seq)
  <2>1. \E x \in {BatchSize, Len(seq)} : \A y \in {BatchSize, Len(seq)} : x <= y
    <3>1. CASE BatchSize <= Len(seq)
      BY <1>1, <1>3, <3>1
    <3>2. CASE Len(seq) <= BatchSize
      BY <1>1, <1>3, <3>2
    <3> QED
      BY <1>1, <1>3, <3>1, <3>2
  <2>2. n \in {BatchSize, Len(seq)} /\ \A y \in {BatchSize, Len(seq)} : n <= y
    BY <2>1 DEF Min
  <2> QED
    BY <1>1, <1>3, <2>2
<1> HIDE DEF n
<1>5. Oldest = SubSeq(seq, 1, n)
  BY DEF Oldest, seq, n
<1>6. \A i \in 1 .. n : seq[i] \in Unsent
  BY <1>3, <1>4
<1>7. /\ Oldest \in Seq(Unsent)
      /\ Len(Oldest) = n
      /\ \A i \in 1 .. n : Oldest[i] = seq[i]
  BY <1>4, <1>5, <1>6, SubSeqProperties
<1>8. DOMAIN Oldest = 1 .. n
  BY <1>7
<1>9. Distinct(Oldest)
  BY <1>2, <1>3, <1>4, <1>7, <1>8 DEF Distinct
<1> QED
  BY <1>1, <1>4, <1>6, <1>7, <1>8, <1>9 DEF Range

\* How often a sequence holds a row.
Occurrences(seq, r) == Cardinality({i \in DOMAIN seq : seq[i] = r})

\* Rows that are written once each add at most one occurrence of any row.
LEMMA OccurrencesFacts ==
    ASSUME NEW T, NEW s \in Seq(T), NEW t \in Seq(T), Distinct(t), NEW r
    PROVE  /\ Occurrences(s, r) \in Nat
           /\ Occurrences(s \o t, r) \in Nat
           /\ Occurrences(s \o t, r) <= Occurrences(s, r) + 1
           /\ r \notin Range(t) => Occurrences(s \o t, r) = Occurrences(s, r)
<1> DEFINE S == {i \in DOMAIN s : s[i] = r}
           C == {i \in DOMAIN (s \o t) : (s \o t)[i] = r}
<1>1. /\ Len(s) \in Nat /\ Len(t) \in Nat
      /\ DOMAIN s = 1 .. Len(s) /\ DOMAIN t = 1 .. Len(t)
      /\ DOMAIN (s \o t) = 1 .. Len(s) + Len(t)
      /\ \A i \in 1 .. Len(s) + Len(t) :
             (s \o t)[i] = IF i <= Len(s) THEN s[i] ELSE t[i - Len(s)]
  BY ConcatProperties
<1>2. IsFiniteSet(S) /\ Cardinality(S) \in Nat
  <2>1. S \subseteq 1 .. Len(s) /\ IsFiniteSet(1 .. Len(s))
    BY <1>1, FS_Interval
  <2> QED
    BY <2>1, FS_Subset, FS_CardinalityType
<1>3. ASSUME r \notin Range(t)
      PROVE  C = S
  <2>1. \A i \in 1 .. Len(t) : t[i] # r
    BY <1>1, <1>3 DEF Range
  <2>2. ASSUME NEW i \in C
        PROVE  i \in S
    <3>1. i \in 1 .. Len(s) + Len(t) /\ (s \o t)[i] = r
      BY <1>1
    <3>2. CASE i <= Len(s)
      BY <1>1, <3>1, <3>2
    <3>3. CASE ~(i <= Len(s))
      <4>1. i - Len(s) \in 1 .. Len(t)
        BY <1>1, <3>1, <3>3
      <4> QED
        BY <1>1, <2>1, <3>1, <3>3, <4>1
    <3> QED
      BY <3>2, <3>3
  <2>3. S \subseteq C
    BY <1>1
  <2> QED
    BY <2>2, <2>3
<1>4. ASSUME r \in Range(t)
      PROVE  \E k : C = S \cup {k} /\ k \notin S
  <2>1. PICK j \in 1 .. Len(t) : t[j] = r
    BY <1>1, <1>4 DEF Range
  <2> DEFINE k == Len(s) + j
  <2>2. k \notin S /\ k \in C
    <3>1. k \in 1 .. Len(s) + Len(t) /\ ~(k <= Len(s)) /\ k - Len(s) = j
      BY <1>1
    <3> QED
      BY <1>1, <2>1, <3>1
  <2>3. S \subseteq C
    BY <1>1
  <2>4. ASSUME NEW i \in C
        PROVE  i \in S \cup {k}
    <3>1. i \in 1 .. Len(s) + Len(t) /\ (s \o t)[i] = r
      BY <1>1
    <3>2. CASE i <= Len(s)
      BY <1>1, <3>1, <3>2
    <3>3. CASE ~(i <= Len(s))
      <4>1. i - Len(s) \in 1 .. Len(t)
        BY <1>1, <3>1, <3>3
      <4>2. t[i - Len(s)] = r
        BY <1>1, <3>1, <3>3
      <4>3. i - Len(s) = j
        BY <1>1, <2>1, <4>1, <4>2 DEF Distinct
      <4> QED
        BY <1>1, <3>1, <4>3
    <3> QED
      BY <3>2, <3>3
  <2>5. C = S \cup {k}
    BY <2>2, <2>3, <2>4
  <2> QED
    BY <2>2, <2>5
<1>5. Occurrences(s, r) = Cardinality(S) /\ Occurrences(s \o t, r) = Cardinality(C)
  BY DEF Occurrences
<1> HIDE DEF S, C
<1>6. CASE r \notin Range(t)
  BY <1>5, <1>2, <1>3, <1>6
<1>7. CASE r \in Range(t)
  <2>1. PICK k : C = S \cup {k} /\ k \notin S
    BY <1>4, <1>7
  <2>2. Cardinality(C) = Cardinality(S) + 1
    BY <1>2, <2>1, FS_AddElement
  <2> QED
    BY <1>5, <1>2, <1>7, <2>2
<1> QED
  BY <1>6, <1>7

-----------------------------------------------------------------------------
\* Part 2.  The inductive invariant.

\* An id is drawn once, whether its transaction is open, committed or gone.
Keys == /\ IsFiniteSet(rows)
        /\ \A r \in rows : r.id < nextID
        /\ \A r, s \in rows : r.id = s.id => r = s
        /\ \A h \in Handlers : hpc[h] = "open" =>
               hrow[h].id < nextID /\ \A r \in rows : r.id # hrow[h].id
        /\ \A g, h \in Handlers :
               hpc[g] = "open" /\ hpc[h] = "open" /\ hrow[g].id = hrow[h].id => g = h

\* The batch in hand is committed rows that wait to be sent, each once; by the
\* time they are marked they are in the topic.
Batches == /\ rpc \in {"produce", "mark"} => Distinct(batch) /\ Range(batch) \subseteq Unsent
           /\ rpc = "mark" => Range(batch) \subseteq Produced

\* A process that is down has no relay.
DownHasNoDrain == phase = "down" => rpc = "ended"

RelayInv == TypeOK /\ Keys /\ Batches /\ DownHasNoDrain /\ SentIsProduced /\ NoPhantomEvent

\* What a step may add to the topic: rows of the batch, each once, and only while
\* the batch is being produced.
Adds(t) == /\ t \in Seq(Rows)
           /\ topic' = topic \o t
           /\ Distinct(t)
           /\ Range(t) \subseteq IF rpc = "produce" THEN Range(batch) ELSE {}

\* Rows that wait to be sent can be put in order.
LEMMA RowsAreKeyed ==
    ASSUME TypeOK, Keys, NEW set \in SUBSET rows
    PROVE  Keyed(set)
<1>1. IsFiniteSet(set)
  BY FS_Subset DEF Keys
<1> QED
  BY <1>1 DEF Keyed, Keys, TypeOK, Rows

\* Nothing written is nothing added.
LEMMA AddsNothing ==
    ASSUME TypeOK, UNCHANGED topic
    PROVE  Adds(<<>>)
<1>1. topic \in Seq(Rows) /\ topic \o <<>> = topic
  BY ConcatEmptySeq DEF TypeOK
<1> QED
  BY <1>1 DEF Adds, Distinct, Range

\* A produce that fails leaves a part of the batch, in order, or nothing.
LEMMA PartAdds ==
    ASSUME RelayInv, PartlyProduced
    PROVE  \E t : Adds(t)
<1>1. CASE rpc = "produce"
  <2>1. PICK part \in Parts : topic' = topic \o part
    BY <1>1 DEF PartlyProduced
  <2>2. PICK kept \in SUBSET Range(batch) : part = InIDOrder(kept)
    BY <2>1 DEF Parts
  <2>3. kept \in SUBSET rows /\ kept \subseteq Rows
    BY <1>1, <2>2 DEF RelayInv, Batches, Unsent, TypeOK
  <2>4. Keyed(kept)
    BY <2>3, RowsAreKeyed DEF RelayInv
  <2>5. part \in Seq(kept) /\ Distinct(part) /\ Range(part) = kept
    BY <2>2, <2>4, OrderFacts
  <2>6. part \in Seq(Rows)
    BY <2>3, <2>5
  <2> QED
    BY <1>1, <2>1, <2>2, <2>5, <2>6 DEF Adds
<1>2. CASE rpc # "produce"
  BY <1>2, AddsNothing DEF PartlyProduced, RelayInv
<1> QED
  BY <1>1, <1>2

\* Every step adds only that.
LEMMA NextAdds ==
    ASSUME RelayInv, [Next]_vars
    PROVE  \E t : Adds(t)
<1>1. CASE UNCHANGED topic
  BY <1>1, AddsNothing DEF RelayInv
<1>2. CASE PartlyProduced
  BY <1>2, PartAdds
<1>3. CASE Produce
  <2>1. batch \in Seq(Rows) /\ Distinct(batch) /\ topic' = topic \o batch /\ rpc = "produce"
    BY <1>3 DEF Produce, RelayInv, TypeOK, Batches
  <2> QED
    BY <2>1 DEF Adds
<1> QED
  BY <1>1, <1>2, <1>3
     DEF Next, Step, vars, InsertOutbox, CommitPosting, RollbackPosting, Tick, Done,
         ClaimOutboxBatch, MarkOutboxSent, DrainCancelled, DrainFails, MarkUnacknowledged,
         Sigterm, Shutdown, Exit, Crash, Restart

\* What is in the topic stays there, and what is added comes from the batch.
LEMMA TopicGrows ==
    ASSUME RelayInv, NEW t, Adds(t)
    PROVE  /\ topic' \in Seq(Rows)
           /\ Produced' = Produced \cup Range(t)
           /\ Produced \subseteq Produced'
           /\ Range(t) \subseteq rows
<1>1. topic \in Seq(Rows) /\ t \in Seq(Rows) /\ topic' = topic \o t
  BY DEF RelayInv, TypeOK, Adds
<1>2. topic' \in Seq(Rows) /\ Produced' = Produced \cup Range(t)
  <2>1. /\ topic' \in Seq(Rows) /\ Len(topic') = Len(topic) + Len(t)
        /\ \A i \in 1 .. Len(topic) + Len(t) :
               topic'[i] = IF i <= Len(topic) THEN topic[i] ELSE t[i - Len(topic)]
    BY <1>1, ConcatProperties
  <2>2. /\ Len(topic) \in Nat /\ Len(t) \in Nat
        /\ DOMAIN topic = 1 .. Len(topic) /\ DOMAIN t = 1 .. Len(t)
        /\ DOMAIN topic' = 1 .. Len(topic) + Len(t)
    BY <1>1, <2>1
  <2>3. ASSUME NEW i \in DOMAIN topic
        PROVE  topic[i] \in Produced'
    <3>1. i \in DOMAIN topic' /\ topic'[i] = topic[i]
      BY <2>1, <2>2
    <3> QED
      BY <3>1 DEF Produced, Range
  <2>4. ASSUME NEW i \in DOMAIN t
        PROVE  t[i] \in Produced'
    <3>1. i + Len(topic) \in DOMAIN topic' /\ ~(i + Len(topic) <= Len(topic))
      BY <2>2
    <3>2. (i + Len(topic)) - Len(topic) = i
      BY <2>2
    <3>3. topic'[i + Len(topic)] = t[i]
      BY <2>1, <2>2, <3>1, <3>2
    <3> QED
      BY <3>1, <3>3 DEF Produced, Range
  <2>5. ASSUME NEW i \in DOMAIN topic'
        PROVE  topic'[i] \in Produced \cup Range(t)
    <3>1. CASE i <= Len(topic)
      BY <2>1, <2>2, <3>1 DEF Produced, Range
    <3>2. CASE ~(i <= Len(topic))
      <4>1. i - Len(topic) \in DOMAIN t
        BY <2>2, <3>2
      <4> QED
        BY <2>1, <2>2, <3>2, <4>1 DEF Range
    <3> QED
      BY <3>1, <3>2
  <2>6. Produced' = {topic'[i] : i \in DOMAIN topic'} /\ Produced = {topic[i] : i \in DOMAIN topic}
        /\ Range(t) = {t[i] : i \in DOMAIN t}
    BY DEF Produced, Range
  <2> QED
    BY <2>1, <2>3, <2>4, <2>5, <2>6
<1>3. Range(t) \subseteq rows
  BY DEF Adds, RelayInv, Batches, Unsent
<1> QED
  BY <1>2, <1>3

\* The steps of the handlers keep the ids apart; the other steps leave the rows
\* alone, and a crash closes every transaction.
LEMMA KeysStep ==
    ASSUME TypeOK, Keys, [Next]_vars
    PROVE  /\ Keys'
           /\ rows \subseteq rows'
           /\ rows' \subseteq Rows
           /\ hpc' \in [Handlers -> {"idle", "open"}]
           /\ hrow' \in [Handlers -> Rows]
           /\ nextID' \in Nat \ {0}
<1>1. /\ hpc \in [Handlers -> {"idle", "open"}]
      /\ hrow \in [Handlers -> Rows] /\ nextID \in Nat \ {0} /\ rows \subseteq Rows
      /\ \A r \in Rows : r.id \in Nat
  BY DEF TypeOK, Rows
<1>2. ASSUME NEW h \in Handlers, NEW a \in Accounts, InsertOutbox(h, a)
      PROVE  /\ Keys' /\ rows' = rows
             /\ hpc' \in [Handlers -> {"idle", "open"}]
             /\ hrow' \in [Handlers -> Rows]
             /\ nextID' \in Nat \ {0}
  <2>1. /\ hpc' = [hpc EXCEPT ![h] = "open"]
        /\ hrow' = [hrow EXCEPT ![h] = [id |-> nextID, account |-> a]]
        /\ nextID' = nextID + 1 /\ rows' = rows
    BY <1>2 DEF InsertOutbox
  <2>2. [id |-> nextID, account |-> a] \in Rows
    BY <1>1 DEF Rows
  <2>3. /\ hpc' \in [Handlers -> {"idle", "open"}]
        /\ hrow' \in [Handlers -> Rows]
        /\ nextID' \in Nat \ {0}
    BY <1>1, <2>1, <2>2
  <2>4. /\ \A g \in Handlers \ {h} : hpc'[g] = hpc[g] /\ hrow'[g] = hrow[g]
        /\ hrow'[h].id = nextID
    BY <1>1, <2>1
  <2>5. \A g \in Handlers : hpc[g] = "open" => hrow[g].id < nextID /\ hrow[g].id \in Nat
    BY <1>1 DEF Keys
  <2>6. \A r \in rows : r.id < nextID /\ r.id \in Nat
    BY <1>1 DEF Keys
  <2>7. \A r \in rows : r.id < nextID' /\ r.id # nextID
    BY <1>1, <2>1, <2>6
  <2>8. \A g \in Handlers : hpc'[g] = "open" =>
            hrow'[g].id < nextID' /\ \A r \in rows : r.id # hrow'[g].id
    BY <1>1, <2>1, <2>4, <2>5, <2>7 DEF Keys
  <2>9. \A f, g \in Handlers :
            hpc'[f] = "open" /\ hpc'[g] = "open" /\ hrow'[f].id = hrow'[g].id => f = g
    BY <1>1, <2>4, <2>5 DEF Keys
  <2> QED
    BY <2>1, <2>3, <2>7, <2>8, <2>9 DEF Keys
<1>3. ASSUME NEW h \in Handlers, CommitPosting(h)
      PROVE  /\ Keys' /\ rows \subseteq rows' /\ rows' \subseteq Rows
             /\ hpc' \in [Handlers -> {"idle", "open"}]
  <2>1. /\ hpc[h] = "open" /\ hpc' = [hpc EXCEPT ![h] = "idle"]
        /\ rows' = rows \cup {hrow[h]} /\ UNCHANGED <<hrow, nextID>>
    BY <1>3 DEF CommitPosting
  <2>2. \A g \in Handlers : hpc'[g] = "open" => g # h /\ hpc[g] = "open"
    BY <1>1, <2>1
  <2>3. IsFiniteSet(rows')
    BY <2>1, FS_AddElement DEF Keys
  <2>4. \A r, s \in rows' : r.id = s.id => r = s
    BY <1>1, <2>1 DEF Keys
  <2>5. \A r \in rows' : r.id < nextID'
    BY <1>1, <2>1 DEF Keys
  <2>6. \A g \in Handlers : hpc'[g] = "open" =>
            hrow'[g].id < nextID' /\ \A r \in rows' : r.id # hrow'[g].id
    BY <1>1, <2>1, <2>2 DEF Keys
  <2>7. \A f, g \in Handlers :
            hpc'[f] = "open" /\ hpc'[g] = "open" /\ hrow'[f].id = hrow'[g].id => f = g
    BY <2>1, <2>2 DEF Keys
  <2> QED
    BY <1>1, <2>1, <2>3, <2>4, <2>5, <2>6, <2>7 DEF Keys
<1>4. ASSUME UNCHANGED <<hrow, nextID, rows>>, hpc' \in [Handlers -> {"idle", "open"}],
             \A g \in Handlers : hpc'[g] = "open" => hpc[g] = "open"
      PROVE  Keys'
  BY <1>4 DEF Keys
<1>5. ASSUME NEW h \in Handlers, RollbackPosting(h)
      PROVE  /\ UNCHANGED <<hrow, nextID, rows>> /\ hpc' \in [Handlers -> {"idle", "open"}]
             /\ \A g \in Handlers : hpc'[g] = "open" => hpc[g] = "open"
  BY <1>1, <1>5 DEF RollbackPosting
<1>6. ASSUME Crash
      PROVE  /\ UNCHANGED <<hrow, nextID, rows>> /\ hpc' \in [Handlers -> {"idle", "open"}]
             /\ \A g \in Handlers : hpc'[g] = "open" => hpc[g] = "open"
  BY <1>6 DEF Crash
<1>7. CASE UNCHANGED handlers
  BY <1>1, <1>4, <1>7 DEF handlers
<1>8. \/ UNCHANGED handlers
      \/ Crash
      \/ \E h \in Handlers : \/ \E a \in Accounts : InsertOutbox(h, a)
                             \/ CommitPosting(h)
                             \/ RollbackPosting(h)
  BY DEF Next, Step, vars, handlers, Tick, Done, ClaimOutboxBatch, Produce, MarkOutboxSent,
         DrainCancelled, DrainFails, MarkUnacknowledged, EndRun, Sigterm, Shutdown, Exit, Restart
<1>9. CASE \E h \in Handlers, a \in Accounts : InsertOutbox(h, a)
  BY <1>1, <1>2, <1>9
<1>10. CASE \E h \in Handlers : CommitPosting(h)
  <2>1. UNCHANGED <<hrow, nextID>>
    BY <1>10 DEF CommitPosting
  <2> QED
    BY <1>1, <1>3, <1>10, <2>1
<1>11. CASE Crash \/ \E h \in Handlers : RollbackPosting(h)
  BY <1>1, <1>4, <1>5, <1>6, <1>11
<1> QED
  BY <1>7, <1>8, <1>9, <1>10, <1>11

\* What ClaimOutboxBatch leaves behind.
LEMMA ClaimFacts ==
    ASSUME TypeOK, Keys, ClaimOutboxBatch
    PROVE  /\ batch' \in Seq(Rows) /\ Len(batch') <= BatchSize
           /\ Distinct(batch') /\ Range(batch') \subseteq Unsent
           /\ rpc' \in {"produce", "ended", "wait"}
<1>1. Unsent \in SUBSET rows /\ Unsent \subseteq Rows /\ batch' = Oldest
  BY DEF ClaimOutboxBatch, Unsent, TypeOK
<1>2. Keyed(Unsent)
  BY <1>1, RowsAreKeyed
<1>3. rpc' \in {"produce", "ended", "wait"}
  <2>1. CASE batch' # <<>>
    BY <2>1, Zenon DEF ClaimOutboxBatch
  <2>2. CASE batch' = <<>> /\ final
    BY <2>2, Zenon DEF ClaimOutboxBatch
  <2>3. CASE batch' = <<>> /\ ~final
    BY <2>3, Zenon DEF ClaimOutboxBatch
  <2> QED
    BY <2>1, <2>2, <2>3
<1> QED
  BY <1>1, <1>2, <1>3, OldestFacts

\* The fields of the relay and of the process keep their types, and the rows
\* marked sent are those of the batch.
LEMMA RelayTypes ==
    ASSUME RelayInv, [Next]_vars
    PROVE  /\ phase' \in {"up", "cancelled", "closing", "down"}
           /\ rpc' \in {"wait", "claim", "produce", "mark", "ended"}
           /\ final' \in BOOLEAN
           /\ batch' \in Seq(Rows) /\ Len(batch') <= BatchSize
           /\ faults' \in Nat /\ stops' \in Nat
           /\ sent' \subseteq sent \cup (IF rpc = "mark" THEN Range(batch) ELSE {})
<1> DEFINE Goal == /\ phase' \in {"up", "cancelled", "closing", "down"}
                   /\ rpc' \in {"wait", "claim", "produce", "mark", "ended"}
                   /\ final' \in BOOLEAN
                   /\ batch' \in Seq(Rows) /\ Len(batch') <= BatchSize
                   /\ faults' \in Nat /\ stops' \in Nat
                   /\ sent' \subseteq sent \cup (IF rpc = "mark" THEN Range(batch) ELSE {})
<1>1. /\ TypeOK /\ Keys
      /\ <<>> \in Seq(Rows) /\ Len(<<>>) <= BatchSize
  <2>1. BatchSize \in Nat
    BY RelayAssumption
  <2>2. <<>> \in Seq(Rows) /\ Len(<<>>) = 0
    OBVIOUS
  <2> QED
    BY <2>1, <2>2 DEF RelayInv
<1>2. CASE UNCHANGED <<phase, sent, relay, faults, stops>>
  BY <1>1, <1>2 DEF TypeOK, relay
<1>3. CASE Tick \/ Done
  BY <1>1, <1>3 DEF TypeOK, Tick, Done
<1>4. CASE ClaimOutboxBatch
  <2>1. UNCHANGED <<phase, sent, final, faults, stops>>
    BY <1>4 DEF ClaimOutboxBatch
  <2> QED
    BY <1>1, <1>4, <2>1, ClaimFacts DEF TypeOK
<1>5. CASE Produce
  BY <1>1, <1>5 DEF TypeOK, Produce
<1>6. CASE MarkOutboxSent
  BY <1>1, <1>6 DEF TypeOK, MarkOutboxSent, MarkedRows
<1>7. CASE DrainCancelled \/ DrainFails \/ MarkUnacknowledged
  <2>1. /\ rpc' = "ended" /\ batch' = <<>> /\ final' = final
        /\ phase' \in {"cancelled", phase}
    BY <1>7 DEF DrainCancelled, DrainFails, MarkUnacknowledged, EndRun
  <2>2. faults' \in Nat /\ stops' \in Nat
    BY <1>1, <1>7 DEF TypeOK, DrainCancelled, DrainFails, MarkUnacknowledged, Fault
  <2>3. sent' \subseteq sent \cup (IF rpc = "mark" THEN Range(batch) ELSE {})
    BY <1>7 DEF DrainCancelled, DrainFails, MarkUnacknowledged, MarkedRows
  <2> QED
    BY <1>1, <2>1, <2>2, <2>3 DEF TypeOK
<1>8. CASE Sigterm \/ Shutdown \/ Exit
  BY <1>1, <1>8 DEF TypeOK, Sigterm, Shutdown, Exit, relay
<1>9. CASE Crash \/ Restart
  <2>1. /\ rpc' \in {"ended", "wait"} /\ batch' \in {<<>>, batch} /\ final' \in {FALSE, final}
        /\ phase' \in {"down", "up"} /\ UNCHANGED <<sent, stops>>
    BY <1>9 DEF Crash, Restart
  <2>2. faults' \in Nat
    BY <1>1, <1>9 DEF TypeOK, Crash, Restart, Fault
  <2> QED
    BY <1>1, <2>1, <2>2 DEF TypeOK
<1> HIDE DEF Goal
<1>10. \/ UNCHANGED <<phase, sent, relay, faults, stops>>
       \/ Tick \/ Done \/ ClaimOutboxBatch \/ Produce \/ MarkOutboxSent
       \/ DrainCancelled \/ DrainFails \/ MarkUnacknowledged
       \/ Sigterm \/ Shutdown \/ Exit \/ Crash \/ Restart
  BY DEF Next, Step, vars, relay, InsertOutbox, CommitPosting, RollbackPosting
<1> QED
  BY <1>2, <1>3, <1>4, <1>5, <1>6, <1>7, <1>8, <1>9, <1>10

\* The batch stays one of unsent rows until it is marked.
LEMMA BatchesStep ==
    ASSUME RelayInv, [Next]_vars
    PROVE  Batches'
<1>1. TypeOK /\ Keys /\ Batches /\ rows \subseteq rows'
  BY KeysStep DEF RelayInv
<1>2. \A t : Adds(t) => Produced' = Produced \cup Range(t)
  BY TopicGrows
<1>3. Produced \subseteq Produced'
  BY <1>2, NextAdds
<1>4. CASE UNCHANGED <<sent, relay>>
  BY <1>1, <1>3, <1>4 DEF Batches, Unsent, relay
<1>5. CASE rpc' \in {"claim", "wait", "ended"}
  BY <1>5 DEF Batches
<1>6. CASE ClaimOutboxBatch
  <2>1. UNCHANGED <<rows, sent>>
    BY <1>6 DEF ClaimOutboxBatch, handlers
  <2> QED
    BY <1>1, <1>6, <2>1, ClaimFacts DEF Batches, Unsent
<1>7. CASE Produce
  <2>1. /\ rpc = "produce" /\ topic' = topic \o batch
        /\ UNCHANGED <<rows, sent, batch>>
    BY <1>7 DEF Produce, handlers
  <2>2. Adds(batch)
    BY <1>1, <2>1 DEF Adds, Batches, TypeOK
  <2> QED
    BY <1>1, <1>2, <2>1, <2>2 DEF Batches, Unsent
<1> QED
  BY <1>4, <1>5, <1>6, <1>7
     DEF Next, Step, vars, relay, InsertOutbox, CommitPosting, RollbackPosting, Tick, Done,
         MarkOutboxSent, DrainCancelled, DrainFails, MarkUnacknowledged, EndRun, Sigterm, Shutdown,
         Exit, Crash, Restart

\* The whole invariant is inductive.
LEMMA RelayStep == RelayInv /\ [Next]_vars => RelayInv'
<1> SUFFICES ASSUME RelayInv, [Next]_vars
             PROVE  RelayInv'
  OBVIOUS
<1>1. TypeOK /\ Keys /\ Batches /\ DownHasNoDrain /\ SentIsProduced /\ NoPhantomEvent
  BY DEF RelayInv
<1>2. PICK t : Adds(t)
  BY NextAdds
<1>3. /\ topic' \in Seq(Rows) /\ Produced' = Produced \cup Range(t)
      /\ Range(t) \subseteq rows
  BY <1>2, TopicGrows
<1>4. Keys' /\ rows \subseteq rows'
  BY <1>1, KeysStep
<1>5. sent' \subseteq sent \cup (IF rpc = "mark" THEN Range(batch) ELSE {})
  BY RelayTypes
<1>6. SentIsProduced'
  BY <1>1, <1>3, <1>5 DEF SentIsProduced, Batches
<1>7. NoPhantomEvent'
  BY <1>1, <1>3, <1>4 DEF NoPhantomEvent
<1>8. sent' \subseteq rows'
  BY <1>1, <1>4, <1>5 DEF TypeOK, Batches, Unsent
<1>9. TypeOK'
  BY <1>1, <1>3, <1>8, KeysStep, RelayTypes DEF TypeOK
<1>10. DownHasNoDrain'
  BY <1>1 DEF DownHasNoDrain, Next, Step, vars, relay, InsertOutbox, CommitPosting,
         RollbackPosting, Tick, Done, ClaimOutboxBatch, Produce, MarkOutboxSent, DrainCancelled,
         DrainFails, MarkUnacknowledged, EndRun, Draining, Live, Sigterm, Shutdown, Exit, MayExit,
         Crash, Restart
<1> QED
  BY <1>4, <1>6, <1>7, <1>9, <1>10, BatchesStep DEF RelayInv

\* The outbox and the topic are empty at first.
LEMMA RelayInit == Init => RelayInv
<1> SUFFICES ASSUME Init
             PROVE  RelayInv
  OBVIOUS
<1>1. \E r : r \in [id : {0}, account : Accounts]
  <2>1. PICK a : a \in Accounts
    BY RelayAssumption
  <2>2. [id |-> 0, account |-> a] \in [id : {0}, account : Accounts]
    BY <2>1
  <2> QED
    BY <2>2
<1>2. (CHOOSE r \in [id : {0}, account : Accounts] : TRUE) \in Rows
  BY <1>1 DEF Rows
<1>3. <<>> \in Seq(Rows) /\ Len(<<>>) = 0 /\ BatchSize \in Nat
  BY RelayAssumption
<1>4. TypeOK
  <2>1. hrow \in [Handlers -> Rows]
    BY <1>2 DEF Init
  <2>2. batch \in Seq(Rows) /\ topic \in Seq(Rows) /\ Len(batch) <= BatchSize
    BY <1>3 DEF Init
  <2>3. hpc \in [Handlers -> {"idle", "open"}] /\ sent \subseteq rows /\ rows \subseteq Rows
    BY DEF Init
  <2>4. nextID \in Nat \ {0} /\ faults \in Nat /\ stops \in Nat
    BY DEF Init
  <2> QED
    BY <2>1, <2>2, <2>3, <2>4 DEF Init, TypeOK
<1>5. Keys
  BY FS_EmptySet DEF Init, Keys
<1>6. Produced = {}
  BY DEF Init, Produced, Range
<1> QED
  BY <1>4, <1>5, <1>6 DEF Init, RelayInv, Batches, DownHasNoDrain, SentIsProduced, NoPhantomEvent

LEMMA RelayInvariant == Spec => []RelayInv
BY RelayInit, RelayStep, PTL DEF Spec

\* Rows, batches and the topic keep their types, and no batch exceeds BatchSize.
THEOREM RelayTypeCorrect == Spec => []TypeOK
<1>1. RelayInv => TypeOK
  BY DEF RelayInv
<1> QED
  BY <1>1, RelayInvariant, PTL

\* A row that is marked sent is in the topic: no failure, crash or SIGTERM between
\* the three steps of Drain gives up an event.
THEOREM MarkedIsProduced == Spec => []SentIsProduced
<1>1. RelayInv => SentIsProduced
  BY DEF RelayInv
<1> QED
  BY <1>1, RelayInvariant, PTL

\* An event in the topic belongs to a posting that committed.
THEOREM EventsAreCommitted == Spec => []NoPhantomEvent
<1>1. RelayInv => NoPhantomEvent
  BY DEF RelayInv
<1> QED
  BY <1>1, RelayInvariant, PTL

-----------------------------------------------------------------------------
\* Part 3.  A row is produced again only after a failure or a SIGTERM.

\* A drain that ctx.Done may still cut short: the SIGTERM that did it is counted
\* before the row is produced again.
Due == IF phase # "up" /\ rpc # "ended" THEN 1 ELSE 0

\* The one time that a row is produced without anything going wrong.
Settled(r) == IF r \in sent \/ (rpc = "mark" /\ r \in Range(batch)) THEN 1 ELSE 0

Retries == \A r \in Rows : Occurrences(topic, r) + Due <= Settled(r) + faults + stops

\* The steps that matter are those that write to the topic, end a drain, or
\* start the count of a SIGTERM.
LEMMA RetriesStep ==
    ASSUME RelayInv, RelayInv', Retries, [Next]_vars
    PROVE  Retries'
<1>1. TypeOK /\ TypeOK' /\ Keys /\ Batches /\ faults \in Nat /\ stops \in Nat
  BY DEF RelayInv, TypeOK
<1>2. PICK t : Adds(t)
  BY NextAdds
<1> SUFFICES ASSUME NEW r \in Rows
             PROVE  Occurrences(topic', r) + Due' <= Settled(r)' + faults' + stops'
  BY DEF Retries
<1>3. /\ Occurrences(topic, r) \in Nat
      /\ Occurrences(topic', r) \in Nat
      /\ Occurrences(topic', r) <= Occurrences(topic, r) + 1
      /\ r \notin Range(t) => Occurrences(topic', r) = Occurrences(topic, r)
  BY <1>1, <1>2, OccurrencesFacts DEF Adds, TypeOK
<1>4. Occurrences(topic, r) + Due <= Settled(r) + faults + stops
  BY DEF Retries
<1>5. Due \in {0, 1} /\ Settled(r) \in {0, 1} /\ Due' \in {0, 1} /\ Settled(r)' \in {0, 1}
  BY DEF Due, Settled
<1>6. ASSUME rpc # "produce"
      PROVE  Occurrences(topic', r) = Occurrences(topic, r)
  BY <1>2, <1>3, <1>6 DEF Adds
<1>7. ASSUME rpc = "produce"
      PROVE  r \in Range(t) => Settled(r) = 0
  BY <1>1, <1>2, <1>7 DEF Adds, Settled, Batches, Unsent
<1>8. CASE UNCHANGED <<phase, sent, relay, faults, stops, topic>>
  BY <1>4, <1>8 DEF Due, Settled, relay
<1>9. CASE Tick \/ Done \/ ClaimOutboxBatch
  <2>1. /\ rpc \in {"wait", "claim"} /\ rpc' # "mark"
        /\ UNCHANGED <<phase, sent, faults, stops>>
    BY <1>1, <1>9, ClaimFacts DEF Tick, Done, ClaimOutboxBatch
  <2>2. Due' <= Due /\ Settled(r)' = Settled(r)
    BY <2>1 DEF Due, Settled
  <2> QED
    BY <1>1, <1>3, <1>4, <1>5, <1>6, <2>1, <2>2
<1>10. CASE Produce
  <2>1. /\ rpc = "produce" /\ rpc' = "mark" /\ topic' = topic \o batch
        /\ UNCHANGED <<phase, sent, batch, faults, stops>>
    BY <1>10 DEF Produce
  <2>2. Due' = Due
    BY <2>1 DEF Due
  <2>3. CASE r \in Range(batch)
    <3>1. Settled(r) = 0 /\ Settled(r)' = 1
      BY <1>1, <2>1, <2>3 DEF Settled, Batches, Unsent
    <3> QED
      BY <1>1, <1>3, <1>4, <1>5, <2>1, <2>2, <3>1
  <2>4. CASE r \notin Range(batch)
    <3>1. Settled(r)' = Settled(r)
      BY <2>1, <2>4 DEF Settled
    <3>2. Occurrences(topic', r) = Occurrences(topic, r)
      BY <1>2, <1>3, <2>1, <2>4 DEF Adds
    <3> QED
      BY <1>1, <1>3, <1>4, <1>5, <2>1, <2>2, <3>1, <3>2
  <2> QED
    BY <2>3, <2>4
<1>11. CASE MarkOutboxSent
  <2>1. /\ rpc = "mark" /\ rpc' \in {"claim", "wait"} /\ sent' = sent \cup Range(batch)
        /\ UNCHANGED <<phase, faults, stops>>
    BY <1>11 DEF MarkOutboxSent, MarkedRows
  <2>2. Due' = Due /\ Settled(r)' = Settled(r)
    BY <2>1 DEF Due, Settled
  <2> QED
    BY <1>1, <1>3, <1>4, <1>5, <1>6, <2>1, <2>2
<1>12. CASE DrainCancelled
  <2>1. /\ phase # "up" /\ rpc \in Draining /\ rpc' = "ended"
        /\ UNCHANGED <<sent, faults, stops>>
    BY <1>12 DEF DrainCancelled, Live, EndRun
  <2>2. Due = 1 /\ Due' = 0
    BY <2>1 DEF Due, Draining
  <2>3. CASE rpc = "mark"
    BY <1>1, <1>3, <1>4, <1>5, <1>6, <2>1, <2>2, <2>3
  <2>4. CASE rpc # "mark"
    <3>1. Settled(r)' = Settled(r)
      BY <2>1, <2>4 DEF Settled
    <3> QED
      BY <1>1, <1>3, <1>4, <1>5, <2>1, <2>2, <3>1
  <2> QED
    BY <2>3, <2>4
<1>13. CASE DrainFails \/ MarkUnacknowledged \/ Crash
  <2>1. /\ rpc' = "ended" /\ faults' = faults + 1 /\ stops' = stops /\ sent \subseteq sent'
    BY <1>13 DEF DrainFails, MarkUnacknowledged, Crash, EndRun, Fault
  <2>2. Due' = 0
    BY <2>1 DEF Due
  <2>3. CASE rpc = "mark"
    BY <1>1, <1>3, <1>4, <1>5, <1>6, <2>1, <2>2, <2>3
  <2>4. CASE rpc # "mark"
    <3>1. Settled(r) <= Settled(r)'
      BY <2>1, <2>4 DEF Settled
    <3> QED
      BY <1>1, <1>3, <1>4, <1>5, <2>1, <2>2, <3>1
  <2> QED
    BY <2>3, <2>4
<1>14. CASE Sigterm
  <2>1. /\ stops' = stops + 1 /\ UNCHANGED <<sent, topic, rpc, batch, faults>>
    BY <1>14 DEF Sigterm, relay
  <2>2. Settled(r)' = Settled(r)
    BY <2>1 DEF Settled
  <2> QED
    BY <1>1, <1>3, <1>4, <1>5, <2>1, <2>2
<1>15. CASE Shutdown \/ Exit
  <2>1. /\ phase # "up" /\ UNCHANGED <<sent, topic, rpc, batch, faults, stops>>
    BY <1>15 DEF Shutdown, Exit, MayExit, relay
  <2>2. Settled(r)' = Settled(r) /\ Due' <= Due
    BY <2>1 DEF Settled, Due
  <2> QED
    BY <1>1, <1>3, <1>4, <1>5, <2>1, <2>2
<1>16. CASE Restart
  <2>1. /\ phase' = "up" /\ rpc' = "wait" /\ UNCHANGED <<sent, topic, batch, faults, stops>>
    BY <1>16 DEF Restart
  <2>2. rpc = "ended"
    BY <1>16 DEF RelayInv, DownHasNoDrain, Restart
  <2>3. Due' = 0 /\ Settled(r)' = Settled(r)
    BY <2>1, <2>2 DEF Due, Settled
  <2> QED
    BY <1>1, <1>3, <1>4, <1>5, <2>1, <2>3
<1> QED
  BY <1>8, <1>9, <1>10, <1>11, <1>12, <1>13, <1>14, <1>15, <1>16
     DEF Next, Step, vars, relay, InsertOutbox, CommitPosting, RollbackPosting

\* "A crash between produce and mark replays the batch", and nothing else does:
\* a row is in the topic once, and once more at most for each failure and SIGTERM.
THEOREM RowsAreReplayedOnlyOnFailure == Spec => []DuplicatesAreRetries
<1>1. Init => Retries
  <2> SUFFICES ASSUME Init, NEW r \in Rows
               PROVE  Occurrences(topic, r) + Due <= Settled(r) + faults + stops
    BY DEF Retries
  <2>1. Occurrences(topic, r) = 0
    <3>1. {i \in DOMAIN topic : topic[i] = r} = {}
      BY DEF Init
    <3> QED
      BY <3>1, FS_EmptySet DEF Occurrences
  <2>2. Due = 0 /\ Settled(r) \in {0, 1} /\ faults = 0 /\ stops = 0
    BY DEF Init, Due, Settled
  <2> QED
    BY <2>1, <2>2
<1>2. RelayInv /\ Retries => DuplicatesAreRetries
  <2> SUFFICES ASSUME RelayInv, Retries, NEW r \in rows
               PROVE  Cardinality({i \in DOMAIN topic : topic[i] = r}) <= 1 + faults + stops
    BY DEF DuplicatesAreRetries
  <2>1. r \in Rows /\ topic \in Seq(Rows) /\ faults \in Nat /\ stops \in Nat
    BY DEF RelayInv, TypeOK
  <2>2. Occurrences(topic, r) \in Nat
    <3>1. <<>> \in Seq(Rows) /\ Distinct(<<>>)
      BY DEF Distinct
    <3> QED
      BY <2>1, <3>1, OccurrencesFacts
  <2>3. Due \in {0, 1} /\ Settled(r) \in {0, 1}
    BY DEF Due, Settled
  <2>4. Occurrences(topic, r) + Due <= Settled(r) + faults + stops
    BY <2>1 DEF Retries
  <2>5. Occurrences(topic, r) <= 1 + faults + stops
    BY <2>1, <2>2, <2>3, <2>4
  <2> QED
    BY <2>5 DEF Occurrences
<1>3. RelayInv /\ RelayInv' /\ Retries /\ [Next]_vars => Retries'
  BY RetriesStep
<1> QED
  BY <1>1, <1>2, <1>3, RelayInvariant, PTL DEF Spec
=============================================================================
