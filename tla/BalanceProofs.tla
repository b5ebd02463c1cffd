--------------------------- MODULE BalanceProofs ---------------------------
(***************************************************************************)
(* Balances, checkpoints and holds of one account, for any number of       *)
(* entries, checkpoints, holds and callers.                                *)
(***************************************************************************)
EXTENDS Balance, SumProofs

\* A hold is closed once: whatever races, no step rewrites a hold that is closed.
THEOREM HoldsAreClosedOnce == Spec => ReleasedOnce
<1>1. Next => \A h \in holds : h.released # "no" => h \in holds'
  BY DEF Next, InsertEntry, CommitEntry, RollbackEntry, ReadBalance, MaxEntryIDAsOf,
         InsertCheckpoint, AbandonCheckpoint, ReadLedger, ReadHolds, InsertHold, AbandonHold,
         ReleaseHold, Releasable, ExpireHoldsAsOf, Tick
<1> QED
  BY <1>1, PTL DEF Spec, ReleasedOnce

-----------------------------------------------------------------------------
\* Part 1.  The tables and the calls in progress.

Ledger ==
    /\ open \cup entries \subseteq Entry
    /\ open \cap entries = {}
    /\ nextID \in Nat \ {0}
    /\ \A e \in open \cup entries : e.id < nextID
    /\ \A e, f \in open \cup entries : e.id = f.id => e = f
    /\ IsFiniteSet(entries)

Flag == BOOLEAN

Calls == [pc : {"idle", "holds", "insert"}, amount : HoldAmounts \cup {0}, at : Nat,
          ledger : Int, ahead : Flag]

Hold == [id : Nat, amount : HoldAmounts, expires : Nat,
         released : ClientKinds \cup {"no", "expired"}, ahead : Flag]

Holding ==
    /\ placer \in [Placers -> Calls]
    /\ \A p \in Placers : placer[p].pc # "idle" => placer[p].amount \in HoldAmounts
    /\ holds \subseteq Hold /\ IsFiniteSet(holds)
    /\ clock \in Nat

Progress == [pc : {"idle", "last", "insert"}, date : Dates \cup {0}, balance : Int,
             last : Nat, seen : SUBSET Entry]

Rows == [date : Dates, balance : Int, last : Nat, seen : SUBSET Entry]

\* What a balance was read from was committed, is not after its date, and is not
\* after its watermark, which was read later.
Checkpointed ==
    /\ checkpoints \subseteq Rows
    /\ \A c, b \in checkpoints : c.date = b.date => c = b
    /\ \A c \in checkpoints : /\ c.seen \subseteq entries
                              /\ \A e \in c.seen : e.date <= c.date /\ e.id <= c.last
    /\ ck \in Progress
    /\ ck.pc # "idle" => /\ ck.date \in Dates /\ ck.seen \subseteq entries
                         /\ \A e \in ck.seen : e.date <= ck.date
    /\ ck.pc = "insert" => \A e \in ck.seen : e.id <= ck.last

\* A balance that was read while every watermark separated is the sum of what it
\* was read from; entries and checkpoints are only added, so watermarks that
\* separate now did then.
Exact ==
    (\A c \in checkpoints : Separates(c)) =>
        /\ \A c \in checkpoints : c.balance = Amount(c.seen)
        /\ ck.pc # "idle" => ck.balance = Amount(ck.seen)

BalanceInv == Ledger /\ Holding /\ Checkpointed /\ Exact

\* The sum of the model is the sum that SumProofs is about.
LEMMA AmountIsSum == \A S : Amount(S) = SumOfAmounts(S)
BY DEF Amount, SumOfAmounts

\* Committed entries, and any part of them, can be summed up.
LEMMA EntriesAreSummable ==
    ASSUME Ledger, NEW S, S \subseteq entries
    PROVE  Summable(S) /\ Amount(S) \in Int
<1>1. IsFiniteSet(S)
  BY FS_Subset DEF Ledger
<1>2. \A e \in S : e.amount \in Int
  BY BalanceAssumption DEF Ledger, Entry
<1>3. Summable(S)
  BY <1>1, <1>2 DEF Summable
<1> QED
  BY <1>3, SumType, AmountIsSum

LEMMA NoAmount == Summable({}) /\ Amount({}) = 0
<1>1. Summable({})
  BY FS_EmptySet DEF Summable
<1> QED
  BY <1>1, SumUnfolds, AmountIsSum DEF Summable

\* The checkpoint that a balance starts from.
LEMMA LatestFacts ==
    ASSUME Checkpointed, NEW d \in Nat
    PROVE  \/ Latest(d) = NoCheckpoint
           \/ Latest(d) \in checkpoints /\ Latest(d).date <= d
<1> DEFINE before == {c \in checkpoints : c.date <= d}
           dates == {c.date : c \in before}
<1>1. CASE before = {}
  BY <1>1 DEF Latest
<1>2. CASE before # {}
  <2>1. dates \subseteq Nat /\ dates # {} /\ \A n \in dates : n <= d
    <3>1. \A c \in checkpoints : c.date \in Nat
      BY BalanceAssumption DEF Checkpointed, Rows
    <3>2. PICK c \in before : TRUE
      BY <1>2
    <3>3. c.date \in dates
      BY <3>2
    <3> QED
      BY <3>1, <3>3
  <2>2. PICK m \in dates : \A n \in dates : n <= m
    <3> HIDE DEF dates
    <3> QED
      BY <2>1, GreatestNatural
  <2>3. \E c \in before : \A b \in before : b.date <= c.date
    BY <2>2
  <2>4. Latest(d) = CHOOSE c \in before : \A b \in before : b.date <= c.date
    BY <1>2 DEF Latest
  <2>5. Latest(d) \in before
    <3> HIDE DEF before
    <3> QED
      BY <2>3, <2>4
  <2> QED
    BY <2>5
<1> QED
  BY <1>1, <1>2

\* A balance adds up, without overlap, what its checkpoint was read from and what
\* comes after the watermark; what it misses is at or before the watermark.
LEMMA BalanceSplits ==
    ASSUME Ledger, Checkpointed, NEW d \in Nat, NEW c, c = Latest(d)
    PROVE  LET after == {e \in entries : e.id > c.last /\ e.date <= d}
           IN  /\ c.seen \cap after = {}
               /\ c.seen \cup after \subseteq {e \in entries : e.date <= d}
               /\ c.last \in Nat /\ c.balance \in Int
               /\ c = NoCheckpoint \/ c \in checkpoints
               /\ (c = NoCheckpoint \/ Separates(c)) =>
                      c.seen \cup after = {e \in entries : e.date <= d}
<1> DEFINE after == {e \in entries : e.id > c.last /\ e.date <= d}
<1>1. \A e \in entries : e.id \in Nat \ {0} /\ e.date \in Nat
  BY BalanceAssumption DEF Ledger, Entry
<1>2. CASE c = NoCheckpoint
  <2>1. c.seen = {} /\ c.last = 0 /\ c.balance = 0
    BY <1>2 DEF NoCheckpoint
  <2>2. after = {e \in entries : e.date <= d}
    BY <1>1, <2>1
  <2> QED
    BY <1>2, <2>1, <2>2
<1>3. CASE c \in checkpoints /\ c.date <= d
  <2>1. /\ c.seen \subseteq entries /\ c.last \in Nat /\ c.balance \in Int /\ c.date \in Nat
        /\ \A e \in c.seen : e.date <= c.date /\ e.id <= c.last
    BY <1>3, BalanceAssumption DEF Checkpointed, Rows
  <2>2. \A e \in c.seen : e \in entries /\ e.date <= d /\ ~(e.id > c.last)
    BY <1>1, <1>3, <2>1
  <2>3. ASSUME Separates(c), NEW e \in entries, e.date <= d
        PROVE  e \in c.seen \cup after
    BY <1>1, <2>1, <2>3 DEF Separates
  <2>4. c.seen \cap after = {} /\ c.seen \cup after \subseteq {e \in entries : e.date <= d}
    BY <2>2
  <2>5. Separates(c) => c.seen \cup after = {e \in entries : e.date <= d}
    BY <2>3, <2>4
  <2>6. c = NoCheckpoint => after = {e \in entries : e.date <= d} /\ c.seen = {}
    BY <1>1 DEF NoCheckpoint
  <2>7. c = NoCheckpoint => c.seen \cup after = {e \in entries : e.date <= d}
    BY <2>6
  <2> HIDE DEF after
  <2> QED
    BY <1>3, <2>1, <2>4, <2>5, <2>7 DEF after
<1> QED
  BY <1>2, <1>3, LatestFacts

\* The balance is an integer; and it is the sum of the entries up to the date when
\* every watermark separates and every checkpoint is exact.
LEMMA BalanceFacts ==
    ASSUME Ledger, Checkpointed, NEW d \in Nat
    PROVE  /\ LedgerBalance(d) \in Int
           /\ (/\ \A c \in checkpoints : Separates(c)
               /\ \A c \in checkpoints : c.balance = Amount(c.seen))
              => LedgerBalance(d) = Amount({e \in entries : e.date <= d})
<1> DEFINE c == Latest(d)
           after == {e \in entries : e.id > c.last /\ e.date <= d}
           all == {e \in entries : e.date <= d}
<1>1. /\ c.seen \cap after = {} /\ c.seen \cup after \subseteq all
      /\ c.balance \in Int
      /\ c = NoCheckpoint \/ c \in checkpoints
      /\ (c = NoCheckpoint \/ Separates(c)) => c.seen \cup after = all
  BY BalanceSplits
<1>2. LedgerBalance(d) = c.balance + Amount(after)
  BY DEF LedgerBalance
<1>3. c = NoCheckpoint => c.balance = Amount(c.seen)
  BY NoAmount DEF NoCheckpoint
<1>4. c.seen \subseteq entries /\ after \subseteq entries
  BY <1>1
<1> HIDE DEF c, after, all
<1>5. /\ Summable(c.seen) /\ Summable(after)
      /\ Amount(c.seen) \in Int /\ Amount(after) \in Int
  BY <1>4, EntriesAreSummable
<1>6. Amount(c.seen \cup after) = Amount(c.seen) + Amount(after)
  BY <1>1, <1>5, SumUnion, AmountIsSum
<1>7. LedgerBalance(d) \in Int
  BY <1>1, <1>2, <1>5
<1>8. ASSUME \A b \in checkpoints : Separates(b), \A b \in checkpoints : b.balance = Amount(b.seen)
      PROVE  LedgerBalance(d) = Amount(all)
  <2>1. c.balance = Amount(c.seen) /\ c.seen \cup after = all
    BY <1>1, <1>3, <1>8
  <2> QED
    BY <1>2, <1>6, <2>1
<1> QED
  BY <1>7, <1>8 DEF all

\* Which steps leave a part of the state alone.
LEMMA Frames ==
    ASSUME [Next]_vars
    PROVE  /\ \/ UNCHANGED posting
              \/ \E d \in Dates, m \in EntryAmounts : InsertEntry(d, m)
              \/ \E e \in open : CommitEntry(e) \/ RollbackEntry(e)
           /\ \/ UNCHANGED <<checkpoints, ck>>
              \/ \E d \in Dates : ReadBalance(d)
              \/ MaxEntryIDAsOf \/ InsertCheckpoint \/ AbandonCheckpoint
           /\ \/ UNCHANGED <<placer, holds, clock>>
              \/ \E p \in Placers : \/ \E d \in Dates, m \in HoldAmounts, at \in 0 .. MaxClock :
                                           ReadLedger(p, d, m, at)
                                    \/ ReadHolds(p) \/ InsertHold(p) \/ AbandonHold(p)
              \/ \E h \in holds, kind \in ClientKinds : ReleaseHold(h, kind)
              \/ \E at \in 0 .. MaxClock : ExpireHoldsAsOf(at)
              \/ Tick
<1>1. CASE UNCHANGED vars
  BY <1>1 DEF vars, posting
<1>2. CASE \/ \E d \in Dates, m \in EntryAmounts : InsertEntry(d, m)
           \/ \E e \in open : CommitEntry(e) \/ RollbackEntry(e)
  BY <1>2 DEF InsertEntry, CommitEntry, RollbackEntry
<1>3. CASE \/ \E d \in Dates : ReadBalance(d)
           \/ MaxEntryIDAsOf \/ InsertCheckpoint \/ AbandonCheckpoint
  BY <1>3 DEF ReadBalance, MaxEntryIDAsOf, InsertCheckpoint, AbandonCheckpoint
<1>4. CASE \/ \E p \in Placers : \/ \E d \in Dates, m \in HoldAmounts, at \in 0 .. MaxClock :
                                        ReadLedger(p, d, m, at)
                                 \/ ReadHolds(p) \/ InsertHold(p) \/ AbandonHold(p)
           \/ \E h \in holds, kind \in ClientKinds : ReleaseHold(h, kind)
           \/ \E at \in 0 .. MaxClock : ExpireHoldsAsOf(at)
           \/ Tick
  BY <1>4 DEF ReadLedger, ReadHolds, InsertHold, AbandonHold, ReleaseHold, ExpireHoldsAsOf, Tick
<1> QED
  BY <1>1, <1>2, <1>3, <1>4 DEF Next

LEMMA LedgerStep ==
    ASSUME Ledger, [Next]_vars
    PROVE  Ledger' /\ entries \subseteq entries'
<1>1. CASE UNCHANGED posting
  BY <1>1 DEF posting, Ledger
<1>2. ASSUME NEW d \in Dates, NEW m \in EntryAmounts, InsertEntry(d, m)
      PROVE  Ledger' /\ entries \subseteq entries'
  <2> DEFINE new == [id |-> nextID, date |-> d, amount |-> m]
  <2>1. /\ nextID' = nextID + 1 /\ open' = open \cup {new} /\ entries' = entries
        /\ nextID \in Nat \ {0}
    BY <1>2 DEF InsertEntry, Ledger
  <2>2. new \in Entry /\ new.id = nextID
    BY <2>1 DEF Entry
  <2>3. \A e \in open \cup entries : e.id \in Nat /\ e.id < nextID
    BY DEF Ledger, Entry
  <2> HIDE DEF new
  <2>4. new \notin open \cup entries
    BY <2>1, <2>2, <2>3
  <2>5. nextID' \in Nat \ {0} /\ \A e \in open' \cup entries' : e.id < nextID'
    BY <2>1, <2>2, <2>3
  <2>6. \A e, f \in open' \cup entries' : e.id = f.id => e = f
    BY <2>1, <2>2, <2>3 DEF Ledger
  <2> QED
    BY <2>1, <2>2, <2>4, <2>5, <2>6 DEF Ledger
<1>3. ASSUME NEW e \in open, CommitEntry(e) \/ RollbackEntry(e)
      PROVE  Ledger' /\ entries \subseteq entries'
  <2>1. /\ nextID' = nextID /\ open' = open \ {e}
        /\ entries' = entries \cup {e} \/ entries' = entries
    BY <1>3 DEF CommitEntry, RollbackEntry
  <2>2. open' \cup entries' \subseteq open \cup entries
    BY <2>1
  <2>3. IsFiniteSet(entries')
    BY <2>1, FS_AddElement DEF Ledger
  <2> QED
    BY <2>1, <2>2, <2>3 DEF Ledger
<1> QED
  BY <1>1, <1>2, <1>3, Frames

LEMMA HoldingStep ==
    ASSUME Ledger, Checkpointed, Holding, [Next]_vars
    PROVE  Holding'
<1>1. /\ placer \in [Placers -> Calls] /\ holds \subseteq Hold /\ IsFiniteSet(holds) /\ clock \in Nat
      /\ \A p \in Placers : placer[p].pc # "idle" => placer[p].amount \in HoldAmounts
  BY DEF Holding
<1>2. /\ HoldAmounts \subseteq Nat /\ HoldDuration \in Nat /\ MaxClock \in Nat /\ Dates \subseteq Nat
      /\ ClientKinds \subseteq {"captured", "cancelled", "expired"}
  BY BalanceAssumption
<1>3. NoCall \in Calls /\ NoCall.pc = "idle"
  BY DEF NoCall, Calls, Flag
<1>4. ASSUME NEW p \in Placers, NEW new \in Calls, new.pc # "idle" => new.amount \in HoldAmounts,
             placer' = [placer EXCEPT ![p] = new], UNCHANGED <<holds, clock>>
      PROVE  Holding'
  BY <1>1, <1>4 DEF Holding
<1>5. ASSUME NEW p \in Placers, NEW d \in Dates, NEW m \in HoldAmounts, NEW at \in 0 .. MaxClock,
             ReadLedger(p, d, m, at)
      PROVE  Holding'
  <2> DEFINE new == [pc |-> "holds", amount |-> m, at |-> at,
                     ledger |-> LedgerBalance(d), ahead |-> at > clock]
  <2>1. placer' = [placer EXCEPT ![p] = new] /\ UNCHANGED <<holds, clock>>
    BY <1>5 DEF ReadLedger
  <2>2. LedgerBalance(d) \in Int
    <3>1. d \in Nat
      BY <1>2
    <3> QED
      BY <3>1, BalanceFacts
  <2>3. new \in Calls
    <3>1. at \in Nat /\ (at > clock) \in Flag
      BY <1>1, <1>2 DEF Flag
    <3> HIDE DEF LedgerBalance
    <3> QED
      BY <2>2, <3>1 DEF Calls
  <2>4. new.amount = m
    OBVIOUS
  <2> HIDE DEF new
  <2> QED
    BY <1>4, <2>1, <2>3, <2>4
<1>6. ASSUME NEW p \in Placers, ReadHolds(p)
      PROVE  Holding'
  <2> DEFINE new == [placer[p] EXCEPT !.pc = "insert", !.ledger = 0]
  <2>1. /\ UNCHANGED <<holds, clock>> /\ placer[p].pc = "holds"
        /\ placer' = [placer EXCEPT ![p] = new] \/ placer' = [placer EXCEPT ![p] = NoCall]
    BY <1>6 DEF ReadHolds
  <2>2. placer[p] \in Calls
    BY <1>1
  <2>3. new \in Calls /\ new.amount = placer[p].amount
    <3>1. ASSUME NEW r \in Calls
          PROVE  /\ [r EXCEPT !.pc = "insert"] \in Calls
                 /\ [r EXCEPT !.pc = "insert"].amount = r.amount
      BY DEF Calls
    <3>2. ASSUME NEW r \in Calls
          PROVE  [r EXCEPT !.ledger = 0] \in Calls /\ [r EXCEPT !.ledger = 0].amount = r.amount
      BY DEF Calls
    <3>3. new = [[placer[p] EXCEPT !.pc = "insert"] EXCEPT !.ledger = 0]
      OBVIOUS
    <3> QED
      BY <2>2, <3>1, <3>2, <3>3
  <2> HIDE DEF new
  <2> QED
    BY <1>1, <1>3, <1>4, <2>1, <2>3
<1>7. ASSUME NEW p \in Placers, InsertHold(p)
      PROVE  Holding'
  <2> DEFINE new == [id |-> Cardinality(holds) + 1, amount |-> placer[p].amount,
                     expires |-> placer[p].at + HoldDuration, released |-> "no",
                     ahead |-> placer[p].ahead]
  <2>1. /\ holds' = holds \cup {new} /\ placer' = [placer EXCEPT ![p] = NoCall]
        /\ clock' = clock /\ placer[p].pc = "insert"
    BY <1>7 DEF InsertHold
  <2>2. placer[p] \in Calls /\ placer[p].amount \in HoldAmounts
    BY <1>1, <2>1
  <2>3. Cardinality(holds) \in Nat /\ placer[p].at \in Nat /\ placer[p].ahead \in Flag
    BY <1>1, <2>2, FS_CardinalityType DEF Calls
  <2>4. new \in Hold
    BY <1>2, <2>2, <2>3 DEF Hold
  <2> HIDE DEF new
  <2>5. holds' \subseteq Hold /\ IsFiniteSet(holds')
    BY <1>1, <2>1, <2>4, FS_AddElement
  <2> QED
    BY <1>1, <1>3, <2>1, <2>5 DEF Holding
<1>8. ASSUME NEW p \in Placers, AbandonHold(p)
      PROVE  Holding'
  BY <1>3, <1>4, <1>8 DEF AbandonHold
<1>9. ASSUME NEW h \in Hold, NEW kind \in ClientKinds \cup {"expired"}
      PROVE  Close(h, kind) \in Hold
  BY DEF Close, Hold
<1>10. ASSUME NEW h \in holds, NEW kind \in ClientKinds, ReleaseHold(h, kind)
       PROVE  Holding'
  <2>1. holds' = (holds \ {h}) \cup {Close(h, kind)} /\ UNCHANGED <<placer, clock>>
    BY <1>10 DEF ReleaseHold
  <2>2. Close(h, kind) \in Hold
    BY <1>1, <1>9
  <2>3. IsFiniteSet(holds \ {h})
    BY <1>1, FS_Subset
  <2>4. holds' \subseteq Hold /\ IsFiniteSet(holds')
    BY <1>1, <2>1, <2>2, <2>3, FS_AddElement
  <2> QED
    BY <1>1, <2>1, <2>4 DEF Holding
<1>11. ASSUME NEW at \in 0 .. MaxClock, ExpireHoldsAsOf(at)
       PROVE  Holding'
  <2> DEFINE due == {h \in holds : Releasable(h) /\ h.expires <= at}
             closed == {Close(h, "expired") : h \in due}
  <2>1. holds' = (holds \ due) \cup closed /\ UNCHANGED <<placer, clock>>
    BY <1>11 DEF ExpireHoldsAsOf
  <2>2. closed \subseteq Hold
    BY <1>1, <1>9
  <2>3. IsFiniteSet(holds \ due) /\ IsFiniteSet(due)
    BY <1>1, FS_Subset
  <2>4. IsFiniteSet(closed)
    <3> DEFINE f == [h \in due |-> Close(h, "expired")]
    <3>1. f \in Surjection(due, closed)
      BY DEF Surjection
    <3> HIDE DEF due, closed, f
    <3> QED
      BY <2>3, <3>1, FS_Surjection
  <2> HIDE DEF due, closed
  <2>5. holds' \subseteq Hold /\ IsFiniteSet(holds')
    BY <1>1, <2>1, <2>2, <2>3, <2>4, FS_Union
  <2> QED
    BY <1>1, <2>1, <2>5 DEF Holding
<1>12. CASE Tick \/ UNCHANGED <<placer, holds, clock>>
  BY <1>1, <1>12 DEF Tick, Holding
<1> QED
  BY <1>5, <1>6, <1>7, <1>8, <1>10, <1>11, <1>12, Frames

\* The greatest id of committed entries, as MaxEntryIDAsOf reads it.
LEMMA WatermarkFacts ==
    ASSUME Ledger, NEW S, S \subseteq entries
    PROVE  /\ Max({0} \cup {e.id : e \in S}) \in Nat
           /\ \A e \in S : e.id <= Max({0} \cup {f.id : f \in S})
<1> DEFINE ids == {0} \cup {e.id : e \in S}
<1>1. \A e \in S : e.id \in Nat /\ e.id <= nextID /\ e.id \in ids
  BY DEF Ledger, Entry
<1>2. ids \subseteq Nat /\ ids # {} /\ nextID \in Nat /\ \A n \in ids : n <= nextID
  BY <1>1 DEF Ledger
<1> HIDE DEF ids
<1>3. \E m \in ids : \A n \in ids : n <= m
  BY <1>2, GreatestNatural
<1>4. \E m \in ids : \A n \in ids : m >= n
  BY <1>2, <1>3
<1>5. Max(ids) \in ids /\ \A n \in ids : Max(ids) >= n
  BY <1>4 DEF Max
<1> QED
  BY <1>1, <1>2, <1>5 DEF ids

\* What each step of Checkpoint does to the call in progress.
LEMMA CheckpointSteps ==
    ASSUME Ledger, Checkpointed
    PROVE  /\ \A d \in Dates : ReadBalance(d) =>
                  /\ ck'.pc = "last" /\ ck'.date = d /\ ck'.balance = LedgerBalance(d)
                  /\ ck'.seen = {e \in entries : e.date <= d} /\ ck' \in Progress
           /\ MaxEntryIDAsOf =>
                  /\ ck.pc = "last" /\ ck'.pc = "insert" /\ ck'.date = ck.date
                  /\ ck'.balance = ck.balance /\ ck'.seen = ck.seen /\ ck' \in Progress
                  /\ ck'.last = Max({0} \cup {e.id : e \in {f \in entries : f.date <= ck.date}})
           /\ InsertCheckpoint \/ AbandonCheckpoint => ck'.pc = "idle" /\ ck' \in Progress
<1>1. ck \in Progress
  BY DEF Checkpointed
<1>2. ASSUME NEW d \in Dates, ReadBalance(d)
      PROVE  /\ ck'.pc = "last" /\ ck'.date = d /\ ck'.balance = LedgerBalance(d)
             /\ ck'.seen = {e \in entries : e.date <= d} /\ ck' \in Progress
  <2>1. d \in Nat
    BY BalanceAssumption
  <2>2. LedgerBalance(d) \in Int
    BY <2>1, BalanceFacts
  <2>3. {e \in entries : e.date <= d} \in SUBSET Entry
    BY DEF Ledger
  <2> DEFINE b == LedgerBalance(d)
             s == {e \in entries : e.date <= d}
  <2>4. ck' = [ck EXCEPT !.pc = "last", !.date = d, !.balance = b, !.seen = s]
    BY <1>2 DEF ReadBalance
  <2> HIDE DEF b, s
  <2>5. b \in Int /\ s \in SUBSET Entry
    BY <2>2, <2>3 DEF b, s
  <2>6. /\ ck'.pc = "last" /\ ck'.date = d /\ ck'.balance = b
        /\ ck'.seen = s /\ ck' \in Progress
    BY <1>1, <2>4, <2>5 DEF Progress
  <2> QED
    BY <2>6 DEF b, s
<1>3. ASSUME MaxEntryIDAsOf
      PROVE  /\ ck.pc = "last" /\ ck'.pc = "insert" /\ ck'.date = ck.date
             /\ ck'.balance = ck.balance /\ ck'.seen = ck.seen /\ ck' \in Progress
             /\ ck'.last = Max({0} \cup {e.id : e \in {f \in entries : f.date <= ck.date}})
  <2> DEFINE S == {f \in entries : f.date <= ck.date}
             m == Max({0} \cup {e.id : e \in S})
  <2>1. m \in Nat
    <3>1. S \subseteq entries
      OBVIOUS
    <3> HIDE DEF S
    <3> QED
      BY <3>1, WatermarkFacts
  <2>2. ck' = [ck EXCEPT !.pc = "insert", !.last = m] /\ ck.pc = "last"
    BY <1>3 DEF MaxEntryIDAsOf
  <2> HIDE DEF m
  <2>3. /\ ck'.pc = "insert" /\ ck'.date = ck.date /\ ck'.balance = ck.balance
        /\ ck'.seen = ck.seen /\ ck'.last = m /\ ck' \in Progress
    BY <1>1, <2>1, <2>2 DEF Progress
  <2> QED
    BY <2>2, <2>3 DEF m
<1>4. ASSUME InsertCheckpoint \/ AbandonCheckpoint
      PROVE  ck'.pc = "idle" /\ ck' \in Progress
  <2>1. ck' = [ck EXCEPT !.pc = "idle", !.date = 0, !.balance = 0, !.last = 0, !.seen = {}]
    BY <1>4 DEF InsertCheckpoint, AbandonCheckpoint
  <2> DEFINE q == [ck EXCEPT !.pc = "idle", !.date = 0]
             r == [q EXCEPT !.balance = 0]
  <2>2. q \in Progress /\ q.pc = "idle"
    BY <1>1 DEF Progress
  <2>3. r \in Progress /\ r.pc = "idle"
    <3> HIDE DEF q
    <3> QED
      BY <2>2 DEF Progress
  <2>4. ck' = [r EXCEPT !.last = 0, !.seen = {}]
    BY <2>1
  <2> HIDE DEF r
  <2> QED
    BY <2>3, <2>4 DEF Progress
<1> QED
  BY <1>2, <1>3, <1>4

LEMMA CheckpointedStep ==
    ASSUME Ledger, Checkpointed, [Next]_vars
    PROVE  Checkpointed'
<1>1. entries \subseteq entries'
  BY LedgerStep
<1>2. /\ checkpoints \subseteq Rows
      /\ \A c, b \in checkpoints : c.date = b.date => c = b
      /\ \A c \in checkpoints : /\ c.seen \subseteq entries
                                /\ \A e \in c.seen : e.date <= c.date /\ e.id <= c.last
      /\ ck \in Progress
      /\ ck.pc # "idle" => /\ ck.date \in Dates /\ ck.seen \subseteq entries
                           /\ \A e \in ck.seen : e.date <= ck.date
      /\ ck.pc = "insert" => \A e \in ck.seen : e.id <= ck.last
  BY DEF Checkpointed
<1>3. CASE UNCHANGED <<checkpoints, ck>>
  <2>1. checkpoints' = checkpoints /\ ck' = ck
    BY <1>3
  <2>2. \A c \in checkpoints : c.seen \subseteq entries'
    BY <1>1, <1>2
  <2>3. ck.pc # "idle" => ck.seen \subseteq entries'
    BY <1>1, <1>2
  <2> QED
    BY <1>2, <2>1, <2>2, <2>3 DEF Checkpointed
<1>4. ASSUME NEW d \in Dates, ReadBalance(d)
      PROVE  Checkpointed'
  <2>1. checkpoints' = checkpoints /\ entries' = entries
    BY <1>4 DEF ReadBalance, posting
  <2>2. /\ ck'.pc = "last" /\ ck'.date = d
        /\ ck'.seen = {e \in entries : e.date <= d} /\ ck' \in Progress
    BY <1>4, CheckpointSteps
  <2> QED
    BY <1>2, <2>1, <2>2 DEF Checkpointed
<1>5. CASE MaxEntryIDAsOf
  <2> DEFINE S == {f \in entries : f.date <= ck.date}
             m == Max({0} \cup {e.id : e \in S})
  <2>1. checkpoints' = checkpoints /\ entries' = entries
    BY <1>5 DEF MaxEntryIDAsOf, posting
  <2>2. /\ ck.pc = "last" /\ ck'.pc = "insert" /\ ck'.date = ck.date
        /\ ck'.seen = ck.seen /\ ck' \in Progress /\ ck'.last = m
    BY <1>5, CheckpointSteps
  <2>3. \A e \in S : e.id <= m
    <3>1. S \subseteq entries
      OBVIOUS
    <3> HIDE DEF S
    <3> QED
      BY <3>1, WatermarkFacts
  <2>4. ck.seen \subseteq S
    BY <1>2, <2>2
  <2> HIDE DEF S, m
  <2>5. \A e \in ck.seen : e.id <= ck'.last
    BY <2>2, <2>3, <2>4
  <2> QED
    BY <1>2, <2>1, <2>2, <2>5 DEF Checkpointed
<1>6. CASE InsertCheckpoint
  <2> DEFINE new == [date |-> ck.date, balance |-> ck.balance, last |-> ck.last, seen |-> ck.seen]
  <2>1. /\ entries' = entries /\ ck.pc = "insert"
        /\ \/ checkpoints' = checkpoints
           \/ /\ checkpoints' = checkpoints \cup {new}
              /\ \A c \in checkpoints : c.date # ck.date
    BY <1>6 DEF InsertCheckpoint, posting
  <2>2. ck'.pc = "idle" /\ ck' \in Progress
    BY <1>6, CheckpointSteps
  <2>3. new \in Rows /\ new.date = ck.date /\ new.seen = ck.seen /\ new.last = ck.last
    BY <1>2, <2>1 DEF Rows, Progress
  <2> HIDE DEF new
  <2>4. \A c, b \in checkpoints' : c.date = b.date => c = b
    BY <1>2, <2>1, <2>3
  <2>5. \A c \in checkpoints' : /\ c.seen \subseteq entries
                                /\ \A e \in c.seen : e.date <= c.date /\ e.id <= c.last
    BY <1>2, <2>1, <2>3
  <2> QED
    BY <1>2, <2>1, <2>2, <2>3, <2>4, <2>5 DEF Checkpointed
<1>7. CASE AbandonCheckpoint
  <2>1. checkpoints' = checkpoints /\ entries' = entries
    BY <1>7 DEF AbandonCheckpoint, posting
  <2>2. ck'.pc = "idle" /\ ck' \in Progress
    BY <1>7, CheckpointSteps
  <2> QED
    BY <1>2, <2>1, <2>2 DEF Checkpointed
<1> QED
  BY <1>3, <1>4, <1>5, <1>6, <1>7, Frames

\* The checkpoints are those of before and, at most, the one of the call.
LEMMA CheckpointsGrow ==
    ASSUME [Next]_vars
    PROVE  \/ checkpoints' = checkpoints
           \/ /\ InsertCheckpoint
              /\ checkpoints' = checkpoints \cup {[date |-> ck.date, balance |-> ck.balance,
                                                   last |-> ck.last, seen |-> ck.seen]}
<1>1. CASE UNCHANGED <<checkpoints, ck>>
  BY <1>1
<1>2. CASE \E d \in Dates : ReadBalance(d)
  BY <1>2 DEF ReadBalance
<1>3. CASE MaxEntryIDAsOf \/ AbandonCheckpoint
  BY <1>3 DEF MaxEntryIDAsOf, AbandonCheckpoint
<1>4. CASE InsertCheckpoint
  BY <1>4 DEF InsertCheckpoint
<1> QED
  BY <1>1, <1>2, <1>3, <1>4, Frames

LEMMA ExactStep ==
    ASSUME Ledger, Checkpointed, Exact, [Next]_vars
    PROVE  Exact'
<1> DEFINE new == [date |-> ck.date, balance |-> ck.balance, last |-> ck.last, seen |-> ck.seen]
<1>1. entries \subseteq entries'
  BY LedgerStep
<1>2. \/ checkpoints' = checkpoints
      \/ InsertCheckpoint /\ checkpoints' = checkpoints \cup {new}
  BY CheckpointsGrow
<1>3. new.balance = ck.balance /\ new.seen = ck.seen
  OBVIOUS
<1> HIDE DEF new
<1> SUFFICES ASSUME \A c \in checkpoints' : \A e \in entries' : e.id <= c.last => e \in c.seen
             PROVE  /\ \A c \in checkpoints' : c.balance = Amount(c.seen)
                    /\ ck'.pc # "idle" => ck'.balance = Amount(ck'.seen)
  BY DEF Exact, Separates
<1>4. \A c \in checkpoints : Separates(c)
  <2> SUFFICES ASSUME NEW c \in checkpoints
               PROVE  Separates(c)
    OBVIOUS
  <2>1. c \in checkpoints'
    BY <1>2
  <2>2. \A e \in entries' : e.id <= c.last => e \in c.seen
    BY <2>1
  <2> QED
    BY <1>1, <2>2 DEF Separates
<1>5. /\ \A c \in checkpoints : c.balance = Amount(c.seen)
      /\ ck.pc # "idle" => ck.balance = Amount(ck.seen)
  BY <1>4 DEF Exact
<1>6. \A c \in checkpoints' : c.balance = Amount(c.seen)
  <2>1. InsertCheckpoint => ck.pc # "idle"
    BY DEF InsertCheckpoint
  <2> QED
    BY <1>2, <1>3, <1>5, <2>1
<1>7. ck'.pc # "idle" => ck'.balance = Amount(ck'.seen)
  <2>1. CASE UNCHANGED <<checkpoints, ck>>
    BY <1>5, <2>1
  <2>2. ASSUME NEW d \in Dates, ReadBalance(d)
        PROVE  ck'.balance = Amount(ck'.seen)
    <3>1. d \in Nat
      BY BalanceAssumption
    <3>2. LedgerBalance(d) = Amount({e \in entries : e.date <= d})
      BY <1>4, <1>5, <3>1, BalanceFacts
    <3>3. ck'.balance = LedgerBalance(d) /\ ck'.seen = {e \in entries : e.date <= d}
      BY <2>2, CheckpointSteps
    <3> QED
      BY <3>2, <3>3
  <2>3. CASE MaxEntryIDAsOf
    <3>1. ck.pc = "last" /\ ck'.balance = ck.balance /\ ck'.seen = ck.seen
      BY <2>3, CheckpointSteps
    <3> QED
      BY <1>5, <3>1
  <2>4. CASE InsertCheckpoint \/ AbandonCheckpoint
    BY <2>4, CheckpointSteps
  <2> QED
    BY <2>1, <2>2, <2>3, <2>4, Frames
<1> QED
  BY <1>6, <1>7

LEMMA BalanceInit == Init => BalanceInv
<1> SUFFICES ASSUME Init
             PROVE  BalanceInv
  OBVIOUS
<1>1. Ledger
  BY FS_EmptySet DEF Init, Ledger
<1>2. Holding
  <2>1. NoCall \in Calls /\ NoCall.pc = "idle"
    BY DEF NoCall, Calls, Flag
  <2>2. placer = [p \in Placers |-> NoCall] /\ holds = {} /\ clock = 0
    BY DEF Init
  <2> QED
    BY <2>1, <2>2, FS_EmptySet DEF Holding
<1>3. checkpoints = {} /\ ck.pc = "idle" /\ ck \in Progress
  BY DEF Init, Progress
<1>4. Checkpointed
  BY <1>3 DEF Checkpointed
<1>5. Exact
  BY <1>3 DEF Exact
<1> QED
  BY <1>1, <1>2, <1>4, <1>5 DEF BalanceInv

\* The tables and the calls in progress are consistent in every state.
THEOREM BalanceInvariance == Spec => []BalanceInv
<1>1. BalanceInv /\ [Next]_vars => BalanceInv'
  BY LedgerStep, HoldingStep, CheckpointedStep, ExactStep DEF BalanceInv
<1> QED
  BY <1>1, BalanceInit, PTL DEF Spec

\* Entry ids are used once, an account-day has one checkpoint, and every call in
\* progress and every hold is in a state that the code gives it.
THEOREM BalanceTypeCorrect == Spec => []TypeOK
<1>1. BalanceInv => TypeOK
  <2> SUFFICES ASSUME BalanceInv
               PROVE  TypeOK
    OBVIOUS
  <2>1. /\ open \cup entries \subseteq Entry /\ open \cap entries = {} /\ nextID \in Nat
        /\ \A e, f \in open \cup entries : e.id = f.id => e = f
    BY DEF BalanceInv, Ledger
  <2>2. \A c, b \in checkpoints : c.date = b.date => c = b
    BY DEF BalanceInv, Checkpointed
  <2>3. ck.pc \in {"idle", "last", "insert"}
    BY DEF BalanceInv, Checkpointed, Progress
  <2>4. \A p \in Placers : placer[p].pc \in {"idle", "holds", "insert"}
    BY DEF BalanceInv, Holding, Calls
  <2>5. \A h \in holds : h.amount \in HoldAmounts /\ h.released \in ClientKinds \cup {"no", "expired"}
    BY DEF BalanceInv, Holding, Hold
  <2>6. clock \in Nat
    BY DEF BalanceInv, Holding
  <2> QED
    BY <2>1, <2>2, <2>3, <2>4, <2>5, <2>6 DEF TypeOK
<1> QED
  BY <1>1, BalanceInvariance, PTL

\* FR-L4: through any chain of checkpoints and with late entries, the derived
\* balance is the sum of the entries, as long as every watermark separates.
THEOREM BalanceIsDerived == Spec => []BalanceIsSumIfSeparated
<1>1. BalanceInv => BalanceIsSumIfSeparated
  <2> SUFFICES ASSUME BalanceInv, \A c \in checkpoints : Separates(c), NEW d \in Dates
               PROVE  LedgerBalance(d) = SumOfEntries(d)
    BY DEF BalanceIsSumIfSeparated
  <2>1. Ledger /\ Checkpointed /\ d \in Nat
    BY BalanceAssumption DEF BalanceInv
  <2>2. \A c \in checkpoints : c.balance = Amount(c.seen)
    BY DEF BalanceInv, Exact
  <2> QED
    BY <2>1, <2>2, BalanceFacts DEF SumOfEntries
<1> QED
  BY <1>1, BalanceInvariance, PTL

-----------------------------------------------------------------------------
\* Part 2.  How far callers that overlap may overcommit an account that is only
\* credited.

Credited == \A m \in EntryAmounts : m >= 0

\* placed_at was not ahead of the clock.
Current(r) == ~r.ahead

HeldOf(rows, t) == {h \in rows : h.released = "no" /\ h.expires > t /\ Current(h)}
PendingOf(calls) == {[id |-> p, amount |-> calls[p].amount] :
                         p \in {q \in Placers : calls[q].pc = "insert" /\ Current(calls[q])}}

Limit == (Cardinality(Placers) - 1) * Max(HoldAmounts)

\* A balance may miss entries below a watermark, which are credits: no balance
\* that was read is above the entries.
Under ==
    /\ \A c \in checkpoints : c.balance <= Amount(c.seen)
    /\ ck.pc # "idle" => ck.balance <= Amount(ck.seen)
    /\ \A p \in Placers : placer[p].pc = "holds" =>
           /\ placer[p].ledger <= Amount(entries)
           /\ Current(placer[p]) => placer[p].at <= clock

HoldCap == Amount(HeldOf(holds, clock)) + Amount(PendingOf(placer)) <= Amount(entries) + Limit

LEMMA EntryAmountsAreCredits == Credited => EntryAmounts \subseteq Nat
<1>1. \A m \in EntryAmounts : m \in Int
  BY BalanceAssumption
<1>2. \A m \in Int : m >= 0 => m \in Nat
  OBVIOUS
<1> QED
  BY <1>1, <1>2 DEF Credited

\* Committed entries are credits.
LEMMA EntriesAreCredits ==
    ASSUME Ledger, Credited, NEW S, S \subseteq entries
    PROVE  Credits(S) /\ Amount(S) \in Nat /\ Amount(S) <= Amount(entries)
<1>1. \A e \in entries : e.amount \in Nat
  BY EntryAmountsAreCredits DEF Ledger, Entry
<1>2. Credits(entries)
  BY <1>1 DEF Ledger, Credits
<1> QED
  BY <1>2, CreditsMonotone, AmountIsSum

LEMMA BalanceIsUnder ==
    ASSUME Ledger, Checkpointed, Credited, \A c \in checkpoints : c.balance <= Amount(c.seen),
           NEW d \in Nat
    PROVE  LedgerBalance(d) <= Amount({e \in entries : e.date <= d})
<1> DEFINE c == Latest(d)
           after == {e \in entries : e.id > c.last /\ e.date <= d}
           all == {e \in entries : e.date <= d}
<1>1. /\ c.seen \cap after = {} /\ c.seen \cup after \subseteq all
      /\ c.balance \in Int
      /\ c = NoCheckpoint \/ c \in checkpoints
  BY BalanceSplits
<1>2. LedgerBalance(d) = c.balance + Amount(after)
  BY DEF LedgerBalance
<1>3. c = NoCheckpoint => c.balance <= Amount(c.seen)
  BY NoAmount DEF NoCheckpoint
<1>4. c.seen \subseteq entries /\ after \subseteq entries /\ all \subseteq entries
  BY <1>1
<1> HIDE DEF c, after, all
<1>5. /\ Summable(c.seen) /\ Summable(after)
      /\ Amount(c.seen) \in Int /\ Amount(after) \in Int
  BY <1>4, EntriesAreSummable
<1>6. Amount(c.seen \cup after) = Amount(c.seen) + Amount(after)
  BY <1>1, <1>5, SumUnion, AmountIsSum
<1>7. Credits(all) /\ Amount(all) \in Nat
  BY <1>4, EntriesAreCredits
<1>8. Amount(c.seen \cup after) <= Amount(all)
  BY <1>1, <1>7, CreditsMonotone, AmountIsSum
<1>9. c.balance <= Amount(c.seen)
  BY <1>1, <1>3
<1>10. LedgerBalance(d) <= Amount(all)
  BY <1>1, <1>2, <1>5, <1>6, <1>7, <1>8, <1>9
<1> QED
  BY <1>10 DEF all

\* The fields of a call that goes on to the INSERT.
LEMMA ApprovedCall ==
    ASSUME NEW r \in Calls, NEW new, new = [r EXCEPT !.pc = "insert", !.ledger = 0]
    PROVE  new.pc = "insert" /\ new.amount = r.amount /\ Current(new) = Current(r)
<1>1. new.pc = "insert" /\ new.amount = r.amount /\ new.ahead = r.ahead
  BY DEF Calls
<1> QED
  BY <1>1 DEF Current

LEMMA UnderStep ==
    ASSUME Ledger, Checkpointed, Holding, Credited, Under, [Next]_vars
    PROVE  Under'
<1>1. entries \subseteq entries' /\ Ledger'
  BY LedgerStep
<1>2. Amount(entries) \in Nat /\ Amount(entries') \in Nat /\ Amount(entries) <= Amount(entries')
  <2>1. Credits(entries') /\ Amount(entries') \in Nat
    <3>1. \A e \in entries' : e.amount \in Nat
      BY <1>1, EntryAmountsAreCredits DEF Ledger, Entry
    <3>2. Credits(entries')
      BY <1>1, <3>1 DEF Ledger, Credits
    <3> QED
      BY <3>2, CreditsType, AmountIsSum
  <2> QED
    BY <1>1, <2>1, CreditsMonotone, AmountIsSum
<1>3. \A c \in checkpoints' : c.balance <= Amount(c.seen)
  <2> DEFINE new == [date |-> ck.date, balance |-> ck.balance, last |-> ck.last, seen |-> ck.seen]
  <2>1. \/ checkpoints' = checkpoints
        \/ InsertCheckpoint /\ checkpoints' = checkpoints \cup {new}
    BY CheckpointsGrow
  <2>2. new.balance = ck.balance /\ new.seen = ck.seen
    OBVIOUS
  <2> HIDE DEF new
  <2>3. InsertCheckpoint => ck.pc # "idle"
    BY DEF InsertCheckpoint
  <2> QED
    BY <2>1, <2>2, <2>3 DEF Under
<1>4. ck'.pc # "idle" => ck'.balance <= Amount(ck'.seen)
  <2>1. CASE UNCHANGED <<checkpoints, ck>>
    BY <2>1 DEF Under
  <2>2. ASSUME NEW d \in Dates, ReadBalance(d)
        PROVE  ck'.balance <= Amount(ck'.seen)
    <3>1. d \in Nat
      BY BalanceAssumption
    <3>2. LedgerBalance(d) <= Amount({e \in entries : e.date <= d})
      BY <3>1, BalanceIsUnder DEF Under
    <3>3. ck'.balance = LedgerBalance(d) /\ ck'.seen = {e \in entries : e.date <= d}
      BY <2>2, CheckpointSteps
    <3> QED
      BY <3>2, <3>3
  <2>3. CASE MaxEntryIDAsOf
    <3>1. ck.pc = "last" /\ ck'.balance = ck.balance /\ ck'.seen = ck.seen
      BY <2>3, CheckpointSteps
    <3> QED
      BY <3>1 DEF Under
  <2>4. CASE InsertCheckpoint \/ AbandonCheckpoint
    BY <2>4, CheckpointSteps
  <2> QED
    BY <2>1, <2>2, <2>3, <2>4, Frames
<1>5. ASSUME NEW p \in Placers, placer'[p].pc = "holds"
      PROVE  /\ placer'[p].ledger <= Amount(entries')
             /\ Current(placer'[p]) => placer'[p].at <= clock'
  <2>1. /\ placer \in [Placers -> Calls] /\ clock \in Nat
        /\ \A q \in Placers : placer[q].ledger \in Int /\ placer[q].at \in Nat
    BY DEF Holding, Calls
  <2>2. ASSUME clock' \in Nat, clock <= clock', placer'[p] = placer[p]
        PROVE  /\ placer'[p].ledger <= Amount(entries')
               /\ Current(placer'[p]) => placer'[p].at <= clock'
    BY <1>2, <1>5, <2>1, <2>2 DEF Under
  <2>3. CASE UNCHANGED <<placer, holds, clock>>
    BY <2>1, <2>2, <2>3
  <2>4. ASSUME NEW q \in Placers, NEW d \in Dates, NEW m \in HoldAmounts, NEW at \in 0 .. MaxClock,
               ReadLedger(q, d, m, at)
        PROVE  /\ placer'[p].ledger <= Amount(entries')
               /\ Current(placer'[p]) => placer'[p].at <= clock'
    <3> DEFINE new == [pc |-> "holds", amount |-> m, at |-> at,
                       ledger |-> LedgerBalance(d), ahead |-> at > clock]
    <3>1. placer' = [placer EXCEPT ![q] = new] /\ clock' = clock
      BY <2>4 DEF ReadLedger
    <3>2. CASE q # p
      BY <2>1, <2>2, <3>1, <3>2
    <3>3. CASE q = p
      <4>1. new.ledger = LedgerBalance(d) /\ new.at = at /\ new.ahead = (at > clock)
        OBVIOUS
      <4>2. d \in Nat /\ at \in Nat
        BY BalanceAssumption
      <4>3. LedgerBalance(d) \in Int
        BY <4>2, BalanceFacts
      <4>4. LedgerBalance(d) <= Amount({e \in entries : e.date <= d})
        BY <4>2, BalanceIsUnder DEF Under
      <4>5. /\ Amount({e \in entries : e.date <= d}) \in Nat
            /\ Amount({e \in entries : e.date <= d}) <= Amount(entries)
        <5> DEFINE S == {e \in entries : e.date <= d}
        <5>1. S \subseteq entries
          OBVIOUS
        <5> HIDE DEF S
        <5>2. Amount(S) \in Nat /\ Amount(S) <= Amount(entries)
          BY <5>1, EntriesAreCredits
        <5> QED
          BY <5>2 DEF S
      <4>6. LedgerBalance(d) <= Amount(entries')
        BY <1>2, <4>3, <4>4, <4>5
      <4> HIDE DEF new
      <4>7. Current(new) => at <= clock
        <5>1. Current(new) => ~(at > clock)
          BY <4>1, Zenon DEF Current
        <5> QED
          BY <2>1, <4>2, <5>1
      <4>8. placer'[p] = new
        BY <2>1, <3>1, <3>3
      <4> QED
        BY <3>1, <4>1, <4>6, <4>7, <4>8
    <3> QED
      BY <3>2, <3>3
  <2>5. ASSUME NEW q \in Placers, ReadHolds(q) \/ InsertHold(q) \/ AbandonHold(q)
        PROVE  placer'[p] = placer[p] /\ clock' = clock
    <3>1. clock' = clock /\ \E new : placer' = [placer EXCEPT ![q] = new] /\ new.pc # "holds"
      <4>1. CASE ReadHolds(q)
        <5> DEFINE new == [placer[q] EXCEPT !.pc = "insert", !.ledger = 0]
        <5>1. new.pc # "holds"
          BY <2>1, ApprovedCall
        <5>2. clock' = clock /\ (\/ placer' = [placer EXCEPT ![q] = new]
                                 \/ placer' = [placer EXCEPT ![q] = NoCall])
          BY <4>1 DEF ReadHolds
        <5>3. NoCall.pc # "holds"
          BY DEF NoCall
        <5> HIDE DEF new
        <5> QED
          BY <5>1, <5>2, <5>3
      <4>2. CASE InsertHold(q) \/ AbandonHold(q)
        <5>1. clock' = clock /\ placer' = [placer EXCEPT ![q] = NoCall]
          BY <4>2 DEF InsertHold, AbandonHold
        <5>2. NoCall.pc # "holds"
          BY DEF NoCall
        <5> QED
          BY <5>1, <5>2
      <4> QED
        BY <2>5, <4>1, <4>2
    <3>2. PICK new : placer' = [placer EXCEPT ![q] = new] /\ new.pc # "holds"
      BY <3>1
    <3>3. q # p
      BY <1>5, <2>1, <3>2
    <3> QED
      BY <2>1, <3>1, <3>2, <3>3
  <2>6. CASE \/ \E h \in holds, kind \in ClientKinds : ReleaseHold(h, kind)
             \/ \E at \in 0 .. MaxClock : ExpireHoldsAsOf(at)
    BY <2>1, <2>2, <2>6 DEF ReleaseHold, ExpireHoldsAsOf
  <2>7. CASE Tick
    BY <2>1, <2>2, <2>7 DEF Tick
  <2> QED
    BY <2>1, <2>2, <2>3, <2>4, <2>5, <2>6, <2>7, Frames
<1> QED
  BY <1>3, <1>4, <1>5 DEF Under

\* The greatest hold, and the limit.
LEMMA LimitFacts ==
    /\ Max(HoldAmounts) \in Nat /\ \A m \in HoldAmounts : m \in Nat /\ m <= Max(HoldAmounts)
    /\ Cardinality(Placers) \in Nat /\ Cardinality(Placers) - 1 \in Nat
    /\ Limit \in Nat
<1>1. HoldAmounts \subseteq Nat /\ HoldAmounts # {} /\ IsFiniteSet(HoldAmounts)
  BY BalanceAssumption
<1>2. \E m \in HoldAmounts : \A n \in HoldAmounts : n <= m
  BY <1>1, FiniteHasGreatest
<1>3. \E m \in HoldAmounts : \A n \in HoldAmounts : m >= n
  BY <1>1, <1>2
<1>4. Max(HoldAmounts) \in HoldAmounts /\ \A n \in HoldAmounts : Max(HoldAmounts) >= n
  BY <1>3 DEF Max
<1>5. Cardinality(Placers) \in Nat /\ Cardinality(Placers) - 1 \in Nat
  <2>1. Cardinality(Placers) \in Nat /\ Cardinality(Placers) # 0
    BY BalanceAssumption, FS_CardinalityType, FS_EmptySet
  <2> QED
    BY <2>1
<1>6. Max(HoldAmounts) \in Nat /\ \A m \in HoldAmounts : m \in Nat /\ m <= Max(HoldAmounts)
  BY <1>1, <1>4
<1>7. \A i, j \in Nat : i * j \in Nat
  OBVIOUS
<1>8. Limit \in Nat
  BY <1>5, <1>6, <1>7 DEF Limit
<1> QED
  BY <1>5, <1>6, <1>8

\* Open holds are credits, and fewer are open later.
LEMMA HeldFacts ==
    ASSUME Holding, NEW at \in Nat, NEW t \in Nat, at <= t
    PROVE  /\ Credits(HeldOf(holds, t)) /\ Amount(HeldOf(holds, t)) \in Nat
           /\ OpenHoldTotal(at) \in Nat
           /\ Amount(HeldOf(holds, t)) <= OpenHoldTotal(at)
<1>1. \A h \in holds : h.amount \in Nat /\ h.expires \in Nat
  BY LimitFacts DEF Holding, Hold
<1>2. OpenHolds(at) \subseteq holds
  BY DEF OpenHolds
<1>3. IsFiniteSet(OpenHolds(at))
  BY <1>2, FS_Subset DEF Holding
<1>4. Credits(OpenHolds(at))
  BY <1>1, <1>2, <1>3 DEF Credits
<1>5. HeldOf(holds, t) \subseteq OpenHolds(at)
  BY <1>1 DEF HeldOf, OpenHolds
<1> QED
  BY <1>4, <1>5, CreditsMonotone, CreditsType, AmountIsSum DEF OpenHoldTotal

\* The calls that are approved sum to at most the limit, leaving one caller out.
LEMMA PendingFacts ==
    ASSUME Holding
    PROVE  /\ Credits(PendingOf(placer)) /\ Amount(PendingOf(placer)) \in Nat
           /\ \A r \in PendingOf(placer) : r.id \in Placers /\ r.amount = placer[r.id].amount
           /\ \A p \in Placers : LET others == {r \in PendingOf(placer) : r.id # p}
                                 IN  /\ Credits(others) /\ Amount(others) \in Nat
                                     /\ Amount(others) <= Limit
<1> DEFINE Q(out) == {q \in Placers \ out : placer[q].pc = "insert" /\ Current(placer[q])}
           row(q) == [id |-> q, amount |-> placer[q].amount]
           R(out) == {row(q) : q \in Q(out)}
<1>1. \A q \in Q({}) : q \in Placers /\ placer[q].amount \in HoldAmounts
  BY DEF Holding
<1>2. ASSUME NEW out
      PROVE  /\ IsFiniteSet(R(out)) /\ IsFiniteSet(Placers \ out)
             /\ Cardinality(R(out)) \in Nat
             /\ Cardinality(R(out)) <= Cardinality(Placers \ out)
  <2>1. IsFiniteSet(Placers \ out) /\ Q(out) \subseteq Placers \ out
    BY BalanceAssumption, FS_Subset
  <2>2. /\ IsFiniteSet(Q(out)) /\ Cardinality(Q(out)) \in Nat
        /\ Cardinality(Q(out)) <= Cardinality(Placers \ out)
    BY <2>1, FS_Subset, FS_CardinalityType
  <2> DEFINE f == [q \in Q(out) |-> row(q)]
  <2>3. f \in Surjection(Q(out), R(out))
    BY DEF Surjection
  <2> HIDE DEF Q, R, f
  <2>4. IsFiniteSet(R(out)) /\ Cardinality(R(out)) <= Cardinality(Q(out))
    BY <2>2, <2>3, FS_Surjection
  <2>5. Cardinality(R(out)) \in Nat /\ Cardinality(Placers \ out) \in Nat
    BY <2>1, <2>4, FS_CardinalityType
  <2> QED
    BY <2>1, <2>2, <2>4, <2>5
<1>3. \A r \in R({}) : r.id \in Placers /\ r.amount = placer[r.id].amount /\ r.amount \in HoldAmounts
  BY <1>1
<1>4. R({}) = PendingOf(placer)
  BY DEF PendingOf
<1>5. IsFiniteSet(R({}))
  <2> HIDE DEF R
  <2> QED
    BY <1>2
<1> SUFFICES ASSUME NEW p \in Placers
             PROVE  LET others == {r \in R({}) : r.id # p}
                    IN  /\ Credits(R({})) /\ Amount(R({})) \in Nat
                        /\ Credits(others) /\ Amount(others) \in Nat /\ Amount(others) <= Limit
  <2>1. \E p : p \in Placers
    BY BalanceAssumption
  <2> HIDE DEF R
  <2> QED
    BY <1>3, <1>4, <2>1
<1>6. {r \in R({}) : r.id # p} = R({p})
  OBVIOUS
<1>7. Credits(R({})) /\ R({p}) \subseteq R({})
  BY <1>3, <1>5, LimitFacts DEF Credits
<1>8. \A r \in R({p}) : r.amount \in HoldAmounts
  BY <1>3, <1>7
<1> HIDE DEF R
<1>9. /\ Credits(R({p})) /\ Amount(R({p})) \in Nat /\ Amount(R({})) \in Nat
  BY <1>7, CreditsMonotone, CreditsType, AmountIsSum
<1>10. Cardinality(R({p})) <= Cardinality(Placers) - 1
  <2>1. Cardinality(Placers \ {p}) = Cardinality(Placers) - 1
    BY BalanceAssumption, FS_RemoveElement
  <2> QED
    BY <1>2, <2>1
<1>11. Amount(R({p})) <= Limit
  <2> DEFINE m == Max(HoldAmounts)
             n == Cardinality(Placers) - 1
  <2>1. m \in Nat /\ n \in Nat /\ \A r \in R({p}) : r.amount <= m
    BY <1>8, LimitFacts
  <2> HIDE DEF m, n
  <2>2. Cardinality(R({p})) <= n
    BY <1>10 DEF n
  <2>3. Amount(R({p})) <= n * m
    BY <1>9, <2>1, <2>2, CreditsBounded, AmountIsSum
  <2> QED
    BY <2>3 DEF Limit, m, n
<1> QED
  BY <1>6, <1>7, <1>9, <1>11

\* The cap survives a step that holds no more, approves no more and posts no less.
LEMMA CapSurvives ==
    ASSUME NEW H, NEW P, NEW E, NEW H2, NEW P2, NEW E2,
           Credits(H), Credits(P), Credits(E2), H2 \subseteq H, P2 \subseteq P, E \subseteq E2,
           Amount(H) + Amount(P) <= Amount(E) + Limit
    PROVE  Amount(H2) + Amount(P2) <= Amount(E2) + Limit
<1>1. /\ Amount(H) \in Nat /\ Amount(H2) \in Nat /\ Amount(H2) <= Amount(H)
      /\ Amount(P) \in Nat /\ Amount(P2) \in Nat /\ Amount(P2) <= Amount(P)
      /\ Amount(E) \in Nat /\ Amount(E2) \in Nat /\ Amount(E) <= Amount(E2)
  BY CreditsMonotone, CreditsType, AmountIsSum
<1>2. Limit \in Nat
  BY LimitFacts
<1> QED
  BY <1>1, <1>2

\* What one caller's step does to the approved calls.
LEMMA PendingSteps ==
    ASSUME Holding, NEW p \in Placers, NEW new, placer' = [placer EXCEPT ![p] = new]
    PROVE  /\ new.pc # "insert" \/ ~Current(new) =>
                  PendingOf(placer') = {r \in PendingOf(placer) : r.id # p}
           /\ new.pc = "insert" /\ Current(new) =>
                  PendingOf(placer') = {r \in PendingOf(placer) : r.id # p}
                                       \cup {[id |-> p, amount |-> new.amount]}
<1> DEFINE Q(calls) == {q \in Placers : calls[q].pc = "insert" /\ Current(calls[q])}
           row(calls, q) == [id |-> q, amount |-> calls[q].amount]
<1>1. /\ \A q \in Placers \ {p} : placer'[q] = placer[q]
      /\ placer'[p] = new
  BY DEF Holding
<1>2. {r \in PendingOf(placer) : r.id # p} = {row(placer, q) : q \in Q(placer) \ {p}}
  BY DEF PendingOf
<1>3. PendingOf(placer') = {row(placer', q) : q \in Q(placer')}
  BY DEF PendingOf
<1>4. \A q \in Placers \ {p} : row(placer', q) = row(placer, q) /\ (q \in Q(placer') <=> q \in Q(placer))
  BY <1>1
<1>5. row(placer', p) = [id |-> p, amount |-> new.amount]
  BY <1>1
<1>6. p \in Q(placer') <=> new.pc = "insert" /\ Current(new)
  BY <1>1
<1>7. Q(placer') \subseteq Placers /\ Q(placer) \subseteq Placers
  OBVIOUS
<1> HIDE DEF Q, row
<1>8. ASSUME new.pc # "insert" \/ ~Current(new)
      PROVE  Q(placer') = Q(placer) \ {p}
  BY <1>4, <1>6, <1>7, <1>8
<1>9. ASSUME new.pc = "insert", Current(new)
      PROVE  Q(placer') = (Q(placer) \ {p}) \cup {p}
  BY <1>4, <1>6, <1>7, <1>9
<1>10. {row(placer', q) : q \in Q(placer) \ {p}} = {row(placer, q) : q \in Q(placer) \ {p}}
  BY <1>4, <1>7
<1>11. {row(placer', q) : q \in (Q(placer) \ {p}) \cup {p}}
           = {row(placer', q) : q \in Q(placer) \ {p}} \cup {row(placer', p)}
  OBVIOUS
<1> QED
  BY <1>2, <1>3, <1>5, <1>8, <1>9, <1>10, <1>11

LEMMA HoldCapStep ==
    ASSUME Ledger, Checkpointed, Holding, Credited, Under, HoldCap, [Next]_vars
    PROVE  HoldCap'
<1> DEFINE H == HeldOf(holds, clock)
           P == PendingOf(placer)
<1>1. entries \subseteq entries' /\ Ledger'
  BY LedgerStep
<1>2. Credits(entries')
  <2>1. \A e \in entries' : e.amount \in Nat
    BY <1>1, EntryAmountsAreCredits DEF Ledger, Entry
  <2> QED
    BY <1>1, <2>1 DEF Ledger, Credits
<1>3. Credits(H) /\ Credits(P) /\ Amount(H) \in Nat /\ Amount(P) \in Nat
  <2>1. clock \in Nat /\ clock <= clock
    BY DEF Holding
  <2> QED
    BY <2>1, HeldFacts, PendingFacts
<1>4. ASSUME NEW H2, NEW P2, H2 = HeldOf(holds', clock'), P2 = PendingOf(placer'),
             Amount(H2) + Amount(P2) <= Amount(entries') + Limit
      PROVE  HoldCap'
  BY <1>4 DEF HoldCap
<1>5. ASSUME HeldOf(holds', clock') \subseteq H, PendingOf(placer') \subseteq P
      PROVE  HoldCap'
  <2>1. Amount(H) + Amount(P) <= Amount(entries) + Limit
    BY DEF HoldCap
  <2> DEFINE H2 == HeldOf(holds', clock')
             P2 == PendingOf(placer')
  <2>2. H2 \subseteq H /\ P2 \subseteq P
    BY <1>5
  <2> HIDE DEF H, P, H2, P2
  <2>3. Amount(H2) + Amount(P2) <= Amount(entries') + Limit
    BY <1>1, <1>2, <1>3, <2>1, <2>2, CapSurvives
  <2> QED
    BY <1>4, <2>3 DEF H2, P2
<1>6. CASE UNCHANGED <<placer, holds, clock>>
  BY <1>5, <1>6
<1>7. ASSUME NEW p \in Placers, NEW d \in Dates, NEW m \in HoldAmounts, NEW at \in 0 .. MaxClock,
             ReadLedger(p, d, m, at)
      PROVE  HoldCap'
  <2> DEFINE new == [pc |-> "holds", amount |-> m, at |-> at,
                     ledger |-> LedgerBalance(d), ahead |-> at > clock]
  <2>1. placer' = [placer EXCEPT ![p] = new] /\ UNCHANGED <<holds, clock>>
    BY <1>7 DEF ReadLedger
  <2>2. new.pc # "insert"
    OBVIOUS
  <2> HIDE DEF new
  <2>3. PendingOf(placer') = {r \in P : r.id # p}
    BY <2>1, <2>2, PendingSteps
  <2> QED
    BY <1>5, <2>1, <2>3
<1>8. ASSUME NEW p \in Placers, placer' = [placer EXCEPT ![p] = NoCall],
             HeldOf(holds', clock') \subseteq H
      PROVE  HoldCap'
  <2>1. NoCall.pc # "insert"
    BY DEF NoCall
  <2>2. PendingOf(placer') = {r \in P : r.id # p}
    BY <1>8, <2>1, PendingSteps
  <2> QED
    BY <1>5, <1>8, <2>2
<1>9. ASSUME NEW p \in Placers, ReadHolds(p)
      PROVE  HoldCap'
  <2> DEFINE new == [placer[p] EXCEPT !.pc = "insert", !.ledger = 0]
             call == placer[p]
             others == {r \in P : r.id # p}
             row == [id |-> p, amount |-> new.amount]
  <2>1. UNCHANGED <<holds, clock, entries>> /\ call.pc = "holds"
    BY <1>9 DEF ReadHolds, posting
  <2>2. CASE ~Sufficient(call)
    BY <1>8, <1>9, <2>1, <2>2 DEF ReadHolds
  <2>3. ASSUME Sufficient(call)
        PROVE  HoldCap'
    <3>1. placer' = [placer EXCEPT ![p] = new]
      BY <1>9, <2>3 DEF ReadHolds
    <3>2. call \in Calls /\ call.amount \in HoldAmounts
      BY <2>1 DEF Holding
    <3>3. new.pc = "insert" /\ new.amount = call.amount /\ Current(new) = Current(call)
      BY <3>2, ApprovedCall
    <3> HIDE DEF new
    <3>4. CASE ~Current(call)
      <4>1. PendingOf(placer') = {r \in P : r.id # p}
        BY <3>1, <3>3, <3>4, PendingSteps
      <4> QED
        BY <1>5, <2>1, <4>1
    <3>5. CASE Current(call)
      <4>1. PendingOf(placer') = others \cup {row}
        BY <3>1, <3>3, <3>5, PendingSteps
      <4>2. Credits(others) /\ Amount(others) \in Nat /\ Amount(others) <= Limit
        BY PendingFacts
      <4>3. row.amount = call.amount /\ call.amount \in Nat
        BY <3>2, <3>3, LimitFacts
      <4>4. /\ Amount(others \cup {row}) \in Nat
            /\ Amount(others \cup {row}) <= Amount(others) + call.amount
        <5> HIDE DEF others, row
        <5> QED
          BY <4>2, <4>3, CreditsAdd, AmountIsSum
      <4>5. call.ledger \in Int /\ call.at \in Nat /\ clock \in Nat
        BY <3>2 DEF Calls, Holding
      <4>6. call.ledger <= Amount(entries) /\ call.at <= clock
        BY <2>1, <3>5 DEF Under
      <4>7. OpenHoldTotal(call.at) \in Nat /\ Amount(H) <= OpenHoldTotal(call.at)
        BY <4>5, <4>6, HeldFacts
      <4>8. call.ledger - OpenHoldTotal(call.at) >= call.amount
        BY <2>3 DEF Sufficient
      <4>9. Amount(entries) \in Nat /\ Limit \in Nat
        BY EntriesAreCredits, LimitFacts
      <4> HIDE DEF H, P, others, row, call
      <4>10. Amount(H) + Amount(others \cup {row}) <= Amount(entries) + Limit
        BY <1>3, <4>2, <4>3, <4>4, <4>5, <4>6, <4>7, <4>8, <4>9
      <4>11. HeldOf(holds', clock') = H /\ entries' = entries
        BY <2>1 DEF H
      <4> QED
        BY <1>4, <4>1, <4>10, <4>11
    <3> QED
      BY <3>4, <3>5
  <2> QED
    BY <2>2, <2>3
<1>10. ASSUME NEW p \in Placers, InsertHold(p)
       PROVE  HoldCap'
  <2> DEFINE new == [id |-> Cardinality(holds) + 1, amount |-> placer[p].amount,
                     expires |-> placer[p].at + HoldDuration, released |-> "no",
                     ahead |-> placer[p].ahead]
             call == placer[p]
             row == [id |-> p, amount |-> call.amount]
             others == {r \in P : r.id # p}
  <2>1. /\ holds' = holds \cup {new} /\ placer' = [placer EXCEPT ![p] = NoCall]
        /\ clock' = clock /\ entries' = entries /\ call.pc = "insert"
    BY <1>10 DEF InsertHold, posting
  <2>2. new.amount = call.amount /\ Current(new) = Current(call)
    <3>1. new.ahead = call.ahead /\ new.amount = call.amount
      OBVIOUS
    <3> HIDE DEF new, call
    <3> QED
      BY <3>1 DEF Current
  <2>3. call.amount \in Nat
    BY <2>1, LimitFacts DEF Holding
  <2> HIDE DEF new
  <2>4. CASE ~Current(call)
    <3>1. HeldOf(holds', clock') \subseteq H
      BY <2>1, <2>2, <2>4 DEF HeldOf
    <3> QED
      BY <1>8, <2>1, <3>1
  <2>5. CASE Current(call)
    <3>1. HeldOf(holds', clock') \subseteq H \cup {new}
      BY <2>1 DEF HeldOf
    <3>2. PendingOf(placer') = others
      <4>1. NoCall.pc # "insert"
        BY DEF NoCall
      <4> QED
        BY <2>1, <4>1, PendingSteps
    <3>3. row \in P /\ row.amount = call.amount /\ P \ {row} = others
      <4>1. row \in P
        BY <2>1, <2>5 DEF PendingOf
      <4>2. row.amount = call.amount /\ row.id = p
        OBVIOUS
      <4>3. \A r \in P : r.id = p <=> r = row
        BY DEF PendingOf
      <4> HIDE DEF P, row
      <4> QED
        BY <4>1, <4>2, <4>3
    <3>4. Credits(others) /\ Amount(others) \in Nat
      BY PendingFacts
    <3> DEFINE H2 == HeldOf(holds', clock')
    <3> HIDE DEF H, P, H2, others, row, call
    <3>5. Amount(P) = call.amount + Amount(others)
      <4>1. Summable(P)
        BY <1>3, CreditsType
      <4> QED
        BY <3>3, <4>1, SumRemove, AmountIsSum
    <3>6. /\ Credits(H \cup {new}) /\ Amount(H \cup {new}) \in Nat
          /\ Amount(H \cup {new}) <= Amount(H) + call.amount
      <4>1. new.amount \in Nat
        BY <2>2, <2>3
      <4> QED
        BY <1>3, <2>2, <4>1, CreditsAdd, AmountIsSum
    <3>7. Amount(H2) \in Nat /\ Amount(H2) <= Amount(H \cup {new})
      <4>1. H2 \subseteq H \cup {new}
        BY <3>1 DEF H2
      <4> QED
        BY <3>6, <4>1, CreditsMonotone, AmountIsSum
    <3>8. Amount(H) + Amount(P) <= Amount(entries) + Limit
      BY DEF HoldCap, H, P
    <3>9. Amount(entries) \in Nat /\ Limit \in Nat
      BY EntriesAreCredits, LimitFacts
    <3>10. Amount(H2) + Amount(others) <= Amount(entries) + Limit
      BY <1>3, <2>3, <3>4, <3>5, <3>6, <3>7, <3>8, <3>9
    <3> QED
      BY <1>4, <2>1, <3>2, <3>10 DEF H2
  <2> QED
    BY <2>4, <2>5
<1>11. ASSUME NEW p \in Placers, AbandonHold(p)
       PROVE  HoldCap'
  BY <1>8, <1>11 DEF AbandonHold
<1>12. ASSUME NEW h \in Hold, NEW kind \in ClientKinds \cup {"expired"}
       PROVE  Close(h, kind).released # "no"
  <2>1. kind # "no"
    BY BalanceAssumption
  <2> QED
    BY <2>1 DEF Close, Hold
<1>13. ASSUME NEW h \in holds, NEW kind \in ClientKinds, ReleaseHold(h, kind)
       PROVE  HoldCap'
  <2>1. holds' = (holds \ {h}) \cup {Close(h, kind)} /\ UNCHANGED <<placer, clock>>
    BY <1>13 DEF ReleaseHold
  <2>2. Close(h, kind).released # "no"
    BY <1>12 DEF Holding
  <2>3. HeldOf(holds', clock') \subseteq H
    BY <2>1, <2>2 DEF HeldOf
  <2> QED
    BY <1>5, <2>1, <2>3
<1>14. ASSUME NEW at \in 0 .. MaxClock, ExpireHoldsAsOf(at)
       PROVE  HoldCap'
  <2> DEFINE due == {h \in holds : Releasable(h) /\ h.expires <= at}
             closed == {Close(h, "expired") : h \in due}
  <2>1. holds' = (holds \ due) \cup closed /\ UNCHANGED <<placer, clock>>
    BY <1>14 DEF ExpireHoldsAsOf
  <2>2. \A h \in closed : h.released # "no"
    BY <1>12 DEF Holding
  <2> HIDE DEF due, closed
  <2>3. HeldOf(holds', clock') \subseteq H
    BY <2>1, <2>2 DEF HeldOf
  <2> QED
    BY <1>5, <2>1, <2>3
<1>15. CASE Tick
  <2>1. clock' = clock + 1 /\ clock \in Nat /\ UNCHANGED <<placer, holds>>
    BY <1>15 DEF Tick, Holding
  <2>2. \A h \in holds : h.expires \in Nat
    BY DEF Holding, Hold
  <2>3. HeldOf(holds', clock') \subseteq H
    BY <2>1, <2>2 DEF HeldOf
  <2> QED
    BY <1>5, <2>1, <2>3
<1> QED
  BY <1>6, <1>7, <1>9, <1>10, <1>11, <1>13, <1>14, <1>15, Frames

\* Callers that overlap hold more than the entries by at most one hold for each
\* other caller, if no placed_at was ahead of the clock and entries are credits.
THEOREM HoldsAreBounded == Spec => []OvercommitIsBounded
<1> DEFINE Inv == BalanceInv /\ (Credited => Under /\ HoldCap)
<1>1. Init => Inv
  <2> SUFFICES ASSUME Init
               PROVE  Inv
    OBVIOUS
  <2>1. BalanceInv
    BY BalanceInit
  <2>2. /\ checkpoints = {} /\ ck.pc = "idle" /\ entries = {} /\ holds = {}
        /\ \A p \in Placers : placer[p] = NoCall
    BY DEF Init
  <2>3. NoCall.pc = "idle"
    BY DEF NoCall
  <2>4. Under
    BY <2>2, <2>3 DEF Under
  <2>5. HeldOf(holds, clock) = {} /\ PendingOf(placer) = {}
    BY <2>2, <2>3 DEF HeldOf, PendingOf
  <2>6. 0 + 0 <= 0 + Limit
    BY LimitFacts
  <2>7. HoldCap
    BY <2>2, <2>5, <2>6, NoAmount DEF HoldCap
  <2> QED
    BY <2>1, <2>4, <2>7
<1>2. Inv /\ [Next]_vars => Inv'
  <2> SUFFICES ASSUME Inv, [Next]_vars
               PROVE  Inv'
    OBVIOUS
  <2>1. Ledger /\ Checkpointed /\ Holding
    BY DEF BalanceInv
  <2>2. BalanceInv'
    BY LedgerStep, HoldingStep, CheckpointedStep, ExactStep DEF BalanceInv
  <2>3. Credited => Under' /\ HoldCap'
    BY <2>1, UnderStep, HoldCapStep
  <2>4. Credited' <=> Credited
    BY DEF Credited
  <2> QED
    BY <2>2, <2>3, <2>4
<1>3. Inv => OvercommitIsBounded
  <2> SUFFICES ASSUME BalanceInv, Credited => HoldCap, Credited,
                      \A h \in holds : Current(h), \A p \in Placers : Current(placer[p])
               PROVE  OpenHoldTotal(clock) + Approved <= Amount(entries) + Limit
    BY DEF OvercommitIsBounded, Credited, Current, Limit
  <2>1. HeldOf(holds, clock) = OpenHolds(clock)
    BY DEF HeldOf, OpenHolds
  <2>2. Approved = Amount(PendingOf(placer))
    <3>1. {q \in Placers : placer[q].pc = "insert" /\ Current(placer[q])}
              = {q \in Placers : placer[q].pc = "insert"}
      OBVIOUS
    <3> QED
      BY <3>1, Zenon DEF Approved, PendingOf
  <2> QED
    BY <2>1, <2>2 DEF HoldCap, OpenHoldTotal
<1> QED
  BY <1>1, <1>2, <1>3, PTL DEF Spec
=============================================================================
