------------------------------ MODULE Balance ------------------------------
(***************************************************************************)
(* internal/ledger/balance: the three balances of one account, its holds   *)
(* and its checkpoints, while postings commit, callers place and release   *)
(* holds and end of day writes checkpoints.                                *)
(*                                                                         *)
(* Every query is a step of its own: none of these operations runs in a    *)
(* transaction.  An entry draws its id from a sequence before it commits.  *)
(* Dates and instants are numbers.                                         *)
(***************************************************************************)
EXTENDS Integers, FiniteSets, FiniteSetsExt

CONSTANTS Placers,       \* callers of PlaceHold
          Dates,         \* business dates
          EntryAmounts,  \* amounts posted to the account
          HoldAmounts,   \* amounts held
          HoldDuration,  \* 72 hours
          ClientKinds,   \* the release kinds that clients ask for
          MaxEntries,    \* bound: entry ids drawn
          MaxRows,       \* bound: entry ids drawn and holds placed, together
          MaxClock       \* bound: the clock

ASSUME BalanceAssumption ==
    /\ IsFiniteSet(Placers) /\ Placers # {}
    /\ Dates \subseteq Nat
    /\ EntryAmounts \subseteq Int
    /\ HoldAmounts \subseteq Nat \ {0} /\ HoldAmounts # {} /\ IsFiniteSet(HoldAmounts)
    /\ HoldDuration \in Nat
    /\ ClientKinds \subseteq {"captured", "cancelled", "expired"}
    /\ MaxEntries \in Nat
    /\ MaxRows \in Nat
    /\ MaxClock \in Nat

VARIABLES open,         \* entries of transactions that have not committed
          entries,      \* the committed entries of the account
          nextID,       \* the BIGSERIAL of entries
          checkpoints,  \* the rows of checkpoints; "seen" are the entries that the
                        \* balance was read from (no column, for the properties)
          ck,           \* the Checkpoint call in progress
          placer,       \* each PlaceHold call in progress
          holds,        \* the rows of holds
          clock         \* the instant

posting == <<open, entries, nextID>>
vars == <<open, entries, nextID, checkpoints, ck, placer, holds, clock>>

Amount(set) == MapThenSumSet(LAMBDA r : r.amount, set)

NoCheckpoint == [date |-> 0, balance |-> 0, last |-> 0, seen |-> {}]

\* ORDER BY business_date DESC LIMIT 1
Latest(d) == LET before == {c \in checkpoints : c.date <= d}
             IN  IF before = {} THEN NoCheckpoint
                 ELSE CHOOSE c \in before : \A b \in before : b.date <= c.date

\* Mutant of LedgerBalance: the last entry of the checkpoint is counted again.
LedgerBalanceMutant(d) ==
    LET c == Latest(d)
    IN  c.balance + Amount({e \in entries : e.id >= c.last /\ e.date <= d})

\* The checkpoint, and the entries after it up to the date.
LedgerBalance(d) ==
    LET c == Latest(d)
    IN  c.balance + Amount({e \in entries : e.id > c.last /\ e.date <= d})

\* Unreleased, and not yet expired at an instant, whenever they were placed.
OpenHolds(at) == {h \in holds : h.released = "no" /\ h.expires > at}
OpenHoldTotal(at) == Amount(OpenHolds(at))

\* No PlaceHold in progress.  "ahead" is whether placed_at was ahead of the clock
\* when the call was made (no column, for the properties).
NoCall == [pc |-> "idle", amount |-> 0, at |-> 0, ledger |-> 0, ahead |-> FALSE]

Init == /\ open = {}
        /\ entries = {}
        /\ nextID = 1
        /\ checkpoints = {}
        /\ ck = [pc |-> "idle", date |-> 0, balance |-> 0, last |-> 0, seen |-> {}]
        /\ placer = [p \in Placers |-> NoCall]
        /\ holds = {}
        /\ clock = 0

HasRoom == nextID + Cardinality(holds) <= MaxRows

-----------------------------------------------------------------------------
\* Postings to the account, with the business date of their request.
InsertEntry(d, m) ==
    /\ HasRoom
    /\ nextID <= MaxEntries
    /\ nextID' = nextID + 1
    /\ open' = open \cup {[id |-> nextID, date |-> d, amount |-> m]}
    /\ UNCHANGED <<entries, checkpoints, ck, placer, holds, clock>>

CommitEntry(e) ==
    /\ open' = open \ {e}
    /\ entries' = entries \cup {e}
    /\ UNCHANGED <<nextID, checkpoints, ck, placer, holds, clock>>

RollbackEntry(e) ==
    /\ open' = open \ {e}
    /\ UNCHANGED <<entries, nextID, checkpoints, ck, placer, holds, clock>>

-----------------------------------------------------------------------------
\* Checkpoint: the balance, then the watermark, then the row.

ReadBalance(d) ==
    /\ ck.pc = "idle"
    /\ ck' = [ck EXCEPT !.pc = "last", !.date = d, !.balance = LedgerBalance(d),
                        !.seen = {e \in entries : e.date <= d}]
    /\ UNCHANGED <<posting, checkpoints, placer, holds, clock>>

\* MaxEntryIDAsOf, 0 if there is no entry.
MaxEntryIDAsOf ==
    /\ ck.pc = "last"
    /\ ck' = [ck EXCEPT !.pc = "insert",
                        !.last = Max({0} \cup {e.id : e \in {f \in entries : f.date <= ck.date}})]
    /\ UNCHANGED <<posting, checkpoints, placer, holds, clock>>

\* Mutant of InsertCheckpoint: no primary key.
InsertCheckpointMutant ==
    /\ ck.pc = "insert"
    /\ checkpoints' = checkpoints \cup {[date |-> ck.date, balance |-> ck.balance,
                                         last |-> ck.last, seen |-> ck.seen]}
    /\ ck' = [ck EXCEPT !.pc = "idle", !.date = 0, !.balance = 0, !.last = 0, !.seen = {}]
    /\ UNCHANGED <<posting, placer, holds, clock>>

\* 23505 for an account-day that has one; nothing is ever updated.
InsertCheckpoint ==
    /\ ck.pc = "insert"
    /\ checkpoints' = IF \E c \in checkpoints : c.date = ck.date
                      THEN checkpoints
                      ELSE checkpoints \cup {[date |-> ck.date, balance |-> ck.balance,
                                              last |-> ck.last, seen |-> ck.seen]}
    /\ ck' = [ck EXCEPT !.pc = "idle", !.date = 0, !.balance = 0, !.last = 0, !.seen = {}]
    /\ UNCHANGED <<posting, placer, holds, clock>>

\* A query fails or the process ends.
AbandonCheckpoint ==
    /\ ck.pc # "idle"
    /\ ck' = [ck EXCEPT !.pc = "idle", !.date = 0, !.balance = 0, !.last = 0, !.seen = {}]
    /\ UNCHANGED <<posting, checkpoints, placer, holds, clock>>

-----------------------------------------------------------------------------
\* PlaceHold: the ledger balance, the open holds, then the INSERT.  placed_at is
\* the client's: nothing compares it with the clock.

ReadLedger(p, d, m, at) ==
    /\ placer[p].pc = "idle"
    /\ placer' = [placer EXCEPT ![p] = [pc |-> "holds", amount |-> m, at |-> at,
                                        ledger |-> LedgerBalance(d), ahead |-> at > clock]]
    /\ UNCHANGED <<posting, checkpoints, ck, holds, clock>>

\* Mutant of Sufficient: the holds are left out, as in quirk Q7.
SufficientMutant(call) == call.ledger >= call.amount

\* bal.Available is not below the amount.
Sufficient(call) == call.ledger - OpenHoldTotal(call.at) >= call.amount

\* ErrInsufficientAvailable, or on to the INSERT.
ReadHolds(p) ==
    /\ placer[p].pc = "holds"
    /\ placer' = [placer EXCEPT ![p] = IF Sufficient(placer[p])
                                       THEN [placer[p] EXCEPT !.pc = "insert", !.ledger = 0]
                                       ELSE NoCall]
    /\ UNCHANGED <<posting, checkpoints, ck, holds, clock>>

InsertHold(p) ==
    /\ placer[p].pc = "insert"
    /\ HasRoom
    /\ holds' = holds \cup {[id |-> Cardinality(holds) + 1, amount |-> placer[p].amount,
                             expires |-> placer[p].at + HoldDuration, released |-> "no",
                             ahead |-> placer[p].ahead]}
    /\ placer' = [placer EXCEPT ![p] = NoCall]
    /\ UNCHANGED <<posting, checkpoints, ck, clock>>

\* A query fails or the process ends.
AbandonHold(p) ==
    /\ placer[p].pc # "idle"
    /\ placer' = [placer EXCEPT ![p] = NoCall]
    /\ UNCHANGED <<posting, checkpoints, ck, holds, clock>>

\* Mutant of Releasable: released_at IS NULL is left out.
ReleasableMutant(h) == TRUE

\* WHERE released_at IS NULL
Releasable(h) == h.released = "no"

Close(h, kind) == [h EXCEPT !.released = kind]

\* A client closes a hold; one that is closed already is ErrNotFound.
ReleaseHold(h, kind) ==
    /\ Releasable(h)
    /\ holds' = (holds \ {h}) \cup {Close(h, kind)}
    /\ UNCHANGED <<posting, checkpoints, ck, placer, clock>>

\* The first phase of end of day, for an instant that its caller names.
ExpireHoldsAsOf(at) ==
    LET due == {h \in holds : Releasable(h) /\ h.expires <= at}
    IN  /\ due # {}
        /\ holds' = (holds \ due) \cup {Close(h, "expired") : h \in due}
        /\ UNCHANGED <<posting, checkpoints, ck, placer, clock>>

Tick == /\ clock < MaxClock
        /\ clock' = clock + 1
        /\ UNCHANGED <<posting, checkpoints, ck, placer, holds>>

-----------------------------------------------------------------------------
Next == \/ \E d \in Dates, m \in EntryAmounts : InsertEntry(d, m)
        \/ \E e \in open : CommitEntry(e) \/ RollbackEntry(e)
        \/ \E d \in Dates : ReadBalance(d)
        \/ MaxEntryIDAsOf
        \/ InsertCheckpoint
        \/ AbandonCheckpoint
        \/ \E p \in Placers : \/ \E d \in Dates, m \in HoldAmounts, at \in 0 .. MaxClock :
                                     ReadLedger(p, d, m, at)
                              \/ ReadHolds(p)
                              \/ InsertHold(p)
                              \/ AbandonHold(p)
        \/ \E h \in holds, kind \in ClientKinds : ReleaseHold(h, kind)
        \/ \E at \in 0 .. MaxClock : ExpireHoldsAsOf(at)
        \/ Tick

Spec == Init /\ [][Next]_vars

-----------------------------------------------------------------------------
Entry == [id : Nat \ {0}, date : Dates, amount : EntryAmounts]

\* Types; an entry id is used once.
TypeOK == /\ open \cup entries \subseteq Entry
          /\ open \cap entries = {}
          /\ nextID \in Nat
          /\ \A e, f \in open \cup entries : e.id = f.id => e = f
          /\ \A c, b \in checkpoints : c.date = b.date => c = b
          /\ ck.pc \in {"idle", "last", "insert"}
          /\ \A p \in Placers : placer[p].pc \in {"idle", "holds", "insert"}
          /\ \A h \in holds : /\ h.amount \in HoldAmounts
                              /\ h.released \in ClientKinds \cup {"no", "expired"}
          /\ clock \in Nat

\* balance(account, d): the definition, without checkpoints.
SumOfEntries(d) == Amount({e \in entries : e.date <= d})

\* The watermark of a checkpoint separates the entries that its balance counts
\* from those that it does not.
Separates(c) == \A e \in entries : e.id <= c.last => e \in c.seen

\* FR-L4: the derived balance is the sum of the entries up to the date, through
\* any chain of checkpoints and with entries that arrive late, as long as every
\* watermark separates.
BalanceIsSumIfSeparated ==
    (\A c \in checkpoints : Separates(c)) => \A d \in Dates : LedgerBalance(d) = SumOfEntries(d)

\* "balance(account, t) = checkpoint + SUM(entries after it)" (FR-L4), whatever
\* is posted while checkpoints are written.
BalanceIsSum == \A d \in Dates : LedgerBalance(d) = SumOfEntries(d)

\* The holds that were approved and are still to be inserted.
Approved == Amount({[id |-> p, amount |-> placer[p].amount] :
                        p \in {q \in Placers : placer[q].pc = "insert"}})

\* PlaceHold checks and inserts in separate steps, so calls that overlap may hold
\* more than is available, but, with what is still to be inserted, never by more
\* than one hold for each other caller: if no placed_at was ahead of the clock,
\* and for an account that is only credited.
OvercommitIsBounded ==
    /\ \A m \in EntryAmounts : m >= 0
    /\ \A h \in holds : ~h.ahead
    /\ \A p \in Placers : ~placer[p].ahead
    => OpenHoldTotal(clock) + Approved
           <= Amount(entries) + (Cardinality(Placers) - 1) * Max(HoldAmounts)

\* A hold is closed once: a capture, a cancellation and an expiry that race leave
\* the verdict of the first.
ReleasedOnce ==
    [][\A h \in holds : h.released # "no" => h \in holds']_vars
=============================================================================
