# Shadowbook in TLA+

TLA+ modules of the shadowbook ledger, the TLC runs that check them on small
instances, and TLAPS proofs of the results that hold for every instance.
Paths are relative to the repository (`src/`).

## 1. The system

Shadowbook runs a double-entry **ledger** (Go, PostgreSQL, a Kafka-compatible
broker) beside a simulated legacy core, reconciles the two, and measures how four
delivery modes behave when brokers are killed.

| Part | State it keeps | Operations | Talks to |
|---|---|---|---|
| `internal/money` | none (int64 minor units) | New, Add, Sub, Neg, Sum | everything |
| `internal/ledger/posting` | tables idempotency_keys, postings, entries, outbox | Post, replay | store; called by HTTP and end of day |
| `internal/ledger/outbox` | outbox.sent_at | Drain, Run | store, broker producer |
| `internal/ledger/consumer` | postings, entries, inbox; the group's offset | RunOnce, apply, Run | broker consumer, store |
| `internal/ledger/balance` | checkpoints, holds | At, PlaceHold, ReleaseHold, ExpireDue, Checkpoint | store; called by HTTP and end of day |
| `internal/ledger/accrual` | eod_runs | Run: expiry, interest, fees, checkpoints | posting, balance |
| `internal/ledger/obs` | last invariant result, gauges | CheckInvariant, once | store |
| `internal/ledger/httpapi` | none | handlers | posting, balance, obs |
| `internal/broker` | client position, transaction session | Produce, Poll, Commit, Lag; an in-process fake | Redpanda |
| `cmd/ledger` | errgroup, signal context | start, shutdown | all of the above |
| `internal/bizdate` | none | calendar rolls, day counts, rounding | accrual, httpapi |
| `migrations` | schema_migrations | Apply | store |
| `internal/harness` | run artefacts | ablation runs, drain, measure, chaos schedule, load | ledger binary, broker, store |
| `reconcile`, `legacy-sim`, `report` (Python) | extracts, breaks, findings | ingest, compare, classify, age, generate, render | files, the ledger's tables |

The ledger's goroutines share no memory that matters: they meet in PostgreSQL
(unique keys, sequences, row visibility at COMMIT) and at the broker (log, group
offset). What is hard is therefore: concurrent transactions on one key; ids that
are drawn before they are visible; a COMMIT, a produce or an offset commit that
takes effect although its caller is told it failed; a rebalance while a batch is
in hand; a crash between two writes to two systems; shutdown while work is in
flight; processes that start together; a retry of a request that took effect;
several reads that are taken for one; the harness's load, chaos and measurement,
which run side by side. `PROJECT.json` lists these hazards
by line.

What makes each part correct:

* money: an overflow is reported exactly when there is one.
* posting: one effect per key and the same answer to every caller (FR-L1),
  balanced and whole postings (FR-L2), one outbox row per posting (FR-L7).
* consumer: what each mode promises about loss and duplication (FR-L8).
* relay: every committed posting gets its event, none else does (FR-L7, FR-L10).
* balance: the derived balance is the sum of entries (FR-L4), holds never exceed
  what is available by more than the race allows, a hold is closed once (FR-L5).
* end of day: one set of interest, fees and checkpoints per business day, of the
  amounts that the entries and the documented terms give (FR-L6).
* ledger process: requests are served by a whole schema, a status agrees with the
  effect, a process that should end does.
* harness: at most one broker is down, a run is measured only after it has drained,
  and a table compares runs of one sweep.

## 2. Modules

| Module | Models | Run by |
|---|---|---|
| `Money` | int64 amounts at any width: `Wrap`, `Overflows` (Add's sign test), `Neg`, `Sum` | |
| `MoneyCalc` | a caller that chains New, Add, Sub, Neg | `money` |
| `IdempotentLedger` | the promise of FR-L1, without a database | as `KeepsPromise` |
| `Posting`, `MCPosting` | `Service.Post` and `replay`, statement by statement; EXTENDS `Money` for Validate | `posting` |
| `Consumer` | `RunOnce`, `apply`, `Run` in modes A to D, the two broker clients | `consumer` |
| `Relay` | `Drain`, `Run`, handlers, errgroup and shutdown | `relay`, `relay_order` |
| `Balance`, `MCBalance` | `Checkpoint`, `PlaceHold`, `ReleaseHold`, `ExpireDue`, `LedgerBalance` | `balance`, `balance_sum` |
| `BizDate` | `bizdate`: dates, holidays, rolls, cut-off, day counts, rounding | |
| `Eod`, `MCEod` | `accrual.Engine.Run` over `BizDate`, with customers | `eod`, `eod_fees` |
| `Service`, `MCService` | `cmd/ledger`: migrations, start, loops, requests, checker, fake bus, pool, shutdown | `service`, `service_fake` |
| `Chaos` | schedules: `Validate`, `Scale`, the order of `Run` | |
| `Artefact` | `measure`, `Table` and what may share a table | |
| `Sweep`, `MCSweep` | the ablation runner and `harness ablate`, over `Chaos` and `Artefact` | `sweep` |
| `PostingProofs` (with the theorems of `MoneyCalc`), `ConsumerProofs`, `RelayProofs`, `BalanceProofs`, `ServiceProofs`, `SweepProofs`, `EodProofs` | theorems | |
| `SumProofs` | lemmas on sums over finite sets | |

`Posting`, `Consumer`, `Relay` and `Balance` have the inside of a component at the
grain of statements. `Eod`, `Service` and `Sweep` compose components: what another
module has the inside of is there one step, with the outcomes that module allows.

Conventions. A step is one database statement or one broker call, because that is
what can interleave and fail. A transaction's writes are not in the tables until
COMMIT; `pc` and `tx` stand for them. A COMMIT, an UPDATE, an offset commit or a
produce that takes effect and is reported as failed is an action of its own
(`...Unacknowledged`, `CommitTransient`, `CommitFatal`, `PartlyProduced`). A crash
is a failure of every open call. Every bound is a constant with a name that starts
with `Max`. Definitions whose name ends in `Mutant` are plausible bugs of the
definition that follows them; no specification uses them, they only show that the
properties can fail.

### Posting

`Call` is Validate and BEGIN; `ClaimIdempotencyKey`, `InsertPosting`,
`InsertEntry`, `InsertOutbox`, `CompleteIdempotency` and `Commit` are the six
numbered statements of `Post`. `KeyIsFree` is the wait of an INSERT for an open
transaction with the same primary key. `Apply` makes the writes visible at once.
`Fail` is any error before COMMIT. `Replay` is one pass of the loop of `replay`.
Keys are (principal, key) pairs; `PostingIDFor` is a constant function that need
not be injective, since `principal + "/" + key` is not. A body is a model value;
BodyHash is taken to tell bodies apart.

### Consumer

One partition, `Procs` members. `Poll`, `Claim` (BEGIN and the inbox INSERT),
`CommitApply` (posting, entries, COMMIT) and `Commit` (offsets) are the steps of
`RunOnce`; mode A takes `Commit` first. Of the broker, which is external, the
model has: the log, the committed offset, the assignment (`Join`, `Rebalance`), the
ways a commit can end, and that "a coordinator failover can lose the commit"
(reports/FINDINGS.md:172; `LoseCommit` sets the group back to any earlier offset). A
plain commit of a member that lost the partition is accepted, as the comment on `KafkaTransactionalConsumer` says it
can be; the session of mode D aborts. A rebalance does not interrupt a batch in
hand. `unsettled` is history: whether a batch was in hand when the partition was
reassigned, or an acknowledged commit was lost. Loss of records by the cluster and
fencing by transactional id are not modelled.

### Relay

Handlers draw an outbox id (`InsertOutbox`) and commit or roll back later.
`ClaimOutboxBatch`, `Produce`, `MarkOutboxSent` are Drain. `phase` follows the
process: up, cancelled (the group's context is done), closing (`srv.Shutdown`
was called), down. `Tick` stays enabled when the context is done, because
`select` chooses among ready cases at random. One ledger process.

### Balance

One account. `ReadBalance`, `MaxEntryIDAsOf`, `InsertCheckpoint` are Checkpoint;
`ReadLedger`, `ReadHolds`, `InsertHold` are PlaceHold. `placed_at` and the instant
of end of day are inputs, as in the code, and not the clock. The fields `seen` and
`ahead` are not columns: they record facts for the properties.

### Eod and BizDate

A date is a day number. `holidaysIn`, `observed`, `nthWeekday`, `NextBusinessDay`,
`BusinessDateFor`, `DayCountFraction` and `RoundHalfEven` are the functions of
`bizdate`; the time package's civil calendar is external. `Eod` walks the days of
a window. `CallRun` is whoever asks for end of day: the harness does, for each business
day once; `Run` itself takes any date (`ClaimEODRun`). `ExpireDue`, `AllAccounts`,
`SumDay` (one balance read), `PostInterest`, `ReadForFee` and `ReadHolds` (the two reads
of `bal.At`), `PostFee`, `ReadBalance` and `InsertCheckpoint` (Checkpoint), and
`FinishEODRun` are the statements of `Run`; `Fail` ends the run at any of them.
`InterestPhase`, `FeePhase` and `CheckpointPhase` take a run to the next account that a
phase does not pass over, or to the phase after it.

Between any two of these steps a customer may post, place a hold or release one. A
posting carries the business date that its client names (`Offsets`) and an id that it
drew earlier, perhaps before others that are visible already (`Lags`); the ids that end
of day draws for its own postings come after every watermark there is, so nothing
depends on their order. A hold expires 72 hours after the `placed_at` of its client,
which may be past when it is inserted. Whether a hold is available was read before, for
a date and an instant of the client's: `Balance` has that check, and here every hold may
pass it. `InsertCheckpoint` is MaxEntryIDAsOf and the INSERT: what a customer does
between these two touches neither the watermark that was read nor the table that is
written, and no customer reads checkpoints here, so it may as well come after them.
Between the balance and the watermark, customers do act. A posting, the inside of which
`Posting` has, is one step here.

The log is in the order in which entries become visible. The fields `seen`, `at`,
`placed` and `closed` are not columns: they say how long the log was, and how many
actions customers had taken, when end of day read, and by which action a hold was placed
and released. The properties state the rules again, from the other side: holidays by the
days they can fall on, interest as the nearest integer to a quotient of a sum over all
entries, fees from entries and holds without checkpoints. What the run shows besides:

* 31 December 2027, a Friday, is a business day, although New Year's Day 2028 is a
  Saturday and observed then: `holidays` looks a date up in the set of its own year
  only (holidays.go:55). `EodOnBusinessDays` excepts this day (`MissedHoliday`).
* The product in `InterestFor` wraps around at int64 (accrual.go:149);
  `InterestIsExact` excepts it, with `MaxMinor` small enough for it to happen.
* A watermark may cover an entry that its balance does not have: one dated the next
  day, one that commits between the two reads of Checkpoint (balance.go:105, :109), one
  that drew its id early. The entry is then missing from later balances, as `balance_sum`
  shows; `ChargesAreExact` and `InterestIsSettled` require the watermarks to be
  `Separated`.
* The balance and the holds behind a fee are read one after the other, and the fee is
  posted later. `FeeIsExact` says which entries and holds count: those visible at the one
  read and at the other. A hold that is captured in between counts in neither.
* A hold may be inserted after `ExpireDue` with a `placed_at` more than 72 hours back
  (api.go:285): it is open and expired when the day finishes. `FinishedIsComplete` is
  about the holds that were placed before the day was claimed.
* A run that fails after its claim is not run again (accrual.go:63):
  `FinishedIsComplete` is about days that are finished.
* A client may date a posting into the month that ended, while end of day reads that
  month or after it was credited. Its interest is then what was read, and no later run
  corrects it: `InterestIsExact` and `InterestIsSettled` except such postings, by `seen`.
* The order of expiry and fees does not change an amount, since `OpenHoldTotal`
  passes over expired holds itself.

### Service

Any number of processes on one database. `ReadApplied`, `ApplyOne` and
`ApplyFails` are `migrations.Apply`, each migration one transaction and
`ApplyUnacknowledged` a COMMIT whose answer is lost; `EnsureSuspenseAccounts` ends
the start. `loops` are the goroutines of the errgroup; `LoopFails`, `Sigterm`,
`LoopEnds`, `Shutdown`, `GroupEnds`, `Exit` are the ways out, `Crash` takes a process
away. `conn` are the requests that hold a connection of the pool (`Connect`); one
acquisition stands for those a handler makes one after the other, except that a
request which loses the claim of its key gives its connection back (`LoseClaim`) and
needs one again to read the stored answer (`Replay`), as `Post` does. `GroupEnds` is
g.Wait, after which the deferred closes begin: the pool gives out nothing more
(`PoolClosed`) and `Exit` waits until what it has given is back, since requests that
Shutdown left behind after 15 s may still hold connections.
`Produce` and `Poll` are the relay and the consumer on the in-process fake.
`Send` is a client that retries after a 5xx or no answer, with the same key;
`Reject`, `Fail`, `PostPosting`, `PlaceHold`, `ReleaseHold`, `Read` are the handlers
and `Status` is `classify`. A request is answered by the process it was sent to or
dropped with it. What a reader should know of the code, and the properties allow:

* Of two processes that start together one loses each migration, and ends with an
  error that nothing retries.
* A hold has no idempotency key: a retry after a lost answer places it twice, or is
  refused with 422 because of the first. A release of an unknown hold is 409.
* Errors of the client that `classify` does not know are 500: a hold of an amount
  that is not positive, an unknown release kind, a posting to an unknown account.
* After a check fails the gauge is 0 and readyz still shows the last good result;
  before the first one readyz says ready with invariant_ok false.

### Sweep, Chaos and Artefact

`Ablate` begins a sweep; `Setup` is the part of `one` before the load, `Produce` and
`ProduceFails` are `drive`, `ChaosAct` the chaos goroutine, `ChaosDone` and
`ChaosTimesOut` the wait for it, `AppliedCount`, `GroupLag`, `GroupLagSkipped`,
`Stall`, `Ceiling` the loop of `waitForDrain`, `CountInbox`, `FinishRun` and
`RefuseRun` are `measure`, the artefact and the end. `fold` is what the fold command
would write at any moment. The consumer is one partition in mode A, B or C (mode D
measures as C does); loss of records by the cluster, which `Poll` counts
(kafka.go:299-302), is outside the model here as in `Consumer`, and so, here, is the loss of
an acknowledged commit: `Rebalance` reads again from the committed offset. The sweep's
id is unix seconds in the code and a number here: two sweeps within one second, which
would share it, are left out, since a sweep that leaves an artefact takes longer. `why`
records which branch gave the verdict; `orderly` that no schedule was out of order, cut off or failing. Both are for the properties. What
the run shows of the code, and the properties state as exceptions:

* Mode A commits before it applies, so lag 0 may precede the last application
  (run.go:590), and a group that cannot be described counts as lag 0 (kafka.go:95).
* A run that stalls for 30 s counts as drained (run.go:599).
* In mode C two counts in two queries may show a duplicate that is none, and a
  produce that failed after writing makes measure refuse the run (run.go:645).
* Chaos that outlasts a shortened load, or hangs, is cancelled after two minutes and
  may leave a broker down, where run.go:340 says it is waited for. `Validate` follows the
  list, `Run` the times: a list out of order passes and has two brokers down.
* The sweep's own table is made of its artefacts, a later fold of all in the
  directory; `fixedKey` has the sweep, so leftovers make a fold fail, not lie.
* A configuration that is listed twice has its run ids twice (run.go:224): the second
  run continues on the first one's topic and overwrites its artefact, so the sweep's
  table has both and a later fold the second only.

## 3. Runs

| Run | Instance | Shows |
|---|---|---|
| `money` | MaxMinor = 15 | overflow tests are exact on every pair of amounts, only Neg of math.MinInt64 is wrong |
| `posting` | 2 callers, 3 keys (2 with one posting id), 4 bodies, 3 calls | FR-L1, FR-L2, FR-L7, FR-L9; refinement of `IdempotentLedger`; every call returns |
| `consumer` | 2 processes, 3 records of 3 messages (1 undecodable), batch 2, 2 faults, modes A to D | the promises of the modes; liveness |
| `relay` | 2 handlers, 2 accounts, 3 rows, batch 2, 1 fault, 1 SIGTERM | no lost or phantom event; liveness |
| `balance` | 2 placers, 2 dates, 2 entries, 3 entries and holds together, clock to 1 | conditional balance, bounded overcommitment, one release |
| `eod` | 3 accounts, 6 windows of 2027 to 2029, at most 2 customer actions or failures | calendar, claims, exact amounts, complete days |
| `service` | 2 migrations, 2 faults, 2 attempts of a request, 1 connection per process; 2 processes, 2 starts and 1 client with the fake bus, 1 process and 2 clients with a broker | whole schema, true answers; every request ends and a cancelled process does, although they wait for connections |
| `sweep` | 9 specs (modes A, B, C, B with C, B and C twice; two kinds of cluster; 3 schedules), 2 runs in all, 2 movements, 1 fault | one broker down, drained is done, one sweep in a table |

Four runs end in a violation. Each states what a line of the repository says and
TLC shows a behaviour of the code against it:

* `relay_order` (relay.go:5): ids commit out of order. `EventuallyProduced` shows
  that no such row is lost.
* `balance_sum` (0005_balances_holds.sql:2): an entry that commits between the two
  reads of Checkpoint is below the watermark and not in the balance. Late commits
  of small ids and entries with an earlier business date have the same effect.
  `BalanceIsSumIfSeparated` is what does hold.
* `eod_fees` (products.go:14): a month whose last day is not a business day has no
  end of day at which `isMonthEnd` is true, and no fees.
* `service_fake` (cmd/ledger/main.go:142): without `-brokers` the relay and the
  consumer share one fake, whose Poll returns every topic: the consumer reads the
  ledger's own event, cannot decode it as a movement, and the ledger ends after its
  first posting.

Three more disagreements are not runs of their own, because a property that holds
states their exact extent: Neg is wrong on `math.MinInt64`, which Add can build
(money.go:78; `OnlyMinIsInexact`); mode A duplicates when the partition moves
between Poll and Commit, or when a coordinator failover loses a commit, and otherwise
not (consumer.go:36, reports/FINDINGS.md:171-175; `AtMostOnceWhileSettled`); a shutdown may
strand a committed posting, because `select` takes the ticker after cancellation or
a handler commits after the final drain (relay.go:86; `EventuallyProduced` holds
once a ledger is started again).

**Bounds.** Two callers and a third call are enough for a race followed by a
retry, three keys for a shared key, a shared posting id and an unrelated one. Two
processes, two faults and batches of two allow a rebalance or a lost commit inside
a batch followed by a crash of the new owner. Three rows with batches of two make
a full and a partial batch. Two entries and a checkpoint on either of two dates
allow each way in which a watermark can be wrong; one entry and two holds allow
the overcommitment. `MaxAttempts` is 2 where the code has 50: by
`ReplayFindsResponse` the loop is never entered. MaxMinor = 15 is only the width;
the theorems are for all widths. In the consumer the number of postings of a
message stops at MaxLog + 1: mode B repeats the records ahead of an undecodable one
for ever. The windows of `eod` are 385 days from 2027-12-20 without customers (every
holiday, a leap February, two year ends), and the days around the month ends
2027-04-30 (where a posting makes a tie in the rounding), 2027-12-31 and 2028-02-29
with one action, and 2028-02-29 and 2028-03-01, a day of fees and one of interest, with
two: enough for a posting between the reads of a checkpoint, a hold that is placed and
released around the read of holds, and a late posting and a failure. A posting or a hold
may be dated five days back, across a month end and before the 72 hours; an id may be
five before the next; `MaxMinor` = 2^25 - 1 lets the product wrap. Two processes and two migrations are
enough for one to win the first and fail the second; two attempts are a retry. Two
clients share one connection: they wait for each other, and both may come back as losers
of their keys after lost answers. `MCService` splits `service` into these two deployments
by keeping the second client, or the second process, idle; with the fake bus every
behaviour of the broker's one is there too, as one in which the consumer does not poll.
Two movements and a batch of one allow a half-driven, half-applied run, and the
schedules are in order, out of order, and one that Validate rejects; two runs are one
sweep of two configurations, or two sweeps that meet in the directory (`MinRuns` is
1 there). Symmetry is used in `balance`, where only safety is checked.

**Fairness.** Weak fairness of the steps a goroutine takes on its own: the
database answers each statement, the client keeps polling, the ticker fires,
requests in flight end, `Shutdown` is reached once the group is cancelled, and the
coordinator assigns a free partition. None of faults, calls, rebalances, restarts.
In `Service`: each step by
which a cancelled process ends (every loop selects on the context, Shutdown has a
deadline of 15 s and the final drain one of 5 s), and the next step of a request, while
it can be taken: one that needs a connection waits as long as the pool has none.
Nothing in the repository restarts a ledger that ended, so the liveness properties
of `Consumer` and `Relay` have that as an explicit hypothesis
(`[]<>` not down).

## 4. Proofs

Every theorem is for all values of the constants: any number of processes, callers,
clients, keys, rows, records, sweeps, faults and restarts. The bounds named `Max...`
stay in the guards, but any natural number will do for them. Each action has a lemma
or a case of its own; the last step of a theorem combines the initial state, the step
and the consequence.

| Module | Theorem | States | In words |
|---|---|---|---|
| `PostingProofs` | `MoneyTypeCorrect`, `SubExact` | | amounts stay in range; Sub is exact on what New builds |
| | `OverflowExact`, `OnlyMinInexact` | `OverflowIsExact`, `OnlyMinIsInexact` | at every width |
| | `TypeCorrect` | `TypeOK` | |
| | `AtMostOnePosting`, `AnswersAreDurable`, `MismatchesAreReal` | `OneEffectPerKey`, `AnswerIsDurable`, `MismatchIsReal` | FR-L1 |
| | `OutboxCoCommits`, `ReplayNeverWaits` | `OutboxCoCommit`, `ReplayFindsResponse` | FR-L7; the wait loop is never entered |
| | `LedgerSumsToZero`, `LegsAreWhole`, `TriggerNeverFires` | `GlobalInvariant`, `PostingsAreWhole`, `ValidateForesees` | FR-L9, FR-L2 |
| | `WritePathKeepsPromise` | `KeepsPromise` | the statements of Post implement `IdempotentLedger` |
| `ConsumerProofs` | `TypeCorrect` | `TypeOK` | |
| | `MessagesAreAppliedOnce`, `NothingIsLost`, `BatchIsBookedInOrder` | `ExactlyOnce`, `NoLoss`, `CommitAfterEffect` | modes C and D; B, C and D |
| | `AtMostOncePerDelivery` | `AtMostOnceWhileSettled` | mode A |
| `RelayProofs` | `RelayTypeCorrect` | `TypeOK` | |
| | `MarkedIsProduced`, `EventsAreCommitted`, `RowsAreReplayedOnlyOnFailure` | `SentIsProduced`, `NoPhantomEvent`, `DuplicatesAreRetries` | FR-L7 |
| `BalanceProofs` | `BalanceTypeCorrect` | `TypeOK` | |
| | `BalanceIsDerived`, `HoldsAreBounded`, `HoldsAreClosedOnce` | `BalanceIsSumIfSeparated`, `OvercommitIsBounded`, `ReleasedOnce` | FR-L4, FR-L5 |
| `ServiceProofs` | `ServiceTypeCorrect` | `TypeOK` | |
| | `WholeSchemaIsServed`, `AnswersTellTheEffect` | `ServesWholeSchema`, `AnswersAreTrue` | start, retries, lost answers |
| `SweepProofs` | `SweepTypeCorrect`, `QuorumIsKept` | `TypeOK`, `QuorumKept` | any schedules that `Validate` accepts |
| | `DrainedRunsAreDone`, `FindingsAreOneSweep` | `DrainedMeansDone`, `FindingIsOneSweep` | what a run reports, and a fold |
| `EodProofs` | `EodTypeCorrect` | `TypeOK` | |
| | `BusinessDayRule`, `EodBusinessDays` | `EodOnBusinessDays` | the calendar, for every year; what end of day claims of it |
| | `EodChargesExact`, `EodFinishedComplete` | `ChargesAreExact`, `FinishedIsComplete` | FR-L6 |
| `SumProofs` | lemmas only | | sums over finite sets |

**The arguments.** Hardly any of these properties is inductive alone.

*Money.* `WrapInRange` (a sum or negation of two int64 wraps back into range),
`SignTestIsExact` and `NegIsExact` are case splits in linear arithmetic. They stand at
the end of `PostingProofs`, which extends `MoneyCalc` beside `Posting`.

*Sums.* Balances, holds and the ledger's total are `MapThenSumSet` over sets of rows.
`SumProofs` shows that the fold behind it exists, is unique and can be taken apart at
any element (`SumRemove`, `SumAdd`, `SumUnion`), each time by a least counterexample in
place of an induction, and that sums of credits are monotone and bounded
(`CreditsMonotone`, `CreditsBounded`). `Posting`'s running `Sum` is treated in
`PostingProofs` in the same way.

*Posting.* `IInv` is `TypeOK` with `Claims` (two calls never hold one key, and a key
that is held has no row), `Envelopes` (the same for posting ids), `Recorded`
(idempotency rows and postings correspond row for row, with equal bodies and entry
ids), `Progress` (what a transaction has obtained when it stands at a statement) and
`Replays` (a call that replays has a committed row to read). `LedgerInv` adds what the
sums need: `Building` (a transaction has one entry id for each leg it has inserted, all
different and below the sequence), `Booked` (the entries are those of the postings, leg
for leg, and sum to zero) and `Waiting` (no caller was told `unbalanced`). A COMMIT adds
the entries of one body that Validate accepted, which sum to zero. For `KeepsPromise` the mapping is
`Made` and `Told`: COMMIT is the effect, whether or not its answer arrives, the return
is the answer, and every other statement is a stutter. The safety part of
`IdempotentLedger` is all there is to map, since that module states no fairness.

*Consumer.* `PInv` is `TypeOK` with `Positions` (which steps of a batch a mode has and
where a member stands in it). `EffectInv` adds `ExactlyOnce`, that everything below the
committed offset is booked, and that everything before a member's place in its batch
is (`Behind`): a member that lost the partition may commit an offset, but only one
behind which all is booked. A lost commit only lowers the offset, which keeps all of that. For
mode A, `SettledInv` counts: while the partition has
not moved under a batch and no commit was lost, a message has no more postings than records up to the
committed offset, or, while the owner applies its batch, up to the record it is at.

*Relay.* `RelayInv` is `TypeOK` with `Keys` (row ids are drawn once), `Batches` (a
claimed batch has distinct, unsent, committed rows), `DownHasNoDrain` and the two
properties. The bound on duplicates is the invariant `Retries`: a row's events, and one
for a drain that shutdown may still make, are at most one if it is marked (or about to
be) and one for each failure and SIGTERM so far.

*Balance.* `BalanceInv` is `Ledger` (ids used once), `Holding`, `Checkpointed` (each
checkpoint's `seen` are entries, on or before its date and up to its watermark) and
`Exact` (if every watermark separates, stored balances are the sums of what was seen).
The bound on holds needs that amounts are not negative (`Credited`, the hypothesis of
`OvercommitIsBounded` too), and then `Under` (no stored or read balance is above the
entries) and `HoldCap` (open and approved holds stay below the entries and the greatest
hold for all callers but one). The approval of one caller is the step that needs both.

*Service.* `SchemaInv` is the types of processes with `NothingSkipped` (what a process
does not have left to apply has been applied) and `ServesWholeSchema`. `ClientInv` has
for each client `Clean` (a request with a flaw, or a read, has no effect) and `Honest`
(the last status agrees with the effect), and that the outbox has no more events than
clients have postings. `Losers` says that a request which lost its claim lost it to its
own posting, so that what it replays is true.

*Sweep.* `Ordered` is defined by the rank of each event; `PlacesAreTaken` shows that
the ranks are a permutation, `OrderedIsInTime` that a list is its own order exactly
when it is sorted by time, and `ScaleFacts` that scaling keeps it so although it
rounds. The invariant `Scheduled` says that the run in progress follows the plan that
was validated: while `orderly`, the brokers that are down are `DownAfter` of as many
events as the chaos goroutine has taken, and the plan is at its end from the moment
the drain starts. `DownAfterStep` relates two prefixes of a plan.

`Drained` is about the run's movements. Its part `Delivery` has the number of records
that were on the topic when the consumer began (`base`; not 0 when a sweep lists a
configuration twice, since both runs have one topic): every record after those that is
below the committed offset or the consumer's place is applied, unless the mode is A.
`Assessed` keeps a verdict true after it was given: a group without lag has nothing in
hand, so nothing it does later changes a count, and a count of postings only grows
(`PostingsGrow`). With an inbox each movement is applied once, so postings and inbox rows
agree (`PostingsCover`), and a run that is not refused as contaminated has as many as it
sent (`SentIsApplied` is the other half). `Filed` is about the directory: an artefact has
its run's id and sweep; no artefact of the sweep in progress is in the directory but its
own; and the configurations before the current one are complete. The number of a sweep is
above those of all before, because a sweep has at least one run.

*Eod.* The calendar first. `YearExists` places a day in its four centuries, century,
four years and year, so that `Year` and `Month` choose what they should
(`YearFacts`, and the same for months); an earlier `Year`, with two candidates where it has
three now, was found wrong here, on 1 January 1904. Each holiday is then a place in a year that depends on the
weekday of 1 January and on whether the year is leap, and `BusinessDayRule` compares the
table with the rule day by day. `NextBusinessDay` looks ten days ahead, and there is
always a business day among them.

The invariant `Core` has these parts. `Types` and `PlaceOf`: a run stands at an account
of its phase, and the day is claimed. `Claims`: the business days before today, and no
others, are in eod_runs, which with `BusinessDayRule` is `EodOnBusinessDays`.
`Watermarks`: a watermark covers every entry that its balance was read from, and where
watermarks separate, the balance is the sum of just those; no checkpoint of today exists
while a run is before its last phase. So a balance read through any checkpoint is a sum
over entries alone, whatever commits between the two reads, and the checkpoints of a day
cannot disturb the charges of that day. `Holding`: an expired hold is past its instant,
so that expiry changes no `OpenHoldTotal`; a hold has a number of the action that closed it
exactly if a customer released it; and no number is above that of the last action, so
that what customers do later changes nothing that was open at a read (`HeldKept`).
`Reading`: the sum of the days that `SumDay` has read is that of the entries there were
when the account was begun, unless someone has posted to those days since; and what
`ReadForFee` and `ReadBalance` read is the balance then. `Assessing`: the same, less the
holds that were open at `ReadHolds`, until `PostFee`. Posting turns `Reading` into `ExactAt`, which says of the last posting what
`ChargesAreExact` does: `RoundHalfEven` of the wrapped product is `Nearest` of the exact
quotient when the product fits. `Progress` follows the phases: the accounts before the
run's place, and all of a phase that has passed, have what was due. Later steps keep it, since
keys are never given back, checkpoints never deleted, and a posting to the month that
ended is `PostedLate`. The last phase makes it `FinishedIsComplete`. That interest is
posted whenever it is owed would be false of a client who posts to the month after it was
read and of watermarks that do not separate, which is why `InterestIsSettled` names both.

**Assumptions.** The theorems use the named assumptions of the modules, which TLC
evaluates in the runs: `MaxMinorAssumption`, `PostingAssumption`, `ConsumerAssumption`,
`RelayAssumption`, `BalanceAssumption`, `ServiceAssumption`, `SweepAssumption`,
`YearsAssumption`, `EodAssumption`. They
are types and the following: there is an account (Relay); callers and hold amounts are
finitely many, at least one, and amounts of holds are positive, as PlaceHold requires
(Balance); migrations are numbered from 1, clients finitely many and a client tries at
least once (Service); a schedule's instants are not negative and a sweep has a
configuration, as setDefaults provides (Sweep); accounts are listed once, suspense is
one of them with the product SUSPENSE, postings are to the others, a hold has a positive
amount and lasts a day at least, and the calendar has the years of a window and their
neighbours (Eod). The amounts, the days by which clients date off, the ids they draw
early, the account list, the product of each account and the windows are otherwise free.
The inductive invariants were checked with TLC on the instances of section 3 (that of
`Eod` around the ends of December 2027 and February 2028, with one action).

**Only model-checked.** Liveness, which rests on fairness and ENABLED: `CallsReturn`,
`EventuallyApplied`, `EventuallyProduced`, `ConnectionsComeBack`. Every invariant of a passing
run is a theorem. The four runs that end in a violation are
counterexamples, and nothing is to be proved.

## 5. Not modelled, and what is left

No behaviour to check: load profiles, reports, the golden calendar's printing,
command lines, metrics' text, JSON and protobuf encodings (`gen/`), the seeded
generator of the legacy core.

Left out of modelled parts: fencing of mode D's shared transactional id, whose
outcome is the cluster's; the latency probe and its percentiles, and the clock
instants of a run; the listing reads for the reconciler; healthz and readyz as
requests; parsing and printing of dates, `PrevBusinessDay`, `BusinessDaysBetween`.

Left to do: `reconcile`, a separate Python program over files: ingest of late,
redelivered and truncated extracts, and the ageing of breaks.
