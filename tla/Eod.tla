-------------------------------- MODULE Eod --------------------------------
(***************************************************************************)
(* internal/ledger/accrual: end of day, run once for each business date    *)
(* while customers post and hold, with the documented calendar, products   *)
(* and rounding.                                                           *)
(*                                                                         *)
(* Every phase is a chain of autocommitted statements: customers act       *)
(* between any two of them, and the run may end at any of them.  A posting *)
(* is the two entries that it commits (Posting has its inside): the log is *)
(* in the order in which they become visible, and an entry may have drawn  *)
(* its id before others that it becomes visible after.                     *)
(***************************************************************************)
EXTENDS BizDate, Functions

CONSTANTS Suspense,       \* the suspense account
          Accounts,       \* the accounts, in the order that AllAccounts lists them
          ProductOf,      \* the product code of each account
          Opening,        \* the postings before the window: an account and an amount
          PostAmounts,    \* amounts posted by customers
          HoldAmounts,    \* amounts held
          Offsets,        \* how many days off the day a client may date a posting or a hold
          Lags,           \* how many ids before the next one a client may have drawn its own
          HoldDays,       \* 72 hours
          OpenedBefore,   \* how many days before the window the accounts were opened
          MaxMinor,       \* math.MaxInt64
          Windows         \* bound: each a first day, its days, and how often a customer
                          \* acts or a run fails in it

ASSUME EodAssumption ==
    /\ Accounts \in Seq(Range(Accounts)) /\ IsInjective(Accounts)
    /\ Suspense \in Range(Accounts) /\ ProductOf[Suspense] = "SUSPENSE"
    /\ Opening \in Seq([acct : Range(Accounts) \ {Suspense}, amount : Int])
    /\ PostAmounts \subseteq Int /\ HoldAmounts \subseteq Nat \ {0}
    /\ Offsets \subseteq Int /\ Lags \subseteq Nat
    /\ HoldDays \in Nat \ {0} /\ OpenedBefore \in Nat /\ MaxMinor \in Nat \ {0}
    /\ \A w \in Windows : /\ w \in [from : Int, days : Nat, acts : Nat]
                          /\ Year(w.from) - 1 .. Year(w.from + w.days) + 1 \subseteq Years

VARIABLES win,          \* the window
          today,        \* the day
          log,          \* entries in the order in which they became visible
          holds,        \* the rows of holds
          checkpoints,  \* the rows of checkpoints
          eod,          \* the rows of eod_runs
          run,          \* the run in progress
          acts          \* customers' actions and failures so far

\* No columns, for the properties: "seen" is the length of the log, and "at" the
\* number of customers' actions, when end of day read them; "placed" and "closed"
\* number the actions of the customers who placed and who released a hold.

vars == <<win, today, log, holds, checkpoints, eod, run, acts>>

-----------------------------------------------------------------------------
\* The products.

NoProduct == [rate |-> 0, fee |-> 0, min |-> 0, minFee |-> 0]

Products == [CHK01  |-> [rate |-> 0, fee |-> 500, min |-> 100000, minFee |-> 1200],
             SAV01  |-> [rate |-> 325, fee |-> 0, min |-> 0, minFee |-> 0],
             CHKJPY |-> [rate |-> 0, fee |-> 300, min |-> 0, minFee |-> 0],
             SUSPENSE |-> NoProduct]

\* An account whose product is unknown earns nothing and pays nothing.
Product(a) == IF ProductOf[a] \in DOMAIN Products THEN Products[ProductOf[a]] ELSE NoProduct

-----------------------------------------------------------------------------
\* Balances.

\* The places of the account's entries up to a date, of the first n entries.
Entries(a, n, d) == {i \in 1 .. n : log[i].acct = a /\ log[i].date <= d}

\* SUM(amount) over rows of a table: two rows may have the same amount.
SumOf(table, ids) ==
    MapThenSumSet(LAMBDA r : r.amount, {[id |-> i, amount |-> table[i].amount] : i \in ids})

Total(ids) == SumOf(log, ids)

LatestCheckpoint(a, d) ==
    LET before == {c \in checkpoints : c.acct = a /\ c.date <= d}
    IN  IF before = {} THEN [balance |-> 0, last |-> 0]
        ELSE CHOOSE c \in before : \A b \in before : b.date <= c.date

LedgerBalance(a, d) ==
    LET c == LatestCheckpoint(a, d)
    IN  c.balance + Total({i \in Entries(a, Len(log), d) : log[i].id > c.last})

\* Holds of an account that expire after an instant.
Unexpired(a, now) == {n \in 1 .. Len(holds) : holds[n].acct = a /\ holds[n].expires > now}

OpenHoldTotal(a, now) ==
    SumOf(holds, {n \in Unexpired(a, now) : holds[n].released = "no"})

\* A key is its kind and its date, the first for a month.  A customer's posting is
\* not sent twice, and its key is left out.
Customer == <<"customer", 0>>

\* What end of day had read when it posted.
Read(seen, at) == [seen |-> seen, at |-> at]

Entry(a, amount, d, key, id, read) ==
    [acct |-> a, amount |-> amount, date |-> d, key |-> key, id |-> id,
     seen |-> read.seen, at |-> read.at]

\* The next ids; the two entries of a posting have neighbouring ones, and count
\* as one here.
NextID == Len(log) + 1

\* The two entries of a posting against suspense, unless its key is taken.
Posted(a, amount, d, key, id, read) ==
    IF \E i \in 1 .. Len(log) : key # Customer /\ log[i].key = key /\ log[i].acct = a
    THEN log
    ELSE log \o <<Entry(a, amount, d, key, id, read), Entry(Suspense, -amount, d, key, id, read)>>

-----------------------------------------------------------------------------
Idle == [pc |-> "idle", i |-> 1, day |-> 0, sum |-> 0, ledger |-> 0, seen |-> 0, at |-> 0]

\* The postings before the window, against suspense.
OpeningLog(w) ==
    [i \in 1 .. 2 * Len(Opening) |->
        LET o == Opening[(i + 1) \div 2]
            d == w.from - OpenedBefore
        IN  IF i % 2 = 1 THEN Entry(o.acct, o.amount, d, Customer, i, Read(0, 0))
            ELSE Entry(Suspense, -o.amount, d, Customer, i - 1, Read(0, 0))]

Init == /\ win \in Windows
        /\ today = win.from
        /\ log = OpeningLog(win)
        /\ holds = <<>>
        /\ checkpoints = {}
        /\ eod = <<>>
        /\ run = Idle
        /\ acts = 0

MayAct == acts < win.acts /\ acts' = acts + 1

-----------------------------------------------------------------------------
\* Customers.

\* A client names the business date: that of the instant, or another.
CustomerPost(a, m) ==
    /\ MayAct
    /\ \E d \in {BusinessDateFor(today, b) : b \in BOOLEAN} \cup {today + n : n \in Offsets},
          id \in {NextID - n : n \in Lags} :
           id > 0 /\ log' = Posted(a, m, d, Customer, id, Read(0, 0))
    /\ UNCHANGED <<win, today, holds, checkpoints, eod, run>>

\* A client names placed_at too.  The balance that it is checked against was read
\* before, for a date of the client's (Balance has the check): here any may pass.
PlaceHold(a, m) ==
    /\ MayAct
    /\ \E d \in {today} \cup {today + n : n \in Offsets} :
           holds' = Append(holds, [acct |-> a, amount |-> m, expires |-> d + HoldDays,
                                   released |-> "no", placed |-> acts', closed |-> 0])
    /\ UNCHANGED <<win, today, log, checkpoints, eod, run>>

\* Captured or cancelled by a client, whatever its expiry.
ReleaseHold(n) ==
    /\ MayAct
    /\ holds[n].released = "no"
    /\ holds' = [holds EXCEPT ![n].released = "cancelled", ![n].closed = acts']
    /\ UNCHANGED <<win, today, log, checkpoints, eod, run>>

-----------------------------------------------------------------------------
\* Run.  "now" is an instant of today.

\* Mutant of ClaimEODRun: the row is left to FinishEODRun.
ClaimEODRunMutant ==
    /\ run.pc = "idle"
    /\ today \notin DOMAIN eod
    /\ run' = [Idle EXCEPT !.pc = "expire"]
    /\ UNCHANGED <<win, today, log, holds, checkpoints, eod, acts>>

\* A date that is claimed raises 23505, which changes nothing.
ClaimEODRun ==
    /\ run.pc = "idle"
    /\ today \notin DOMAIN eod
    /\ eod' = [d \in DOMAIN eod \cup {today} |->
                  IF d = today THEN [status |-> "claimed", seen |-> Len(log), at |-> acts]
                  ELSE eod[d]]
    /\ run' = [Idle EXCEPT !.pc = "expire"]
    /\ UNCHANGED <<win, today, log, holds, checkpoints, acts>>

\* "EOD only runs on business days": its caller sees to it, and asks for each once.
CallRun == IsBusinessDay(today) /\ ClaimEODRun

ExpireDue ==
    /\ run.pc = "expire"
    /\ holds' = [n \in 1 .. Len(holds) |->
                    IF holds[n].released = "no" /\ holds[n].expires <= today
                    THEN [holds[n] EXCEPT !.released = "expired"] ELSE holds[n]]
    /\ run' = [run EXCEPT !.pc = "list"]
    /\ UNCHANGED <<win, today, log, checkpoints, eod, acts>>

calendarFirst == FirstOfMonth(Year(today), Month(today))
prevMonthEnd == AddDays(calendarFirst, -1)
first == Date(Year(prevMonthEnd), Month(prevMonthEnd), 1)

\* Mutant of isMonthEnd: Date(d.Y, d.M, d.D + 1) is compared with AddDays(1).
isMonthEndMutant(d) == AddDays(d, 1) # Date(Year(d), Month(d), Day(d) + 1)

\* The next calendar day falls in a different month.
isMonthEnd(d) == Month(AddDays(d, 1)) # Month(d)

\* The places of the accounts that a phase does not pass over.
Earning == {i \in 1 .. Len(Accounts) : Product(Accounts[i]).rate # 0}
Paying == {i \in 1 .. Len(Accounts) :
              Product(Accounts[i]).fee # 0 \/ Product(Accounts[i]).minFee > 0}

Start(pc, i) ==
    [pc |-> pc, i |-> i, day |-> first, sum |-> 0, ledger |-> 0, seen |-> Len(log'), at |-> 0]

\* A loop at the first of its accounts from the ith on, or what comes after it.
Loop(phase, places, i, after) ==
    LET left == {j \in places : j >= i}
    IN  IF left = {} THEN after ELSE Start(phase, Min(left))

CheckpointPhase(i) == Loop("checkpoint", 1 .. Len(Accounts), i, Start("finish", 1))
FeePhase(i) == IF isMonthEnd(today) THEN Loop("fees", Paying, i, CheckpointPhase(1))
               ELSE CheckpointPhase(1)
InterestPhase(i) == Loop("interest", Earning, i, FeePhase(1))

\* AllAccounts, and into the first phase that is due.
AllAccounts ==
    /\ run.pc = "list"
    /\ UNCHANGED log
    /\ run' = IF today = FirstBusinessDayOfMonth(Year(today), Month(today))
              THEN InterestPhase(1) ELSE FeePhase(1)
    /\ UNCHANGED <<win, today, holds, checkpoints, eod, acts>>

\* int64 arithmetic.
Wrap64(x) == ((x + MaxMinor + 1) % (2 * MaxMinor + 2)) - MaxMinor - 1

InterestFor(sum, rate, den) ==
    IF rate = 0 \/ sum = 0 THEN 0 ELSE RoundHalfEven(Wrap64(sum * rate), 10000 * den)

\* One day of the sum: no interest on an overdrawn balance.
SumDay ==
    /\ run.pc = "interest"
    /\ run.day <= prevMonthEnd
    /\ LET bal == LedgerBalance(Accounts[run.i], run.day)
       IN  run' = [run EXCEPT !.day = AddDays(run.day, 1),
                              !.sum = IF bal > 0 THEN Wrap64(run.sum + bal) ELSE run.sum]
    /\ UNCHANGED <<win, today, log, holds, checkpoints, eod, acts>>

InterestKey == <<"interest", first>>

\* Dated the calendar first, keyed by the month that ended.
PostInterest ==
    LET a      == Accounts[run.i]
        den    == DayCountFraction(first, AddDays(first, 1), BasisFor(first)).den
        amount == InterestFor(run.sum, Product(a).rate, den)
    IN  /\ run.pc = "interest"
        /\ run.day > prevMonthEnd
        /\ log' = IF amount = 0 THEN log
                  ELSE Posted(a, amount, calendarFirst, InterestKey, NextID, Read(run.seen, 0))
        /\ run' = InterestPhase(run.i + 1)
        /\ UNCHANGED <<win, today, holds, checkpoints, eod, acts>>

\* bal.At: the ledger balance, then the open holds.  Without a minimum balance
\* nothing is read, and PostFee makes nothing of it.
ReadForFee ==
    /\ run.pc = "fees"
    /\ run' = [run EXCEPT !.pc = "holds", !.seen = Len(log),
                          !.ledger = LedgerBalance(Accounts[run.i], today)]
    /\ UNCHANGED <<win, today, log, holds, checkpoints, eod, acts>>

\* b.Available: the balance of one instant less the holds of a later one.
ReadHolds ==
    /\ run.pc = "holds"
    /\ run' = [run EXCEPT !.pc = "assess", !.at = acts,
                          !.ledger = run.ledger - OpenHoldTotal(Accounts[run.i], today)]
    /\ UNCHANGED <<win, today, log, holds, checkpoints, eod, acts>>

\* The available balance is compared.
PostFee ==
    LET a   == Accounts[run.i]
        p   == Product(a)
        fee == p.fee + (IF p.minFee > 0 /\ run.ledger < p.min THEN p.minFee ELSE 0)
    IN  /\ run.pc = "assess"
        /\ log' = IF fee = 0 THEN log
                  ELSE Posted(a, -fee, today, <<"fee", today>>, NextID, Read(run.seen, run.at))
        /\ run' = FeePhase(run.i + 1)
        /\ UNCHANGED <<win, today, holds, checkpoints, eod, acts>>

\* Checkpoint: the balance,
ReadBalance ==
    /\ run.pc = "checkpoint"
    /\ run' = [run EXCEPT !.pc = "watermark", !.seen = Len(log),
                          !.ledger = LedgerBalance(Accounts[run.i], today)]
    /\ UNCHANGED <<win, today, log, holds, checkpoints, eod, acts>>

\* then MaxEntryIDAsOf and the row with both: nothing that customers do depends on
\* the checkpoints, so what they do between these two statements may as well happen
\* after them.  An account-day that has a checkpoint is passed over.
InsertCheckpoint ==
    LET a    == Accounts[run.i]
        last == Max({0} \cup {log[i].id : i \in Entries(a, Len(log), today)})
    IN  /\ run.pc = "watermark"
        /\ checkpoints' = IF \E c \in checkpoints : c.acct = a /\ c.date = today
                          THEN checkpoints
                          ELSE checkpoints \cup {[acct |-> a, date |-> today, last |-> last,
                                                  balance |-> run.ledger, seen |-> run.seen]}
        /\ UNCHANGED log
        /\ run' = CheckpointPhase(run.i + 1)
        /\ UNCHANGED <<win, today, holds, eod, acts>>

FinishEODRun ==
    /\ run.pc = "finish"
    /\ eod' = [eod EXCEPT ![today].status = "finished"]
    /\ run' = Idle
    /\ UNCHANGED <<win, today, log, holds, checkpoints, acts>>

\* A statement fails or the process ends: the row stays claimed.
Fail ==
    /\ MayAct
    /\ run.pc # "idle"
    /\ run' = Idle
    /\ UNCHANGED <<win, today, log, holds, checkpoints, eod>>

\* The harness has asked for the end of every business day, once.
NextDay ==
    /\ run.pc = "idle"
    /\ IsBusinessDay(today) => today \in DOMAIN eod
    /\ today < win.from + win.days
    /\ today' = AddDays(today, 1)
    /\ UNCHANGED <<win, log, holds, checkpoints, eod, run, acts>>

-----------------------------------------------------------------------------
Next == \/ \E a \in Range(Accounts) \ {Suspense} :
               \/ \E m \in PostAmounts : CustomerPost(a, m)
               \/ \E m \in HoldAmounts : PlaceHold(a, m)
        \/ \E n \in 1 .. Len(holds) : ReleaseHold(n)
        \/ CallRun \/ ExpireDue \/ AllAccounts
        \/ SumDay \/ PostInterest \/ ReadForFee \/ ReadHolds \/ PostFee
        \/ ReadBalance \/ InsertCheckpoint \/ FinishEODRun
        \/ Fail \/ NextDay

Spec == Init /\ [][Next]_vars

-----------------------------------------------------------------------------
\* The rules, as a bank's calendar and its terms state them.

\* Types; end of day posts no amount of 0, a checkpoint is the only one of its
\* account-day, and while a run is in progress the day is claimed.
TypeOK == /\ today \in win.from .. win.from + win.days
          /\ \A i \in 1 .. Len(log) : /\ log[i].acct \in Range(Accounts)
                                      /\ log[i].key # Customer => log[i].amount # 0
          /\ Cardinality(checkpoints) = Cardinality({<<c.acct, c.date>> : c \in checkpoints})
          /\ \A d \in DOMAIN eod : eod[d].status \in {"claimed", "finished"}
          /\ run.pc \in {"idle", "expire", "list", "interest", "fees", "holds", "assess",
                         "checkpoint", "watermark", "finish"}
          /\ run.pc # "idle" => today \in DOMAIN eod /\ eod[today].status = "claimed"

\* A fixed holiday by its date, the others by the days of the month that they can
\* fall on.
IsFixed(d) == [month |-> Month(d), day |-> Day(d)] \in FixedHolidays

IsObserved(d) ==
    \/ IsFixed(d)
    \/ Weekday(d) = 5 /\ IsFixed(d + 1)
    \/ Weekday(d) = 1 /\ IsFixed(d - 1)
    \/ /\ Weekday(d) = 1
       /\ \/ Month(d) \in {1, 2} /\ Day(d) \in 15 .. 21
          \/ Month(d) = 5 /\ Day(d) \in 25 .. 31
          \/ Month(d) = 9 /\ Day(d) \in 1 .. 7
          \/ Month(d) = 10 /\ Day(d) \in 8 .. 14
    \/ Weekday(d) = 4 /\ Month(d) = 11 /\ Day(d) \in 22 .. 28

\* The day before a New Year's Day that falls on a Saturday: its holiday is kept
\* with the next year, where no date of this year is looked up.
MissedHoliday(d) == Month(d) = 12 /\ Day(d) = 31 /\ Weekday(d) = 5

\* A business day that passed was claimed for end of day, and no other day was,
\* since callers ask for business days only (Run itself takes any day):
\* business days are the weekdays without an observed federal holiday, but for
\* the one that holidays() misses.
EodOnBusinessDays ==
    LET d == today - 1
    IN  today > win.from =>
            (d \in DOMAIN eod <=>
                /\ Weekday(d) \notin {0, 6}
                /\ IsObserved(d) => MissedHoliday(d))

\* The watermarks up to a date cover what their balances were read from, and no
\* more: neither an entry dated after the checkpoint nor one that became visible
\* after the balance was read.
Separated(a, d) ==
    \A c \in checkpoints : c.acct = a /\ c.date <= d =>
        \A i \in 1 .. Len(log) :
            log[i].acct = a /\ log[i].id <= c.last => i <= c.seen /\ log[i].date <= c.date

\* The positive balances of the days before f, of the month that ended, from the
\* first n entries.
MonthSum(a, f, n) ==
    LET from == IF Month(f) = 1 THEN Date(Year(f) - 1, 12, 1) ELSE Date(Year(f), Month(f) - 1, 1)
    IN  SumOf([d \in from .. f - 1 |-> [amount |-> Max({0, Total(Entries(a, n, d))})]], from .. f - 1)

\* The integer nearest to a quotient, the even one of two.
Nearest(num, den) ==
    CHOOSE q \in (num \div den) .. (num \div den) + 1 :
        LET gap == 2 * (num - q * den)
        IN  \/ gap < den /\ -gap < den
            \/ gap \in {den, -den} /\ q % 2 = 0

\* The interest of the month before f: a year has 366 days if it has a 29 February.
Owed(a, f, n) ==
    LET y == Year(f - 1)
    IN  Nearest(MonthSum(a, f, n) * Product(a).rate,
                10000 * (337 + Date(y, 3, 1) - Date(y, 2, 1)))

\* The product of the sum and the rate is an int64.
Fits(a, f, n) == MonthSum(a, f, n) * Product(a).rate <= MaxMinor

\* The ith entry is the interest of the month before its date, exactly rounded
\* once, unless the product wrapped around or a client posted to that month
\* while its days were read.
InterestIsExact(i) ==
    LET e == log[i]
    IN  \/ ~Fits(e.acct, e.date, e.seen)
        \/ \E j \in e.seen + 1 .. i - 1 : log[j].acct = e.acct /\ log[j].date < e.date
        \/ e.amount = Owed(e.acct, e.date, e.seen)

\* The ith entry is the fee on the balance available when it was assessed: the
\* entries up to its date that were visible at one instant, less the holds that
\* were open at the instant of the next read.
FeeIsExact(i) ==
    LET e         == log[i]
        p         == Product(e.acct)
        held      == {n \in Unexpired(e.acct, e.date) :
                         /\ holds[n].placed <= e.at
                         /\ holds[n].closed = 0 \/ holds[n].closed > e.at}
        available == Total(Entries(e.acct, e.seen, e.date)) - SumOf(holds, held)
    IN  -e.amount = IF p.minFee > 0 /\ available < p.min THEN p.fee + p.minFee ELSE p.fee

\* What end of day charges and credits follows from the entries alone: neither
\* the checkpoints it reads through, nor the date it runs on, nor what customers
\* do meanwhile shows in an amount, as long as the watermarks separate.  Every
\* posting is the last of the log once.
ChargesAreExact ==
    LET i == Len(log) - 1
        e == log[i]
    IN  Len(log) > 1 /\ Separated(e.acct, e.date - 1) =>
            /\ e.key[1] = "interest" => InterestIsExact(i)
            /\ e.key[1] = "fee" => FeeIsExact(i)

KeyPosted(a, key) == \E i \in 1 .. Len(log) : log[i].acct = a /\ log[i].key = key

\* Since the day was claimed, a client has posted to the month that ended.
PostedLate(a) ==
    \E j \in eod[today].seen + 1 .. Len(log) : log[j].acct = a /\ log[j].date < calendarFirst

\* The account's interest for the month that ended was posted, or none was due; as
\* in ChargesAreExact, this is about a product that is an int64, watermarks that
\* separate and a month in which nobody posts any more.
InterestIsSettled(a) ==
    \/ KeyPosted(a, InterestKey)
    \/ Owed(a, calendarFirst, Len(log)) = 0
    \/ ~Fits(a, calendarFirst, Len(log))
    \/ ~Separated(a, calendarFirst - 1)
    \/ PostedLate(a)

\* A day that is finished is complete, whatever failed on the days before: what
\* was due was posted, every account has its checkpoint, and no hold is open that
\* had expired, but for one that a client placed with an earlier date after the
\* day was claimed.
FinishedIsComplete ==
    today \in DOMAIN eod /\ eod[today].status = "finished" =>
        /\ \A a \in Range(Accounts) : \E c \in checkpoints : c.acct = a /\ c.date = today
        /\ \A n \in 1 .. Len(holds) :
               holds[n].placed <= eod[today].at => holds[n].released # "no" \/ holds[n].expires > today
        /\ Day(today + 1) = 1 => \A i \in Paying : KeyPosted(Accounts[i], <<"fee", today>>)
        /\ (\A d \in calendarFirst .. today - 1 : ~IsBusinessDay(d)) =>
               \A i \in Earning : InterestIsSettled(Accounts[i])

\* "MonthlyFeeMinor is charged at month end to every account": once a month has
\* ended, every account that pays a fee has paid the month's.
EveryMonthIsCharged ==
    \A d \in win.from .. today - 1 :
        Day(d + 1) = 1 =>
            \A p \in Paying :
                \E i \in 1 .. Len(log) : /\ log[i].acct = Accounts[p]
                                         /\ log[i].key[1] = "fee"
                                         /\ Date(Year(d), Month(d), 1) <= log[i].date
                                         /\ log[i].date <= d
=============================================================================
