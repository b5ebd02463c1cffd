-------------------------------- MODULE Relay --------------------------------
(***************************************************************************)
(* internal/ledger/outbox: the relay, with the request handlers that fill  *)
(* the outbox, the topic it produces to, and the life of the process that  *)
(* runs them (cmd/ledger): the errgroup, SIGTERM, shutdown and restart.    *)
(*                                                                         *)
(* A handler's transaction draws its outbox_id from a sequence before it   *)
(* commits, so rows may become visible out of the order of their ids.      *)
(* Drain is three steps: read the batch, produce it, mark it sent.  The    *)
(* producer is external: it acknowledges the whole batch, or returns an    *)
(* error after any part of it was written, each account's records in       *)
(* order.                                                                  *)
(***************************************************************************)
EXTENDS Integers, Sequences, FiniteSetsExt

CONSTANTS Handlers,     \* goroutines of the HTTP server
          Accounts,     \* account ids, the partition keys
          BatchSize,    \* Options.BatchSize
          MaxRows,      \* bound: ids drawn from the outbox sequence
          MaxFaults,    \* bound: failures and crashes
          MaxStops      \* bound: SIGTERMs

\* There is an account from the start: EnsureSuspenseAccounts made it.
ASSUME RelayAssumption ==
    /\ Accounts # {}
    /\ BatchSize \in Nat \ {0}
    /\ MaxRows \in Nat
    /\ MaxFaults \in Nat
    /\ MaxStops \in Nat

VARIABLES phase,    \* the process: up, cancelled (gctx is done), closing (Shutdown
                    \* was called), down
          hpc,      \* each handler: idle, or in a transaction that has a row
          hrow,     \* that row
          nextID,   \* the BIGSERIAL of outbox, never rolled back
          rows,     \* the committed rows of outbox
          sent,     \* the rows with sent_at
          topic,    \* what the topic holds, in the order of arrival
          rpc,      \* where the relay stands
          final,    \* is this the drain after ctx.Done
          batch,    \* the rows it has read, in order
          faults,   \* failures so far
          stops     \* SIGTERMs so far

handlers == <<hpc, hrow, nextID, rows>>
relay == <<rpc, final, batch>>
vars == <<phase, hpc, hrow, nextID, rows, sent, topic, rpc, final, batch, faults, stops>>

Rows == [id : Nat, account : Accounts]
Produced == Range(topic)

\* Mutants of Unsent: the row is visible before its transaction commits, and the
\* relay keeps a cursor in place of sent_at.
UnsentDirtyMutant == (rows \cup {hrow[h] : h \in {g \in Handlers : hpc[g] = "open"}}) \ sent
UnsentCursorMutant == {r \in rows \ sent : \A s \in sent : s.id < r.id}

\* sent_at IS NULL
Unsent == rows \ sent

\* The context that the relay's drain runs under is not done.
Live == final \/ phase = "up"

Init == /\ phase = "up"
        /\ hpc = [h \in Handlers |-> "idle"]
        /\ hrow = [h \in Handlers |-> CHOOSE r \in [id : {0}, account : Accounts] : TRUE]
        /\ nextID = 1
        /\ rows = {}
        /\ sent = {}
        /\ topic = <<>>
        /\ rpc = "wait"
        /\ final = FALSE
        /\ batch = <<>>
        /\ faults = 0
        /\ stops = 0

Fault == /\ faults < MaxFaults
         /\ faults' = faults + 1

-----------------------------------------------------------------------------
\* The request handlers.

\* A posting's transaction inserts its outbox row.
InsertOutbox(h, a) ==
    /\ phase \in {"up", "cancelled"}
    /\ hpc[h] = "idle"
    /\ nextID <= MaxRows
    /\ nextID' = nextID + 1
    /\ hpc' = [hpc EXCEPT ![h] = "open"]
    /\ hrow' = [hrow EXCEPT ![h] = [id |-> nextID, account |-> a]]
    /\ UNCHANGED <<phase, rows, sent, topic, relay, faults, stops>>

\* It commits; Shutdown lets a request in flight finish.
CommitPosting(h) ==
    /\ hpc[h] = "open"
    /\ hpc' = [hpc EXCEPT ![h] = "idle"]
    /\ rows' = rows \cup {hrow[h]}
    /\ UNCHANGED <<phase, hrow, nextID, sent, topic, relay, faults, stops>>

\* It is rolled back, and its id is never used.
RollbackPosting(h) ==
    /\ hpc[h] = "open"
    /\ hpc' = [hpc EXCEPT ![h] = "idle"]
    /\ UNCHANGED <<phase, hrow, nextID, rows, sent, topic, relay, faults, stops>>

-----------------------------------------------------------------------------
\* The relay.

\* The ticker fires.  The select may choose it although ctx is done.
Tick ==
    /\ rpc = "wait"
    /\ rpc' = "claim"
    /\ UNCHANGED <<phase, handlers, sent, topic, final, batch, faults, stops>>

\* ctx is done: drain once more, under a deadline of its own.
Done ==
    /\ rpc = "wait"
    /\ phase \in {"cancelled", "closing"}
    /\ rpc' = "claim"
    /\ final' = TRUE
    /\ UNCHANGED <<phase, handlers, sent, topic, batch, faults, stops>>

\* The rows of set: each has as many rows up to it as its place says.
Rank(set, r) == Cardinality({s \in set : s.id <= r.id})
InIDOrder(set) == [i \in 1 .. Cardinality(set) |-> CHOOSE r \in set : Rank(set, r) = i]

\* Mutant of Oldest: no LIMIT.
OldestMutant == InIDOrder(Unsent)

\* ORDER BY outbox_id LIMIT BatchSize
Oldest == LET seq == InIDOrder(Unsent)
          IN  SubSeq(seq, 1, Min({BatchSize, Len(seq)}))

\* ClaimOutboxBatch.  Nothing to send ends the drain; the last one ends Run.
ClaimOutboxBatch ==
    /\ rpc = "claim"
    /\ Live
    /\ batch' = Oldest
    /\ rpc' = CASE batch' # <<>>          -> "produce"
                [] batch' = <<>> /\ final -> "ended"
                [] OTHER                  -> "wait"
    /\ UNCHANGED <<phase, handlers, sent, topic, final, faults, stops>>

\* Every record of the batch is acknowledged.
Produce ==
    /\ rpc = "produce"
    /\ Live
    /\ topic' = topic \o batch
    /\ rpc' = "mark"
    /\ UNCHANGED <<phase, handlers, sent, final, batch, faults, stops>>

\* Mutants of MarkedRows: everything up to the last id of the batch, and all of
\* the batch but its last row.
MarkedRowsUpToMutant == {r \in rows : r.id <= batch[Len(batch)].id}
MarkedRowsFewerMutant == {batch[i] : i \in 1 .. Len(batch) - 1}

\* outbox_id = ANY($1)
MarkedRows == Range(batch)

\* MarkOutboxSent, then another batch unless this one was not full.
MarkOutboxSent ==
    /\ rpc = "mark"
    /\ Live
    /\ sent' = sent \cup MarkedRows
    /\ rpc' = IF final \/ Len(batch) = BatchSize THEN "claim" ELSE "wait"
    /\ batch' = <<>>
    /\ UNCHANGED <<phase, handlers, topic, final, faults, stops>>

\* A part of the batch that an error or a crash may leave in the topic: of each
\* account's records the first few.
Parts == {InIDOrder(part) : part \in {kept \in SUBSET Range(batch) :
              \A r \in Range(batch), s \in kept :
                  r.account = s.account /\ r.id < s.id => r \in kept}}

PartlyProduced == IF rpc = "produce"
                  THEN \E part \in Parts : topic' = topic \o part
                  ELSE UNCHANGED topic

\* Drain returns an error: Run returns it, which cancels the group, or, after
\* ctx.Done, swallows it.
EndRun ==
    /\ rpc' = "ended"
    /\ batch' = <<>>
    /\ phase' = IF phase = "up" THEN "cancelled" ELSE phase
    /\ UNCHANGED <<handlers, final>>

Draining == {"claim", "produce", "mark"}

\* The database or the broker fails.
DrainFails ==
    /\ rpc \in Draining
    /\ Live
    /\ PartlyProduced
    /\ EndRun
    /\ Fault
    /\ UNCHANGED <<sent, stops>>

\* A drain that the ticker began is cut short by ctx.Done: Run returns the error
\* and there is no final drain.
DrainCancelled ==
    /\ rpc \in Draining
    /\ ~Live
    /\ PartlyProduced
    /\ EndRun
    /\ UNCHANGED <<sent, faults, stops>>

\* The UPDATE of MarkOutboxSent takes effect, but its caller gets an error.
MarkUnacknowledged ==
    /\ rpc = "mark"
    /\ sent' = sent \cup MarkedRows
    /\ EndRun
    /\ Fault
    /\ UNCHANGED <<topic, stops>>

-----------------------------------------------------------------------------
\* The process.

\* SIGTERM, or another goroutine of the group has returned an error.
Sigterm ==
    /\ phase = "up"
    /\ stops < MaxStops
    /\ phase' = "cancelled"
    /\ stops' = stops + 1
    /\ UNCHANGED <<handlers, sent, topic, relay, faults>>

\* srv.Shutdown stops the listener.
Shutdown ==
    /\ phase = "cancelled"
    /\ phase' = "closing"
    /\ UNCHANGED <<handlers, sent, topic, relay, faults, stops>>

\* g.Wait returns: the relay has returned and no request is in flight.
MayExit == /\ phase = "closing"
           /\ rpc = "ended"
           /\ \A h \in Handlers : hpc[h] = "idle"

Exit ==
    /\ MayExit
    /\ phase' = "down"
    /\ UNCHANGED <<handlers, sent, topic, relay, faults, stops>>

\* The process is killed, or Shutdown runs into its deadline: what was open is
\* rolled back.
Crash ==
    /\ phase # "down"
    /\ phase' = "down"
    /\ hpc' = [h \in Handlers |-> "idle"]
    /\ rpc' = "ended"
    /\ batch' = <<>>
    /\ PartlyProduced
    /\ Fault
    /\ UNCHANGED <<hrow, nextID, rows, sent, final, stops>>

Restart ==
    /\ phase = "down"
    /\ phase' = "up"
    /\ rpc' = "wait"
    /\ final' = FALSE
    /\ UNCHANGED <<handlers, sent, topic, batch, faults, stops>>

Step == \/ Tick
        \/ Done
        \/ ClaimOutboxBatch
        \/ Produce
        \/ MarkOutboxSent
        \/ DrainCancelled

Next == \/ \E h \in Handlers : \/ \E a \in Accounts : InsertOutbox(h, a)
                               \/ CommitPosting(h)
                               \/ RollbackPosting(h)
        \/ Step
        \/ DrainFails
        \/ MarkUnacknowledged
        \/ Sigterm
        \/ Shutdown
        \/ Exit
        \/ Crash
        \/ Restart

Spec == Init /\ [][Next]_vars

\* The ticker fires, the database and the broker answer, Shutdown is reached and
\* requests in flight end.  Nothing in the repository starts a ledger that ended.
Fairness == /\ WF_vars(Step)
            /\ WF_vars(Shutdown)
            /\ WF_vars(Exit)
            /\ \A h \in Handlers : WF_vars(CommitPosting(h) \/ RollbackPosting(h))
FairSpec == Spec /\ Fairness

-----------------------------------------------------------------------------
\* Types, and the bound on a batch.
TypeOK == /\ phase \in {"up", "cancelled", "closing", "down"}
          /\ hpc \in [Handlers -> {"idle", "open"}]
          /\ hrow \in [Handlers -> Rows]
          /\ nextID \in Nat \ {0}
          /\ rows \subseteq Rows
          /\ sent \subseteq rows
          /\ topic \in Seq(Rows)
          /\ rpc \in {"wait", "claim", "produce", "mark", "ended"}
          /\ final \in BOOLEAN
          /\ batch \in Seq(Rows) /\ Len(batch) <= BatchSize
          /\ faults \in Nat
          /\ stops \in Nat

\* "Rows are marked sent only after every produce in the batch is acknowledged":
\* no committed posting is given up without its event.
SentIsProduced == sent \subseteq Produced

\* FR-L7: an event in the topic is that of a posting that committed.
NoPhantomEvent == Produced \subseteq rows

\* "A crash between produce and mark replays the batch": a row is produced again
\* only after a failure or a SIGTERM in the middle of a drain.
DuplicatesAreRetries ==
    \A r \in rows : Cardinality({i \in DOMAIN topic : topic[i] = r}) <= 1 + faults + stops

\* An event is produced for every posting that commits, provided that a ledger
\* that ended is started again.
EventuallyProduced ==
    []<>(phase # "down") =>
        \A i \in 1 .. MaxRows, a \in Accounts :
            LET r == [id |-> i, account |-> a] IN r \in rows ~> r \in Produced

\* "Per-account ordering holds because the poll is ordered by outbox_id and the
\* partition key is the account": the events of an account first appear in the
\* order of their rows.
PerAccountOrder ==
    \A i, j \in DOMAIN topic :
        /\ topic[i].account = topic[j].account
        /\ topic[j].id < topic[i].id
        /\ i < j
        => \E k \in 1 .. i : topic[k] = topic[j]
=============================================================================
