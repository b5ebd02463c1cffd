------------------------------ MODULE Posting ------------------------------
(***************************************************************************)
(* internal/ledger/posting: Service.Post, its transaction and its replay,  *)
(* run by concurrent callers against one PostgreSQL database.              *)
(*                                                                         *)
(* Every statement of the transaction is a step.  A transaction's writes   *)
(* are its own until COMMIT, so they are not in the tables: they are what  *)
(* the caller's pc and tx say.  An INSERT that meets the key of a          *)
(* transaction still open waits for it to end (PostgreSQL's unique index), *)
(* then fails with 23505 if that transaction committed and succeeds if it  *)
(* did not.  A statement, or the connection, may fail at any step, and     *)
(* COMMIT may take effect although its caller is told it failed.  A crash  *)
(* of the process is such a failure of every open call: the service keeps  *)
(* no state of its own between calls.                                      *)
(***************************************************************************)
EXTENDS Money, FiniteSets, FiniteSetsExt

CONSTANTS Callers,      \* goroutines that call Post: HTTP handlers, the EOD engine
          Keys,         \* (principal, idempotency key) pairs
          Bodies,       \* request bodies; BodyHash tells them apart
          Accounts,     \* the rows of the accounts table
          Legs,         \* Legs[b]: the entries that body b asks for, in order
          PostingIDFor, \* PostingIDFor[k]: the posting id derived from a key
          MaxCalls,     \* bound: calls of Post, retries included
          MaxAttempts   \* passes of the wait loop of replay (50 in the code)

CONSTANT NoRow          \* an idempotency key that is not in the table

ASSUME PostingAssumption ==
    /\ Keys # {}
    /\ Bodies # {}
    /\ \A b \in Bodies : /\ Legs[b] \in Seq({Legs[b][i] : i \in DOMAIN Legs[b]})
                         /\ \A i \in DOMAIN Legs[b] : Legs[b][i].amount \in Int64
    /\ MaxCalls \in Nat
    /\ MaxAttempts \in Nat \ {0}
    /\ NoRow \notin [hash : Bodies, response : Seq(Nat)] \cup [body : Bodies, ids : Seq(Nat)]

VARIABLES pc,         \* where each caller's Post stands
          req,        \* its request: key and body
          tx,         \* what its open transaction has obtained so far
          attempt,    \* passes of its replay loop
          out,        \* the outcome of its last call
          calls,      \* calls made so far
          idem,       \* idempotency_keys: key -> body hash and stored response
          postings,   \* postings, each with the key, the body and the entry ids of its call
          entries,    \* entries
          outbox,     \* outbox rows
          nextEntry,  \* the BIGSERIAL of entries, never rolled back
          nextOutbox  \* the BIGSERIAL of outbox, never rolled back

caller == <<pc, req, tx, attempt, out, calls>>
tables == <<idem, postings, entries, outbox>>
vars == <<pc, req, tx, attempt, out, calls, idem, postings, entries, outbox,
          nextEntry, nextOutbox>>

\* The calls whose transaction holds its key, and those that hold the posting id.
Claimed == {"posting", "entries", "outbox", "complete", "commit"}
Enveloped == Claimed \ {"posting"}
Open == Claimed \cup {"claim"}
Running == Open \cup {"replay"}

Tx(entryIDs, outboxID, response) ==
    [entryIDs |-> entryIDs, outboxID |-> outboxID, response |-> response]
EmptyTx == Tx(<<>>, 0, <<>>)
NoOutcome == [status |-> "none", ids |-> <<>>]

-----------------------------------------------------------------------------
\* Mutant of Validate: the sum is not checked.
ValidateMutant(b) == Len(Legs[b]) >= 2

\* Validate: at least two entries, each representable, that sum to zero.
Validate(b) ==
    LET amounts == [i \in DOMAIN Legs[b] |-> Legs[b][i].amount]
    IN  /\ Len(Legs[b]) >= 2
        /\ \A i \in DOMAIN Legs[b] : Representable(amounts[i])
        /\ Sum(amounts) = [ok |-> TRUE, minor |-> 0]

\* Mutant of EntryRows: the signs of the legs are swapped.
EntryRowsMutant(c) ==
    {[id      |-> tx[c].entryIDs[i],
      posting |-> PostingIDFor[req[c].key],
      account |-> Legs[req[c].body][i].account,
      amount  |-> Neg(Legs[req[c].body][i].amount)] : i \in DOMAIN tx[c].entryIDs}

\* The rows that the entries of call c become at COMMIT.
EntryRows(c) ==
    {[id      |-> tx[c].entryIDs[i],
      posting |-> PostingIDFor[req[c].key],
      account |-> Legs[req[c].body][i].account,
      amount  |-> Legs[req[c].body][i].amount] : i \in DOMAIN tx[c].entryIDs}

\* The row that its envelope becomes.
PostingRow(c) == [id |-> PostingIDFor[req[c].key], key |-> req[c].key,
                  body |-> req[c].body, entryIDs |-> tx[c].entryIDs]

\* The deferred trigger assert_posting_zero_sum, judged at COMMIT.
ZeroSum(rows) == /\ Cardinality(rows) >= 2
                 /\ MapThenSumSet(LAMBDA e : e.amount, rows) = 0

Init == /\ pc = [c \in Callers |-> "idle"]
        /\ req = [c \in Callers |-> CHOOSE r \in [key : Keys, body : Bodies] : TRUE]
        /\ tx = [c \in Callers |-> EmptyTx]
        /\ attempt = [c \in Callers |-> 0]
        /\ out = [c \in Callers |-> NoOutcome]
        /\ calls = 0
        /\ idem = [k \in Keys |-> NoRow]
        /\ postings = {}
        /\ entries = {}
        /\ outbox = {}
        /\ nextEntry = 1
        /\ nextOutbox = 1

\* The call of c returns; its transaction, if one is open, is over.
Return(c, status, ids) ==
    /\ pc' = [pc EXCEPT ![c] = "idle"]
    /\ tx' = [tx EXCEPT ![c] = EmptyTx]
    /\ attempt' = [attempt EXCEPT ![c] = 0]
    /\ out' = [out EXCEPT ![c] = [status |-> status, ids |-> ids]]
    /\ UNCHANGED <<req, calls>>

\* Call c goes on to its next statement.
Goto(c, label) ==
    /\ pc' = [pc EXCEPT ![c] = label]
    /\ UNCHANGED <<req, attempt, out, calls>>

\* A client calls Post: Validate, then BEGIN.
Call(c, k, b) ==
    /\ pc[c] = "idle"
    /\ calls < MaxCalls
    /\ calls' = calls + 1
    /\ req' = [req EXCEPT ![c] = [key |-> k, body |-> b]]
    /\ pc' = [pc EXCEPT ![c] = IF Validate(b) THEN "claim" ELSE "idle"]
    /\ out' = [out EXCEPT ![c] = [status |-> IF Validate(b) THEN "pending" ELSE "invalid",
                                  ids    |-> <<>>]]
    /\ UNCHANGED <<tx, attempt, tables, nextEntry, nextOutbox>>

\* Mutant of KeyIsFree: the INSERT does not wait for the transaction that has
\* inserted the same key, as if the primary key were checked by a prior SELECT.
KeyIsFreeMutant(c) == TRUE

\* Mutant of KeyIsFree: a lock on the key that a failed call does not give back.
KeyIsFreeLeakMutant(c) ==
    \A d \in Callers \ {c} :
        pc[d] \in Claimed \/ out[d].status = "error" => req[d].key # req[c].key

\* No open transaction of another call has inserted the key of c.
KeyIsFree(c) == \A d \in Callers \ {c} : pc[d] \in Claimed => req[d].key # req[c].key

\* 1. Claim the key.  23505 rolls back and replays.
ClaimIdempotencyKey(c) ==
    /\ pc[c] = "claim"
    /\ KeyIsFree(c)
    /\ Goto(c, IF idem[req[c].key] = NoRow THEN "posting" ELSE "replay")
    /\ UNCHANGED <<tx, tables, nextEntry, nextOutbox>>

\* Mutant of InsertPosting: the collision is reported as an invalid request.
InsertPostingMutant(c) ==
    LET id == PostingIDFor[req[c].key]
    IN  /\ pc[c] = "posting"
        /\ \A d \in Callers \ {c} : pc[d] \in Enveloped => PostingIDFor[req[d].key] # id
        /\ IF \E p \in postings : p.id = id
           THEN Return(c, "invalid", <<>>)
           ELSE Goto(c, "entries") /\ UNCHANGED tx
        /\ UNCHANGED <<tables, nextEntry, nextOutbox>>

\* 2. The envelope.  Two keys may have one posting id; the second gets an error.
InsertPosting(c) ==
    LET id == PostingIDFor[req[c].key]
    IN  /\ pc[c] = "posting"
        /\ \A d \in Callers \ {c} : pc[d] \in Enveloped => PostingIDFor[req[d].key] # id
        /\ IF \E p \in postings : p.id = id
           THEN Return(c, "error", <<>>)
           ELSE Goto(c, "entries") /\ UNCHANGED tx
        /\ UNCHANGED <<tables, nextEntry, nextOutbox>>

\* 3. One leg.  The sequence advances even if the foreign key refuses the row.
InsertEntry(c) ==
    LET legs == Legs[req[c].body]
        i == Len(tx[c].entryIDs) + 1
    IN  /\ pc[c] = "entries"
        /\ nextEntry' = nextEntry + 1
        /\ IF legs[i].account \notin Accounts
           THEN Return(c, "error", <<>>)
           ELSE /\ tx' = [tx EXCEPT ![c] = Tx(Append(tx[c].entryIDs, nextEntry), 0, <<>>)]
                /\ Goto(c, IF i = Len(legs) THEN "outbox" ELSE "entries")
        /\ UNCHANGED <<tables, nextOutbox>>

\* 4. The outbox row, in the same transaction.
InsertOutbox(c) ==
    /\ pc[c] = "outbox"
    /\ nextOutbox' = nextOutbox + 1
    /\ tx' = [tx EXCEPT ![c] = Tx(tx[c].entryIDs, nextOutbox, <<>>)]
    /\ Goto(c, "complete")
    /\ UNCHANGED <<tables, nextEntry>>

\* Mutants of CompleteIdempotency: the response is not stored, or not all of it.
CompleteIdempotencyPartialMutant(c) ==
    /\ pc[c] = "complete"
    /\ tx' = [tx EXCEPT ![c].response = <<tx[c].entryIDs[1]>>]
    /\ Goto(c, "commit")
    /\ UNCHANGED <<tables, nextEntry, nextOutbox>>
CompleteIdempotencyMutant(c) ==
    /\ pc[c] = "complete"
    /\ Goto(c, "commit")
    /\ UNCHANGED <<tx, tables, nextEntry, nextOutbox>>

\* 5. Store the response with the claim.
CompleteIdempotency(c) ==
    /\ pc[c] = "complete"
    /\ tx' = [tx EXCEPT ![c] = Tx(tx[c].entryIDs, tx[c].outboxID, tx[c].entryIDs)]
    /\ Goto(c, "commit")
    /\ UNCHANGED <<tables, nextEntry, nextOutbox>>

\* Mutants of Apply: the outbox row, or the first leg, is not part of the
\* transaction and is lost; the key is stored in place of the hash of the body.
ApplyKeyHashMutant(c) ==
    /\ idem' = [idem EXCEPT ![req[c].key] = [hash |-> req[c].key, response |-> tx[c].response]]
    /\ postings' = postings \cup {PostingRow(c)}
    /\ entries' = entries \cup EntryRows(c)
    /\ outbox' = outbox \cup {[id |-> tx[c].outboxID, posting |-> PostingIDFor[req[c].key]]}
ApplyNoOutboxMutant(c) ==
    /\ idem' = [idem EXCEPT ![req[c].key] = [hash |-> req[c].body, response |-> tx[c].response]]
    /\ postings' = postings \cup {PostingRow(c)}
    /\ entries' = entries \cup EntryRows(c)
    /\ UNCHANGED outbox
ApplyNoLegMutant(c) ==
    /\ idem' = [idem EXCEPT ![req[c].key] = [hash |-> req[c].body, response |-> tx[c].response]]
    /\ postings' = postings \cup {PostingRow(c)}
    /\ entries' = entries \cup {e \in EntryRows(c) : e.id # tx[c].entryIDs[1]}
    /\ outbox' = outbox \cup {[id |-> tx[c].outboxID, posting |-> PostingIDFor[req[c].key]]}

\* Everything the transaction of c wrote becomes visible at once.
Apply(c) ==
    /\ idem' = [idem EXCEPT ![req[c].key] = [hash |-> req[c].body, response |-> tx[c].response]]
    /\ postings' = postings \cup {PostingRow(c)}
    /\ entries' = entries \cup EntryRows(c)
    /\ outbox' = outbox \cup {[id |-> tx[c].outboxID, posting |-> PostingIDFor[req[c].key]]}

\* 6. COMMIT, acknowledged: taken, or refused by the trigger.
Commit(c) ==
    /\ pc[c] = "commit"
    /\ IF ZeroSum(EntryRows(c))
       THEN Apply(c) /\ Return(c, "created", tx[c].entryIDs)
       ELSE Return(c, "unbalanced", <<>>) /\ UNCHANGED tables
    /\ UNCHANGED <<nextEntry, nextOutbox>>

\* COMMIT takes effect, but its acknowledgement does not reach the caller.
CommitUnacknowledged(c) ==
    /\ pc[c] = "commit"
    /\ ZeroSum(EntryRows(c))
    /\ Apply(c)
    /\ Return(c, "error", <<>>)
    /\ UNCHANGED <<nextEntry, nextOutbox>>

\* Any statement fails, or the request's context ends: rollback, and an error.
Fail(c) ==
    /\ pc[c] \in Running
    /\ Return(c, "error", <<>>)
    /\ UNCHANGED <<tables, nextEntry, nextOutbox>>

\* Mutant of ReplayStatus: the hash covers more than the body and never agrees.
ReplayStatusMutant(row, body, n) == IF row = NoRow THEN "error" ELSE "mismatch"

\* What one pass of replay finds in the row it has read.  Only the first pass
\* compares the hashes.
ReplayStatus(row, body, n) ==
    IF row = NoRow THEN "error"                     \* ErrNotFound
    ELSE IF n = 0 /\ row.hash # body THEN "mismatch" \* ErrIdempotencyBodyMismatch
    ELSE IF row.response # <<>> THEN "replayed"     \* len(rec.Response) > 2
    ELSE IF n + 1 >= MaxAttempts THEN "error"       \* did not complete in time
    ELSE "waiting"

\* Serve the stored response, report the mismatch, or wait 10ms and read again.
Replay(c) ==
    LET row == idem[req[c].key]
        status == ReplayStatus(row, req[c].body, attempt[c])
    IN  /\ pc[c] = "replay"
        /\ IF status = "waiting"
           THEN /\ attempt' = [attempt EXCEPT ![c] = @ + 1]
                /\ UNCHANGED <<pc, req, tx, out, calls>>
           ELSE Return(c, status, IF status = "replayed" THEN row.response ELSE <<>>)
        /\ UNCHANGED <<tables, nextEntry, nextOutbox>>

\* Every client has had its answers.
Terminating == /\ calls = MaxCalls
               /\ \A c \in Callers : pc[c] = "idle"
               /\ UNCHANGED vars

\* The next statement of the call that c is in.
Statement(c) == \/ ClaimIdempotencyKey(c)
                \/ InsertPosting(c)
                \/ InsertEntry(c)
                \/ InsertOutbox(c)
                \/ CompleteIdempotency(c)
                \/ Commit(c)
                \/ CommitUnacknowledged(c)
                \/ Replay(c)

Next == \/ \E c \in Callers :
               \/ \E k \in Keys, b \in Bodies : Call(c, k, b)
               \/ Statement(c)
               \/ Fail(c)
        \/ Terminating

Spec == Init /\ [][Next]_vars

\* The database answers every statement of a call, sooner or later: a caller
\* that waits for a key waits for a transaction that ends.
Fairness == \A c \in Callers : WF_vars(Statement(c))
FairSpec == Spec /\ Fairness

-----------------------------------------------------------------------------
Statuses == {"none", "pending", "created", "replayed", "mismatch", "invalid",
             "error", "unbalanced"}

\* The types of the caller's state and of the tables.
TypeOK ==
    /\ pc \in [Callers -> Running \cup {"idle"}]
    /\ req \in [Callers -> [key : Keys, body : Bodies]]
    /\ tx \in [Callers -> [entryIDs : Seq(Nat), outboxID : Nat, response : Seq(Nat)]]
    /\ attempt \in [Callers -> Nat]
    /\ out \in [Callers -> [status : Statuses, ids : Seq(Nat)]]
    /\ calls \in Nat
    /\ idem \in [Keys -> [hash : Bodies, response : Seq(Nat)] \cup {NoRow}]
    /\ \A p \in postings : p.key \in Keys /\ p.body \in Bodies /\ p.entryIDs \in Seq(Nat)
    /\ nextEntry \in Nat
    /\ nextOutbox \in Nat

\* FR-L1: N concurrent requests and any number of retries with one key make at
\* most one posting, and a call that has claimed its key never meets a posting of
\* it: the losers of a race replay, they do not fail on the posting id.
OneEffectPerKey ==
    /\ \A p, q \in postings : p.key = q.key => p = q
    /\ \A c \in Callers, p \in postings : pc[c] \in Claimed => p.key # req[c].key

\* A caller that was told its posting succeeded, now or by replay, was told of
\* the posting of its own key and body, and of the entries that are in the
\* ledger; so all the callers of a key saw the same answer.
AnswerIsDurable ==
    \A c \in Callers : out[c].status \in {"created", "replayed"} =>
        \E p \in postings : /\ p.key = req[c].key
                            /\ p.body = req[c].body
                            /\ p.entryIDs = out[c].ids

\* 409 is never a false alarm: the key has made a posting with another body.
MismatchIsReal ==
    \A c \in Callers : out[c].status = "mismatch" =>
        \E p \in postings : p.key = req[c].key /\ p.body # req[c].body

\* FR-L7: a posting and its outbox row are committed together, one row each.
OutboxCoCommit ==
    /\ {o.posting : o \in outbox} = {p.id : p \in postings}
    /\ \A o, r \in outbox : o.posting = r.posting => o = r

\* FR-L9: the entries of the whole ledger sum to zero at all times.
GlobalInvariant == MapThenSumSet(LAMBDA e : e.amount, entries) = 0

\* FR-L2: the ledger holds exactly the legs each posting's request asked for.
PostingsAreWhole ==
    \A p \in postings :
        {e \in entries : e.posting = p.id} =
            {[id      |-> p.entryIDs[i],
              posting |-> p.id,
              account |-> Legs[p.body][i].account,
              amount  |-> Legs[p.body][i].amount] : i \in DOMAIN Legs[p.body]}

\* "This gives a clear 422 instead of a COMMIT failure": no request that
\* Validate lets through is refused by the trigger at COMMIT.
ValidateForesees == \A c \in Callers : out[c].status # "unbalanced"

\* "A concurrent first request may hold the claim but not yet have written its
\* response": the claim and the response are committed together, so a replay
\* finds the row it lost to, with a response, on its first read.
ReplayFindsResponse ==
    \A c \in Callers : pc[c] = "replay" =>
        /\ attempt[c] = 0
        /\ idem[req[c].key] # NoRow
        /\ idem[req[c].key].response # <<>>

\* Every call returns, the ones that wait for another call's key included.
CallsReturn == \A c \in Callers : pc[c] # "idle" ~> pc[c] = "idle"

\* The write path implements the promise.
EffectOf(k) == IF \E p \in postings : p.key = k
               THEN LET p == CHOOSE p \in postings : p.key = k
                    IN  [body |-> p.body, ids |-> p.entryIDs]
               ELSE NoRow

Promise == INSTANCE IdempotentLedger WITH
               NoEffect <- NoRow,
               effect   <- [k \in Keys |-> EffectOf(k)],
               answer   <- [c \in Callers |-> [status |-> out[c].status,
                                               ids    |-> out[c].ids,
                                               key    |-> req[c].key,
                                               body   |-> req[c].body]]

\* Each step of Post is a step of the promise or leaves it alone.
KeepsPromise == Promise!Spec
=============================================================================
