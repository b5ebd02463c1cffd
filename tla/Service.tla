------------------------------ MODULE Service ------------------------------
(***************************************************************************)
(* The ledger process from start to exit: migrations, suspense accounts,   *)
(* the goroutines of the errgroup, the HTTP handlers with the statuses     *)
(* they answer, and shutdown.  Several processes may start on one          *)
(* database.  A handler's statements are in Posting and Balance; here a    *)
(* request has one effect at most, and the step that makes it may be       *)
(* reported as failed.  Movements and Kafka are in Consumer and Relay: of  *)
(* the broker this module has the in-process fake.                         *)
(***************************************************************************)
EXTENDS Integers, FiniteSetsExt

CONSTANTS Processes,
          Clients,
          Versions,     \* migrations embedded in the binary: 1 .. n
          Currencies,   \* currencies with a suspense account
          Buses,        \* "kafka" when -brokers is given, else "fake"
          Flaws,        \* errors that requests meet, or "none"
          Room,         \* holds that the account's available balance covers
          PoolSize,     \* connections in a process's pool: MaxConns
          MaxStarts,    \* bound: starts of a process
          MaxTries,     \* bound: times a client sends its request
          MaxFaults     \* bound: failures, crashes and lost answers

Errors == {"principal", "invalidBody", "missingKey", "unknownKind",
           "bodyMismatch", "notBalanced", "currencyMismatch", "insufficient",
           "notFound", "eodRun", "invariant", "other"}

ASSUME ServiceAssumption ==
    /\ IsFiniteSet(Versions) /\ Versions = 1 .. Cardinality(Versions)
    /\ IsFiniteSet(Clients)
    /\ Buses \subseteq {"fake", "kafka"}
    /\ Flaws \subseteq Errors \cup {"none"}
    /\ {Room, PoolSize, MaxStarts, MaxTries, MaxFaults} \subseteq Nat
    /\ PoolSize > 0 /\ MaxTries > 0

VARIABLES bus,        \* what dialBroker returned
          made,       \* migrations whose SQL is in the schema
          recorded,   \* rows of schema_migrations
          suspense,   \* suspense accounts in the accounts table
          outbox,     \* unsent rows of the outbox
          pc,         \* where each process stands in run
          todo,       \* migrations that a starting process found unapplied
          loops,      \* goroutines of the errgroup that have not returned
          gauge,      \* shadowbook_ledger_invariant_ok
          log,        \* posting events in the process's fake bus
          cursor,     \* of them, those that its consumer has polled
          starts, faults,
          req,        \* what each client has sent and been answered
          effect,     \* writes that the client's request has made
          released,   \* is the hold that clients release closed
          conn,       \* clients whose request holds a connection of its process
          lost        \* clients whose request lost the claim of its key

db == <<made, recorded, suspense>>
proc == <<pc, loops>>
memory == <<gauge, log, cursor>>
pool == <<conn, lost>>
client == <<req, effect, released, pool>>
vars == <<bus, db, outbox, proc, todo, memory, starts, faults, client>>

Loops == {"checker", "relay", "consumer", "http"}
Operations == {"post", "hold", "release", "read"}

Init == /\ bus \in Buses
        /\ made = {} /\ recorded = {} /\ suspense = {} /\ outbox = 0
        /\ pc = [p \in Processes |-> "off"]
        /\ todo = [p \in Processes |-> {}]
        /\ loops = [p \in Processes |-> {}]
        /\ gauge = [p \in Processes |-> FALSE]
        /\ log = [p \in Processes |-> 0]
        /\ cursor = [p \in Processes |-> 0]
        /\ starts = 0 /\ faults = 0
        /\ req = [c \in Clients |-> [op |-> "none", flaw |-> "none", at |-> "nobody",
                                     phase |-> "idle", status |-> 0, tries |-> 0]]
        /\ effect = [c \in Clients |-> 0]
        /\ released = FALSE
        /\ conn = {} /\ lost = {}

\* The pool of process p has a connection to give.
Free(p) == Cardinality({c \in conn : req[c].at = p}) < PoolSize

Fault == /\ faults < MaxFaults
         /\ faults' = faults + 1

\* What is in a process's memory goes with it.
Forget(p) == /\ todo' = [todo EXCEPT ![p] = {}]
             /\ gauge' = [gauge EXCEPT ![p] = FALSE]
             /\ log' = [log EXCEPT ![p] = 0]
             /\ cursor' = [cursor EXCEPT ![p] = 0]

-----------------------------------------------------------------------------
(* Start: flags, store.Open, Migrate, EnsureSuspenseAccounts, dialBroker. *)

Start(p) == /\ pc[p] = "off"
            /\ starts < MaxStarts
            /\ starts' = starts + 1
            /\ pc' = [pc EXCEPT ![p] = "open"]
            /\ UNCHANGED <<bus, db, outbox, loops, todo, memory, faults, client>>

\* Apply creates the version table if there is none and reads it, once.
ReadApplied(p) ==
    /\ pc[p] = "open"
    /\ todo' = [todo EXCEPT ![p] = Versions \ recorded]
    /\ pc' = [pc EXCEPT ![p] = "apply"]
    /\ UNCHANGED <<bus, db, outbox, loops, memory, starts, faults, client>>

\* applyOne: the SQL of the lowest version that is left and its row, in one
\* transaction.  It waits for another process that has the same version open
\* and then fails, because the objects are there.
ApplyOne(p) ==
    /\ pc[p] = "apply" /\ todo[p] # {}
    /\ LET m == Min(todo[p])
       IN  /\ m \notin made
           /\ made' = made \cup {m}
           /\ recorded' = recorded \cup {m}
           /\ todo' = [todo EXCEPT ![p] = @ \ {m}]
    /\ UNCHANGED <<bus, suspense, outbox, proc, memory, starts, faults, client>>

\* The same, reported as failed: run returns the error.
ApplyUnacknowledged(p) ==
    /\ pc[p] = "apply" /\ todo[p] # {}
    /\ Fault
    /\ Min(todo[p]) \notin made
    /\ made' = made \cup {Min(todo[p])}
    /\ recorded' = recorded \cup {Min(todo[p])}
    /\ pc' = [pc EXCEPT ![p] = "off"]
    /\ Forget(p)
    /\ UNCHANGED <<bus, suspense, outbox, loops, starts, client>>

\* Mutant of ApplyFails: the row is written outside of the transaction.
ApplyFailsMutant(p) ==
    /\ pc[p] = "apply" /\ todo[p] # {}
    /\ \/ Min(todo[p]) \in made /\ UNCHANGED faults
       \/ Fault
    /\ recorded' = recorded \cup {Min(todo[p])}
    /\ pc' = [pc EXCEPT ![p] = "off"]
    /\ Forget(p)
    /\ UNCHANGED <<bus, made, suspense, outbox, loops, starts, client>>

\* The transaction rolls back, because of another process or of the database.
ApplyFails(p) ==
    /\ pc[p] = "apply" /\ todo[p] # {}
    /\ \/ Min(todo[p]) \in made /\ UNCHANGED faults
       \/ Fault
    /\ pc' = [pc EXCEPT ![p] = "off"]
    /\ Forget(p)
    /\ UNCHANGED <<bus, db, outbox, loops, starts, client>>

\* The inserts commit one by one and ignore accounts that exist.  With the
\* broker dialled, run starts the goroutines of the group.
EnsureSuspenseAccounts(p) ==
    /\ pc[p] = "apply" /\ todo[p] = {}
    /\ suspense' = Currencies
    /\ pc' = [pc EXCEPT ![p] = "serving"]
    /\ loops' = [loops EXCEPT ![p] = Loops]
    /\ UNCHANGED <<bus, made, recorded, outbox, todo, memory, starts, faults, client>>

\* Open, the version table, an insert or dialBroker fails, or a signal has
\* cancelled ctx: some of the accounts are there, and run returns.
StartFails(p) ==
    /\ pc[p] = "open" \/ (pc[p] = "apply" /\ todo[p] = {})
    /\ Fault
    /\ \E some \in SUBSET Currencies :
          suspense' = IF pc[p] = "open" THEN suspense ELSE suspense \cup some
    /\ pc' = [pc EXCEPT ![p] = "off"]
    /\ Forget(p)
    /\ UNCHANGED <<bus, made, recorded, outbox, loops, starts, client>>

-----------------------------------------------------------------------------
(* The group and its end. *)

\* gctx is done: at a signal, or when a goroutine has returned an error.
Cancelled(p) == [pc EXCEPT ![p] = IF @ = "serving" THEN "cancelled" ELSE @]

Sigterm(p) == /\ pc[p] = "serving"
              /\ Fault
              /\ pc' = Cancelled(p)
              /\ UNCHANGED <<bus, db, outbox, loops, todo, memory, starts, client>>

\* Relay.Run, Consumer.Run or ListenAndServe returns an error.
LoopFails(p, l) == /\ l \in loops[p] \ {"checker"}
                   /\ pc[p] = "serving"
                   /\ Fault
                   /\ loops' = [loops EXCEPT ![p] = @ \ {l}]
                   /\ pc' = Cancelled(p)
                   /\ UNCHANGED <<bus, db, outbox, todo, memory, starts, client>>

\* Checker.Run, Relay.Run and Consumer.Run see that the context is done.
LoopEnds(p, l) == /\ pc[p] \in {"cancelled", "draining"}
                  /\ l \in loops[p] \ {"http"}
                  /\ loops' = [loops EXCEPT ![p] = @ \ {l}]
                  /\ UNCHANGED <<bus, db, outbox, pc, todo, memory, starts, faults, client>>

\* srv.Shutdown closes the listener; requests in flight go on.
Shutdown(p) == /\ pc[p] = "cancelled"
               /\ pc' = [pc EXCEPT ![p] = "draining"]
               /\ loops' = [loops EXCEPT ![p] = @ \ {"http"}]
               /\ UNCHANGED <<bus, db, outbox, todo, memory, starts, faults, client>>

\* g.Wait returns: the goroutines have, and Shutdown has, with its requests or
\* after 15 s without them.  The deferred closes begin, the pool's last: it gives
\* out no more connections and waits for those it has given.
GroupEnds(p) == /\ pc[p] = "draining"
                /\ loops[p] = {}
                /\ pc' = [pc EXCEPT ![p] = "closing"]
                /\ UNCHANGED <<bus, db, outbox, loops, todo, memory, starts, faults, client>>

\* What clients see of a process that has ended: no answer.
Dropped(p) == [c \in Clients |->
                  IF req[c].phase = "sent" /\ req[c].at = p
                  THEN [req[c] EXCEPT !.phase = "answered", !.at = "nobody"]
                  ELSE req[c]]

\* The process ends, with the requests that it has not answered.
End(p) == /\ pc' = [pc EXCEPT ![p] = "off"]
          /\ loops' = [loops EXCEPT ![p] = {}]
          /\ req' = Dropped(p)
          /\ conn' = {c \in conn : req[c].at # p}
          /\ lost' = {c \in lost : req[c].at # p}
          /\ Forget(p)
          /\ UNCHANGED <<bus, db, outbox, starts, effect, released>>

\* st.Close returns when every connection is back.
Exit(p) == /\ pc[p] = "closing"
           /\ \A c \in conn : req[c].at # p
           /\ End(p)
           /\ UNCHANGED faults

Crash(p) == /\ pc[p] \notin {"off", "open", "apply"}
            /\ Fault
            /\ End(p)

\* Checker.once: the sum of every currency is zero (Posting's GlobalInvariant).
Check(p) == /\ "checker" \in loops[p]
            /\ Free(p)
            /\ gauge' = [gauge EXCEPT ![p] = TRUE]
            /\ UNCHANGED <<bus, db, outbox, proc, todo, log, cursor, starts, faults, client>>

\* "A failed check is not a satisfied invariant. Report 0, never 1."
CheckFails(p) == /\ "checker" \in loops[p]
                 /\ Fault
                 /\ gauge' = [gauge EXCEPT ![p] = FALSE]
                 /\ UNCHANGED <<bus, db, outbox, proc, todo, log, cursor, starts, client>>

\* Relay.Drain publishes a posting event, to the fake bus when there is no other.
Produce(p) == /\ "relay" \in loops[p]
              /\ Free(p)
              /\ outbox > 0
              /\ outbox' = outbox - 1
              /\ log' = [log EXCEPT ![p] = IF bus = "fake" THEN @ + 1 ELSE @]
              /\ UNCHANGED <<bus, db, proc, todo, gauge, cursor, starts, faults, client>>

\* Fake.Poll returns records of every topic: the consumer meets the ledger's
\* own event, apply cannot read it as a movement, and Run returns that error.
Poll(p) == /\ "consumer" \in loops[p]
           /\ cursor[p] < log[p]
           /\ cursor' = [cursor EXCEPT ![p] = log[p]]
           /\ loops' = [loops EXCEPT ![p] = @ \ {"consumer"}]
           /\ pc' = Cancelled(p)
           /\ UNCHANGED <<bus, db, outbox, todo, gauge, log, starts, faults, client>>

-----------------------------------------------------------------------------
(* Requests. *)

\* Mutant of Status: an error that is not in the taxonomy is the client's.
StatusMutant(err) == CASE err = "none" -> 200
                       [] err = "bodyMismatch" -> 409
                       [] err = "notFound" -> 404
                       [] OTHER -> 400

\* classify, and the 403 that handlers write themselves.
Status(err) ==
    CASE err = "none" -> 200
      [] err = "principal" -> 403
      [] err \in {"invalidBody", "missingKey", "unknownKind"} -> 400
      [] err \in {"bodyMismatch", "eodRun"} -> 409
      [] err \in {"notBalanced", "currencyMismatch", "insufficient", "invariant"} -> 422
      [] err = "notFound" -> 404
      [] OTHER -> 500

\* The errors of a request that has no effect, by what the client sent.
FlawsOf(op) ==
    CASE op = "post" -> Errors \ {"insufficient", "notFound", "eodRun"}
      [] op = "hold" -> {"principal", "invalidBody", "unknownKind", "notFound", "other"}
      [] op = "release" -> {"principal", "invalidBody", "notFound", "other"}
      [] op = "read" -> {"invalidBody", "notFound", "other"}

\* A client sends a request, or sends it again after a 5xx or no answer: a 4xx
\* "tells the caller not to retry".  X-Principal and the key are part of it.
Send(c, p) ==
    /\ "http" \in loops[p]
    /\ \/ /\ req[c].phase = "idle"
          /\ \E op \in Operations : \E flaw \in Flaws \cap (FlawsOf(op) \cup {"none"}) :
                req' = [req EXCEPT ![c] = [op |-> op, flaw |-> flaw, at |-> p,
                                           phase |-> "sent", status |-> 0, tries |-> 1]]
       \/ /\ req[c].phase = "answered"
          /\ req[c].status \notin 200 .. 499
          /\ req[c].tries < MaxTries
          /\ req' = [req EXCEPT ![c].at = p, ![c].phase = "sent", ![c].status = 0,
                                       ![c].tries = @ + 1]
    /\ UNCHANGED <<bus, db, outbox, proc, todo, memory, starts, faults, effect, released, pool>>

\* The errors that a handler, or Validate, finds before it asks for a connection.
Early == {"principal", "invalidBody", "missingKey", "unknownKind", "notBalanced",
          "currencyMismatch"}

\* The request waits until the pool of its process has a connection.
Connect(c) == /\ req[c].phase = "sent" /\ req[c].flaw \notin Early
              /\ c \notin conn \cup lost
              /\ pc[req[c].at] # "closing" /\ Free(req[c].at)
              /\ conn' = conn \cup {c}
              /\ UNCHANGED <<bus, db, outbox, proc, todo, memory, starts, faults, req, effect,
                             released, lost>>

\* The handler answers and its connection is back in the pool; when it was told that its write failed, or is told so
\* before the write, it answers with an error it does not know.
Answer(c, status) == /\ req' = [req EXCEPT ![c].phase = "answered", ![c].at = "nobody", ![c].status = status]
                     /\ conn' = conn \ {c} /\ lost' = lost \ {c}
                     /\ UNCHANGED <<bus, db, proc, todo, memory, starts>>

Acknowledged(c, status) == \/ Answer(c, status) /\ UNCHANGED faults
                           \/ Answer(c, Status("other")) /\ Fault

Handles(c, op) == /\ req[c].phase = "sent"
                  /\ req[c].op = op
                  /\ c \in conn

\* A request that is wrong in itself, for a handler that knows it.
Reject(c) ==
    /\ req[c].phase = "sent"
    /\ req[c].flaw # "none"
    /\ req[c].flaw \in Early \/ c \in conn
    /\ Answer(c, IF req[c].op = "release" /\ req[c].flaw = "notFound"
                 THEN 409 ELSE Status(req[c].flaw))
    /\ UNCHANGED <<outbox, faults, effect, released>>

\* A statement fails before anything is written.
Fail(c) ==
    /\ req[c].phase = "sent"
    /\ Answer(c, Status("other"))
    /\ Fault
    /\ UNCHANGED <<outbox, effect, released>>

\* The pool of a process that ends gives out no connection.
PoolClosed(c) ==
    /\ req[c].phase = "sent" /\ req[c].flaw \notin Early
    /\ pc[req[c].at] = "closing" /\ c \notin conn
    /\ Answer(c, Status("other"))
    /\ UNCHANGED <<outbox, faults, effect, released>>

\* handlePostPosting: the posting and its outbox row are written.
PostPosting(c) ==
    /\ Handles(c, "post") /\ req[c].flaw = "none"
    /\ effect[c] = 0
    /\ effect' = [effect EXCEPT ![c] = 1]
    /\ outbox' = outbox + 1
    /\ Acknowledged(c, 201)
    /\ UNCHANGED released

\* Mutant of LoseClaim: the rollback is left to the deferred one.
LoseClaimMutant(c) ==
    /\ Handles(c, "post") /\ req[c].flaw = "none"
    /\ effect[c] = 1 /\ c \notin lost
    /\ lost' = lost \cup {c}
    /\ UNCHANGED <<bus, db, outbox, proc, todo, memory, starts, faults, req, effect, released, conn>>

\* The key is taken, by an earlier attempt: the transaction is rolled back, which
\* gives its connection back, and replay will need one again.
LoseClaim(c) ==
    /\ Handles(c, "post") /\ req[c].flaw = "none"
    /\ effect[c] = 1 /\ c \notin lost
    /\ conn' = conn \ {c} /\ lost' = lost \cup {c}
    /\ UNCHANGED <<bus, db, outbox, proc, todo, memory, starts, faults, req, effect, released>>

\* Mutant of Replay: it writes an outbox row too.
ReplayMutant(c) ==
    /\ req[c].phase = "sent" /\ c \in lost
    /\ pc[req[c].at] # "closing" /\ Free(req[c].at)
    /\ outbox' = outbox + 1
    /\ Acknowledged(c, 200)
    /\ UNCHANGED <<effect, released>>

\* replay: one statement on the pool finds the stored response.
Replay(c) ==
    /\ req[c].phase = "sent" /\ c \in lost
    /\ pc[req[c].at] # "closing" /\ Free(req[c].at)
    /\ Acknowledged(c, 200)
    /\ UNCHANGED <<outbox, effect, released>>

\* handlePlaceHold: nothing tells a second attempt from a second hold.
PlaceHold(c) ==
    /\ Handles(c, "hold") /\ req[c].flaw = "none"
    /\ LET Sufficient == MapThenSumSet(LAMBDA d : IF req[d].op = "hold" THEN effect[d] ELSE 0,
                                       Clients) < Room
       IN  IF Sufficient
           THEN effect' = [effect EXCEPT ![c] = @ + 1] /\ Acknowledged(c, 201)
           ELSE Answer(c, Status("insufficient")) /\ UNCHANGED <<effect, faults>>
    /\ UNCHANGED <<outbox, released>>

\* handleReleaseHold: an UPDATE of an open hold; no row is "already released".
ReleaseHold(c) ==
    /\ Handles(c, "release") /\ req[c].flaw = "none"
    /\ IF released
       THEN Answer(c, 409) /\ UNCHANGED <<effect, faults>>
       ELSE effect' = [effect EXCEPT ![c] = 1] /\ Acknowledged(c, 200)
    /\ released' = TRUE
    /\ UNCHANGED outbox

\* handleBalances and handleEntries.
Read(c) == /\ Handles(c, "read")
           /\ req[c].flaw = "none"
           /\ Answer(c, 200)
           /\ UNCHANGED <<outbox, faults, effect, released>>

Handler(c) == /\ req[c].phase = "sent"
              /\ \/ Connect(c) \/ Reject(c) \/ PostPosting(c) \/ LoseClaim(c) \/ Replay(c)
                 \/ PlaceHold(c) \/ ReleaseHold(c) \/ Read(c) \/ PoolClosed(c)

Ending(p) == Shutdown(p) \/ GroupEnds(p) \/ Exit(p) \/ \E l \in Loops : LoopEnds(p, l)

Next == \/ \E p \in Processes :
              \/ Start(p) \/ ReadApplied(p) \/ ApplyOne(p) \/ ApplyUnacknowledged(p)
              \/ ApplyFails(p) \/ EnsureSuspenseAccounts(p) \/ StartFails(p)
              \/ Sigterm(p) \/ Shutdown(p) \/ GroupEnds(p) \/ Exit(p) \/ Crash(p)
              \/ Check(p) \/ CheckFails(p) \/ Produce(p) \/ Poll(p)
              \/ \E l \in Loops : LoopFails(p, l) \/ LoopEnds(p, l)
              \/ \E c \in Clients : Send(c, p)
        \/ \E c \in Clients : Handler(c) \/ Fail(c)

Spec == Init /\ [][Next]_vars

\* A goroutine goes on when it is scheduled, a request when it is served or the
\* database answers; Shutdown has a deadline.
Fairness == /\ \A p \in Processes : WF_vars(Ending(p))
            /\ \A c \in Clients : WF_vars(Handler(c))

FairSpec == Spec /\ Fairness

-----------------------------------------------------------------------------
\* The types of the tables, of the processes and of the requests.
TypeOK ==
    /\ made \subseteq Versions /\ recorded \subseteq Versions /\ suspense \subseteq Currencies
    /\ pc \in [Processes -> {"off", "open", "apply", "serving", "cancelled", "draining", "closing"}]
    /\ todo \in [Processes -> SUBSET Versions]
    /\ loops \in [Processes -> SUBSET Loops]
    /\ \A p \in Processes : pc[p] \in {"off", "open", "apply"} => loops[p] = {}
    /\ gauge \in [Processes -> BOOLEAN]
    /\ \A p \in Processes : 0 <= cursor[p] /\ cursor[p] <= log[p]
    /\ outbox \in 0 .. Cardinality(Clients)
    /\ starts \in 0 .. MaxStarts /\ faults \in 0 .. MaxFaults
    /\ effect \in [Clients -> 0 .. MaxTries]
    /\ \A c \in Clients : req[c].tries \in 0 .. MaxTries
    /\ conn \subseteq Clients /\ lost \subseteq Clients

\* "Apply runs every unapplied migration in order, each in its own transaction,
\* and records it": whichever starts race, fail or are cut off, the version table
\* says what is in the schema, without a hole, and a process that answers requests
\* has all of it and the suspense accounts.
ServesWholeSchema ==
    /\ recorded = made
    /\ \A m \in made : 1 .. m \subseteq made
    /\ \A p \in Processes : loops[p] # {} => made = Versions /\ suspense = Currencies

\* "Never a guessed 4xx, because a 4xx tells the caller not to retry": over all
\* attempts of a client, a success has its effect, a refusal has none, and no
\* attempt repeats one.  Two answers are less than that: a release that was
\* already made is refused with 409, and a hold has no key, so a client that
\* sends it again may have several, or be refused because of its own.
AnswersAreTrue ==
    \A c \in Clients :
        LET r == req[c]
        IN  /\ effect[c] <= IF r.op = "hold" THEN r.tries ELSE 1
            /\ r.phase = "answered" /\ r.status \in 200 .. 299 /\ r.op \in {"post", "hold", "release"}
               => effect[c] > 0
            /\ r.phase = "answered" /\ r.status \in 400 .. 499 /\ effect[c] > 0
               => \/ r.op = "release" /\ r.status = 409
                  \/ r.op = "hold" /\ r.status = 422 /\ r.tries > 1

\* Nobody waits for a connection for ever, although requests need one, some need
\* a second one, and the pool has only so many: every request ends, answered or
\* with its process, and a process whose context is done ends, although st.Close
\* waits for the requests that Shutdown has abandoned.
ConnectionsComeBack ==
    /\ \A c \in Clients : req[c].phase = "sent" ~> req[c].phase = "answered"
    /\ \A p \in Processes : pc[p] \in {"cancelled", "draining", "closing"} ~> pc[p] = "off"

\* "The relay publishes this ledger's own postings for observability, while the
\* consumer reads movements": no consumer has read a posting event.
ConsumerReadsMovements == \A p \in Processes : cursor[p] = 0
=============================================================================
