--------------------------- MODULE ServiceProofs ---------------------------
(***************************************************************************)
(* The ledger process and its clients, for any number of processes on one  *)
(* database, migrations, clients, restarts and failures.                   *)
(***************************************************************************)
EXTENDS Service, SumProofs

-----------------------------------------------------------------------------
\* Part 1.  Start: the schema that a process serves.

States == {"off", "open", "apply", "serving", "cancelled", "draining", "closing"}

\* The types of what a process has, and the first half of TypeOK.
ProcessTypes ==
    /\ made \subseteq Versions /\ suspense \subseteq Currencies
    /\ pc \in [Processes -> States]
    /\ todo \in [Processes -> SUBSET Versions]
    /\ loops \in [Processes -> SUBSET Loops]
    /\ \A p \in Processes : pc[p] \in {"off", "open", "apply"} => loops[p] = {}
    /\ gauge \in [Processes -> BOOLEAN]
    /\ log \in [Processes -> Nat] /\ cursor \in [Processes -> Nat]
    /\ \A p \in Processes : cursor[p] <= log[p]
    /\ starts \in 0 .. MaxStarts /\ faults \in 0 .. MaxFaults

\* What a starting process found unapplied is all that may be missing: other
\* processes only add to it.
NothingSkipped == \A p \in Processes : pc[p] = "apply" => Versions \ todo[p] \subseteq made

SchemaInv == ProcessTypes /\ NothingSkipped /\ ServesWholeSchema

\* The lowest version that is left.
LEMMA LowestVersion ==
    ASSUME NEW T \in SUBSET Versions, T # {}
    PROVE  Min(T) \in T /\ \A v \in T : Min(T) <= v
<1>1. Versions \subseteq Nat
  <2>1. Cardinality(Versions) \in Nat
    BY ServiceAssumption, FS_CardinalityType
  <2> QED
    BY <2>1, ServiceAssumption
<1>2. \E m \in T : \A n \in T : m <= n
  BY <1>1, LeastNatural
<1> QED
  BY <1>2 DEF Min

\* Applying the lowest version that is left makes no hole.
LEMMA ApplyFacts ==
    ASSUME SchemaInv, NEW p \in Processes, pc[p] = "apply", todo[p] # {}
    PROVE  /\ Min(todo[p]) \in Versions
           /\ Min(todo[p]) \in todo[p]
           /\ \A m \in made \cup {Min(todo[p])} : 1 .. m \subseteq made \cup {Min(todo[p])}
<1>1. todo[p] \in SUBSET Versions /\ Versions \ todo[p] \subseteq made
  BY DEF SchemaInv, ProcessTypes, NothingSkipped
<1>2. Min(todo[p]) \in todo[p] /\ \A v \in todo[p] : Min(todo[p]) <= v
  BY <1>1, LowestVersion
<1>3. Cardinality(Versions) \in Nat /\ Versions = 1 .. Cardinality(Versions)
  BY ServiceAssumption, FS_CardinalityType
<1>4. Min(todo[p]) \in Versions
  BY <1>1, <1>2
<1>5. ASSUME NEW k \in 1 .. Min(todo[p])
      PROVE  k \in made \cup {Min(todo[p])}
  <2>1. k \in Versions
    BY <1>3, <1>4
  <2>2. k = Min(todo[p]) \/ k < Min(todo[p])
    BY <1>3, <1>4
  <2>3. k < Min(todo[p]) => k \notin todo[p]
    BY <1>2, <1>3, <1>4, <2>1
  <2> QED
    BY <1>1, <2>1, <2>2, <2>3
<1>6. \A m \in made : 1 .. m \subseteq made
  BY DEF SchemaInv, ServesWholeSchema
<1> QED
  BY <1>2, <1>4, <1>5, <1>6

\* The process that is not p keeps what it has.
LEMMA SchemaStep == SchemaInv /\ [Next]_vars => SchemaInv'
<1> SUFFICES ASSUME SchemaInv, [Next]_vars
             PROVE  SchemaInv'
  OBVIOUS
<1> USE DEF SchemaInv
<1>1. /\ MaxStarts \in Nat /\ MaxFaults \in Nat
      /\ Versions \subseteq Versions
  BY ServiceAssumption
<1>2. ASSUME Fault
      PROVE  faults' \in 0 .. MaxFaults
  BY <1>1, <1>2 DEF Fault, ProcessTypes
<1>3. ASSUME NEW p \in Processes, Forget(p)
      PROVE  /\ todo' \in [Processes -> SUBSET Versions]
             /\ gauge' \in [Processes -> BOOLEAN]
             /\ log' \in [Processes -> Nat] /\ cursor' \in [Processes -> Nat]
             /\ \A q \in Processes : cursor'[q] <= log'[q]
             /\ \A q \in Processes \ {p} : todo'[q] = todo[q]
  BY <1>3 DEF Forget, ProcessTypes
<1>4. ASSUME NEW p \in Processes, Start(p)
      PROVE  SchemaInv'
  BY <1>1, <1>4 DEF Start, db, memory, ProcessTypes, NothingSkipped, ServesWholeSchema, States
<1>5. ASSUME NEW p \in Processes, ReadApplied(p)
      PROVE  SchemaInv'
  BY <1>5 DEF ReadApplied, db, memory, ProcessTypes, NothingSkipped, ServesWholeSchema, States
<1>6. ASSUME NEW p \in Processes, ApplyOne(p)
      PROVE  SchemaInv'
  <2>1. /\ pc[p] = "apply" /\ todo[p] # {}
        /\ made' = made \cup {Min(todo[p])}
        /\ recorded' = recorded \cup {Min(todo[p])}
        /\ todo' = [todo EXCEPT ![p] = @ \ {Min(todo[p])}]
        /\ UNCHANGED <<suspense, pc, loops, gauge, log, cursor, starts, faults>>
    BY <1>6 DEF ApplyOne, proc, memory
  <2>2. /\ Min(todo[p]) \in Versions
        /\ \A m \in made \cup {Min(todo[p])} : 1 .. m \subseteq made \cup {Min(todo[p])}
    BY <2>1, ApplyFacts
  <2>3. \A q \in Processes : todo'[q] \in SUBSET Versions /\ todo[q] \subseteq todo'[q] \cup {Min(todo[p])}
    BY <2>1 DEF ProcessTypes
  <2>4. ProcessTypes'
    BY <2>1, <2>2, <2>3 DEF ProcessTypes
  <2>5. NothingSkipped'
    BY <2>1, <2>3 DEF NothingSkipped
  <2>6. ServesWholeSchema'
    BY <2>1, <2>2 DEF ServesWholeSchema
  <2> QED
    BY <2>4, <2>5, <2>6
<1>7. ASSUME NEW p \in Processes, ApplyUnacknowledged(p)
      PROVE  SchemaInv'
  <2>1. /\ pc[p] = "apply" /\ todo[p] # {} /\ Forget(p) /\ Fault
        /\ made' = made \cup {Min(todo[p])}
        /\ recorded' = recorded \cup {Min(todo[p])}
        /\ pc' = [pc EXCEPT ![p] = "off"]
        /\ UNCHANGED <<suspense, loops, starts>>
    BY <1>7 DEF ApplyUnacknowledged
  <2>2. /\ Min(todo[p]) \in Versions
        /\ \A m \in made \cup {Min(todo[p])} : 1 .. m \subseteq made \cup {Min(todo[p])}
    BY <2>1, ApplyFacts
  <2>3. pc' \in [Processes -> States] /\ \A q \in Processes : pc'[q] = IF q = p THEN "off" ELSE pc[q]
    BY <2>1 DEF ProcessTypes, States
  <2>4. ProcessTypes'
    BY <1>2, <1>3, <2>1, <2>2, <2>3 DEF ProcessTypes
  <2>5. NothingSkipped'
    BY <1>3, <2>1, <2>3 DEF NothingSkipped
  <2>6. ServesWholeSchema'
    BY <2>1, <2>2 DEF ServesWholeSchema
  <2> QED
    BY <2>4, <2>5, <2>6
<1>8. ASSUME NEW p \in Processes, ApplyFails(p) \/ StartFails(p)
      PROVE  SchemaInv'
  <2>1. /\ pc[p] \in {"open", "apply"} /\ Forget(p)
        /\ faults' \in 0 .. MaxFaults
        /\ suspense \subseteq suspense' /\ suspense' \subseteq Currencies
        /\ pc' = [pc EXCEPT ![p] = "off"]
        /\ UNCHANGED <<made, recorded, loops, starts>>
    BY <1>2, <1>8 DEF ApplyFails, StartFails, db, ProcessTypes
  <2>2. pc' \in [Processes -> States] /\ \A q \in Processes : pc'[q] = IF q = p THEN "off" ELSE pc[q]
    BY <2>1 DEF ProcessTypes, States
  <2>3. ProcessTypes'
    BY <1>3, <2>1, <2>2 DEF ProcessTypes
  <2>4. NothingSkipped'
    BY <1>3, <2>1, <2>2 DEF NothingSkipped
  <2>5. ServesWholeSchema'
    BY <2>1 DEF ServesWholeSchema
  <2> QED
    BY <2>3, <2>4, <2>5
<1>9. ASSUME NEW p \in Processes, EnsureSuspenseAccounts(p)
      PROVE  SchemaInv'
  <2>1. /\ pc[p] = "apply" /\ todo[p] = {}
        /\ suspense' = Currencies
        /\ pc' = [pc EXCEPT ![p] = "serving"]
        /\ loops' = [loops EXCEPT ![p] = Loops]
        /\ UNCHANGED <<made, recorded, todo, gauge, log, cursor, starts, faults>>
    BY <1>9 DEF EnsureSuspenseAccounts, memory
  <2>2. made = Versions
    BY <2>1 DEF NothingSkipped, ProcessTypes
  <2>3. ProcessTypes'
    BY <2>1 DEF ProcessTypes, States
  <2>4. NothingSkipped'
    BY <2>1 DEF NothingSkipped, ProcessTypes
  <2>5. ServesWholeSchema'
    BY <2>1, <2>2 DEF ServesWholeSchema
  <2> QED
    BY <2>3, <2>4, <2>5
<1> DEFINE Up == {"serving", "cancelled", "draining", "closing"}
<1>10. ASSUME pc' \in [Processes -> States],
              \A q \in Processes : pc'[q] = pc[q] \/ (pc[q] \in Up /\ pc'[q] \in Up),
              loops' \in [Processes -> SUBSET Loops],
              \A q \in Processes : loops'[q] \subseteq loops[q],
              faults' \in 0 .. MaxFaults,
              cursor' \in [Processes -> Nat], \A q \in Processes : cursor'[q] <= log[q],
              UNCHANGED <<made, recorded, suspense, todo, gauge, log, starts>>
       PROVE  SchemaInv'
  <2>1. \A q \in Processes : pc'[q] \in {"off", "open", "apply"} => loops'[q] = {}
    BY <1>10 DEF ProcessTypes
  <2>2. ProcessTypes'
    BY <1>10, <2>1 DEF ProcessTypes
  <2>3. NothingSkipped'
    BY <1>10 DEF NothingSkipped
  <2>4. ServesWholeSchema'
    BY <1>10 DEF ServesWholeSchema
  <2> QED
    BY <2>2, <2>3, <2>4
<1>11. \A p \in Processes : loops[p] # {} => pc[p] \in Up
  BY DEF ProcessTypes, States
<1>12. cursor \in [Processes -> Nat] /\ (\A q \in Processes : cursor[q] <= log[q])
       /\ faults \in 0 .. MaxFaults
  BY DEF ProcessTypes
<1>14. ASSUME NEW p \in Processes, Sigterm(p) \/ Shutdown(p) \/ GroupEnds(p)
       PROVE  SchemaInv'
  <2>1. /\ UNCHANGED <<made, recorded, suspense, todo, gauge, log, cursor, starts>>
        /\ pc[p] \in Up /\ \E s \in Up : pc' = [pc EXCEPT ![p] = s]
        /\ loops' = loops \/ loops' = [loops EXCEPT ![p] = @ \ {"http"}]
    BY <1>14 DEF Sigterm, Shutdown, GroupEnds, Cancelled, db, memory
  <2>2. faults' \in 0 .. MaxFaults
    BY <1>2, <1>12, <1>14 DEF Sigterm, Shutdown, GroupEnds
  <2>3. /\ pc' \in [Processes -> States]
        /\ \A q \in Processes : pc'[q] = pc[q] \/ (pc[q] \in Up /\ pc'[q] \in Up)
    BY <2>1 DEF ProcessTypes, States
  <2>4. loops' \in [Processes -> SUBSET Loops] /\ \A q \in Processes : loops'[q] \subseteq loops[q]
    BY <2>1 DEF ProcessTypes
  <2> QED
    BY <1>10, <1>12, <2>1, <2>2, <2>3, <2>4
<1>15. ASSUME NEW p \in Processes, NEW l \in Loops, LoopFails(p, l) \/ LoopEnds(p, l)
       PROVE  SchemaInv'
  <2>1. /\ UNCHANGED <<made, recorded, suspense, todo, gauge, log, cursor, starts>>
        /\ pc' = pc \/ pc' = [pc EXCEPT ![p] = "cancelled"]
        /\ loops' = [loops EXCEPT ![p] = @ \ {l}]
    BY <1>15 DEF LoopFails, LoopEnds, Cancelled, db, memory
  <2>2. faults' \in 0 .. MaxFaults
    BY <1>2, <1>12, <1>15 DEF LoopFails, LoopEnds
  <2>3. /\ pc' \in [Processes -> States]
        /\ \A q \in Processes : pc'[q] = pc[q] \/ (pc[q] \in Up /\ pc'[q] \in Up)
    <3>1. pc[p] \in Up
      BY <1>15 DEF LoopFails, LoopEnds
    <3> QED
      BY <2>1, <3>1 DEF ProcessTypes, States
  <2>4. loops' \in [Processes -> SUBSET Loops] /\ \A q \in Processes : loops'[q] \subseteq loops[q]
    BY <2>1 DEF ProcessTypes
  <2> QED
    BY <1>10, <1>12, <2>1, <2>2, <2>3, <2>4
<1>16. ASSUME NEW p \in Processes, Poll(p)
       PROVE  SchemaInv'
  <2>1. /\ "consumer" \in loops[p]
        /\ loops' = [loops EXCEPT ![p] = @ \ {"consumer"}]
        /\ cursor' = [cursor EXCEPT ![p] = log[p]]
        /\ UNCHANGED <<made, recorded, suspense, todo, gauge, log, starts, faults>>
    BY <1>16 DEF Poll, db
  <2>2. pc[p] \in Up
    BY <1>11, <2>1
  <2>3. pc' = [pc EXCEPT ![p] = IF pc[p] = "serving" THEN "cancelled" ELSE pc[p]]
    BY <1>16 DEF Poll, Cancelled
  <2>4. /\ pc' \in [Processes -> States]
        /\ \A q \in Processes : pc'[q] = pc[q] \/ (pc[q] \in Up /\ pc'[q] \in Up)
    BY <2>2, <2>3 DEF ProcessTypes, States
  <2>5. cursor' \in [Processes -> Nat] /\ \A q \in Processes : cursor'[q] <= log[q]
    BY <2>1 DEF ProcessTypes
  <2>6. loops' \in [Processes -> SUBSET Loops] /\ \A q \in Processes : loops'[q] \subseteq loops[q]
    BY <2>1 DEF ProcessTypes
  <2> QED
    BY <1>10, <1>12, <2>1, <2>4, <2>5, <2>6
<1>17. ASSUME NEW p \in Processes, Exit(p) \/ Crash(p)
       PROVE  SchemaInv'
  <2>1. /\ pc' = [pc EXCEPT ![p] = "off"] /\ Forget(p)
        /\ loops' = [loops EXCEPT ![p] = {}]
        /\ UNCHANGED <<made, recorded, suspense, starts>>
    BY <1>17 DEF Exit, Crash, End, db
  <2>2. faults' \in 0 .. MaxFaults
    BY <1>2, <1>12, <1>17 DEF Exit, Crash
  <2>3. /\ pc' \in [Processes -> States]
        /\ \A q \in Processes : pc'[q] = IF q = p THEN "off" ELSE pc[q]
    BY <2>1 DEF ProcessTypes, States
  <2>4. /\ loops' \in [Processes -> SUBSET Loops]
        /\ \A q \in Processes : loops'[q] = IF q = p THEN {} ELSE loops[q]
    BY <2>1 DEF ProcessTypes
  <2>5. ProcessTypes'
    BY <1>3, <2>1, <2>2, <2>3, <2>4 DEF ProcessTypes
  <2>6. NothingSkipped'
    BY <1>3, <2>1, <2>3 DEF NothingSkipped
  <2>7. ServesWholeSchema'
    BY <2>1, <2>4 DEF ServesWholeSchema
  <2> QED
    BY <2>5, <2>6, <2>7
<1>18. ASSUME UNCHANGED <<db, pc, todo, loops, starts, cursor>>, faults' \in 0 .. MaxFaults,
              gauge' \in [Processes -> BOOLEAN], log' \in [Processes -> Nat],
              \A q \in Processes : log[q] <= log'[q]
       PROVE  SchemaInv'
  <2>1. \A q \in Processes : cursor[q] <= log'[q]
    BY <1>18 DEF ProcessTypes
  <2>2. ProcessTypes'
    BY <1>18, <2>1 DEF ProcessTypes, db
  <2> QED
    BY <1>18, <2>2 DEF NothingSkipped, ServesWholeSchema, db
<1>19. gauge \in [Processes -> BOOLEAN] /\ log \in [Processes -> Nat]
       /\ \A q \in Processes : log[q] <= log[q]
  BY DEF ProcessTypes
<1>20. ASSUME NEW p \in Processes, Check(p) \/ CheckFails(p)
       PROVE  SchemaInv'
  <2>1. /\ UNCHANGED <<db, pc, todo, loops, starts, cursor, log>>
        /\ gauge' \in [Processes -> BOOLEAN]
    BY <1>19, <1>20 DEF Check, CheckFails, proc
  <2>2. faults' \in 0 .. MaxFaults
    BY <1>2, <1>12, <1>20 DEF Check, CheckFails
  <2> QED
    BY <1>18, <1>19, <2>1, <2>2
<1>21. ASSUME NEW p \in Processes, Produce(p)
       PROVE  SchemaInv'
  <2>1. /\ UNCHANGED <<db, pc, todo, loops, starts, cursor, gauge, faults>>
        /\ log' = [log EXCEPT ![p] = IF bus = "fake" THEN @ + 1 ELSE @]
    BY <1>21 DEF Produce, proc
  <2>2. log' \in [Processes -> Nat] /\ \A q \in Processes : log[q] <= log'[q]
    BY <1>19, <2>1
  <2> QED
    BY <1>12, <1>18, <1>19, <2>1, <2>2
<1>22. ASSUME UNCHANGED <<db, proc, todo, memory, starts>>, faults' = faults \/ Fault
       PROVE  SchemaInv'
  BY <1>2, <1>12, <1>18, <1>19, <1>22 DEF proc, memory
<1>23. ASSUME NEW c \in Clients, Handler(c) \/ Fail(c) \/ \E p \in Processes : Send(c, p)
       PROVE  UNCHANGED <<db, proc, todo, memory, starts>> /\ (faults' = faults \/ Fault)
  BY <1>23 DEF Handler, Connect, Reject, PostPosting, LoseClaim, Replay, PlaceHold, ReleaseHold,
               Read, PoolClosed, Fail, Send, Acknowledged, Answer
<1>24. CASE UNCHANGED vars
  BY <1>22, <1>24 DEF vars
<1> HIDE DEF SchemaInv
<1> QED
  BY <1>4, <1>5, <1>6, <1>7, <1>8, <1>9, <1>14, <1>15, <1>16, <1>17, <1>20, <1>21, <1>22,
     <1>23, <1>24 DEF Next

LEMMA SchemaInit == Init => SchemaInv
<1> SUFFICES ASSUME Init
             PROVE  SchemaInv
  OBVIOUS
<1>1. MaxStarts \in Nat /\ MaxFaults \in Nat
  BY ServiceAssumption
<1>2. starts \in 0 .. MaxStarts /\ faults \in 0 .. MaxFaults
  BY <1>1 DEF Init
<1>3. ProcessTypes
  BY <1>2 DEF Init, ProcessTypes, States
<1>4. NothingSkipped
  BY DEF Init, NothingSkipped
<1>5. ServesWholeSchema
  BY DEF Init, ServesWholeSchema
<1> QED
  BY <1>3, <1>4, <1>5 DEF SchemaInv

LEMMA SchemaInvariant == Spec => []SchemaInv
BY SchemaInit, SchemaStep, PTL DEF Spec

\* However many processes start, fail and are cut off on one database, the version
\* table tells the truth, has no hole, and no process serves a part of the schema.
THEOREM WholeSchemaIsServed == Spec => []ServesWholeSchema
<1>1. SchemaInv => ServesWholeSchema
  BY DEF SchemaInv
<1> QED
  BY <1>1, SchemaInvariant, PTL

-----------------------------------------------------------------------------
\* Part 2.  Requests: what an answer says of the effect.

Requests == [op : Operations \cup {"none"}, flaw : Errors \cup {"none"},
             at : Processes \cup {"nobody"}, phase : {"idle", "sent", "answered"},
             status : Nat, tries : 0 .. MaxTries]

\* What AnswersAreTrue says, of a request r that made e writes.
Honest(r, e) ==
    /\ e <= IF r.op = "hold" THEN r.tries ELSE 1
    /\ r.phase = "answered" /\ r.status \in 200 .. 299 /\ r.op \in {"post", "hold", "release"}
       => e > 0
    /\ r.phase = "answered" /\ r.status \in 400 .. 499 /\ e > 0
       => \/ r.op = "release" /\ r.status = 409
          \/ r.op = "hold" /\ r.status = 422 /\ r.tries > 1

\* What has to be known of a request in flight for its answer to be true: a wrong
\* one and a read write nothing, and the attempt under way has written nothing.
Clean(r, e) ==
    /\ r \in Requests /\ e \in Nat
    /\ r.phase = "idle" => r.op = "none" /\ e = 0
    /\ r.phase # "idle" => r.op \in Operations /\ r.tries > 0
    /\ r.flaw # "none" \/ r.op = "read" => e = 0
    /\ r.op = "hold" /\ r.phase = "sent" => e < r.tries
    /\ r.phase = "sent" => r.status = 0

\* The clients whose posting is in the ledger: each wrote one outbox row.
Posted == {c \in Clients : req[c].op = "post" /\ effect[c] = 1}

ClientInv == /\ req \in [Clients -> Requests] /\ effect \in [Clients -> Nat]
             /\ \A c \in Clients : Clean(req[c], effect[c]) /\ Honest(req[c], effect[c])
             /\ outbox \in Nat /\ outbox <= Cardinality(Posted)

\* A request that lost the claim of its key lost it to its own posting, which an
\* earlier attempt made.
Losers == /\ conn \subseteq Clients /\ lost \subseteq Clients
          /\ \A c \in lost : req[c].phase = "sent" /\ req[c].op = "post" /\ effect[c] = 1

\* No error is answered with a success.
LEMMA StatusFacts ==
    /\ \A err \in Errors : Status(err) \in {400, 403, 404, 409, 422, 500}
    /\ Status("other") = 500
    /\ Status("insufficient") = 422
<1>1. ASSUME NEW err \in Errors
      PROVE  Status(err) \in {400, 403, 404, 409, 422, 500}
  BY DEF Status, Errors
<1>2. Status("other") = 500
  BY DEF Status
<1>3. Status("insufficient") = 422
  BY DEF Status
<1> QED
  BY <1>1, <1>2, <1>3

\* A request that is answered, with what it had written and the write it made.
LEMMA AnsweredIsTrue ==
    ASSUME NEW r, NEW e, NEW status \in Nat, NEW f \in Nat,
           NEW a \in Requests, a.op = r.op, a.flaw = r.flaw, a.tries = r.tries,
           a.phase = "answered", a.status = status,
           Clean(r, e), Honest(r, e), r.phase = "sent",
           f = e \/ (f = e + 1 /\ r.flaw = "none" /\ r.op \in {"post", "hold", "release"}
                     /\ (r.op # "hold" => e = 0)),
           status \in 200 .. 299 /\ r.op \in {"post", "hold", "release"} => f > 0,
           status \in 400 .. 499 => \/ f = 0
                                    \/ r.op = "release" /\ status = 409
                                    \/ r.op = "hold" /\ status = 422 /\ f = e
    PROVE  Clean(a, f) /\ Honest(a, f)
<1>1. /\ r \in Requests /\ e \in Nat /\ r.tries \in Nat /\ r.tries > 0
      /\ r.op \in Operations
      /\ r.op = "hold" => e < r.tries
      /\ r.flaw # "none" \/ r.op = "read" => e = 0
      /\ e <= IF r.op = "hold" THEN r.tries ELSE 1
  BY DEF Clean, Honest, Requests
<1>2. Clean(a, f)
  BY <1>1 DEF Clean
<1>3. Honest(a, f)
  BY <1>1 DEF Honest
<1> QED
  BY <1>2, <1>3

\* Answer and Send change the request of one client.
LEMMA AnswerChanges ==
    ASSUME req \in [Clients -> Requests], NEW c \in Clients, NEW status, Answer(c, status)
    PROVE  /\ req'[c] = [req[c] EXCEPT !.phase = "answered", !.at = "nobody", !.status = status]
           /\ \A d \in Clients \ {c} : req'[d] = req[d]
           /\ req' = [req EXCEPT ![c] = req'[c]]
<1>1. req' = [req EXCEPT ![c].phase = "answered", ![c].at = "nobody", ![c].status = status]
  BY DEF Answer
<1> QED
  BY <1>1

\* A step of client c that leaves its honesty intact keeps the invariant.
LEMMA OneClient ==
    ASSUME ClientInv, NEW c \in Clients, NEW r, NEW f \in Nat,
           req' = [req EXCEPT ![c] = r], effect' = [effect EXCEPT ![c] = f],
           Clean(r, f), Honest(r, f),
           req[c].op = "post" /\ effect[c] = 1 => r.op = "post" /\ f = 1,
           outbox' = outbox \/ (outbox' = outbox + 1 /\ r.op = "post" /\ effect[c] = 0 /\ f = 1)
    PROVE  ClientInv'
<1>1. req \in [Clients -> Requests] /\ effect \in [Clients -> Nat] /\ r \in Requests
  BY DEF ClientInv, Clean
<1>2. /\ req'[c] = r /\ effect'[c] = f
      /\ \A d \in Clients \ {c} : req'[d] = req[d] /\ effect'[d] = effect[d]
      /\ req' \in [Clients -> Requests] /\ effect' \in [Clients -> Nat]
  BY <1>1
<1>3. \A d \in Clients : Clean(req'[d], effect'[d]) /\ Honest(req'[d], effect'[d])
  BY <1>2 DEF ClientInv
<1>4. IsFiniteSet(Posted) /\ IsFiniteSet(Posted') /\ Posted \subseteq Posted'
  <2>1. IsFiniteSet(Clients)
    BY ServiceAssumption
  <2>2. Posted \subseteq Clients /\ Posted' \subseteq Clients
    BY DEF Posted
  <2>3. Posted \subseteq Posted'
    BY <1>2 DEF Posted
  <2> QED
    BY <2>1, <2>2, <2>3, FS_Subset
<1>5. /\ Cardinality(Posted) \in Nat /\ Cardinality(Posted') \in Nat
      /\ Cardinality(Posted) <= Cardinality(Posted')
      /\ Cardinality(Posted) = Cardinality(Posted') => Posted = Posted'
  BY <1>4, FS_Subset, FS_CardinalityType
<1>6. outbox \in Nat /\ outbox <= Cardinality(Posted)
  BY DEF ClientInv
<1>7. outbox' \in Nat /\ outbox' <= Cardinality(Posted')
  <2>1. CASE outbox' = outbox
    BY <1>5, <1>6, <2>1
  <2>2. CASE outbox' = outbox + 1 /\ r.op = "post" /\ effect[c] = 0 /\ f = 1
    <3>1. c \in Posted' /\ c \notin Posted
      BY <1>2, <2>2 DEF Posted
    <3>2. Cardinality(Posted) # Cardinality(Posted')
      BY <1>5, <3>1
    <3> QED
      BY <1>5, <1>6, <2>2, <3>2
  <2> QED
    BY <2>1, <2>2
<1> QED
  BY <1>2, <1>3, <1>7 DEF ClientInv

\* A handler answers after it wrote what f says; the status is that of the write or
\* of the error that was reported in its place.
Outcome(c, status, f) ==
    /\ Answer(c, status) /\ effect' = [effect EXCEPT ![c] = f] /\ req[c].phase = "sent"
    /\ \/ f = effect[c]
       \/ /\ f = effect[c] + 1 /\ req[c].flaw = "none"
          /\ req[c].op \in {"post", "hold", "release"}
          /\ req[c].op # "hold" => effect[c] = 0
    /\ status \in 200 .. 299 /\ req[c].op \in {"post", "hold", "release"} => f > 0
    /\ status \in 400 .. 499 => \/ f = 0
                                \/ req[c].op = "release" /\ status = 409
                                \/ req[c].op = "hold" /\ status = 422 /\ f = effect[c]
    /\ outbox' = outbox \/ (outbox' = outbox + 1 /\ req[c].op = "post" /\ effect[c] = 0 /\ f = 1)

LEMMA HandlerAnswers ==
    ASSUME ClientInv, NEW c \in Clients, NEW status \in Nat, NEW f \in Nat, Outcome(c, status, f)
    PROVE  ClientInv'
<1> DEFINE a == [req[c] EXCEPT !.phase = "answered", !.at = "nobody", !.status = status]
<1>1. /\ req \in [Clients -> Requests] /\ req[c] \in Requests /\ effect[c] \in Nat
      /\ Clean(req[c], effect[c]) /\ Honest(req[c], effect[c])
  BY DEF ClientInv
<1>2. req' = [req EXCEPT ![c] = a]
  BY <1>1, AnswerChanges DEF Outcome
<1>3. /\ a \in Requests /\ a.op = req[c].op /\ a.flaw = req[c].flaw
      /\ a.tries = req[c].tries /\ a.phase = "answered" /\ a.status = status
  BY <1>1 DEF Requests
<1> HIDE DEF a
<1>4. Clean(a, f) /\ Honest(a, f)
  BY <1>1, <1>3, AnsweredIsTrue DEF Outcome
<1>5. req[c].op = "post" /\ effect[c] = 1 => f = 1
  BY <1>1 DEF Outcome
<1> QED
  BY <1>2, <1>3, <1>4, <1>5, OneClient DEF Outcome

\* Steps that answer for many clients at once, or publish what they wrote.
LEMMA ManyClients ==
    ASSUME ClientInv, req' \in [Clients -> Requests], effect' = effect,
           \A c \in Clients : /\ req'[c].op = req[c].op
                              /\ Clean(req'[c], effect[c]) /\ Honest(req'[c], effect[c]),
           outbox' \in Nat, outbox' <= outbox
    PROVE  ClientInv'
<1>1. Posted' = Posted
  BY DEF Posted
<1>2. Cardinality(Posted) \in Nat
  <2>1. IsFiniteSet(Clients) /\ Posted \subseteq Clients
    BY ServiceAssumption DEF Posted
  <2> QED
    BY <2>1, FS_Subset, FS_CardinalityType
<1>3. outbox \in Nat /\ outbox <= Cardinality(Posted) /\ effect \in [Clients -> Nat]
  BY DEF ClientInv
<1>4. outbox' <= Cardinality(Posted')
  BY <1>1, <1>2, <1>3
<1> QED
  BY <1>3, <1>4 DEF ClientInv

\* A client sends its request for the first time, or again.
LEMMA SendStep ==
    ASSUME ClientInv, NEW c \in Clients, NEW p \in Processes, Send(c, p)
    PROVE  ClientInv'
<1>1. /\ req \in [Clients -> Requests] /\ req[c] \in Requests /\ effect \in [Clients -> Nat]
      /\ effect[c] \in Nat /\ Clean(req[c], effect[c]) /\ Honest(req[c], effect[c])
  BY DEF ClientInv
<1>2. effect' = [effect EXCEPT ![c] = effect[c]] /\ outbox' = outbox
  BY <1>1 DEF Send
<1>3. MaxTries \in Nat /\ MaxTries > 0 /\ Flaws \subseteq Errors \cup {"none"}
  BY ServiceAssumption
<1>4. CASE req[c].phase = "idle"
  <2>1. PICK op \in Operations : \E flaw \in Flaws \cap (FlawsOf(op) \cup {"none"}) :
            req' = [req EXCEPT ![c] = [op |-> op, flaw |-> flaw, at |-> p,
                                       phase |-> "sent", status |-> 0, tries |-> 1]]
    BY <1>4 DEF Send
  <2>2. PICK flaw \in Flaws : 
            req' = [req EXCEPT ![c] = [op |-> op, flaw |-> flaw, at |-> p,
                                       phase |-> "sent", status |-> 0, tries |-> 1]]
    BY <2>1
  <2> DEFINE r == [op |-> op, flaw |-> flaw, at |-> p,
                   phase |-> "sent", status |-> 0, tries |-> 1]
  <2>3. r \in Requests
    BY <1>3 DEF Requests
  <2>4. /\ r.op = op /\ r.phase = "sent" /\ r.status = 0 /\ r.tries = 1
        /\ req' = [req EXCEPT ![c] = r]
    BY <2>2
  <2>5. effect[c] = 0 /\ req[c].op = "none"
    BY <1>1, <1>4 DEF Clean
  <2> HIDE DEF r
  <2>6. Clean(r, effect[c])
    BY <2>3, <2>4, <2>5 DEF Clean
  <2>7. Honest(r, effect[c])
    BY <2>4, <2>5 DEF Honest
  <2> QED
    BY <1>1, <1>2, <2>4, <2>5, <2>6, <2>7, OneClient
<1>5. CASE req[c].phase = "answered"
  <2> DEFINE r == [req[c] EXCEPT !.at = p, !.phase = "sent", !.status = 0,
                                 !.tries = req[c].tries + 1]
  <2>1. /\ req[c].tries < MaxTries
        /\ req' = [req EXCEPT ![c].at = p, ![c].phase = "sent", ![c].status = 0,
                              ![c].tries = @ + 1]
    BY <1>5 DEF Send
  <2>2. req' = [req EXCEPT ![c] = r]
    BY <1>1, <2>1
  <2>3. req[c].tries + 1 \in 0 .. MaxTries /\ req[c].tries \in Nat
    BY <1>1, <1>3, <2>1 DEF Requests
  <2>4. /\ r \in Requests /\ r.op = req[c].op /\ r.flaw = req[c].flaw /\ r.phase = "sent"
        /\ r.status = 0 /\ r.tries = req[c].tries + 1
    BY <1>1, <2>3 DEF Requests
  <2> HIDE DEF r
  <2>5. Clean(r, effect[c])
    BY <1>1, <1>5, <2>3, <2>4 DEF Clean, Honest
  <2>6. Honest(r, effect[c])
    BY <1>1, <1>5, <2>3, <2>4 DEF Honest
  <2> QED
    BY <1>1, <1>2, <2>2, <2>4, <2>5, <2>6, OneClient
<1> QED
  BY <1>4, <1>5 DEF Send

\* A process ends: its clients have no answer, whatever they wrote.
LEMMA DroppedStep ==
    ASSUME ClientInv, NEW p \in Processes, req' = Dropped(p), UNCHANGED <<effect, outbox>>
    PROVE  ClientInv'
<1>1. req \in [Clients -> Requests] /\ outbox \in Nat
  BY DEF ClientInv
<1>2. ASSUME NEW c \in Clients
      PROVE  /\ req'[c] \in Requests /\ req'[c].op = req[c].op
             /\ Clean(req'[c], effect[c]) /\ Honest(req'[c], effect[c])
  <2>1. /\ req[c] \in Requests /\ effect[c] \in Nat
        /\ Clean(req[c], effect[c]) /\ Honest(req[c], effect[c])
    BY DEF ClientInv
  <2>2. CASE req[c].phase = "sent" /\ req[c].at = p
    <3> DEFINE a == [req[c] EXCEPT !.phase = "answered", !.at = "nobody"]
    <3>1. req'[c] = a
      BY <1>1, <2>2 DEF Dropped
    <3>2. /\ a \in Requests /\ a.op = req[c].op /\ a.flaw = req[c].flaw
          /\ a.tries = req[c].tries /\ a.phase = "answered" /\ a.status = req[c].status
      BY <2>1 DEF Requests
    <3>3. req[c].status = 0
      BY <2>1, <2>2 DEF Clean
    <3>4. 0 \in Nat /\ 0 \notin 200 .. 299 /\ 0 \notin 400 .. 499
      OBVIOUS
    <3> HIDE DEF a
    <3>5. Clean(a, effect[c]) /\ Honest(a, effect[c])
      BY <2>1, <2>2, <3>2, <3>3, <3>4, AnsweredIsTrue
    <3> QED
      BY <3>1, <3>2, <3>5
  <2>3. CASE ~(req[c].phase = "sent" /\ req[c].at = p)
    BY <2>1, <2>3 DEF Dropped
  <2> QED
    BY <2>2, <2>3
<1>3. req' \in [Clients -> Requests]
  BY <1>2 DEF Dropped
<1> QED
  BY <1>1, <1>2, <1>3, ManyClients

\* A handler answers, or a statement of it fails.
LEMMA HandlerStep ==
    ASSUME ClientInv, Losers, NEW c \in Clients, Handler(c) \/ Fail(c)
    PROVE  ClientInv'
<1>1. /\ req \in [Clients -> Requests] /\ req[c] \in Requests /\ effect \in [Clients -> Nat]
      /\ effect[c] \in Nat /\ outbox \in Nat
      /\ Clean(req[c], effect[c]) /\ Honest(req[c], effect[c])
  BY DEF ClientInv
<1>2. /\ req[c].flaw # "none" \/ req[c].op = "read" => effect[c] = 0
      /\ req[c].op # "hold" => effect[c] <= 1
  BY <1>1 DEF Clean, Honest
<1>3. ASSUME UNCHANGED effect
      PROVE  effect' = [effect EXCEPT ![c] = effect[c]]
  BY <1>1, <1>3
<1>4. /\ {200, 201, 409, 422, 500} \subseteq Nat
      /\ 500 \notin 200 .. 299 /\ 500 \notin 400 .. 499
      /\ 409 \notin 200 .. 299 /\ 422 \notin 200 .. 299
      /\ 200 \notin 400 .. 499 /\ 201 \notin 400 .. 499
  OBVIOUS
<1>5. CASE Fail(c) \/ PoolClosed(c)
  <2>1. /\ Answer(c, 500) /\ UNCHANGED <<outbox, effect>> /\ req[c].phase = "sent"
    BY <1>5, StatusFacts DEF Fail, PoolClosed
  <2>2. Outcome(c, 500, effect[c])
    BY <1>3, <1>4, <2>1 DEF Outcome
  <2> QED
    BY <1>1, <1>4, <2>2, HandlerAnswers
<1>6. CASE Reject(c)
  <2>1. req[c].flaw \in Errors /\ req[c].flaw # "none"
    BY <1>1, <1>6 DEF Reject, Requests
  <2> DEFINE status == IF req[c].op = "release" /\ req[c].flaw = "notFound"
                       THEN 409 ELSE Status(req[c].flaw)
  <2>2. status \in {400, 403, 404, 409, 422, 500}
    BY <2>1, StatusFacts
  <2>3. /\ Answer(c, status) /\ UNCHANGED <<outbox, effect>> /\ req[c].phase = "sent"
    BY <1>6 DEF Reject, Handles
  <2> HIDE DEF status
  <2>4. status \in Nat /\ status \notin 200 .. 299
    BY <2>2
  <2>5. effect[c] = 0
    BY <1>2, <2>1
  <2>6. Outcome(c, status, effect[c])
    BY <1>3, <2>3, <2>4, <2>5 DEF Outcome
  <2> QED
    BY <1>1, <2>4, <2>6, HandlerAnswers
<1>7. CASE Read(c)
  <2>1. /\ Answer(c, 200) /\ UNCHANGED <<outbox, effect>> /\ req[c].phase = "sent"
        /\ req[c].op = "read"
    BY <1>7 DEF Read, Handles
  <2>2. Outcome(c, 200, effect[c])
    BY <1>3, <1>4, <2>1 DEF Outcome
  <2> QED
    BY <1>1, <1>4, <2>2, HandlerAnswers
<1>8. CASE PostPosting(c)
  <2>1. /\ req[c].phase = "sent" /\ req[c].op = "post" /\ req[c].flaw = "none"
        /\ effect[c] = 0 /\ effect' = [effect EXCEPT ![c] = 1] /\ outbox' = outbox + 1
        /\ Answer(c, 201) \/ Answer(c, 500)
    BY <1>8, StatusFacts DEF PostPosting, Handles, Acknowledged
  <2>2. ASSUME NEW status \in {201, 500}, Answer(c, status), NEW f \in Nat, f = 1
        PROVE  ClientInv'
    <3>1. status \in Nat /\ status \notin 400 .. 499 /\ f > 0
      BY <2>2
    <3>2. f = effect[c] + 1 /\ effect[c] = 0
      BY <2>1, <2>2
    <3>3. effect' = [effect EXCEPT ![c] = f]
      BY <2>1, <2>2
    <3>4. Outcome(c, status, f)
      BY <2>1, <2>2, <3>1, <3>2, <3>3 DEF Outcome
    <3> QED
      BY <3>1, <3>4, HandlerAnswers
  <2> QED
    BY <2>1, <2>2
<1>11. CASE Replay(c)
  <2>1. /\ req[c].phase = "sent" /\ c \in lost /\ UNCHANGED <<outbox, effect>>
        /\ Answer(c, 200) \/ Answer(c, 500)
    BY <1>11, StatusFacts DEF Replay, Acknowledged
  <2>2. effect[c] = 1
    BY <2>1 DEF Losers
  <2>3. ASSUME NEW status \in {200, 500}, Answer(c, status)
        PROVE  ClientInv'
    <3>1. status \in Nat /\ status \notin 400 .. 499 /\ effect[c] > 0
      BY <2>2, <2>3
    <3>2. Outcome(c, status, effect[c])
      BY <1>3, <2>1, <2>3, <3>1 DEF Outcome
    <3> QED
      BY <1>1, <3>1, <3>2, HandlerAnswers
  <2> QED
    BY <2>1, <2>3
<1>12. CASE Connect(c) \/ LoseClaim(c)
  <2>1. UNCHANGED <<req, effect, outbox>>
    BY <1>12 DEF Connect, LoseClaim
  <2> QED
    BY <2>1 DEF ClientInv, Posted
<1>9. CASE PlaceHold(c)
  <2>1. /\ req[c].phase = "sent" /\ req[c].op = "hold" /\ req[c].flaw = "none"
        /\ outbox' = outbox
        /\ \/ /\ effect' = [effect EXCEPT ![c] = effect[c] + 1]
              /\ Answer(c, 201) \/ Answer(c, 500)
           \/ Answer(c, 422) /\ UNCHANGED effect
    <3> DEFINE Sufficient == MapThenSumSet(LAMBDA d : IF req[d].op = "hold" THEN effect[d] ELSE 0,
                                           Clients) < Room
    <3>1. /\ Handles(c, "hold") /\ req[c].flaw = "none" /\ outbox' = outbox
          /\ IF Sufficient
             THEN effect' = [effect EXCEPT ![c] = @ + 1] /\ Acknowledged(c, 201)
             ELSE Answer(c, Status("insufficient")) /\ UNCHANGED <<effect, faults>>
      BY <1>9, Zenon DEF PlaceHold
    <3> HIDE DEF Sufficient
    <3> QED
      BY <3>1, StatusFacts DEF Handles, Acknowledged
  <2>2. ASSUME NEW status \in {201, 500}, Answer(c, status),
               effect' = [effect EXCEPT ![c] = effect[c] + 1]
        PROVE  ClientInv'
    <3>1. status \in Nat /\ status \notin 400 .. 499
      OBVIOUS
    <3>2. effect[c] + 1 \in Nat /\ effect[c] + 1 > 0
      BY <1>1
    <3>3. Outcome(c, status, effect[c] + 1)
      BY <2>1, <2>2, <3>1, <3>2 DEF Outcome
    <3> QED
      BY <3>1, <3>2, <3>3, HandlerAnswers
  <2>3. ASSUME Answer(c, 422), UNCHANGED effect
        PROVE  ClientInv'
    <3>1. Outcome(c, 422, effect[c])
      BY <1>3, <1>4, <2>1, <2>3 DEF Outcome
    <3> QED
      BY <1>1, <1>4, <3>1, HandlerAnswers
  <2> QED
    BY <2>1, <2>2, <2>3
<1>10. CASE ReleaseHold(c)
  <2>1. /\ req[c].phase = "sent" /\ req[c].op = "release" /\ req[c].flaw = "none"
        /\ outbox' = outbox
        /\ \/ /\ effect' = [effect EXCEPT ![c] = 1]
              /\ Answer(c, 200) \/ Answer(c, 500)
           \/ Answer(c, 409) /\ UNCHANGED effect
    BY <1>10, StatusFacts DEF ReleaseHold, Handles, Acknowledged
  <2>2. effect[c] = 0 \/ effect[c] = 1
    BY <1>1, <1>2, <2>1
  <2>3. ASSUME NEW status \in {200, 500}, Answer(c, status), NEW f \in Nat, f = 1,
               effect' = [effect EXCEPT ![c] = f]
        PROVE  ClientInv'
    <3>1. status \in Nat /\ status \notin 400 .. 499 /\ f > 0
      BY <2>3
    <3>2. f = effect[c] \/ (f = effect[c] + 1 /\ effect[c] = 0)
      BY <1>1, <2>2, <2>3
    <3>3. Outcome(c, status, f)
      BY <2>1, <2>3, <3>1, <3>2 DEF Outcome
    <3> QED
      BY <3>1, <3>3, HandlerAnswers
  <2>4. ASSUME Answer(c, 409), UNCHANGED effect
        PROVE  ClientInv'
    <3>1. Outcome(c, 409, effect[c])
      BY <1>3, <1>4, <2>1, <2>4 DEF Outcome
    <3> QED
      BY <1>1, <1>4, <3>1, HandlerAnswers
  <2> QED
    BY <2>1, <2>3, <2>4
<1> QED
  BY <1>5, <1>6, <1>7, <1>8, <1>9, <1>10, <1>11, <1>12 DEF Handler

LEMMA ClientStep == ClientInv /\ Losers /\ [Next]_vars => ClientInv'
<1> SUFFICES ASSUME ClientInv, Losers, [Next]_vars
             PROVE  ClientInv'
  OBVIOUS
<1>1. req \in [Clients -> Requests] /\ outbox \in Nat
  BY DEF ClientInv
<1>2. ASSUME UNCHANGED <<req, effect, outbox>>
      PROVE  ClientInv'
  BY <1>2 DEF ClientInv, Posted
<1>3. ASSUME NEW p \in Processes, Produce(p)
      PROVE  ClientInv'
  <2>1. outbox' = outbox - 1 /\ outbox > 0 /\ UNCHANGED <<req, effect>>
    BY <1>3 DEF Produce, client
  <2>2. outbox' \in Nat /\ outbox' <= outbox
    BY <1>1, <2>1
  <2>3. \A c \in Clients : Clean(req[c], effect[c]) /\ Honest(req[c], effect[c])
    BY DEF ClientInv
  <2> QED
    BY <1>1, <2>1, <2>2, <2>3, ManyClients
<1>4. ASSUME NEW p \in Processes, Exit(p) \/ Crash(p)
      PROVE  ClientInv'
  <2>1. req' = Dropped(p) /\ UNCHANGED <<effect, outbox>>
    BY <1>4 DEF Exit, Crash, End
  <2> QED
    BY <2>1, DroppedStep
<1>5. ASSUME NEW p \in Processes, \/ Start(p) \/ ReadApplied(p) \/ ApplyOne(p)
                                  \/ ApplyUnacknowledged(p) \/ ApplyFails(p)
                                  \/ EnsureSuspenseAccounts(p) \/ StartFails(p)
      PROVE  UNCHANGED <<req, effect, outbox>>
  BY <1>5 DEF Start, ReadApplied, ApplyOne, ApplyUnacknowledged, ApplyFails,
              EnsureSuspenseAccounts, StartFails, client
<1>6. ASSUME NEW p \in Processes, \/ Sigterm(p) \/ Shutdown(p) \/ GroupEnds(p)
                                  \/ Check(p) \/ CheckFails(p) \/ Poll(p)
                                  \/ \E l \in Loops : LoopFails(p, l) \/ LoopEnds(p, l)
      PROVE  UNCHANGED <<req, effect, outbox>>
  BY <1>6 DEF Sigterm, Shutdown, GroupEnds, Check, CheckFails, Poll, LoopFails, LoopEnds, client
<1>7. CASE UNCHANGED vars
  BY <1>2, <1>7 DEF vars, client
<1> QED
  BY <1>2, <1>3, <1>4, <1>5, <1>6, <1>7, SendStep, HandlerStep DEF Next

LEMMA ClientInit == Init => ClientInv
<1> SUFFICES ASSUME Init
             PROVE  ClientInv
  OBVIOUS
<1>1. MaxTries \in Nat /\ 0 \in 0 .. MaxTries
  BY ServiceAssumption
<1>2. req \in [Clients -> Requests] /\ effect \in [Clients -> Nat] /\ outbox = 0
  BY <1>1 DEF Init, Requests
<1>3. ASSUME NEW c \in Clients
      PROVE  Clean(req[c], effect[c]) /\ Honest(req[c], effect[c])
  BY <1>1, <1>2 DEF Init, Clean, Honest
<1>4. Posted \subseteq Clients /\ IsFiniteSet(Clients)
  BY ServiceAssumption DEF Posted
<1>5. Cardinality(Posted) \in Nat
  BY <1>4, FS_Subset, FS_CardinalityType
<1> QED
  BY <1>2, <1>3, <1>5 DEF ClientInv

\* A request leaves the losers when it ends, and only its own steps change it.
LEMMA LosersStep == ClientInv /\ Losers /\ [Next]_vars => Losers'
<1> SUFFICES ASSUME ClientInv, Losers, [Next]_vars
             PROVE  Losers'
  OBVIOUS
<1>1. req \in [Clients -> Requests] /\ effect \in [Clients -> Nat]
  BY DEF ClientInv
<1>2. CASE UNCHANGED <<req, effect, conn, lost>>
  BY <1>2 DEF Losers
<1>3. ASSUME NEW c \in Clients, NEW status, Answer(c, status),
             \A d \in Clients \ {c} : effect'[d] = effect[d]
      PROVE  Losers'
  <2>1. conn' = conn \ {c} /\ lost' = lost \ {c}
    BY <1>3 DEF Answer
  <2>2. \A d \in Clients \ {c} : req'[d] = req[d]
    BY <1>1, <1>3, AnswerChanges
  <2> QED
    BY <1>3, <2>1, <2>2 DEF Losers
<1>4. ASSUME NEW c \in Clients,
             \/ Fail(c) \/ Reject(c) \/ PoolClosed(c) \/ PostPosting(c) \/ Replay(c)
             \/ ReleaseHold(c) \/ Read(c)
      PROVE  Losers'
  <2>1. \E status : Answer(c, status)
    BY <1>4 DEF Fail, Reject, PoolClosed, PostPosting, Replay, ReleaseHold, Read, Acknowledged
  <2>2. effect' = effect \/ effect' = [effect EXCEPT ![c] = 1]
    BY <1>4 DEF Fail, Reject, PoolClosed, PostPosting, Replay, ReleaseHold, Read
  <2>3. \A d \in Clients \ {c} : effect'[d] = effect[d]
    BY <1>1, <2>2
  <2> QED
    BY <1>3, <2>1, <2>3
<1>5. ASSUME NEW c \in Clients, PlaceHold(c)
      PROVE  Losers'
  <2> DEFINE Sufficient == MapThenSumSet(LAMBDA d : IF req[d].op = "hold" THEN effect[d] ELSE 0,
                                         Clients) < Room
  <2>1. IF Sufficient
        THEN effect' = [effect EXCEPT ![c] = @ + 1] /\ Acknowledged(c, 201)
        ELSE Answer(c, Status("insufficient")) /\ UNCHANGED <<effect, faults>>
    BY <1>5, Zenon DEF PlaceHold
  <2> HIDE DEF Sufficient
  <2>2. \E status : Answer(c, status)
    BY <2>1 DEF Acknowledged
  <2>3. \A d \in Clients \ {c} : effect'[d] = effect[d]
    BY <1>1, <2>1
  <2> QED
    BY <1>3, <2>2, <2>3
<1>6. ASSUME NEW c \in Clients, Connect(c) \/ LoseClaim(c)
      PROVE  Losers'
  BY <1>6 DEF Losers, Connect, LoseClaim, Handles
<1>7. ASSUME NEW c \in Clients, NEW p \in Processes, Send(c, p)
      PROVE  Losers'
  <2>1. req[c].phase # "sent" /\ UNCHANGED <<effect, conn, lost>>
    BY <1>7 DEF Send, pool
  <2>2. \A d \in Clients \ {c} : req'[d] = req[d]
    BY <1>1, <1>7 DEF Send
  <2> QED
    BY <2>1, <2>2 DEF Losers
<1>8. ASSUME NEW p \in Processes, Exit(p) \/ Crash(p)
      PROVE  Losers'
  <2>1. /\ req' = Dropped(p) /\ UNCHANGED effect
        /\ conn' \subseteq conn /\ lost' = {c \in lost : req[c].at # p}
    BY <1>8 DEF Exit, Crash, End
  <2>2. \A c \in Clients : req[c].at # p => req'[c] = req[c]
    BY <2>1 DEF Dropped
  <2> QED
    BY <2>1, <2>2 DEF Losers
<1>9. ASSUME NEW p \in Processes, \/ Start(p) \/ ReadApplied(p) \/ ApplyOne(p)
                                  \/ ApplyUnacknowledged(p) \/ ApplyFails(p)
                                  \/ EnsureSuspenseAccounts(p) \/ StartFails(p)
      PROVE  UNCHANGED <<req, effect, conn, lost>>
  BY <1>9 DEF Start, ReadApplied, ApplyOne, ApplyUnacknowledged, ApplyFails,
              EnsureSuspenseAccounts, StartFails, client, pool
<1>10. ASSUME NEW p \in Processes, \/ Sigterm(p) \/ Shutdown(p) \/ GroupEnds(p)
                                   \/ Check(p) \/ CheckFails(p) \/ Produce(p) \/ Poll(p)
                                   \/ \E l \in Loops : LoopFails(p, l) \/ LoopEnds(p, l)
       PROVE  UNCHANGED <<req, effect, conn, lost>>
  BY <1>10 DEF Sigterm, Shutdown, GroupEnds, Check, CheckFails, Produce, Poll, LoopFails,
               LoopEnds, client, pool
<1>11. CASE UNCHANGED vars
  BY <1>2, <1>11 DEF vars, client, pool
<1> QED
  BY <1>2, <1>4, <1>5, <1>6, <1>7, <1>8, <1>9, <1>10, <1>11 DEF Next, Handler

LEMMA ClientInvariant == Spec => [](ClientInv /\ Losers)
<1>1. Init => Losers
  BY DEF Init, Losers
<1> QED
  BY <1>1, ClientInit, ClientStep, LosersStep, PTL DEF Spec

\* Over all attempts of any number of clients, and over crashes, failures and lost
\* answers, a success had its effect and a refusal had none, but for the two answers
\* that AnswersAreTrue names.
THEOREM AnswersTellTheEffect == Spec => []AnswersAreTrue
<1>1. ClientInv => AnswersAreTrue
  BY DEF ClientInv, Honest, AnswersAreTrue
<1> QED
  BY <1>1, ClientInvariant, PTL

\* The types of the tables, of the processes and of the requests; of them, that the
\* outbox never has more rows than there are clients takes ClientInv.
THEOREM ServiceTypeCorrect == Spec => []TypeOK
<1>1. SchemaInv /\ ClientInv /\ Losers => TypeOK
  <2> SUFFICES ASSUME SchemaInv, ClientInv, Losers
               PROVE  TypeOK
    OBVIOUS
  <2>1. /\ made \subseteq Versions /\ recorded \subseteq Versions /\ suspense \subseteq Currencies
        /\ pc \in [Processes -> States]
        /\ todo \in [Processes -> SUBSET Versions] /\ loops \in [Processes -> SUBSET Loops]
        /\ \A p \in Processes : pc[p] \in {"off", "open", "apply"} => loops[p] = {}
        /\ gauge \in [Processes -> BOOLEAN]
        /\ starts \in 0 .. MaxStarts /\ faults \in 0 .. MaxFaults
    BY DEF SchemaInv, ProcessTypes, ServesWholeSchema
  <2>2. \A p \in Processes : 0 <= cursor[p] /\ cursor[p] <= log[p]
    BY DEF SchemaInv, ProcessTypes
  <2>3. outbox \in 0 .. Cardinality(Clients)
    <3>1. Posted \subseteq Clients /\ IsFiniteSet(Clients)
      BY ServiceAssumption DEF Posted
    <3>2. /\ Cardinality(Posted) \in Nat /\ Cardinality(Clients) \in Nat
          /\ Cardinality(Posted) <= Cardinality(Clients)
      BY <3>1, FS_Subset, FS_CardinalityType
    <3>3. outbox \in Nat /\ outbox <= Cardinality(Posted)
      BY DEF ClientInv
    <3> QED
      BY <3>2, <3>3
  <2>4. ASSUME NEW c \in Clients
        PROVE  req[c].tries \in 0 .. MaxTries /\ effect[c] \in 0 .. MaxTries
    <3>1. /\ req[c] \in Requests /\ effect[c] \in Nat
          /\ Clean(req[c], effect[c]) /\ Honest(req[c], effect[c])
      BY <2>4 DEF ClientInv
    <3>2. req[c].tries \in 0 .. MaxTries /\ MaxTries \in Nat /\ MaxTries > 0
      BY <3>1, ServiceAssumption DEF Requests
    <3>3. effect[c] <= IF req[c].op = "hold" THEN req[c].tries ELSE 1
      BY <3>1 DEF Honest
    <3> QED
      BY <3>1, <3>2, <3>3
  <2>5. effect \in [Clients -> 0 .. MaxTries]
    <3>1. effect \in [Clients -> Nat]
      BY DEF ClientInv
    <3> QED
      BY <2>4, <3>1
  <2> QED
    BY <2>1, <2>2, <2>3, <2>4, <2>5 DEF TypeOK, States, Losers
<1> QED
  BY <1>1, SchemaInvariant, ClientInvariant, PTL
=============================================================================
