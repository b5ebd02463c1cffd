--------------------------- MODULE PostingProofs ---------------------------
(***************************************************************************)
(* The write path of the ledger, for any number of callers, keys and       *)
(* bodies; and, at the end, the arithmetic of money that it rests on.      *)
(***************************************************************************)
EXTENDS Posting, MoneyCalc, SumProofs

\* The part of TypeOK about the callers.
CallerTypes ==
    /\ pc \in [Callers -> Running \cup {"idle"}]
    /\ req \in [Callers -> [key : Keys, body : Bodies]]
    /\ tx \in [Callers -> [entryIDs : Seq(Nat), outboxID : Nat, response : Seq(Nat)]]
    /\ attempt \in [Callers -> Nat]
    /\ out \in [Callers -> [status : Statuses, ids : Seq(Nat)]]
    /\ calls \in Nat

\* Every step keeps the types of the caller's state and of the tables.
LEMMA TypeStep == TypeOK /\ [Next]_vars => TypeOK'
<1> SUFFICES ASSUME TypeOK, [Next]_vars
             PROVE  TypeOK'
  OBVIOUS
<1> USE DEF TypeOK
<1>1. ASSUME NEW c \in Callers, NEW k \in Keys, NEW b \in Bodies, Call(c, k, b)
      PROVE  TypeOK'
  BY <1>1 DEF Call, tables, Running, Open, Claimed, Statuses
<1>3. ASSUME NEW c \in Callers, ClaimIdempotencyKey(c)
      PROVE  TypeOK'
  BY <1>3 DEF ClaimIdempotencyKey, Goto, tables, Running, Open, Claimed
<1>4. ASSUME NEW c \in Callers, InsertPosting(c)
      PROVE  TypeOK'
  <2>1. CASE Return(c, "error", <<>>)
    BY <1>4, <2>1 DEF InsertPosting, Return, EmptyTx, Tx, tables, Statuses
  <2>2. CASE Goto(c, "entries") /\ UNCHANGED tx
    BY <1>4, <2>2 DEF InsertPosting, Goto, tables, Running, Open, Claimed
  <2> QED
    BY <1>4, <2>1, <2>2 DEF InsertPosting
<1>5. ASSUME NEW c \in Callers, InsertEntry(c)
      PROVE  TypeOK'
  <2>1. CASE Return(c, "error", <<>>)
    BY <1>5, <2>1 DEF InsertEntry, Return, EmptyTx, Tx, tables, Statuses
  <2>2. CASE /\ tx' = [tx EXCEPT ![c] = Tx(Append(tx[c].entryIDs, nextEntry), 0, <<>>)]
             /\ \E label \in {"outbox", "entries"} : Goto(c, label)
    BY <1>5, <2>2 DEF InsertEntry, Tx, Goto, tables, Running, Open, Claimed
  <2> QED
    BY <1>5, <2>1, <2>2 DEF InsertEntry
<1>6. ASSUME NEW c \in Callers, InsertOutbox(c)
      PROVE  TypeOK'
  BY <1>6 DEF InsertOutbox, Tx, Goto, tables, Running, Open, Claimed
<1>7. ASSUME NEW c \in Callers, CompleteIdempotency(c)
      PROVE  TypeOK'
  BY <1>7 DEF CompleteIdempotency, Tx, Goto, tables, Running, Open, Claimed
<1>8. ASSUME NEW c \in Callers, Commit(c) \/ CommitUnacknowledged(c)
      PROVE  TypeOK'
  <2>1. \/ Return(c, "created", tx[c].entryIDs)
        \/ Return(c, "unbalanced", <<>>)
        \/ Return(c, "error", <<>>)
    BY <1>8 DEF Commit, CommitUnacknowledged
  <2>2. CallerTypes'
    <3> USE DEF Return, EmptyTx, Tx, CallerTypes, Statuses
    <3>1. CASE Return(c, "created", tx[c].entryIDs)
      BY <3>1
    <3>2. CASE Return(c, "unbalanced", <<>>)
      BY <3>2
    <3>3. CASE Return(c, "error", <<>>)
      BY <3>3
    <3> QED
      BY <2>1, <3>1, <3>2, <3>3
  <2>3. \/ Apply(c) /\ UNCHANGED <<nextEntry, nextOutbox>>
        \/ UNCHANGED <<tables, nextEntry, nextOutbox>>
    BY <1>8 DEF Commit, CommitUnacknowledged
  <2>4. CASE Apply(c) /\ UNCHANGED <<nextEntry, nextOutbox>>
    <3>1. idem' \in [Keys -> [hash : Bodies, response : Seq(Nat)] \cup {NoRow}]
      BY <2>4 DEF Apply
    <3>2. \A p \in postings' : p.key \in Keys /\ p.body \in Bodies /\ p.entryIDs \in Seq(Nat)
      BY <2>4 DEF Apply, PostingRow
    <3> QED
      BY <2>2, <2>4, <3>1, <3>2 DEF CallerTypes
  <2>5. CASE UNCHANGED <<tables, nextEntry, nextOutbox>>
    BY <2>2, <2>5 DEF CallerTypes, tables
  <2> QED
    BY <2>3, <2>4, <2>5
<1>9. ASSUME NEW c \in Callers, Fail(c)
      PROVE  TypeOK'
  BY <1>9 DEF Fail, Return, EmptyTx, Tx, tables, Statuses
<1>10. ASSUME NEW c \in Callers, Replay(c)
       PROVE  TypeOK'
  <2> DEFINE row == idem[req[c].key]
             status == ReplayStatus(row, req[c].body, attempt[c])
             ids == IF status = "replayed" THEN row.response ELSE <<>>
  <2>1. status \in Statuses \cup {"waiting"}
    BY DEF ReplayStatus, Statuses
  <2>2. ids \in Seq(Nat)
    BY DEF ReplayStatus
  <2>3. CASE status = "waiting"
    <3>1. attempt' = [attempt EXCEPT ![c] = attempt[c] + 1]
      BY <1>10, <2>3 DEF Replay
    <3>2. UNCHANGED <<pc, req, tx, out, calls, tables, nextEntry, nextOutbox>>
      BY <1>10, <2>3 DEF Replay
    <3> QED
      BY <3>1, <3>2 DEF tables
  <2>4. CASE status # "waiting"
    <3>1. Return(c, status, ids)
      BY <1>10, <2>4 DEF Replay
    <3>2. UNCHANGED <<tables, nextEntry, nextOutbox>>
      BY <1>10 DEF Replay
    <3>3. status \in Statuses
      BY <2>1, <2>4
    <3> HIDE DEF status, ids, row
    <3> QED
      BY <3>1, <3>2, <3>3, <2>2 DEF Return, EmptyTx, Tx, tables
  <2> QED
    BY <2>3, <2>4
<1>11. CASE UNCHANGED vars
  BY <1>11 DEF vars
<1> QED
  BY <1>1, <1>3, <1>4, <1>5, <1>6, <1>7, <1>8, <1>9, <1>10, <1>11
     DEF Next, Statement, Terminating

\* The initial state has the types.
LEMMA TypeInit == Init => TypeOK
<1> SUFFICES ASSUME Init
             PROVE  TypeOK
  OBVIOUS
<1>1. (CHOOSE r \in [key : Keys, body : Bodies] : TRUE) \in [key : Keys, body : Bodies]
  <2>1. PICK k \in Keys, b \in Bodies : TRUE
    BY PostingAssumption
  <2>2. [key |-> k, body |-> b] \in [key : Keys, body : Bodies]
    OBVIOUS
  <2> QED
    BY <2>2
<1>2. EmptyTx \in [entryIDs : Seq(Nat), outboxID : Nat, response : Seq(Nat)]
  BY DEF EmptyTx, Tx
<1>3. NoOutcome \in [status : Statuses, ids : Seq(Nat)]
  BY DEF NoOutcome, Statuses
<1> QED
  BY <1>1, <1>2, <1>3 DEF Init, TypeOK

\* The state of Post, the idempotency keys and the sequences keep their types,
\* for any number of callers, keys and bodies.
THEOREM TypeCorrect == Spec => []TypeOK
BY TypeInit, TypeStep, PTL DEF Spec

-----------------------------------------------------------------------------
(* The inductive invariant.                                                *)

\* A transaction that has inserted its key is the only one that has, and no
\* committed row has that key.
Claims ==
    /\ \A c \in Callers : pc[c] \in Claimed => idem[req[c].key] = NoRow
    /\ \A c, d \in Callers : pc[c] \in Claimed /\ pc[d] \in Claimed /\ c # d
                              => req[c].key # req[d].key

\* The same of posting ids.
Envelopes ==
    /\ \A c \in Callers, p \in postings :
           pc[c] \in Enveloped => p.id # PostingIDFor[req[c].key]
    /\ \A c, d \in Callers : pc[c] \in Enveloped /\ pc[d] \in Enveloped /\ c # d
                              => PostingIDFor[req[c].key] # PostingIDFor[req[d].key]

\* The postings and the rows of idempotency_keys are in step, and a stored
\* response is not empty.
Recorded ==
    /\ \A k \in Keys : idem[k] # NoRow => /\ idem[k].response # <<>>
                                          /\ \E p \in postings : p.key = k
    /\ \A p \in postings : /\ idem[p.key] # NoRow
                           /\ idem[p.key].hash = p.body
                           /\ idem[p.key].response = p.entryIDs
    /\ \A p, q \in postings : p.key = q.key => p = q

\* What an open transaction has obtained by the time it commits.
Progress ==
    \A c \in Callers :
        /\ pc[c] \in {"outbox", "complete", "commit"} => tx[c].entryIDs # <<>>
        /\ pc[c] = "commit" => tx[c].response = tx[c].entryIDs

\* A caller that replays lost to a row that is there, and never has to wait.
Replays == \A c \in Callers : /\ attempt[c] = 0
                              /\ pc[c] = "replay" => idem[req[c].key] # NoRow

Consistent == /\ Claims
              /\ Envelopes
              /\ Recorded
              /\ Progress
              /\ Replays
              /\ AnswerIsDurable
              /\ MismatchIsReal
              /\ OutboxCoCommit

IInv == TypeOK /\ Consistent

\* The invariant holds initially.
LEMMA InvInit == Init => IInv
BY TypeInit DEF Init, IInv, Consistent, Claims, Envelopes, Recorded, Progress, Replays, AnswerIsDurable,
   MismatchIsReal, OutboxCoCommit, NoOutcome, Claimed, Enveloped

\* A call of Post begins, or is refused.
LEMMA CallStep ==
    ASSUME IInv, NEW c \in Callers, NEW k \in Keys, NEW b \in Bodies, Call(c, k, b)
    PROVE  Consistent'
<1> USE DEF IInv, Consistent, TypeOK, Call, tables
<1>1. Claims' /\ Envelopes'
  BY DEF Claims, Envelopes, Claimed, Enveloped
<1>2. Recorded' /\ OutboxCoCommit'
  BY DEF Recorded, OutboxCoCommit
<1>3. Progress' /\ Replays'
  BY DEF Progress, Replays
<1>4. AnswerIsDurable' /\ MismatchIsReal'
  BY DEF AnswerIsDurable, MismatchIsReal
<1> QED
  BY <1>1, <1>2, <1>3, <1>4

\* The claim of the key.
LEMMA ClaimStep ==
    ASSUME IInv, NEW c \in Callers, ClaimIdempotencyKey(c)
    PROVE  Consistent'
<1> USE DEF IInv, Consistent, TypeOK, ClaimIdempotencyKey, Goto, tables
<1>1. Claims'
  BY DEF Claims, Claimed, KeyIsFree
<1>2. Envelopes'
  BY DEF Envelopes, Enveloped, Claimed
<1>3. Recorded' /\ OutboxCoCommit'
  BY DEF Recorded, OutboxCoCommit
<1>4. Progress' /\ Replays'
  BY DEF Progress, Replays
<1>5. AnswerIsDurable' /\ MismatchIsReal'
  BY DEF AnswerIsDurable, MismatchIsReal
<1> QED
  BY <1>1, <1>2, <1>3, <1>4, <1>5

\* A call that ends without an effect and without a claim about one.
LEMMA ReturnStep ==
    ASSUME IInv, NEW c \in Callers, NEW status \in {"error", "unbalanced"},
           Return(c, status, <<>>), UNCHANGED tables
    PROVE  Consistent'
<1> USE DEF IInv, Consistent, TypeOK, Return, tables
<1>1. Claims' /\ Envelopes'
  BY DEF Claims, Envelopes, Claimed, Enveloped
<1>2. Recorded' /\ OutboxCoCommit'
  BY DEF Recorded, OutboxCoCommit
<1>3. Progress' /\ Replays'
  BY DEF Progress, Replays
<1>4. AnswerIsDurable' /\ MismatchIsReal'
  BY DEF AnswerIsDurable, MismatchIsReal
<1> QED
  BY <1>1, <1>2, <1>3, <1>4

\* The envelope is inserted.
LEMMA InsertPostingStep ==
    ASSUME IInv, NEW c \in Callers, InsertPosting(c)
    PROVE  Consistent'
<1>1. CASE Return(c, "error", <<>>) /\ UNCHANGED tables
  BY <1>1, ReturnStep
<1>2. CASE /\ \A p \in postings : p.id # PostingIDFor[req[c].key]
           /\ Goto(c, "entries")
           /\ UNCHANGED <<tx, tables>>
  <2> USE DEF IInv, Consistent, TypeOK, Goto, tables
  <2>1. \A d \in Callers \ {c} :
            pc[d] \in Enveloped => PostingIDFor[req[d].key] # PostingIDFor[req[c].key]
    BY DEF InsertPosting
  <2>2. pc[c] = "posting"
    BY DEF InsertPosting
  <2>3. Claims'
    BY <1>2, <2>2 DEF Claims, Claimed
  <2>4. Envelopes'
    BY <1>2, <2>1, <2>2 DEF Envelopes, Enveloped, Claimed
  <2>5. Recorded' /\ OutboxCoCommit'
    BY <1>2 DEF Recorded, OutboxCoCommit
  <2>6. Progress' /\ Replays'
    BY <1>2 DEF Progress, Replays
  <2>7. AnswerIsDurable' /\ MismatchIsReal'
    BY <1>2 DEF AnswerIsDurable, MismatchIsReal
  <2> QED
    BY <2>3, <2>4, <2>5, <2>6, <2>7
<1> QED
  BY <1>1, <1>2 DEF InsertPosting

\* A statement of a transaction that has its key and its posting id.
LEMMA WithinStep ==
    ASSUME IInv, NEW c \in Callers, NEW label \in Enveloped,
           pc[c] \in Enveloped, Goto(c, label), UNCHANGED tables, Progress'
    PROVE  Consistent'
<1> USE DEF IInv, Consistent, TypeOK, Goto, tables
<1>1. Claims' /\ Envelopes'
  BY DEF Claims, Envelopes, Claimed, Enveloped
<1>2. Recorded' /\ OutboxCoCommit'
  BY DEF Recorded, OutboxCoCommit
<1>3. Replays'
  BY DEF Replays, Enveloped, Claimed
<1>4. AnswerIsDurable' /\ MismatchIsReal'
  BY DEF AnswerIsDurable, MismatchIsReal
<1> QED
  BY <1>1, <1>2, <1>3, <1>4

\* One leg is inserted.
LEMMA InsertEntryStep ==
    ASSUME IInv, NEW c \in Callers, InsertEntry(c)
    PROVE  Consistent'
<1>1. CASE Return(c, "error", <<>>) /\ UNCHANGED tables
  BY <1>1, ReturnStep
<1>2. ASSUME NEW label \in {"outbox", "entries"}, Goto(c, label), UNCHANGED tables,
             tx' = [tx EXCEPT ![c] = Tx(Append(tx[c].entryIDs, nextEntry), 0, <<>>)]
      PROVE  Consistent'
  <2>1. pc[c] = "entries"
    BY DEF InsertEntry
  <2>2. Append(tx[c].entryIDs, nextEntry) # <<>>
    <3>1. tx[c].entryIDs \in Seq(Nat) /\ nextEntry \in Nat
      BY DEF IInv, TypeOK
    <3>2. Len(Append(tx[c].entryIDs, nextEntry)) = Len(tx[c].entryIDs) + 1
      BY <3>1
    <3>3. Len(tx[c].entryIDs) \in Nat /\ Len(<<>>) = 0
      BY <3>1
    <3> QED
      BY <3>2, <3>3
  <2>3. Progress'
    BY <1>2, <2>2 DEF IInv, Consistent, TypeOK, Progress, Goto, Tx
  <2>4. label \in Enveloped /\ pc[c] \in Enveloped
    BY <1>2, <2>1 DEF Enveloped, Claimed
  <2> QED
    BY <1>2, <2>3, <2>4, WithinStep
<1> QED
  BY <1>1, <1>2 DEF InsertEntry

\* The outbox row is inserted, and the response stored.
LEMMA OutboxAndResponseStep ==
    ASSUME IInv, NEW c \in Callers, InsertOutbox(c) \/ CompleteIdempotency(c)
    PROVE  Consistent'
<1>1. CASE InsertOutbox(c)
  <2>1. Progress'
    BY <1>1 DEF IInv, Consistent, TypeOK, Progress, InsertOutbox, Goto, Tx
  <2>2. "complete" \in Enveloped /\ pc[c] \in Enveloped
    BY <1>1 DEF InsertOutbox, Enveloped, Claimed
  <2> QED
    BY <1>1, <2>1, <2>2, WithinStep DEF InsertOutbox
<1>2. CASE CompleteIdempotency(c)
  <2>1. Progress'
    BY <1>2 DEF IInv, Consistent, TypeOK, Progress, CompleteIdempotency, Goto, Tx
  <2>2. "commit" \in Enveloped /\ pc[c] \in Enveloped
    BY <1>2 DEF CompleteIdempotency, Enveloped, Claimed
  <2> QED
    BY <1>2, <2>1, <2>2, WithinStep DEF CompleteIdempotency
<1> QED
  BY <1>1, <1>2

\* COMMIT takes effect.
LEMMA ApplyStep ==
    ASSUME IInv, NEW c \in Callers, pc[c] = "commit", Apply(c),
           \/ Return(c, "created", tx[c].entryIDs)
           \/ Return(c, "error", <<>>)
    PROVE  Consistent'
<1> DEFINE k == req[c].key
           id == PostingIDFor[k]
           row == [hash |-> req[c].body, response |-> tx[c].response]
<1> USE DEF IInv, Consistent, TypeOK
<1>1. /\ pc' = [pc EXCEPT ![c] = "idle"]
      /\ req' = req
      /\ tx' = [tx EXCEPT ![c] = EmptyTx]
      /\ attempt' = [attempt EXCEPT ![c] = 0]
  BY DEF Return
<1>2. /\ k \in Keys
      /\ pc[c] \in Claimed
      /\ pc[c] \in Enveloped
  BY DEF Claimed, Enveloped
<1>3. /\ idem[k] = NoRow
      /\ row \in [hash : Bodies, response : Seq(Nat)]
      /\ row # NoRow
      /\ row.response # <<>>
      /\ row.response = tx[c].entryIDs
  BY <1>2, PostingAssumption DEF Claims, Progress
<1>4. idem' = [idem EXCEPT ![k] = row] /\ postings' = postings \cup {PostingRow(c)}
  BY DEF Apply
<1>5. PostingRow(c).key = k /\ PostingRow(c).body = req[c].body
      /\ PostingRow(c).entryIDs = tx[c].entryIDs /\ PostingRow(c).id = id
  BY DEF PostingRow
<1>6. \A p \in postings : p.key # k /\ p.key \in Keys
  BY <1>3 DEF Recorded
<1>7. Claims'
  BY <1>1, <1>2, <1>4 DEF Claims, Claimed
<1>8. Envelopes'
  <2>1. \A d \in Callers : pc'[d] \in Enveloped => d # c /\ pc[d] \in Enveloped
    BY <1>1 DEF Enveloped, Claimed
  <2>2. \A d \in Callers : pc'[d] \in Enveloped => PostingIDFor[req[d].key] # id
    BY <1>2, <2>1 DEF Envelopes
  <2>3. \A p \in postings' : p \in postings \/ p.id = id
    BY <1>4, <1>5
  <2> HIDE DEF id
  <2>4. \A d \in Callers, p \in postings' :
            pc'[d] \in Enveloped => p.id # PostingIDFor[req[d].key]
    BY <2>1, <2>2, <2>3 DEF Envelopes
  <2> QED
    BY <1>1, <2>1, <2>4 DEF Envelopes
<1>9. Recorded'
  BY <1>2, <1>3, <1>4, <1>5, <1>6 DEF Recorded
<1>10. Progress' /\ Replays'
  BY <1>1, <1>2, <1>3, <1>4 DEF Progress, Replays
<1>11. AnswerIsDurable' /\ MismatchIsReal'
  <2>1. \A d \in Callers \ {c} : out'[d] = out[d]
    BY DEF Return
  <2>2. /\ out'[c].status # "mismatch"
        /\ out'[c].status # "replayed"
        /\ out'[c].status = "created" => out'[c].ids = tx[c].entryIDs
    BY DEF Return
  <2>3. PostingRow(c) \in postings' /\ postings \subseteq postings'
    BY <1>4
  <2>4. ASSUME NEW d \in Callers, out'[d].status \in {"created", "replayed"}
        PROVE  \E p \in postings' : /\ p.key = req[d].key
                                     /\ p.body = req[d].body
                                     /\ p.entryIDs = out'[d].ids
    <3>1. CASE d = c
      <4>1. PostingRow(c).entryIDs = out'[c].ids
        BY <1>5, <2>2, <2>4, <3>1
      <4> QED
        BY <1>5, <2>3, <3>1, <4>1
    <3>2. CASE d # c
      <4>1. out'[d] = out[d]
        BY <2>1, <3>2
      <4>2. PICK p \in postings : /\ p.key = req[d].key
                                  /\ p.body = req[d].body
                                  /\ p.entryIDs = out[d].ids
        BY <2>4, <4>1 DEF AnswerIsDurable
      <4> QED
        BY <2>3, <4>1, <4>2
    <3> QED
      BY <3>1, <3>2
  <2>5. MismatchIsReal'
    BY <1>1, <2>1, <2>2, <2>3 DEF MismatchIsReal
  <2>6. AnswerIsDurable'
    BY <1>1, <2>4 DEF AnswerIsDurable
  <2> QED
    BY <2>5, <2>6
<1>12. OutboxCoCommit'
  <2>1. outbox' = outbox \cup {[id |-> tx[c].outboxID, posting |-> id]}
    BY DEF Apply
  <2>2. \A p \in postings : p.id # id
    BY <1>2 DEF Envelopes
  <2>3. \A o \in outbox : o.posting \in {p.id : p \in postings}
    BY DEF OutboxCoCommit
  <2>4. ASSUME NEW o \in outbox
        PROVE  o.posting # id
    <3>1. PICK p \in postings : o.posting = p.id
      BY <2>3
    <3>2. p.id # id
      BY <2>2
    <3> HIDE DEF id
    <3> QED
      BY <3>1, <3>2
  <2> DEFINE new == [id |-> tx[c].outboxID, posting |-> id]
  <2> HIDE DEF id
  <2>5. new.posting = id /\ outbox' = outbox \cup {new}
    BY <2>1
  <2> HIDE DEF new
  <2>6. {o.posting : o \in outbox'} = {o.posting : o \in outbox} \cup {id}
    BY <2>5, Zenon
  <2>7. {p.id : p \in postings'} = {p.id : p \in postings} \cup {id}
    BY <1>4, <1>5
  <2>8. \A o, r \in outbox' : o.posting = r.posting => o = r
    BY <2>4, <2>5 DEF OutboxCoCommit
  <2> QED
    BY <2>6, <2>7, <2>8 DEF OutboxCoCommit
<1> QED
  BY <1>7, <1>8, <1>9, <1>10, <1>11, <1>12

\* The stored response is served, or the mismatch reported.
LEMMA ReplayStep ==
    ASSUME IInv, NEW c \in Callers, Replay(c)
    PROVE  Consistent'
<1> DEFINE row == idem[req[c].key]
<1> USE DEF IInv, Consistent, TypeOK
<1>1. row # NoRow /\ row.response # <<>> /\ req[c].key \in Keys /\ attempt[c] = 0
  BY DEF Replay, Replays, Recorded
<1>2. PICK p \in postings : p.key = req[c].key
  BY <1>1 DEF Recorded
<1>3. row.hash = p.body /\ row.response = p.entryIDs
  BY <1>2 DEF Recorded
<1>4. \/ row.hash # req[c].body /\ Return(c, "mismatch", <<>>)
      \/ row.hash = req[c].body /\ Return(c, "replayed", row.response)
  BY <1>1 DEF Replay, ReplayStatus
<1>5. UNCHANGED <<idem, postings, outbox>>
  BY DEF Replay, tables
<1>6. /\ pc' = [pc EXCEPT ![c] = "idle"]
      /\ req' = req
      /\ tx' = [tx EXCEPT ![c] = EmptyTx]
      /\ attempt' = [attempt EXCEPT ![c] = 0]
  BY <1>4 DEF Return
<1>7. Claims' /\ Envelopes'
  BY <1>5, <1>6 DEF Claims, Envelopes, Claimed, Enveloped
<1>8. Recorded' /\ OutboxCoCommit'
  BY <1>5 DEF Recorded, OutboxCoCommit
<1>9. Progress' /\ Replays'
  BY <1>5, <1>6 DEF Progress, Replays
<1>10. \A d \in Callers \ {c} : out'[d] = out[d]
  BY <1>4 DEF Return
<1>11. /\ out'[c].status \in {"mismatch", "replayed"}
       /\ out'[c].status = "replayed" => p.body = req[c].body /\ out'[c].ids = p.entryIDs
       /\ out'[c].status = "mismatch" => p.body # req[c].body
  BY <1>3, <1>4 DEF Return
<1>12. AnswerIsDurable'
  <2>1. ASSUME NEW d \in Callers, out'[d].status \in {"created", "replayed"}
        PROVE  \E q \in postings : /\ q.key = req[d].key
                                    /\ q.body = req[d].body
                                    /\ q.entryIDs = out'[d].ids
    <3>1. CASE d = c
      <4>1. p.body = req[d].body /\ out'[d].ids = p.entryIDs
        BY <1>11, <2>1, <3>1
      <4> QED
        BY <1>2, <3>1, <4>1
    <3>2. CASE d # c
      <4>1. out'[d] = out[d]
        BY <1>10, <3>2
      <4> QED
        BY <2>1, <4>1 DEF AnswerIsDurable
    <3> QED
      BY <3>1, <3>2
  <2> QED
    BY <1>5, <1>6, <2>1 DEF AnswerIsDurable
<1>13. MismatchIsReal'
  BY <1>2, <1>5, <1>6, <1>10, <1>11 DEF MismatchIsReal
<1> QED
  BY <1>7, <1>8, <1>9, <1>12, <1>13

\* Every step keeps the invariant.
LEMMA InvStep == IInv /\ [Next]_vars => IInv'
<1> SUFFICES ASSUME IInv, [Next]_vars
             PROVE  IInv'
  OBVIOUS
<1>1. TypeOK'
  BY TypeStep DEF IInv
<1>2. ASSUME NEW c \in Callers, NEW k \in Keys, NEW b \in Bodies, Call(c, k, b)
      PROVE  Consistent'
  BY <1>2, CallStep
<1>3. ASSUME NEW c \in Callers, ClaimIdempotencyKey(c)
      PROVE  Consistent'
  BY <1>3, ClaimStep
<1>4. ASSUME NEW c \in Callers, InsertPosting(c)
      PROVE  Consistent'
  BY <1>4, InsertPostingStep
<1>5. ASSUME NEW c \in Callers, InsertEntry(c)
      PROVE  Consistent'
  BY <1>5, InsertEntryStep
<1>6. ASSUME NEW c \in Callers, InsertOutbox(c) \/ CompleteIdempotency(c)
      PROVE  Consistent'
  BY <1>6, OutboxAndResponseStep
<1>7. ASSUME NEW c \in Callers, Commit(c) \/ CommitUnacknowledged(c)
      PROVE  Consistent'
  <2>1. CASE Return(c, "unbalanced", <<>>) /\ UNCHANGED tables
    BY <2>1, ReturnStep
  <2>2. CASE /\ pc[c] = "commit"
             /\ Apply(c)
             /\ \/ Return(c, "created", tx[c].entryIDs)
                \/ Return(c, "error", <<>>)
    BY <2>2, ApplyStep
  <2> QED
    BY <1>7, <2>1, <2>2 DEF Commit, CommitUnacknowledged
<1>8. ASSUME NEW c \in Callers, Fail(c)
      PROVE  Consistent'
  BY <1>8, ReturnStep DEF Fail
<1>9. ASSUME NEW c \in Callers, Replay(c)
      PROVE  Consistent'
  BY <1>9, ReplayStep
<1>10. CASE UNCHANGED vars
  <2> USE <1>10 DEF vars, IInv, Consistent
  <2>1. Claims' /\ Envelopes'
    BY DEF Claims, Envelopes
  <2>2. Recorded' /\ OutboxCoCommit'
    BY DEF Recorded, OutboxCoCommit
  <2>3. Progress' /\ Replays'
    BY DEF Progress, Replays
  <2>4. AnswerIsDurable' /\ MismatchIsReal'
    BY DEF AnswerIsDurable, MismatchIsReal
  <2> QED
    BY <1>1, <2>1, <2>2, <2>3, <2>4 DEF IInv, Consistent
<1> QED
  BY <1>1, <1>2, <1>3, <1>4, <1>5, <1>6, <1>7, <1>8, <1>9, <1>10
     DEF IInv, Next, Statement, Terminating

\* The inductive invariant holds of every behaviour of Post, for any number of
\* callers, keys, bodies and calls.
THEOREM Invariance == Spec => []IInv
BY InvInit, InvStep, PTL DEF Spec

\* FR-L1, for any number of concurrent callers: one posting for a key, and the
\* losers of a race replay.
THEOREM AtMostOnePosting == Spec => []OneEffectPerKey
<1>1. IInv => OneEffectPerKey
  BY DEF IInv, Consistent, TypeOK, Claims, Recorded, OneEffectPerKey
<1> QED
  BY <1>1, Invariance, PTL

\* A caller that was told of success was told of the posting that is in the
\* ledger, a first caller and a replay alike.
THEOREM AnswersAreDurable == Spec => []AnswerIsDurable
<1>1. IInv => AnswerIsDurable
  BY DEF IInv, Consistent
<1> QED
  BY <1>1, Invariance, PTL

\* A 409 is never a false alarm.
THEOREM MismatchesAreReal == Spec => []MismatchIsReal
<1>1. IInv => MismatchIsReal
  BY DEF IInv, Consistent
<1> QED
  BY <1>1, Invariance, PTL

\* FR-L7: postings and outbox rows correspond one to one.
THEOREM OutboxCoCommits == Spec => []OutboxCoCommit
<1>1. IInv => OutboxCoCommit
  BY DEF IInv, Consistent
<1> QED
  BY <1>1, Invariance, PTL

\* A replay finds its response on its first read: the wait loop of replay never
\* sleeps, however many callers race.
THEOREM ReplayNeverWaits == Spec => []ReplayFindsResponse
<1>1. IInv => ReplayFindsResponse
  BY DEF IInv, Consistent, TypeOK, Replays, Recorded, ReplayFindsResponse
<1> QED
  BY <1>1, Invariance, PTL

-----------------------------------------------------------------------------
(* The ledger sums to zero.                                                *)

\* The two sums of the model are the sum that SumProofs is about.
LEMMA SumsOfRows ==
    /\ GlobalInvariant <=> SumOfAmounts(entries) = 0
    /\ \A rows : ZeroSum(rows) <=> Cardinality(rows) >= 2 /\ SumOfAmounts(rows) = 0
BY DEF GlobalInvariant, ZeroSum, SumOfAmounts

\* An addition that Add does not refuse is exact.
LEMMA AddIsExact ==
    ASSUME NEW x \in Int64, NEW y \in Int64, ~Overflows(x, y)
    PROVE  Wrap(x + y) = x + y /\ x + y \in Int64
<1>1. CASE x + y \in Int64
  BY <1>1, MaxMinorAssumption DEF Wrap, Int64, MinMinor
<1>2. CASE x + y > MaxMinor
  <2>1. Wrap(x + y) = x + y - (2 * MaxMinor + 2)
    BY <1>2, MaxMinorAssumption DEF Wrap, Int64, MinMinor
  <2> QED
    BY <1>2, <2>1, MaxMinorAssumption DEF Overflows, Int64, MinMinor
<1>3. CASE x + y < MinMinor
  <2>1. Wrap(x + y) = x + y + (2 * MaxMinor + 2)
    BY <1>3, MaxMinorAssumption DEF Wrap, Int64, MinMinor
  <2> QED
    BY <1>3, <2>1, MaxMinorAssumption DEF Overflows, Int64, MinMinor
<1> QED
  BY <1>1, <1>2, <1>3, MaxMinorAssumption DEF Int64, MinMinor

\* The equation that Sum's accumulator solves, up to its i-th amount.
Adds(acc, amounts, n) ==
    acc = [i \in 1 .. n |->
              IF i = 1
              THEN [ok |-> TRUE, minor |-> amounts[1]]
              ELSE IF ~acc[i - 1].ok \/ Overflows(acc[i - 1].minor, amounts[i])
                   THEN [ok |-> FALSE, minor |-> 0]
                   ELSE [ok |-> TRUE, minor |-> Wrap(acc[i - 1].minor + amounts[i])]]

\* Such an accumulator exists for every length.
LEMMA AddsExists ==
    ASSUME NEW amounts, NEW len \in Nat
    PROVE  \E acc : Adds(acc, amounts, len)
<1> DEFINE Bad == {n \in Nat : ~ \E acc : Adds(acc, amounts, n)}
           Step(acc, i) == IF i = 1
                           THEN [ok |-> TRUE, minor |-> amounts[1]]
                           ELSE IF ~acc[i - 1].ok \/ Overflows(acc[i - 1].minor, amounts[i])
                                THEN [ok |-> FALSE, minor |-> 0]
                                ELSE [ok |-> TRUE, minor |-> Wrap(acc[i - 1].minor + amounts[i])]
<1>1. \A acc, n : Adds(acc, amounts, n) <=> acc = [i \in 1 .. n |-> Step(acc, i)]
  BY DEF Adds
<1>2. ASSUME NEW f, NEW g, NEW i, i = 1 \/ f[i - 1] = g[i - 1]
      PROVE  Step(f, i) = Step(g, i)
  BY <1>2
<1> HIDE DEF Step
<1>3. ASSUME NEW m \in Bad, \A n \in Bad : m <= n
      PROVE  FALSE
  <2>1. m # 0
    <3>1. SUFFICES ASSUME m = 0
                   PROVE  \E acc : Adds(acc, amounts, m)
      OBVIOUS
    <3>2. \A i \in 1 .. m : FALSE
      BY <3>1
    <3>3. [i \in 1 .. m |-> 0] = [i \in 1 .. m |-> Step([j \in 1 .. m |-> 0], i)]
      BY <3>2
    <3> QED
      BY <1>1, <3>3
  <2>2. m \in Nat /\ m - 1 \in Nat /\ m - 1 \notin Bad
    BY <1>3, <2>1
  <2>3. PICK acc : acc = [i \in 1 .. (m - 1) |-> Step(acc, i)]
    BY <1>1, <2>2
  <2> DEFINE h == [i \in 1 .. m |-> Step(acc, i)]
  <2>4. ASSUME NEW i \in 1 .. m
        PROVE  Step(h, i) = Step(acc, i)
    <3>1. CASE i = 1
      BY <1>2, <3>1
    <3>2. CASE i # 1
      <4>1. i - 1 \in 1 .. (m - 1) /\ i - 1 \in 1 .. m
        BY <2>2, <3>2
      <4>2. h[i - 1] = Step(acc, i - 1) /\ acc[i - 1] = Step(acc, i - 1)
        BY <2>3, <4>1
      <4> HIDE DEF h
      <4>3. acc[i - 1] = h[i - 1]
        BY <4>2
      <4> QED
        BY <1>2, <4>3
    <3> QED
      BY <3>1, <3>2
  <2>5. h = [i \in 1 .. m |-> Step(h, i)]
    BY <2>4
  <2> HIDE DEF h
  <2> QED
    BY <1>1, <2>5
<1>4. Bad = {}
  BY <1>3, LeastNatural
<1> QED
  BY <1>4

\* The rows of the first n legs.
Rows(ids, pid, legs, n) ==
    {[id |-> ids[i], posting |-> pid, account |-> legs[i].account,
      amount |-> legs[i].amount] : i \in 1 .. n}

\* The amounts of len legs, each of a machine integer, and distinct ids for them.
Numbered(legs, amounts, ids, len) ==
    /\ len \in Nat
    /\ \A i \in 1 .. len : legs[i].amount \in Int64
    /\ \A i \in 1 .. len : amounts[i] = legs[i].amount
    /\ \A i, j \in 1 .. len : ids[i] = ids[j] => i = j

\* What Sum has added up after n legs is the sum of their rows, if no addition was
\* refused.
LEMMA AddsIsSum ==
    ASSUME NEW legs, NEW amounts, NEW ids, NEW len, Numbered(legs, amounts, ids, len),
           NEW acc, Adds(acc, amounts, len), NEW pid
    PROVE  \A n \in 1 .. len :
               /\ Summable(Rows(ids, pid, legs, n))
               /\ acc[n].ok => /\ acc[n].minor \in Int64
                               /\ SumOfAmounts(Rows(ids, pid, legs, n)) = acc[n].minor
<1> DEFINE R(n) == Rows(ids, pid, legs, n)
           Row(i) == [id |-> ids[i], posting |-> pid, account |-> legs[i].account,
                      amount |-> legs[i].amount]
           Good(n) == /\ Summable(R(n))
                      /\ acc[n].ok => acc[n].minor \in Int64 /\ SumOfAmounts(R(n)) = acc[n].minor
           Bad == {n \in Nat : n \in 1 .. len /\ ~Good(n)}
<1> USE DEF Numbered
<1>1. \A i \in 1 .. len : Row(i).id = ids[i] /\ Row(i).amount = legs[i].amount
                          /\ Row(i).amount \in Int64 /\ Row(i).amount \in Int
  BY DEF Int64
<1>2. Summable({}) /\ SumOfAmounts({}) = 0
  <2>1. Summable({})
    BY FS_EmptySet DEF Summable
  <2> QED
    BY <2>1, SumUnfolds DEF Summable
<1>3. ASSUME NEW n \in 1 .. len, NEW S, S = {Row(i) : i \in 1 .. (n - 1)}
      PROVE  R(n) = S \cup {Row(n)} /\ Row(n) \notin S
  <2>1. 1 .. n = (1 .. (n - 1)) \cup {n}
    OBVIOUS
  <2>2. R(n) = {Row(i) : i \in 1 .. n}
    BY DEF Rows
  <2>3. \A i \in 1 .. (n - 1) : i \in 1 .. len /\ i # n
    OBVIOUS
  <2>4. \A i \in 1 .. (n - 1) : Row(i) # Row(n)
    <3> SUFFICES ASSUME NEW i \in 1 .. (n - 1), Row(i) = Row(n)
                 PROVE  FALSE
      OBVIOUS
    <3>1. ids[i] = ids[n]
      BY <1>1, <2>3
    <3> QED
      BY <2>3, <3>1
  <2> HIDE DEF Row, R
  <2> QED
    BY <1>3, <2>1, <2>2, <2>4
<1>4. ASSUME NEW m \in Bad, \A n \in Bad : m <= n
      PROVE  FALSE
  <2>1. m \in 1 .. len /\ ~Good(m)
    BY <1>4
  <2> DEFINE S == {Row(i) : i \in 1 .. (m - 1)}
  <2>2. R(m) = S \cup {Row(m)} /\ Row(m) \notin S
    BY <1>3, <2>1
  <2>3. Row(m).amount \in Int64 /\ Row(m).amount \in Int /\ Row(m).amount = amounts[m]
    BY <1>1, <2>1
  <2>4. acc[m] = IF m = 1
                 THEN [ok |-> TRUE, minor |-> amounts[1]]
                 ELSE IF ~acc[m - 1].ok \/ Overflows(acc[m - 1].minor, amounts[m])
                      THEN [ok |-> FALSE, minor |-> 0]
                      ELSE [ok |-> TRUE, minor |-> Wrap(acc[m - 1].minor + amounts[m])]
    BY <2>1 DEF Adds
  <2>5. CASE m = 1
    <3>1. S = {}
      BY <2>5
    <3>2. acc[m].ok => acc[m].minor = amounts[m]
      BY <2>4, <2>5
    <3> HIDE DEF S, Row, R
    <3>3. Summable(R(m)) /\ SumOfAmounts(R(m)) = 0 + Row(m).amount
      BY <1>2, <2>2, <2>3, <3>1, SumAdd
    <3> QED
      BY <2>1, <2>3, <3>2, <3>3
  <2>6. CASE m # 1
    <3>1. m - 1 \in 1 .. len /\ m - 1 \in Nat /\ ~(m <= m - 1)
      BY <2>1, <2>6
    <3>2. Good(m - 1)
      BY <1>4, <3>1
    <3>3. S = R(m - 1)
      BY DEF Rows
    <3> HIDE DEF S, Row, R
    <3>4. Summable(S) /\ (acc[m - 1].ok => acc[m - 1].minor \in Int64
                                           /\ SumOfAmounts(S) = acc[m - 1].minor)
      BY <3>2, <3>3
    <3>5. Summable(R(m)) /\ SumOfAmounts(R(m)) = SumOfAmounts(S) + Row(m).amount
      BY <2>2, <2>3, <3>4, SumAdd
    <3>6. acc[m].ok => /\ acc[m - 1].ok /\ ~Overflows(acc[m - 1].minor, amounts[m])
                       /\ acc[m].minor = Wrap(acc[m - 1].minor + amounts[m])
      BY <2>4, <2>6
    <3>7. acc[m].ok => /\ acc[m].minor = acc[m - 1].minor + amounts[m]
                       /\ acc[m].minor \in Int64
      BY <2>3, <3>4, <3>6, AddIsExact
    <3> QED
      BY <2>1, <2>3, <3>4, <3>5, <3>6, <3>7
  <2> QED
    BY <2>5, <2>6
<1>5. Bad = {}
  <2> HIDE DEF Good
  <2> QED
    BY <1>4, LeastNatural
<1>6. ASSUME NEW n \in 1 .. len
      PROVE  Good(n)
  <2>1. n \in Nat
    OBVIOUS
  <2> HIDE DEF Good
  <2> QED
    BY <1>5, <2>1
<1> QED
  BY <1>6

\* A request that Validate lets through gives rows that the trigger lets through,
\* under whichever distinct ids the sequence hands out.
LEMMA ValidatedIsZeroSum ==
    ASSUME NEW b \in Bodies, Validate(b), NEW pid,
           NEW ids \in Seq(Nat), Len(ids) = Len(Legs[b]),
           \A i, j \in DOMAIN ids : ids[i] = ids[j] => i = j
    PROVE  LET rows == Rows(ids, pid, Legs[b], Len(ids))
           IN  Summable(rows) /\ ZeroSum(rows)
<1> DEFINE legs == Legs[b]
           len == Len(ids)
           amounts == [i \in DOMAIN legs |-> legs[i].amount]
           rows == Rows(ids, pid, legs, len)
           acc == CHOOSE acc : Adds(acc, amounts, len)
<1>1. /\ legs \in Seq({legs[i] : i \in DOMAIN legs})
      /\ \A i \in DOMAIN legs : legs[i].amount \in Int64
  BY PostingAssumption
<1>2. len \in Nat /\ DOMAIN legs = 1 .. len /\ DOMAIN ids = 1 .. len /\ Len(amounts) = len
  BY <1>1
<1>3. len >= 2 /\ Sum(amounts) = [ok |-> TRUE, minor |-> 0]
  BY DEF Validate
<1>4. Adds(acc, amounts, len)
  <2> HIDE DEF amounts, len
  <2> QED
    BY <1>2, AddsExists
<1>5. Sum(amounts) = acc[len]
  <2> HIDE DEF amounts
  <2> QED
    BY <1>2, Zenon DEF Sum, Adds
<1>6. acc[len].ok /\ acc[len].minor = 0
  BY <1>3, <1>5
<1>7. Numbered(legs, amounts, ids, len) /\ len \in 1 .. len
  <2> HIDE DEF len, legs
  <2>1. \A i \in 1 .. len : legs[i].amount \in Int64
    BY <1>1, <1>2
  <2>2. \A i \in 1 .. len : amounts[i] = legs[i].amount
    BY <1>2
  <2>3. \A i, j \in 1 .. len : ids[i] = ids[j] => i = j
    BY <1>2
  <2>4. len \in 1 .. len
    BY <1>2, <1>3
  <2> QED
    BY <1>2, <2>1, <2>2, <2>3, <2>4 DEF Numbered
<1> HIDE DEF acc, amounts, len, legs
<1>8. Summable(rows) /\ SumOfAmounts(rows) = 0
  <2>1. \A n \in 1 .. len :
            /\ Summable(Rows(ids, pid, legs, n))
            /\ acc[n].ok => /\ acc[n].minor \in Int64
                            /\ SumOfAmounts(Rows(ids, pid, legs, n)) = acc[n].minor
    BY <1>4, <1>7, AddsIsSum
  <2> QED
    BY <1>6, <1>7, <2>1
<1>9. Cardinality(rows) >= 2
  <2> DEFINE Row(i) == [id |-> ids[i], posting |-> pid, account |-> legs[i].account,
                        amount |-> legs[i].amount]
  <2>1. 1 \in 1 .. len /\ 2 \in 1 .. len
    BY <1>2, <1>3
  <2>2. {Row(1)} \cup {Row(2)} \subseteq rows
    BY <2>1 DEF Rows
  <2>3. Row(1) # Row(2)
    <3>1. ids[1] # ids[2]
      BY <1>7, <2>1 DEF Numbered
    <3>2. Row(1).id = ids[1] /\ Row(2).id = ids[2]
      OBVIOUS
    <3> HIDE DEF Row
    <3> QED
      BY <3>1, <3>2
  <2>4. IsFiniteSet(rows)
    BY <1>8 DEF Summable
  <2> HIDE DEF Row, rows
  <2>5. IsFiniteSet({Row(1)}) /\ Cardinality({Row(1)}) = 1
    BY FS_Singleton
  <2>6. Cardinality({Row(1)} \cup {Row(2)}) = 2
    <3>1. Row(2) \notin {Row(1)}
      BY <2>3
    <3>2. Cardinality({Row(1)} \cup {Row(2)}) = Cardinality({Row(1)}) + 1
      BY <2>5, <3>1, FS_AddElement
    <3> QED
      BY <2>5, <3>2
  <2> QED
    BY <2>2, <2>4, <2>6, FS_Subset, FS_CardinalityType
<1> QED
  BY <1>8, <1>9, SumsOfRows DEF rows, len, legs

-----------------------------------------------------------------------------
\* What a transaction has inserted: legs of a request that was validated, one after
\* the other, under ids of its own.
Built(label, b, ids, n) ==
    /\ label \in Open => Validate(b)
    /\ label \notin Enveloped => ids = <<>>
    /\ label = "entries" => Len(ids) < Len(Legs[b])
    /\ label \in Enveloped \ {"entries"} => Len(ids) = Len(Legs[b])
    /\ \A i \in DOMAIN ids : ids[i] < n
    /\ \A i, j \in DOMAIN ids : ids[i] = ids[j] => i = j

Building == \A c \in Callers : Built(pc[c], req[c].body, tx[c].entryIDs, nextEntry)

\* The entries are those of the postings, all of them, and can be summed up.
Booked ==
    /\ \A e \in entries : \E p \in postings : p.id = e.posting
    /\ PostingsAreWhole
    /\ Summable(entries) /\ GlobalInvariant

\* A caller that is not in Post has had an answer, and not that of the trigger.
Waiting == \A c \in Callers : IF pc[c] = "idle"
                              THEN out[c].status \in Statuses \ {"pending", "unbalanced"}
                              ELSE out[c].status = "pending"

LedgerInv == Building /\ Booked /\ Waiting

\* A step of call c, on its own.
LEMMA BuildOne ==
    ASSUME TypeOK, Building, NEW c \in Callers,
           \A d \in Callers \ {c} : pc'[d] = pc[d] /\ req'[d] = req[d] /\ tx'[d] = tx[d],
           nextEntry' = nextEntry \/ nextEntry' = nextEntry + 1,
           Built(pc'[c], req'[c].body, tx'[c].entryIDs, nextEntry')
    PROVE  Building'
<1>1. nextEntry \in Nat /\ tx \in [Callers -> [entryIDs : Seq(Nat), outboxID : Nat, response : Seq(Nat)]]
  BY DEF TypeOK
<1>2. ASSUME NEW d \in Callers \ {c}
      PROVE  Built(pc'[d], req'[d].body, tx'[d].entryIDs, nextEntry')
  <2>1. Built(pc[d], req[d].body, tx[d].entryIDs, nextEntry)
    BY DEF Building
  <2>2. \A i \in DOMAIN tx[d].entryIDs : tx[d].entryIDs[i] \in Nat
    BY <1>1
  <2>3. \A i \in DOMAIN tx[d].entryIDs : tx[d].entryIDs[i] < nextEntry'
    BY <1>1, <2>1, <2>2 DEF Built
  <2> QED
    BY <2>1, <2>3 DEF Built
<1> QED
  BY <1>2 DEF Building

\* A call that is over, or has not begun its transaction.
LEMMA NothingBuilt ==
    ASSUME NEW label \in {"idle", "replay"}, NEW b, NEW n
    PROVE  Built(label, b, <<>>, n)
BY DEF Built, Open, Claimed, Enveloped

LEMMA ReturnBuilds ==
    ASSUME TypeOK, Building, NEW c \in Callers, NEW status, NEW ids, Return(c, status, ids),
           nextEntry' = nextEntry \/ nextEntry' = nextEntry + 1
    PROVE  Building'
<1>1. /\ pc'[c] = "idle" /\ tx'[c].entryIDs = <<>>
      /\ \A d \in Callers \ {c} : pc'[d] = pc[d] /\ req'[d] = req[d] /\ tx'[d] = tx[d]
  BY DEF Return, TypeOK, EmptyTx, Tx
<1>2. Built(pc'[c], req'[c].body, tx'[c].entryIDs, nextEntry')
  BY <1>1, NothingBuilt
<1> QED
  BY <1>1, <1>2, BuildOne

\* One more leg, under the next id.
LEMMA AppendBuilds ==
    ASSUME NEW b \in Bodies, NEW ids \in Seq(Nat), NEW n \in Nat, Built("entries", b, ids, n),
           NEW label, label = IF Len(ids) + 1 = Len(Legs[b]) THEN "outbox" ELSE "entries"
    PROVE  Built(label, b, Append(ids, n), n + 1)
<1> DEFINE new == Append(ids, n)
<1>1. Len(Legs[b]) \in Nat
  <2>1. Legs[b] \in Seq({Legs[b][i] : i \in DOMAIN Legs[b]})
    BY PostingAssumption
  <2> QED
    BY <2>1
<1>2. /\ Validate(b) /\ Len(ids) < Len(Legs[b])
      /\ \A i \in DOMAIN ids : ids[i] < n
      /\ \A i, j \in DOMAIN ids : ids[i] = ids[j] => i = j
  BY DEF Built, Open, Claimed
<1>3. Len(ids) \in Nat /\ DOMAIN ids = 1 .. Len(ids) /\ \A i \in DOMAIN ids : ids[i] \in Nat
  OBVIOUS
<1>4. /\ Len(new) = Len(ids) + 1 /\ DOMAIN new = 1 .. (Len(ids) + 1)
      /\ new[Len(ids) + 1] = n
      /\ \A i \in 1 .. Len(ids) : new[i] = ids[i]
  BY <1>3
<1> HIDE DEF new
<1>5. \A i \in DOMAIN new : i = Len(ids) + 1 \/ i \in DOMAIN ids
  BY <1>3, <1>4
<1>6. \A i \in DOMAIN new : new[i] < n + 1
  BY <1>2, <1>3, <1>4, <1>5
<1>7. \A i, j \in DOMAIN new : new[i] = new[j] => i = j
  BY <1>2, <1>3, <1>4, <1>5
<1>8. CASE Len(ids) + 1 = Len(Legs[b])
  BY <1>2, <1>4, <1>6, <1>7, <1>8 DEF Built, Enveloped, Claimed, new
<1>9. CASE Len(ids) + 1 # Len(Legs[b])
  <2>1. Len(ids) + 1 < Len(Legs[b])
    BY <1>1, <1>2, <1>3, <1>9
  <2> QED
    BY <1>2, <1>4, <1>6, <1>7, <1>9, <2>1 DEF Built, Enveloped, Claimed, new
<1> QED
  BY <1>8, <1>9

LEMMA BuildingStep ==
    ASSUME IInv, Building, [Next]_vars
    PROVE  Building'
<1>1. /\ pc \in [Callers -> Running \cup {"idle"}] /\ req \in [Callers -> [key : Keys, body : Bodies]]
      /\ tx \in [Callers -> [entryIDs : Seq(Nat), outboxID : Nat, response : Seq(Nat)]]
      /\ nextEntry \in Nat
      /\ TypeOK
  BY DEF IInv, TypeOK
<1>2. \A c \in Callers : Built(pc[c], req[c].body, tx[c].entryIDs, nextEntry)
  BY DEF Building
<1>3. ASSUME NEW c \in Callers, NEW k \in Keys, NEW b \in Bodies, Call(c, k, b)
      PROVE  Building'
  <2>1. /\ \A d \in Callers \ {c} : pc'[d] = pc[d] /\ req'[d] = req[d] /\ tx'[d] = tx[d]
        /\ req'[c].body = b /\ tx'[c] = tx[c] /\ nextEntry' = nextEntry
        /\ pc'[c] = IF Validate(b) THEN "claim" ELSE "idle"
        /\ pc[c] = "idle"
    BY <1>1, <1>3 DEF Call
  <2>2. tx[c].entryIDs = <<>>
    BY <1>2, <2>1 DEF Built, Enveloped, Claimed
  <2>3. Built(pc'[c], req'[c].body, tx'[c].entryIDs, nextEntry')
    BY <2>1, <2>2 DEF Built, Open, Enveloped, Claimed
  <2> QED
    BY <1>1, <2>1, <2>3, BuildOne
<1>4. ASSUME NEW c \in Callers, ClaimIdempotencyKey(c)
      PROVE  Building'
  <2>1. /\ \A d \in Callers \ {c} : pc'[d] = pc[d] /\ req'[d] = req[d] /\ tx'[d] = tx[d]
        /\ req'[c] = req[c] /\ tx'[c] = tx[c] /\ nextEntry' = nextEntry
        /\ pc'[c] \in {"posting", "replay"} /\ pc[c] = "claim"
    BY <1>1, <1>4 DEF ClaimIdempotencyKey, Goto
  <2>2. Built(pc'[c], req'[c].body, tx'[c].entryIDs, nextEntry')
    BY <1>2, <2>1 DEF Built, Open, Enveloped, Claimed
  <2> QED
    BY <1>1, <2>1, <2>2, BuildOne
<1>5. ASSUME NEW c \in Callers, InsertPosting(c)
      PROVE  Building'
  <2>1. CASE Return(c, "error", <<>>)
    BY <1>1, <1>5, <2>1, ReturnBuilds DEF InsertPosting
  <2>2. CASE Goto(c, "entries") /\ UNCHANGED tx
    <3>1. /\ \A d \in Callers \ {c} : pc'[d] = pc[d] /\ req'[d] = req[d] /\ tx'[d] = tx[d]
          /\ req'[c] = req[c] /\ tx'[c] = tx[c] /\ nextEntry' = nextEntry
          /\ pc'[c] = "entries" /\ pc[c] = "posting"
      BY <1>1, <1>5, <2>2 DEF InsertPosting, Goto
    <3>2. Validate(req[c].body) /\ tx[c].entryIDs = <<>>
      BY <1>2, <3>1 DEF Built, Open, Enveloped, Claimed
    <3>3. Len(tx[c].entryIDs) < Len(Legs[req[c].body])
      <4>1. req[c].body \in Bodies
        BY <1>1
      <4>2. Legs[req[c].body] \in Seq({Legs[req[c].body][i] : i \in DOMAIN Legs[req[c].body]})
        BY <4>1, PostingAssumption
      <4>3. Len(Legs[req[c].body]) \in Nat /\ Len(Legs[req[c].body]) >= 2
        BY <3>2, <4>2 DEF Validate
      <4> QED
        BY <3>2, <4>3
    <3>4. Built(pc'[c], req'[c].body, tx'[c].entryIDs, nextEntry')
      BY <3>1, <3>2, <3>3 DEF Built, Open, Enveloped, Claimed
    <3> QED
      BY <1>1, <3>1, <3>4, BuildOne
  <2> QED
    BY <1>5, <2>1, <2>2 DEF InsertPosting
<1>6. ASSUME NEW c \in Callers, InsertEntry(c)
      PROVE  Building'
  <2> DEFINE ids == tx[c].entryIDs
             label == IF Len(ids) + 1 = Len(Legs[req[c].body]) THEN "outbox" ELSE "entries"
  <2>1. CASE Return(c, "error", <<>>)
    BY <1>1, <1>6, <2>1, ReturnBuilds DEF InsertEntry
  <2>2. CASE /\ tx' = [tx EXCEPT ![c] = Tx(Append(ids, nextEntry), 0, <<>>)]
             /\ Goto(c, label)
    <3>1. /\ \A d \in Callers \ {c} : pc'[d] = pc[d] /\ req'[d] = req[d] /\ tx'[d] = tx[d]
          /\ req'[c] = req[c] /\ nextEntry' = nextEntry + 1
          /\ tx'[c].entryIDs = Append(ids, nextEntry)
          /\ pc'[c] = label /\ pc[c] = "entries"
      BY <1>1, <1>6, <2>2 DEF InsertEntry, Goto, Tx
    <3>2. ids \in Seq(Nat) /\ req[c].body \in Bodies
          /\ Built("entries", req[c].body, ids, nextEntry)
      BY <1>1, <1>2, <3>1
    <3>3. Built(label, req[c].body, Append(ids, nextEntry), nextEntry + 1)
      BY <1>1, <3>2, AppendBuilds
    <3> HIDE DEF label, ids
    <3>4. Built(pc'[c], req'[c].body, tx'[c].entryIDs, nextEntry')
      BY <3>1, <3>3
    <3> QED
      BY <1>1, <3>1, <3>4, BuildOne
  <2> QED
    BY <1>6, <2>1, <2>2 DEF InsertEntry
<1>7. ASSUME NEW c \in Callers, InsertOutbox(c) \/ CompleteIdempotency(c)
      PROVE  Building'
  <2>1. /\ \A d \in Callers \ {c} : pc'[d] = pc[d] /\ req'[d] = req[d] /\ tx'[d] = tx[d]
        /\ req'[c] = req[c] /\ nextEntry' = nextEntry
        /\ tx'[c].entryIDs = tx[c].entryIDs
        /\ pc'[c] \in {"complete", "commit"} /\ pc[c] \in {"outbox", "complete"}
    BY <1>1, <1>7 DEF InsertOutbox, CompleteIdempotency, Goto, Tx
  <2>2. Built(pc'[c], req'[c].body, tx'[c].entryIDs, nextEntry')
    BY <1>2, <2>1 DEF Built, Open, Enveloped, Claimed
  <2> QED
    BY <1>1, <2>1, <2>2, BuildOne
<1>8. ASSUME NEW c \in Callers, Commit(c) \/ CommitUnacknowledged(c) \/ Fail(c)
      PROVE  Building'
  <2>1. nextEntry' = nextEntry /\ \E status, ids : Return(c, status, ids)
    BY <1>8 DEF Commit, CommitUnacknowledged, Fail
  <2> QED
    BY <1>1, <2>1, ReturnBuilds
<1>9. ASSUME NEW c \in Callers, Replay(c)
      PROVE  Building'
  <2>1. nextEntry' = nextEntry /\ (UNCHANGED <<pc, req, tx>> \/ \E status, ids : Return(c, status, ids))
    BY <1>9 DEF Replay
  <2> QED
    BY <1>1, <2>1, ReturnBuilds DEF Building
<1>10. CASE UNCHANGED vars
  BY <1>10 DEF vars, Building
<1> QED
  BY <1>3, <1>4, <1>5, <1>6, <1>7, <1>8, <1>9, <1>10 DEF Next, Statement, Terminating

\* The rows of a transaction at COMMIT: those of all its legs, which sum to zero, so
\* the trigger lets it pass.
LEMMA CommitRows ==
    ASSUME IInv, Building, NEW c \in Callers, pc[c] = "commit"
    PROVE  /\ Summable(EntryRows(c)) /\ ZeroSum(EntryRows(c))
           /\ DOMAIN tx[c].entryIDs = DOMAIN Legs[req[c].body]
<1> DEFINE ids == tx[c].entryIDs
           b == req[c].body
           pid == PostingIDFor[req[c].key]
<1>1. b \in Bodies /\ ids \in Seq(Nat)
  BY DEF IInv, TypeOK
<1>2. Built("commit", b, ids, nextEntry)
  BY DEF Building
<1>3. /\ Validate(b) /\ Len(ids) = Len(Legs[b])
      /\ \A i, j \in DOMAIN ids : ids[i] = ids[j] => i = j
  BY <1>2 DEF Built, Open, Enveloped, Claimed
<1>4. DOMAIN ids = 1 .. Len(ids) /\ DOMAIN ids = DOMAIN Legs[b]
  <2>1. Legs[b] \in Seq({Legs[b][i] : i \in DOMAIN Legs[b]})
    BY <1>1, PostingAssumption
  <2> QED
    BY <1>1, <1>3, <2>1
<1>5. EntryRows(c) = Rows(ids, pid, Legs[b], Len(ids))
  BY <1>4 DEF EntryRows, Rows
<1> HIDE DEF ids, b, pid
<1>6. Summable(EntryRows(c)) /\ ZeroSum(EntryRows(c))
  BY <1>1, <1>3, <1>5, ValidatedIsZeroSum
<1> QED
  BY <1>4, <1>6 DEF ids, b

\* COMMIT adds the rows of a posting that was not there.
LEMMA ApplyBooks ==
    ASSUME IInv, Building, Booked, NEW c \in Callers, pc[c] = "commit", Apply(c)
    PROVE  Booked'
<1> DEFINE id == PostingIDFor[req[c].key]
           new == EntryRows(c)
<1>1. /\ postings' = postings \cup {PostingRow(c)}
      /\ entries' = entries \cup new
  BY DEF Apply
<1>2. /\ PostingRow(c).id = id /\ PostingRow(c).body = req[c].body
      /\ PostingRow(c).entryIDs = tx[c].entryIDs
  BY DEF PostingRow
<1>3. \A p \in postings : p.id # id
  BY DEF IInv, Consistent, Envelopes, Enveloped, Claimed
<1>4. \A e \in new : e.posting = id
  BY DEF EntryRows
<1>5. \A e \in entries : e.posting # id
  BY <1>3 DEF Booked
<1>6. Summable(new) /\ ZeroSum(new) /\ DOMAIN tx[c].entryIDs = DOMAIN Legs[req[c].body]
  BY CommitRows
<1>7. Summable(entries') /\ GlobalInvariant'
  <2>1. entries \cap new = {}
    BY <1>4, <1>5
  <2>2. Summable(entries) /\ SumOfAmounts(entries) = 0
    BY SumsOfRows DEF Booked
  <2>3. SumOfAmounts(new) = 0
    BY <1>6, SumsOfRows
  <2> HIDE DEF new
  <2>4. Summable(entries \cup new) /\ SumOfAmounts(entries \cup new) = 0 + 0
    BY <1>6, <2>1, <2>2, <2>3, SumUnion
  <2>5. Summable(entries') /\ SumOfAmounts(entries') = 0
    BY <1>1, <2>4
  <2>6. GlobalInvariant' <=> (SumOfAmounts(entries) = 0)'
    BY SumsOfRows, PTL
  <2> QED
    BY <2>5, <2>6
<1>8. \A e \in entries' : \E p \in postings' : p.id = e.posting
  BY <1>1, <1>2, <1>4 DEF Booked
<1>9. ASSUME NEW p \in postings'
      PROVE  {e \in entries' : e.posting = p.id} =
                 {[id      |-> p.entryIDs[i],
                   posting |-> p.id,
                   account |-> Legs[p.body][i].account,
                   amount  |-> Legs[p.body][i].amount] : i \in DOMAIN Legs[p.body]}
  <2>1. CASE p \in postings
    <3>1. p.id # id
      BY <1>3, <2>1
    <3>2. {e \in entries' : e.posting = p.id} = {e \in entries : e.posting = p.id}
      BY <1>1, <1>4, <3>1
    <3> QED
      BY <2>1, <3>2 DEF Booked, PostingsAreWhole
  <2>2. CASE p = PostingRow(c)
    <3>1. {e \in entries' : e.posting = id} = new
      BY <1>1, <1>4, <1>5
    <3>2. new = {[id      |-> p.entryIDs[i],
                  posting |-> p.id,
                  account |-> Legs[p.body][i].account,
                  amount  |-> Legs[p.body][i].amount] : i \in DOMAIN Legs[p.body]}
      BY <1>2, <1>6, <2>2 DEF EntryRows
    <3> QED
      BY <1>2, <2>2, <3>1, <3>2
  <2> QED
    BY <1>1, <2>1, <2>2
<1>10. PostingsAreWhole'
  BY <1>9 DEF PostingsAreWhole
<1> QED
  BY <1>7, <1>8, <1>10 DEF Booked

LEMMA BookedStep ==
    ASSUME IInv, Building, Booked, [Next]_vars
    PROVE  Booked'
<1>1. ASSUME UNCHANGED <<postings, entries>>
      PROVE  Booked'
  <2>1. GlobalInvariant' <=> (SumOfAmounts(entries) = 0)'
    BY SumsOfRows, PTL
  <2>2. GlobalInvariant' <=> GlobalInvariant
    BY <1>1, <2>1, SumsOfRows
  <2> QED
    BY <1>1, <2>2 DEF Booked, PostingsAreWhole
<1>2. ASSUME NEW c \in Callers, Commit(c) \/ CommitUnacknowledged(c)
      PROVE  Booked'
  <2>1. pc[c] = "commit" /\ (Apply(c) \/ UNCHANGED <<postings, entries>>)
    BY <1>2 DEF Commit, CommitUnacknowledged, tables
  <2> QED
    BY <1>1, <2>1, ApplyBooks
<1>3. ASSUME NEW c \in Callers,
             \/ \E k \in Keys, b \in Bodies : Call(c, k, b)
             \/ ClaimIdempotencyKey(c) \/ InsertPosting(c) \/ InsertEntry(c)
             \/ InsertOutbox(c) \/ CompleteIdempotency(c) \/ Replay(c) \/ Fail(c)
      PROVE  UNCHANGED <<postings, entries>>
  BY <1>3 DEF Call, ClaimIdempotencyKey, InsertPosting, InsertEntry, InsertOutbox,
              CompleteIdempotency, Replay, Fail, tables
<1>4. CASE UNCHANGED vars
  BY <1>1, <1>4 DEF vars
<1> QED
  BY <1>1, <1>2, <1>3, <1>4 DEF Next, Statement, Terminating

\* An answer that a call of c gets.
LEMMA ReturnAnswers ==
    ASSUME TypeOK, Waiting, NEW c \in Callers, NEW ids,
           NEW status \in Statuses \ {"pending", "unbalanced"}, Return(c, status, ids)
    PROVE  Waiting'
BY DEF Waiting, Return, TypeOK

LEMMA WaitingStep ==
    ASSUME IInv, Building, Waiting, [Next]_vars
    PROVE  Waiting'
<1>1. TypeOK
  BY DEF IInv
<1>2. ASSUME NEW c \in Callers, NEW k \in Keys, NEW b \in Bodies, Call(c, k, b)
      PROVE  Waiting'
  BY <1>1, <1>2 DEF Call, Waiting, TypeOK, Statuses
<1>3. ASSUME NEW c \in Callers, NEW label \in Running, pc[c] # "idle", Goto(c, label)
      PROVE  Waiting'
  BY <1>1, <1>3 DEF Goto, Waiting, TypeOK, Running, Open, Claimed
<1>4. {"created", "replayed", "mismatch", "error"} \subseteq Statuses \ {"pending", "unbalanced"}
  BY DEF Statuses
<1>5. ASSUME NEW c \in Callers,
             \/ ClaimIdempotencyKey(c) \/ InsertPosting(c) \/ InsertEntry(c)
             \/ InsertOutbox(c) \/ CompleteIdempotency(c) \/ Fail(c)
      PROVE  Waiting'
  <2>1. \/ Return(c, "error", <<>>)
        \/ pc[c] # "idle" /\ \E label \in Running : Goto(c, label)
    BY <1>5 DEF ClaimIdempotencyKey, InsertPosting, InsertEntry, InsertOutbox,
                CompleteIdempotency, Fail, Running, Open, Claimed
  <2> QED
    BY <1>1, <1>3, <1>4, <2>1, ReturnAnswers
<1>6. ASSUME NEW c \in Callers, Commit(c) \/ CommitUnacknowledged(c)
      PROVE  Waiting'
  <2>1. pc[c] = "commit"
    BY <1>6 DEF Commit, CommitUnacknowledged
  <2>2. ZeroSum(EntryRows(c))
    BY <2>1, CommitRows
  <2>3. Return(c, "created", tx[c].entryIDs) \/ Return(c, "error", <<>>)
    BY <1>6, <2>2 DEF Commit, CommitUnacknowledged
  <2> QED
    BY <1>1, <1>4, <2>3, ReturnAnswers
<1>7. ASSUME NEW c \in Callers, Replay(c)
      PROVE  Waiting'
  <2> DEFINE status == ReplayStatus(idem[req[c].key], req[c].body, attempt[c])
  <2>1. status \in {"error", "mismatch", "replayed", "waiting"}
    BY DEF ReplayStatus
  <2>2. \/ status # "waiting" /\ \E ids : Return(c, status, ids)
        \/ UNCHANGED <<pc, out>>
    BY <1>7 DEF Replay
  <2> HIDE DEF status
  <2> QED
    BY <1>1, <1>4, <2>1, <2>2, ReturnAnswers DEF Waiting
<1>8. CASE UNCHANGED vars
  BY <1>8 DEF vars, Waiting
<1> QED
  BY <1>2, <1>5, <1>6, <1>7, <1>8 DEF Next, Statement, Terminating

LEMMA LedgerInit == Init => LedgerInv
<1> SUFFICES ASSUME Init
             PROVE  LedgerInv
  OBVIOUS
<1>1. Building
  BY NothingBuilt DEF Init, Building, EmptyTx, Tx
<1>2. Summable({}) /\ SumOfAmounts({}) = 0
  <2>1. Summable({})
    BY FS_EmptySet DEF Summable
  <2> QED
    BY <2>1, SumUnfolds DEF Summable
<1>3. Booked
  BY <1>2, SumsOfRows DEF Init, Booked, PostingsAreWhole
<1>4. Waiting
  BY DEF Init, Waiting, NoOutcome, Statuses
<1> QED
  BY <1>1, <1>3, <1>4 DEF LedgerInv

\* The second inductive invariant: with the first one, which keeps posting ids apart,
\* what is in the ledger is what was asked for, and sums to zero.
THEOREM LedgerInvariance == Spec => [](IInv /\ LedgerInv)
<1>1. IInv /\ LedgerInv /\ [Next]_vars => LedgerInv'
  BY BuildingStep, BookedStep, WaitingStep DEF LedgerInv
<1> QED
  BY <1>1, InvInit, InvStep, LedgerInit, PTL DEF Spec

\* FR-L9: whatever calls race, fail or are replayed, the ledger sums to zero.
THEOREM LedgerSumsToZero == Spec => []GlobalInvariant
<1>1. LedgerInv => GlobalInvariant
  BY DEF LedgerInv, Booked
<1> QED
  BY <1>1, LedgerInvariance, PTL

\* FR-L2: every posting has its legs, all of them and no others.
THEOREM LegsAreWhole == Spec => []PostingsAreWhole
<1>1. LedgerInv => PostingsAreWhole
  BY DEF LedgerInv, Booked
<1> QED
  BY <1>1, LedgerInvariance, PTL

\* Validate adds in machine integers, with the overflow test of Add, and the trigger
\* in exact ones: no request that passes the first is refused by the second.
THEOREM TriggerNeverFires == Spec => []ValidateForesees
<1>1. LedgerInv => ValidateForesees
  BY DEF LedgerInv, Waiting, ValidateForesees
<1> QED
  BY <1>1, LedgerInvariance, PTL

-----------------------------------------------------------------------------
(* The refinement: what the promise sees of a state.                       *)

Made == [k \in Keys |-> EffectOf(k)]
Told == [c \in Callers |-> [status |-> out[c].status, ids |-> out[c].ids,
                            key |-> req[c].key, body |-> req[c].body]]

\* The effect of a key is its posting.
LEMMA EffectFacts ==
    ASSUME IInv, NEW k \in Keys
    PROVE  /\ \A p \in postings : p.key = k =>
                  EffectOf(k) = [body |-> p.body, ids |-> p.entryIDs] /\ EffectOf(k) # NoRow
           /\ (\A p \in postings : p.key # k) => EffectOf(k) = NoRow
<1>1. ASSUME NEW p \in postings, p.key = k
      PROVE  EffectOf(k) = [body |-> p.body, ids |-> p.entryIDs] /\ EffectOf(k) # NoRow
  <2>1. \A q \in postings : q.key = k => q = p
    BY <1>1 DEF IInv, Consistent, Recorded
  <2>2. (CHOOSE q \in postings : q.key = k) = p
    BY <1>1, <2>1
  <2>3. EffectOf(k) = [body |-> p.body, ids |-> p.entryIDs]
    BY <1>1, <2>2 DEF EffectOf
  <2>4. p.body \in Bodies /\ p.entryIDs \in Seq(Nat)
    BY <1>1 DEF IInv, TypeOK
  <2> QED
    BY <2>3, <2>4, PostingAssumption
<1>2. ASSUME \A p \in postings : p.key # k
      PROVE  EffectOf(k) = NoRow
  BY <1>2 DEF EffectOf
<1> QED
  BY <1>1, <1>2

\* A function that differs at one point, in two fields.
LEMMA TwoFields ==
    ASSUME NEW S, NEW f, NEW g, NEW c \in S, NEW x, NEW y,
           f = [d \in S |-> f[d]], g = [d \in S |-> g[d]],
           \A d \in S \ {c} : g[d] = f[d],
           g[c] = [f[c] EXCEPT !.status = x, !.ids = y]
    PROVE  g = [f EXCEPT ![c].status = x, ![c].ids = y]
<1> DEFINE h == [f EXCEPT ![c].status = x, ![c].ids = y]
<1>1. h = [d \in S |-> h[d]]
  OBVIOUS
<1>2. h[c] = [f[c] EXCEPT !.status = x, !.ids = y]
  OBVIOUS
<1>3. \A d \in S \ {c} : h[d] = f[d]
  OBVIOUS
<1>4. \A d \in S : h[d] = g[d]
  <2> HIDE DEF h
  <2> QED
    BY <1>2, <1>3
<1> HIDE DEF h
<1>5. h = g
  BY <1>1, <1>4
<1> QED
  BY <1>5 DEF h

\* A call that returns is, to the promise, an answer to a caller that waits.
LEMMA ReturnIsAnswer ==
    ASSUME TypeOK, Waiting, NEW c \in Callers, pc[c] # "idle", NEW status \in Statuses,
           NEW ids \in Seq(Nat), Return(c, status, ids)
    PROVE  /\ Promise!Answers(c, status)
           /\ Told'[c].ids = ids
<1>1. /\ out' = [out EXCEPT ![c] = [status |-> status, ids |-> ids]]
      /\ req' = req
      /\ out[c].status = "pending"
  BY DEF Return, Waiting
<1>2. \A d \in Callers \ {c} : Told'[d] = Told[d]
  BY <1>1 DEF Told, TypeOK
<1>3. Told'[c] = [status |-> status, ids |-> ids, key |-> req[c].key, body |-> req[c].body]
  BY <1>1 DEF Told, TypeOK
<1>4. Told[c] = [status |-> "pending", ids |-> out[c].ids, key |-> req[c].key, body |-> req[c].body]
  BY <1>1 DEF Told
<1>5. Told' = [d \in Callers |-> Told'[d]] /\ Told = [d \in Callers |-> Told[d]]
  BY DEF Told
<1>6. Told' = [Told EXCEPT ![c].status = status, ![c].ids = Told'[c].ids]
  <2>1. ASSUME NEW r, r = Told[c]
        PROVE  [r EXCEPT !.status = status, !.ids = ids] =
                   [status |-> status, ids |-> ids, key |-> req[c].key, body |-> req[c].body]
    <3>1. r \in [status : Statuses, ids : Seq(Nat), key : Keys, body : Bodies]
      BY <1>4, <2>1 DEF TypeOK, Statuses
    <3>2. r.key = req[c].key /\ r.body = req[c].body
      BY <1>4, <2>1
    <3> DEFINE new == [r EXCEPT !.status = status, !.ids = ids]
    <3>3. /\ new \in [status : Statuses, ids : Seq(Nat), key : Keys, body : Bodies]
          /\ new.status = status /\ new.ids = ids /\ new.key = r.key /\ new.body = r.body
      BY <3>1
    <3> HIDE DEF new
    <3>4. new = [status |-> status, ids |-> ids, key |-> req[c].key, body |-> req[c].body]
      BY <3>2, <3>3
    <3> QED
      BY <3>4 DEF new
  <2>2. Told'[c] = [Told[c] EXCEPT !.status = status, !.ids = ids]
    BY <1>3, <2>1
  <2>3. Told'[c].ids = ids
    BY <1>3
  <2>4. Told' = [Told EXCEPT ![c].status = status, ![c].ids = ids]
    BY <1>2, <1>5, <2>2, TwoFields
  <2> QED
    BY <2>3, <2>4
<1>7. Told[c].status = "pending"
  BY <1>4
<1> QED
  BY <1>3, <1>6, <1>7 DEF Promise!Answers, Told

\* A call of Post asks.
LEMMA CallAsks ==
    ASSUME TypeOK, Waiting, NEW c \in Callers, NEW k \in Keys, NEW b \in Bodies, Call(c, k, b)
    PROVE  Promise!Ask(c, k, b)
<1>1. PICK status \in {"pending", "invalid"} :
          /\ out' = [out EXCEPT ![c] = [status |-> status, ids |-> <<>>]]
          /\ req' = [req EXCEPT ![c] = [key |-> k, body |-> b]]
          /\ postings' = postings
  BY DEF Call, tables
<1>2. Told[c].status \in Promise!Finished
  <2>1. out[c].status \in Statuses \ {"pending", "unbalanced"}
    BY DEF Waiting, Call
  <2> QED
    BY <2>1 DEF Told, Statuses, Promise!Finished, Promise!Answered
<1>3. \A d \in Callers \ {c} : Told'[d] = Told[d]
  BY <1>1 DEF Told, TypeOK
<1>4. Told'[c] = [status |-> status, ids |-> <<>>, key |-> k, body |-> b]
  BY <1>1 DEF Told, TypeOK
<1>5. Told' = [d \in Callers |-> Told'[d]] /\ Told = [d \in Callers |-> Told[d]]
  BY DEF Told
<1>6. Told' = [Told EXCEPT ![c] = [status |-> status, key |-> k, body |-> b, ids |-> Told'[c].ids]]
  <2>1. Told'[c] = [status |-> status, key |-> k, body |-> b, ids |-> Told'[c].ids]
    BY <1>4
  <2> QED
    BY <1>3, <1>5, <2>1
<1>7. Made' = Made
  BY <1>1 DEF Made, EffectOf
<1> QED
  BY <1>2, <1>6, <1>7 DEF Promise!Ask, Told, Made

\* A call that fails gives up, and leaves no effect.
LEMMA FailGivesUp ==
    ASSUME TypeOK, Waiting, NEW c \in Callers, pc[c] # "idle", Return(c, "error", <<>>),
           UNCHANGED tables
    PROVE  Promise!GiveUp(c)
<1>1. Promise!Answers(c, "error")
  <2>1. "error" \in Statuses /\ <<>> \in Seq(Nat)
    BY DEF Statuses
  <2> QED
    BY <2>1, ReturnIsAnswer
<1>2. Made' = Made
  BY DEF Made, EffectOf, tables
<1> QED
  BY <1>1, <1>2 DEF Promise!GiveUp, Made

\* COMMIT is the effect, whether or not its acknowledgement arrives.
LEMMA CommitIsEffect ==
    ASSUME IInv, IInv', Waiting, NEW c \in Callers, pc[c] = "commit", Apply(c),
           \/ Return(c, "created", tx[c].entryIDs)
           \/ Return(c, "error", <<>>)
    PROVE  Promise!Effect(c)
<1> DEFINE k == req[c].key
           row == [body |-> req[c].body, ids |-> tx[c].entryIDs]
<1>1. /\ k \in Keys /\ req[c].body \in Bodies /\ tx[c].entryIDs \in Seq(Nat) /\ <<>> \in Seq(Nat)
      /\ TypeOK
  <2>1. TypeOK
    BY DEF IInv
  <2>2. req[c] \in [key : Keys, body : Bodies]
        /\ tx[c] \in [entryIDs : Seq(Nat), outboxID : Nat, response : Seq(Nat)]
    BY <2>1 DEF TypeOK
  <2> QED
    BY <2>1, <2>2
<1>2. /\ postings' = postings \cup {PostingRow(c)}
      /\ PostingRow(c).key = k /\ PostingRow(c).body = req[c].body
      /\ PostingRow(c).entryIDs = tx[c].entryIDs
  BY DEF Apply, PostingRow
<1>3. \A p \in postings : p.key # k
  BY <1>1 DEF IInv, Consistent, Claims, Recorded, Claimed
<1>4. Made[k] = NoRow
  BY <1>1, <1>3, EffectFacts DEF Made
<1>5. row # NoRow
  BY <1>1, PostingAssumption
<1>6. ASSUME NEW j \in Keys, j # k
      PROVE  Made'[j] = Made[j]
  <2>1. \A p : p \in postings' /\ p.key = j <=> p \in postings /\ p.key = j
    BY <1>2, <1>6
  <2>2. (\E p \in postings' : p.key = j) <=> (\E p \in postings : p.key = j)
    BY <2>1
  <2>3. (CHOOSE p \in postings' : p.key = j) = (CHOOSE p \in postings : p.key = j)
    BY <2>1
  <2> QED
    BY <2>2, <2>3 DEF Made, EffectOf
<1>7. req' = req
  BY DEF Return
<1>8. Made'[k] = row
  <2>1. \A p, q \in postings' : p.key = q.key => p = q
    BY DEF IInv, Consistent, Recorded
  <2>2. /\ \E p \in postings' : p.key = k
        /\ (CHOOSE p \in postings' : p.key = k) = PostingRow(c)
    BY <1>2, <2>1
  <2> HIDE DEF k
  <2> QED
    BY <1>1, <1>2, <2>2 DEF Made, EffectOf
<1>9. Made' = [Made EXCEPT ![k] = [body |-> req[c].body, ids |-> Made'[k].ids]]
  <2>1. Made' = [j \in Keys |-> Made'[j]] /\ Made = [j \in Keys |-> Made[j]]
    BY DEF Made
  <2>2. Made'[k] = [body |-> req[c].body, ids |-> Made'[k].ids]
    BY <1>8
  <2> HIDE DEF k
  <2> QED
    BY <1>1, <1>6, <2>1, <2>2
<1>10. Told[c].key = k /\ Told[c].body = req[c].body
  BY DEF Told
<1>11. "created" \in Statuses /\ "error" \in Statuses
  BY DEF Statuses
<1>12. \/ Promise!Answers(c, "created") /\ Told'[c].ids = Made'[k].ids
       \/ Promise!Answers(c, "error")
  <2>1. Made'[k].ids = tx[c].entryIDs
    BY <1>8
  <2>2. pc[c] # "idle"
    OBVIOUS
  <2> HIDE DEF k
  <2> QED
    BY <1>1, <1>11, <2>1, <2>2, ReturnIsAnswer
<1> QED
  BY <1>4, <1>5, <1>8, <1>9, <1>10, <1>12 DEF Promise!Effect, Made, Told

\* A replay repeats the effect of the key, or refuses another body.
LEMMA ReplayRepeats ==
    ASSUME IInv, Waiting, NEW c \in Callers, Replay(c)
    PROVE  Promise!Repeat(c)
<1> DEFINE k == req[c].key
           row == idem[k]
<1>1. /\ k \in Keys /\ attempt[c] = 0 /\ row # NoRow /\ row.response # <<>> /\ pc[c] # "idle"
      /\ TypeOK
  BY DEF IInv, Consistent, TypeOK, Replay, Replays, Recorded
<1>2. PICK p \in postings : p.key = k
  BY <1>1 DEF IInv, Consistent, Recorded
<1>3. row.hash = p.body /\ row.response = p.entryIDs /\ p.entryIDs \in Seq(Nat)
  BY <1>2 DEF IInv, Consistent, Recorded, TypeOK
<1>4. \/ row.hash # req[c].body /\ Return(c, "mismatch", <<>>)
      \/ row.hash = req[c].body /\ Return(c, "replayed", row.response)
  BY <1>1 DEF Replay, ReplayStatus
<1>5. Made[k] = [body |-> p.body, ids |-> p.entryIDs] /\ Made[k] # NoRow
  BY <1>1, <1>2, EffectFacts DEF Made
<1>6. Made[k].body = p.body /\ Made[k].ids = p.entryIDs
  BY <1>5
<1>7. Made' = Made
  BY DEF Replay, tables, Made, EffectOf
<1>8. Told[c].key = k /\ Told[c].body = req[c].body
  BY DEF Told
<1>9. {"mismatch", "replayed"} \subseteq Statuses /\ <<>> \in Seq(Nat)
  BY DEF Statuses
<1> HIDE DEF row
<1>10. \/ Made[k].body = req[c].body /\ Promise!Answers(c, "replayed") /\ Told'[c].ids = Made[k].ids
       \/ Made[k].body # req[c].body /\ Promise!Answers(c, "mismatch")
  BY <1>1, <1>3, <1>4, <1>6, <1>9, ReturnIsAnswer
<1> QED
  BY <1>5, <1>7, <1>8, <1>10 DEF Promise!Repeat, Made, Told

\* Every step of Post is a step of the promise or leaves it alone.
LEMMA PromiseStep ==
    ASSUME IInv, IInv', LedgerInv, [Next]_vars
    PROVE  [Promise!Next]_(Promise!vars)
<1>1. TypeOK /\ Waiting /\ Building
  BY DEF IInv, LedgerInv
<1>2. ASSUME UNCHANGED <<out, req, postings>>
      PROVE  UNCHANGED Promise!vars
  BY <1>2 DEF Promise!vars, EffectOf
<1>3. ASSUME NEW c \in Callers, NEW k \in Keys, NEW b \in Bodies, Call(c, k, b)
      PROVE  Promise!Next
  BY <1>1, <1>3, CallAsks DEF Promise!Next
<1>4. ASSUME NEW c \in Callers,
             \/ ClaimIdempotencyKey(c) \/ InsertPosting(c) \/ InsertEntry(c)
             \/ InsertOutbox(c) \/ CompleteIdempotency(c) \/ Fail(c)
      PROVE  [Promise!Next]_(Promise!vars)
  <2>1. /\ UNCHANGED tables /\ pc[c] # "idle"
        /\ \/ Return(c, "error", <<>>)
           \/ UNCHANGED <<out, req>>
    BY <1>4 DEF ClaimIdempotencyKey, InsertPosting, InsertEntry, InsertOutbox,
                CompleteIdempotency, Fail, Goto, Running, Open, Claimed
  <2>2. CASE Return(c, "error", <<>>)
    BY <1>1, <2>1, <2>2, FailGivesUp DEF Promise!Next
  <2>3. CASE UNCHANGED <<out, req>>
    BY <1>2, <2>1, <2>3 DEF tables
  <2> QED
    BY <2>1, <2>2, <2>3
<1>5. ASSUME NEW c \in Callers, Commit(c) \/ CommitUnacknowledged(c)
      PROVE  Promise!Next
  <2>1. pc[c] = "commit"
    BY <1>5 DEF Commit, CommitUnacknowledged
  <2>2. ZeroSum(EntryRows(c))
    BY <1>1, <2>1, CommitRows
  <2>3. /\ Apply(c)
        /\ Return(c, "created", tx[c].entryIDs) \/ Return(c, "error", <<>>)
    BY <1>5, <2>2 DEF Commit, CommitUnacknowledged
  <2>4. Promise!Effect(c)
    BY <1>1, <2>1, <2>3, CommitIsEffect
  <2> QED
    BY <2>4 DEF Promise!Next
<1>6. ASSUME NEW c \in Callers, Replay(c)
      PROVE  Promise!Next
  BY <1>1, <1>6, ReplayRepeats DEF Promise!Next
<1>7. CASE UNCHANGED vars
  BY <1>2, <1>7 DEF vars
<1> QED
  BY <1>3, <1>4, <1>5, <1>6, <1>7 DEF Next, Statement, Terminating

LEMMA PromiseInit == Init => Promise!Init
<1> SUFFICES ASSUME Init
             PROVE  Promise!Init
  OBVIOUS
<1>1. \A k \in Keys : EffectOf(k) = NoRow
  BY DEF Init, EffectOf
<1>2. \A c \in Callers : out[c].status = "none"
  BY DEF Init, NoOutcome
<1> QED
  BY <1>1, <1>2 DEF Promise!Init

\* The write path, with its transactions, its races, its failures and its lost
\* acknowledgements, implements the promise of the idempotent ledger: the refinement
\* mapping reads a key's effect off its posting.
THEOREM WritePathKeepsPromise == Spec => KeepsPromise
<1>1. IInv /\ LedgerInv /\ IInv' /\ [Next]_vars => [Promise!Next]_(Promise!vars)
  BY PromiseStep
<1> QED
  BY <1>1, PromiseInit, LedgerInvariance, PTL DEF Spec, KeepsPromise, Promise!Spec

-----------------------------------------------------------------------------
\* The overflow test of money.Add, which Validate's sum of the legs is made of, for
\* machine integers of any width, and a caller of money as MoneyCalc has it.

\* A sum of two machine integers wraps at most once, and back into the range.
LEMMA WrapInRange ==
    ASSUME NEW x \in Int64, NEW y \in Int64
    PROVE  /\ Wrap(x + y) \in Int64
           /\ Wrap(-x) \in Int64
BY MaxMinorAssumption DEF Wrap, Int64, MinMinor

\* The sign test of Add is the range test: it reports every overflow and no sum
\* that fits.
LEMMA SignTestIsExact ==
    ASSUME NEW x \in Int64, NEW y \in Int64
    PROVE  Overflows(x, y) <=> x + y \notin Int64
<1>1. CASE x + y > MaxMinor
  <2>1. Wrap(x + y) = x + y - (2 * MaxMinor + 2)
    BY <1>1, MaxMinorAssumption DEF Wrap, Int64, MinMinor
  <2>2. x > 0 /\ y > 0 /\ Wrap(x + y) <= 0
    BY <1>1, <2>1, MaxMinorAssumption DEF Int64, MinMinor
  <2> QED
    BY <1>1, <2>2, MaxMinorAssumption DEF Overflows, Int64, MinMinor
<1>2. CASE x + y < MinMinor
  <2>1. Wrap(x + y) = x + y + (2 * MaxMinor + 2)
    BY <1>2, MaxMinorAssumption DEF Wrap, Int64, MinMinor
  <2>2. x < 0 /\ y < 0 /\ Wrap(x + y) >= 0
    BY <1>2, <2>1, MaxMinorAssumption DEF Int64, MinMinor
  <2> QED
    BY <1>2, <2>2, MaxMinorAssumption DEF Overflows, Int64, MinMinor
<1>3. CASE x + y \in Int64
  <2>1. Wrap(x + y) = x + y
    BY <1>3, MaxMinorAssumption DEF Wrap, Int64, MinMinor
  <2> QED
    BY <1>3, <2>1, MaxMinorAssumption DEF Overflows, Int64, MinMinor
<1> QED
  BY <1>1, <1>2, <1>3, MaxMinorAssumption DEF Int64, MinMinor

\* An amount that New accepts has a negation, and Neg returns it.
LEMMA NegIsExact ==
    ASSUME NEW x \in Int64, Representable(x)
    PROVE  Neg(x) = -x /\ Neg(x) \in Int64
BY MaxMinorAssumption DEF Neg, Wrap, Representable, Int64, MinMinor

\* Amounts computed by New, Add, Sub and Neg in any order are machine integers.
THEOREM MoneyTypeCorrect == CalcSpec => []CalcTypeOK
<1>1. CalcInit => CalcTypeOK
  BY MaxMinorAssumption DEF CalcInit, CalcTypeOK, Int64, MinMinor
<1>2. CalcTypeOK /\ [CalcNext]_calc => CalcTypeOK'
  <2> SUFFICES ASSUME CalcTypeOK, [CalcNext]_calc
               PROVE  CalcTypeOK'
    OBVIOUS
  <2>1. ASSUME NEW minor \in Int64, New(minor)
        PROVE  CalcTypeOK'
    BY <2>1 DEF CalcTypeOK, New
  <2>2. CASE Add
    BY <2>2, WrapInRange DEF CalcTypeOK, Add
  <2>3. CASE Sub
    <3>1. Neg(operand) \in Int64
      BY WrapInRange DEF CalcTypeOK, Neg
    <3>2. Wrap(amount + Neg(operand)) \in Int64
      BY <3>1, WrapInRange DEF CalcTypeOK
    <3> QED
      BY <2>3, <3>2 DEF CalcTypeOK, Sub
  <2>4. CASE Negate
    BY <2>4, WrapInRange DEF CalcTypeOK, Negate, Neg
  <2>5. CASE Reuse
    BY <2>5 DEF CalcTypeOK, Reuse
  <2>6. CASE UNCHANGED calc
    BY <2>6 DEF CalcTypeOK, calc
  <2> QED
    BY <2>1, <2>2, <2>3, <2>4, <2>5, <2>6 DEF CalcNext
<1> QED
  BY <1>1, <1>2, PTL DEF CalcSpec

\* Add reports ErrOverflow exactly when the sum does not fit, at every width.
THEOREM OverflowExact == CalcSpec => []OverflowIsExact
<1>1. CalcTypeOK => OverflowIsExact
  BY SignTestIsExact DEF CalcTypeOK, OverflowIsExact
<1> QED
  BY <1>1, MoneyTypeCorrect, PTL

\* Sub reports ErrOverflow exactly when the difference does not fit, for every
\* operand that New accepts.
THEOREM SubExact == CalcSpec => []SubIsExact
<1>1. CalcTypeOK => SubIsExact
  <2> SUFFICES ASSUME CalcTypeOK, Representable(operand)
               PROVE  Overflows(amount, Neg(operand)) <=> amount - operand \notin Int64
    BY DEF SubIsExact
  <2>1. Neg(operand) = -operand /\ Neg(operand) \in Int64
    BY NegIsExact DEF CalcTypeOK
  <2>2. Overflows(amount, Neg(operand)) <=> amount + Neg(operand) \notin Int64
    BY <2>1, SignTestIsExact DEF CalcTypeOK
  <2>3. amount + Neg(operand) = amount - operand
    BY <2>1 DEF CalcTypeOK, Int64, MinMinor
  <2> QED
    BY <2>2, <2>3
<1> QED
  BY <1>1, MoneyTypeCorrect, PTL

\* Only the negation of math.MinInt64 makes a result wrong, at every width.
THEOREM OnlyMinInexact == CalcSpec => OnlyMinIsInexact
<1>1. CalcTypeOK /\ [CalcNext]_calc =>
          [exact /\ ~exact' => MinMinor \in {amount, operand}]_calc
  <2> SUFFICES ASSUME CalcTypeOK, CalcNext, exact, ~exact',
                      MinMinor \notin {amount, operand}
               PROVE  FALSE
    OBVIOUS
  <2>0. /\ amount \in Int64 /\ operand \in Int64
        /\ Representable(amount) /\ Representable(operand)
    BY MaxMinorAssumption DEF CalcTypeOK, Representable, Int64, MinMinor
  <2>1. CASE Add
    <3>1. amount + operand \in Int64
      BY <2>1, <2>0, SignTestIsExact DEF Add
    <3>2. Wrap(amount + operand) = amount + operand
      BY <3>1, MaxMinorAssumption DEF Wrap, Int64, MinMinor
    <3> QED
      BY <2>1, <3>2 DEF Add
  <2>2. CASE Sub
    <3>1. Neg(operand) = -operand /\ Neg(operand) \in Int64
      BY <2>0, NegIsExact
    <3>2. amount + Neg(operand) \in Int64
      BY <2>2, <2>0, <3>1, SignTestIsExact DEF Sub
    <3>3. Wrap(amount + Neg(operand)) = amount - operand
      BY <2>0, <3>1, <3>2, MaxMinorAssumption DEF Wrap, Int64, MinMinor
    <3> QED
      BY <2>2, <3>3 DEF Sub
  <2>3. CASE Negate
    <3>1. Neg(amount) = -amount
      BY <2>0, NegIsExact
    <3> QED
      BY <2>3, <3>1 DEF Negate
  <2>4. ASSUME NEW minor \in Int64, New(minor)
        PROVE  FALSE
    BY <2>4 DEF New
  <2>5. CASE Reuse
    BY <2>5 DEF Reuse
  <2> QED
    BY <2>1, <2>2, <2>3, <2>4, <2>5 DEF CalcNext
<1> QED
  BY <1>1, MoneyTypeCorrect, PTL DEF CalcSpec, OnlyMinIsInexact
=============================================================================
