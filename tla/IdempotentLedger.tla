-------------------------- MODULE IdempotentLedger --------------------------
(***************************************************************************)
(* What the write path promises (FR-L1): a key is used at most once, every *)
(* caller that is told its posting succeeded is told the same result, a    *)
(* key reused with another body is refused, and an error leaves the caller *)
(* free to ask again.  No database, no transactions.                       *)
(***************************************************************************)
CONSTANTS Callers,   \* concurrent callers of Post
          Keys,      \* (principal, idempotency key) pairs
          Bodies     \* request bodies

CONSTANT NoEffect    \* the value of a key that was never used

VARIABLES effect,    \* for each key, the body it was used for and the result
          answer     \* for each caller, its last request and the answer to it

vars == <<effect, answer>>

Answered == {"created", "replayed"}
Finished == Answered \cup {"mismatch", "invalid", "error", "none"}

Init == /\ effect = [k \in Keys |-> NoEffect]
        /\ \A c \in Callers : answer[c].status = "none"

\* Only the answer of caller c changes, and not to another request.
Answers(c, status) ==
    /\ answer[c].status = "pending"
    /\ answer' = [answer EXCEPT ![c].status = status, ![c].ids = answer'[c].ids]

\* A caller asks; a request that cannot be a posting is refused at once.
Ask(c, k, b) ==
    /\ answer[c].status \in Finished
    /\ \E status \in {"pending", "invalid"} :
           answer' = [answer EXCEPT ![c] = [status |-> status, key |-> k,
                                            body |-> b, ids |-> answer'[c].ids]]
    /\ UNCHANGED effect

\* The one effect of a key, made while its caller is still waiting; the answer
\* may be lost.
Effect(c) ==
    LET k == answer[c].key
    IN  /\ effect[k] = NoEffect
        /\ effect'[k] # NoEffect
        /\ effect' = [effect EXCEPT ![k] = [body |-> answer[c].body,
                                            ids  |-> effect'[k].ids]]
        /\ \/ Answers(c, "created") /\ answer'[c].ids = effect'[k].ids
           \/ Answers(c, "error")

\* A key used before gives the same result to the same body, and a refusal to
\* another one.
Repeat(c) ==
    LET e == effect[answer[c].key]
    IN  /\ e # NoEffect
        /\ \/ e.body = answer[c].body /\ Answers(c, "replayed") /\ answer'[c].ids = e.ids
           \/ e.body # answer[c].body /\ Answers(c, "mismatch")
        /\ UNCHANGED effect

GiveUp(c) == Answers(c, "error") /\ UNCHANGED effect

Next == \E c \in Callers :
            \/ \E k \in Keys, b \in Bodies : Ask(c, k, b)
            \/ Effect(c)
            \/ Repeat(c)
            \/ GiveUp(c)

Spec == Init /\ [][Next]_vars
=============================================================================
