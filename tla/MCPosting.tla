----------------------------- MODULE MCPosting -----------------------------
(***************************************************************************)
(* A small instance of Posting: two callers, three keys two of which share *)
(* a posting id, and bodies that are good, good and different, unbalanced  *)
(* and on an account that does not exist.                                  *)
(***************************************************************************)
EXTENDS Posting

MCAccounts == {"alice", "bob"}

Leg(account, amount) == [account |-> account, amount |-> amount]

MCLegs == [good    |-> <<Leg("alice", 2), Leg("bob", -2)>>,
           other   |-> <<Leg("bob", 3), Leg("alice", -3)>>,
           lopside |-> <<Leg("alice", 2), Leg("bob", -1)>>,
           unknown |-> <<Leg("alice", 1), Leg("carol", -1)>>]

MCBodies == DOMAIN MCLegs

MCPostingIDFor == [key1 |-> "id1", key2 |-> "id1", key3 |-> "id3"]

MCKeys == DOMAIN MCPostingIDFor
=============================================================================
