----------------------------- MODULE MCService -----------------------------
(* Two migrations.  With the in-process bus two ledgers on one database race, and
   one client; with a broker two clients race for the connections of one ledger.
   The restrictions are on Start and Send, which have no fairness. *)
EXTENDS Service

MCVersions == 1 .. 2

MCNext == /\ Next
          /\ bus = "fake" => req'["c2"] = req["c2"]
          /\ bus = "kafka" => /\ pc'["p2"] = "off" /\ starts' <= 1
                              /\ \A c \in Clients : req'[c].flaw = "none"

MCSpec == Init /\ [][MCNext]_vars /\ Fairness
=============================================================================
