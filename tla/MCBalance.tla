----------------------------- MODULE MCBalance -----------------------------
(***************************************************************************)
(* A small instance of Balance.  The callers of PlaceHold are alike.       *)
(***************************************************************************)
EXTENDS Balance, TLC

Symmetry == Permutations(Placers)
=============================================================================
