----------------------------- MODULE MCResultQuery -----------------------------
(***************************************************************************)
(* One user with three orders of two products, so that a product is bought  *)
(* again after a cancellation while the other one has an order too.         *)
(***************************************************************************)
EXTENDS ResultQuery, TLC

CONSTANTS p1, p2

MCProducts == {p1, p2}

\* The two products differ in nothing but their name.
MCSymmetry == Permutations(MCProducts)
================================================================================
