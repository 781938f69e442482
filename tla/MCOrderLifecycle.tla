---------------------------- MODULE MCOrderLifecycle ----------------------------
(***************************************************************************)
(* A user who orders again after a cancellation, and two handlers.         *)
(***************************************************************************)
EXTENDS OrderLifecycle, TLC

CONSTANTS h1, h2, u1

MCOrders == 1..2
MCUsers == {u1}
MCUserOf == [o \in MCOrders |-> u1]
MCHandlers == {h1, h2}

MCSymmetry == Permutations(MCHandlers)
================================================================================
