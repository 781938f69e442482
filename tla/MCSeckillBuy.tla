------------------------------ MODULE MCSeckillBuy ------------------------------
(***************************************************************************)
(* A small sale: two users, one of whom has two requests in flight.        *)
(***************************************************************************)
EXTENDS SeckillBuy, TLC

CONSTANTS r1, r2, r3, u1, u2

MCRequests == {r1, r2, r3}
MCUsers == {u1, u2}
MCUserOf == [r \in MCRequests |-> IF r = r3 THEN u2 ELSE u1]

\* The two requests of u1 differ in nothing but their name.
MCSymmetry == Permutations({r1, r2})
================================================================================
