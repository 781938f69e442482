---------------------------- MODULE MCSeckillBuyLive ----------------------------
(***************************************************************************)
(* Two requests of different users, for liveness: without symmetry.        *)
(***************************************************************************)
EXTENDS SeckillBuy

CONSTANTS r1, r2, u1, u2

MCRequests == {r1, r2}
MCUsers == {u1, u2}
MCUserOf == [r \in MCRequests |-> IF r = r1 THEN u1 ELSE u2]
================================================================================
