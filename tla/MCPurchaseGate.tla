----------------------------- MODULE MCPurchaseGate -----------------------------
(***************************************************************************)
(* Two requests of one user at one address, against a bucket of one or two *)
(* tokens and windows of one entry or none; a SIGHUP finds a thread that   *)
(* serves one of them, which waits until its handler is through.           *)
(***************************************************************************)
EXTENDS PurchaseGate, TLC

CONSTANTS r1, r2, u1, i1

MCRequests == {r1, r2}
MCIpOf == [r \in MCRequests |-> i1]
MCUserOf == [r \in MCRequests |-> u1]

MCDefault == [rate |-> 1000, capacity |-> 1, size |-> 2, max |-> 1,
              userSize |-> 1, userMax |-> 1, tokenRequired |-> FALSE]
MCTargets == {r1, r2}

\* The two requests differ in nothing but their name.
MCSymmetry == Permutations(MCRequests)
\* Two values of each section but user_window, in every combination.
MCSettings ==
    {s \in [rate : {1000, -1}, capacity : {1, 2}, size : {1, 2}, max : {0, 1},
             userSize : {1}, userMax : {1}, tokenRequired : BOOLEAN] :
        /\ s.rate = 1000 <=> s.capacity = 1
        /\ s.size = 2 <=> s.max = 1}
================================================================================
