------------------------------- MODULE MCServices -------------------------------
(***************************************************************************)
(* Three services of the process that share no state: the connection pool, *)
(* the event server and the generator of order ids.  subject says which of *)
(* them a behaviour is about; the others do not move.                      *)
(***************************************************************************)
EXTENDS MySQLPool, SSEServer, Snowflake

VARIABLE subject

serviceVars == <<poolVars, sseVars, vars, subject>>

\* The pool may start with any connections it could make: one start is enough
\* where it does not move.
ServicesInit ==
    /\ PoolInit /\ SSEInit /\ Init
    /\ subject \in {"pool", "sse", "ids"}
    /\ subject # "pool" => idle = <<>>

Only(s, Step) == subject = s /\ Step /\ UNCHANGED subject

OnPool(Step) == Only("pool", Step) /\ UNCHANGED <<sseVars, vars>>
OnSSE(Step) == Only("sse", Step) /\ UNCHANGED <<poolVars, vars>>
OnIds(Step) == Only("ids", Step) /\ UNCHANGED <<poolVars, sseVars>>

ServicesNext == OnPool(PoolNext) \/ OnSSE(SSENext) \/ OnIds(Next)

\* A caller that waits goes on when it can, and its three seconds pass however
\* often it is woken; pings and connection attempts end.
PoolFairness ==
    \A c \in Callers :
        WF_serviceVars(OnPool(PoolStep(c))) /\ SF_serviceVars(OnPool(Expire(c)))

\* The server thread and main go on; a client in recv owes nothing.
SSEFairness == WF_serviceVars(OnSSE(LoopStep)) /\ WF_serviceVars(OnSSE(StopStep))

FairSpec ==
    ServicesInit /\ [][ServicesNext]_serviceVars /\ PoolFairness /\ SSEFairness
================================================================================
