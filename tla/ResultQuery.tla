------------------------------ MODULE ResultQuery ------------------------------
(***************************************************************************)
(* GET /api/seckill/result, with which a buyer who missed the SSE event    *)
(* asks what became of a purchase: the key seckill:result:<user>:<product> *)
(* in Redis first, then the orders table.                                  *)
(*                                                                         *)
(* The module composes the query with OrderPipeline, which fills both.  It *)
(* follows one user, who buys each of the products again after the order   *)
(* before was cancelled; a message of the pipeline is an order of that     *)
(* user.  No order is number 0.                                            *)
(***************************************************************************)
EXTENDS OrderPipeline

CONSTANTS
    Products,
    QueryLimit  \* LIMIT of the query (100 in the code)

ASSUME QueryLimitAssumption == QueryLimit \in Nat \ {0}

VARIABLES
    goods,      \* the product of each order
    cancelled,  \* orders whose row says so
    result,     \* the key of each product: an order, or 0 when there is none
    asking,     \* products whose query has missed the key and is to SELECT
    answer      \* the last answer for each product: an order, or 0 for "pending"

queryVars == <<goods, cancelled, result, asking, answer>>
allVars == <<vars, queryVars>>

\* The servers are started when the recovery is over.
Serving == pc \in {"poll", "parse", "insert", "notify", "ack"}

OrdersOf(p) == {m \in Messages : goods[m] = p}

--------------------------------------------------------------------------------
(* The pipeline around the query. *)

\* The script sells to a user who is not in the set of buyers; a cancellation
\* takes the user out of it.
MayBuy(p) == \A m \in OrdersOf(p) : m <= last => m \in cancelled

Keyed_IfAbsent(new) ==
    [p \in Products |-> IF result[p] = 0 /\ new \cap OrdersOf(p) # {}
                        THEN CHOOSE m \in new \cap OrdersOf(p) : TRUE
                        ELSE result[p]]

\* SETEX overwrites the key of the order's product.
Keyed(new) ==
    [p \in Products |-> IF new \cap OrdersOf(p) # {}
                        THEN CHOOSE m \in new \cap OrdersOf(p) : TRUE
                        ELSE result[p]]

\* A step of the stream or of the OrderProcessor.  Queries die with the process.
Pipeline ==
    /\ Next
    /\ last' > last => MayBuy(goods[last'])
    /\ result' = Keyed(cache' \ cache)
    /\ asking' = IF pc' = "down" THEN {} ELSE asking
    /\ UNCHANGED <<goods, cancelled, answer>>

\* A cancellation by the user or by the TimeoutChecker, which OrderLifecycle has
\* in detail.  It leaves the key alone.
Cancel(m) ==
    /\ Serving /\ m \in db \ cancelled
    /\ cancelled' = cancelled \cup {m}
    /\ UNCHANGED <<vars, goods, result, asking, answer>>

\* The hour of the key is over.
KeyExpires(p) ==
    /\ result[p] # 0
    /\ result' = [result EXCEPT ![p] = 0]
    /\ UNCHANGED <<vars, goods, cancelled, asking, answer>>

--------------------------------------------------------------------------------
(* handle_seckill_result. *)

Answer(p, m) == answer' = [answer EXCEPT ![p] = m]

\* GET finds the key.
AskHit(p) ==
    /\ Serving /\ p \notin asking /\ result[p] # 0
    /\ Answer(p, result[p])
    /\ UNCHANGED <<vars, goods, cancelled, result, asking>>

\* GET finds nothing, or fails, which RedisService::get does not tell apart.
AskMiss(p) ==
    /\ Serving /\ p \notin asking
    /\ IF result[p] = 0 THEN UNCHANGED faults ELSE Fault
    /\ asking' = asking \cup {p}
    /\ UNCHANGED <<stream, delivered, pel, outside, pc, conn, todo, ready, history,
                   crashes, goods, cancelled, result, answer>>

\* The rows of SELECT ... WHERE user_id LIMIT: there is no ORDER BY.
Rows == {R \in SUBSET db : Cardinality(R) = Earlier(Cardinality(db), QueryLimit)}

\* The first row for the product is the answer.
SelectFound(p) ==
    /\ p \in asking
    /\ \E R \in Rows : \E m \in R \cap OrdersOf(p) : Answer(p, m)
    /\ asking' = asking \ {p}
    /\ UNCHANGED <<vars, goods, cancelled, result>>

\* No such row, or no result at all: get_orders_by_user returns an empty list
\* when it fails.
SelectNone(p) ==
    /\ p \in asking
    /\ IF \E R \in Rows : R \cap OrdersOf(p) = {} THEN UNCHANGED faults ELSE Fault
    /\ Answer(p, 0)
    /\ asking' = asking \ {p}
    /\ UNCHANGED <<stream, delivered, pel, outside, pc, conn, todo, ready, history,
                   crashes, goods, cancelled, result>>

--------------------------------------------------------------------------------
QueryInit ==
    /\ Init
    /\ goods \in [Messages -> Products]
    /\ cancelled = {} /\ asking = {}
    /\ result = [p \in Products |-> 0]
    /\ answer = [p \in Products |-> 0]

QueryNext ==
    \/ Pipeline
    \/ \E m \in Messages : Cancel(m)
    \/ \E p \in Products : KeyExpires(p) \/ AskHit(p) \/ AskMiss(p)
                           \/ SelectFound(p) \/ SelectNone(p)

QuerySpec == QueryInit /\ [][QueryNext]_allVars

--------------------------------------------------------------------------------
(* Properties. *)

\* The values the variables take.
QueryTypeOK ==
    /\ TypeOK
    /\ goods \in [Messages -> Products]
    /\ cancelled \subseteq db
    /\ result \in [Products -> Messages \cup {0}]
    /\ asking \subseteq Products
    /\ answer \in [Products -> Messages \cup {0}]

\* A buyer who was once shown an order of a product is not told "pending" later,
\* over the expiry of the key, crashes and redeliveries: the key speaks of
\* orders that have a row, and rows stay.  The ways out are a SELECT that
\* fails just then, an order whose batch INSERT had failed before the key was
\* written, and a user with more rows than the SELECT returns.
NeverUnsaid ==
    [][\A p \in Products :
          answer[p] # 0 /\ answer'[p] = 0 =>
              \/ faults' > faults \/ answer[p] \in failed
              \/ Cardinality(db) > QueryLimit]_allVars

\* Orders for the product that are newer than the one its key speaks of.
Newer(p) == {m \in db \cap OrdersOf(p) : 0 < result[p] /\ result[p] < m}

\* A key that outlives the cancellation of its order is stale only while the
\* OrderProcessor is about to overwrite it, in a process that has seen neither
\* a fault nor a crash (the recovery stores orders without writing keys).
HitIsNewest ==
    faults = 0 /\ crashes = 0 =>
        \A p \in Products : Newer(p) # {} => pc = "notify" /\ Newer(p) \subseteq todo
================================================================================
