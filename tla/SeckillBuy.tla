------------------------------- MODULE SeckillBuy -------------------------------
(***************************************************************************)
(* The purchase path of the server for one product: POST /api/seckill.     *)
(*                                                                         *)
(* An HTTP thread passes the gates (rate limits, parameters, token), takes *)
(* a unit from the in-process counter, sends the Lua script to Redis and   *)
(* returns; the Redis I/O thread runs the callback, which gives the unit   *)
(* back when the script did not sell and sends the HTTP response.          *)
(* The connection to Redis can fail with a command or a reply on it, the   *)
(* process can crash and restart, and an administrator starts and stops    *)
(* the sale while purchases are in flight.                                 *)
(*                                                                         *)
(* pc[r] is where the request is:                                          *)
(*   "idle"       not yet received                                         *)
(*   "check"      entering tryLocalPreDeduct                               *)
(*   "undo"       fetch_sub found no unit, fetch_add is still to come      *)
(*   "initread"   entering the lazy initLocalStock                         *)
(*   "initwrite"  GET has returned, the counter is still to be written     *)
(*   "retry"      second look at the counter, after the lazy init          *)
(*   "admitted"   tryLocalPreDeduct returned true                          *)
(*   "sent"       EVALSHA issued, the callback has not run                 *)
(*   "done"       answered                                                 *)
(*   "lost"       the process died with the request in it                  *)
(***************************************************************************)
EXTENDS Integers, FiniteSets

CONSTANTS
    Requests,    \* purchase requests, each with an order id of its own
    Users,
    UserOf,      \* the user_id of a request
    Cooldown,    \* TRUE iff request_cooldown_seconds > 0
    Absent,      \* a key Redis does not have, an entry the map does not have
    MaxStock,    \* bound: the largest stock an administrator sets
    MaxStarts,   \* bound: times an administrator sets the stock
    MaxCrashes   \* bound: crashes of the process

ASSUME RequestsAssumption == IsFiniteSet(Requests)
ASSUME UserOfAssumption == UserOf \in [Requests -> Users]
ASSUME CooldownAssumption == Cooldown \in BOOLEAN
ASSUME AbsentAssumption == Absent \notin Int
ASSUME BoundsAssumption ==
    MaxStock \in Nat /\ MaxStarts \in Nat /\ MaxCrashes \in Nat

VARIABLES
    \* Redis, which outlives the process
    stock,      \* seckill:stock:<product>, an integer or Absent
    buyers,     \* seckill:orders:<product>, the users who have bought
    cooling,    \* users with a live seckill:cooldown key
    stream,     \* requests whose order was added to seckill:stream:orders
    wire,       \* EVALSHA commands Redis may still execute
    \* the process
    up,
    local,      \* local_stock_map_[product], an integer or Absent
    pc,
    seen,       \* the stock a request's lazy initLocalStock has read
    result,     \* what the callback of the request will be given
    reply,      \* HTTP status sent, 0 before
    \* history
    issued,     \* units ever put on sale
    drift,      \* units on sale that the in-process counter was not told of
    starts, crashes

redis == <<stock, buyers, cooling, stream>>
process == <<local, pc, seen, result, reply>>
bounds == <<starts, crashes>>
vars == <<stock, buyers, cooling, stream, wire, up, local, pc, seen, result,
          reply, issued, drift, starts, crashes>>

PcStates == {"idle", "check", "undo", "initread", "initwrite", "retry",
             "admitted", "sent", "done", "lost"}
Results == {"none", "sold", "soldout", "duplicate", "cooldown", "error"}
Refusals == {400, 409, 410, 429, 500}   \* nothing was ordered
Replies == {0, 200, 503} \cup Refusals

--------------------------------------------------------------------------------
(* What both sides read. *)

\* tonumber(redis.call('get', KEYS[1]) or 0)
Level(s) == IF s = Absent THEN 0 ELSE s

Raise(old, new) == IF new > old THEN new - old ELSE 0

\* Some counter value was, or is about to be, taken from the stock key.
Watched == local # Absent \/ \E r \in Requests : pc[r] = "initwrite"

\* Requests that hold the shared lock between fetch_sub and fetch_add.
Undoing == {r \in Requests : pc[r] = "undo"}

\* Requests that passed the counter and may yet give their unit back.
Holders == {r \in Requests :
                \/ pc[r] = "admitted"
                \/ pc[r] = "sent" /\ result[r] # "sold"}

Goto(r, p) == pc' = [pc EXCEPT ![r] = p]

Finish(r, code) ==
    /\ Goto(r, "done")
    /\ reply' = [reply EXCEPT ![r] = code]

--------------------------------------------------------------------------------
(* Gates of handle_seckill, and the in-process counter. *)

\* The request passes the rate limits, the parameter check and the token
\* check, or one of them answers it (429, 400, 401, or 500 for an exception:
\* the model uses one code for the four).
Receive(r) ==
    /\ up /\ pc[r] = "idle"
    /\ \/ Goto(r, "check") /\ UNCHANGED reply
       \/ Finish(r, 400)
    /\ UNCHANGED <<redis, wire, up, local, seen, result, issued, drift, bounds>>

\* fetch_sub(1): the counter goes down even when it is exhausted.
TakeLocal(r) ==
    /\ local # Absent
    /\ local' = local - 1
    /\ Goto(r, IF local > 0 THEN "admitted" ELSE "undo")

\* First look of tryLocalPreDeduct.
PreDeduct(r) ==
    /\ pc[r] = "check"
    /\ \/ TakeLocal(r)
       \/ local = Absent /\ Goto(r, "initread") /\ UNCHANGED local
    /\ UNCHANGED <<redis, wire, up, seen, result, reply, issued, drift, bounds>>

UndoPreDeduct_NoAdd(r) ==
    /\ pc[r] = "undo"
    /\ Finish(r, 410)
    /\ UNCHANGED <<redis, wire, up, local, seen, result, issued, drift, bounds>>

\* fetch_add(1) after a fetch_sub that found nothing; the handler answers 410.
UndoPreDeduct(r) ==
    /\ pc[r] = "undo"
    /\ local' = local + 1
    /\ Finish(r, 410)
    /\ UNCHANGED <<redis, wire, up, seen, result, issued, drift, bounds>>

\* initLocalStock, first half: GET, outside the lock.  It may throw, which is
\* caught and logged.
InitRead(r) ==
    /\ pc[r] = "initread"
    /\ \/ Goto(r, "initwrite") /\ seen' = [seen EXCEPT ![r] = Level(stock)]
       \/ Goto(r, "retry") /\ UNCHANGED seen
    /\ UNCHANGED <<redis, wire, up, local, result, reply, issued, drift, bounds>>

\* initLocalStock, second half: the entry is replaced under the exclusive lock.
InitWrite(r) ==
    /\ pc[r] = "initwrite"
    /\ Undoing = {}
    /\ local' = seen[r]
    /\ seen' = [seen EXCEPT ![r] = 0]
    /\ Goto(r, "retry")
    /\ UNCHANGED <<redis, wire, up, result, reply, issued, drift, bounds>>

RetryPreDeduct_Loop(r) ==
    /\ pc[r] = "retry"
    /\ \/ TakeLocal(r)
       \/ local = Absent /\ Goto(r, "initread") /\ UNCHANGED local
    /\ UNCHANGED <<redis, wire, up, seen, result, reply, issued, drift, bounds>>

\* Second look of tryLocalPreDeduct: without an entry the request goes on.
RetryPreDeduct(r) ==
    /\ pc[r] = "retry"
    /\ \/ TakeLocal(r)
       \/ local = Absent /\ Goto(r, "admitted") /\ UNCHANGED local
    /\ UNCHANGED <<redis, wire, up, seen, result, reply, issued, drift, bounds>>

--------------------------------------------------------------------------------
(* The Lua script, its callback, and the ways a call can go wrong. *)

\* nextId succeeds and EVALSHA is issued; the HTTP thread is free again.
Send(r) ==
    /\ pc[r] = "admitted"
    /\ wire' = wire \cup {r}
    /\ Goto(r, "sent")
    /\ UNCHANGED <<redis, up, local, seen, result, reply, issued, drift, bounds>>

\* nextId throws (the clock went back too far): 500, and nobody gives the
\* local unit back.
SendThrows(r) ==
    /\ pc[r] = "admitted"
    /\ Finish(r, 500)
    /\ drift' = IF local = Absent THEN drift ELSE drift + 1
    /\ UNCHANGED <<redis, wire, up, local, seen, result, issued, bounds>>

LuaVerdict_KeyExists(u) ==
    IF u \in cooling THEN "cooldown"
    ELSE IF u \in buyers THEN "duplicate"
    ELSE IF stock = Absent THEN "soldout"
    ELSE "sold"

LuaVerdict_NoMemberCheck(u) ==
    IF u \in cooling THEN "cooldown"
    ELSE IF Level(stock) <= 0 THEN "soldout"
    ELSE "sold"

\* The checks of SECKILL_LUA_SCRIPT, in its order.
LuaVerdict(u) ==
    IF u \in cooling THEN "cooldown"
    ELSE IF u \in buyers THEN "duplicate"
    ELSE IF Level(stock) <= 0 THEN "soldout"
    ELSE "sold"

LuaSell_NoDecr(r) ==
    /\ buyers' = buyers \cup {UserOf[r]}
    /\ stream' = stream \cup {r}
    /\ UNCHANGED stock

\* decr, sadd, XADD.
LuaSell(r) ==
    /\ stock' = stock - 1
    /\ buyers' = buyers \cup {UserOf[r]}
    /\ stream' = stream \cup {r}

\* Redis executes the script, atomically, whether or not the process that
\* sent it still waits for the reply.  The cooldown is set before the other
\* checks, so a refused attempt starts it too.
Execute(r) ==
    /\ r \in wire
    /\ wire' = wire \ {r}
    /\ LET verdict == LuaVerdict(UserOf[r]) IN
       /\ IF verdict = "sold" THEN LuaSell(r)
                              ELSE UNCHANGED <<stock, buyers, stream>>
       /\ cooling' = IF Cooldown THEN cooling \cup {UserOf[r]} ELSE cooling
       /\ result' = IF pc[r] = "sent" /\ result[r] = "none"
                    THEN [result EXCEPT ![r] = verdict] ELSE result
    /\ UNCHANGED <<up, local, pc, seen, reply, issued, drift, bounds>>

\* The future fails: connection lost before or after the script ran, or an
\* error reply.  A command left on the wire may still be executed.
ReplyLost(r) ==
    /\ pc[r] = "sent" /\ result[r] # "error"
    /\ result' = [result EXCEPT ![r] = "error"]
    /\ UNCHANGED <<redis, wire, up, local, pc, seen, reply, issued, drift, bounds>>

CodeOf_ErrorIsSoldOut(res) ==
    CASE res = "sold"      -> 200
      [] res = "duplicate" -> 409
      [] res = "cooldown"  -> 429
      [] OTHER             -> 410

\* The switch of the callback.
CodeOf(res) ==
    CASE res = "sold"      -> 200
      [] res = "soldout"   -> 410
      [] res = "duplicate" -> 409
      [] res = "cooldown"  -> 429
      [] OTHER             -> 503

GivesBack_OnlySoldOut(res) == res = "soldout"

\* if (result != 1) rollbackLocalPreDeduct
GivesBack(res) == res # "sold"

\* The callback, in the Redis I/O thread: rollbackLocalPreDeduct, then the
\* response.
Callback(r) ==
    /\ pc[r] = "sent" /\ result[r] # "none"
    /\ local' = IF GivesBack(result[r]) /\ local # Absent THEN local + 1 ELSE local
    /\ Finish(r, CodeOf(result[r]))
    /\ result' = [result EXCEPT ![r] = "none"]
    /\ UNCHANGED <<redis, wire, up, seen, issued, drift, bounds>>

\* A cooldown key expires.
CooldownExpires(u) ==
    /\ u \in cooling
    /\ cooling' = cooling \ {u}
    /\ UNCHANGED <<stock, buyers, stream, wire, up, process, issued, drift, bounds>>

--------------------------------------------------------------------------------
(* The administrator, and the life of the process. *)

\* SET of the stock key by handle_start_seckill, handle_add_product or
\* handle_update_product.  The in-process counter and the set of buyers are
\* left as they are.
SetStock(n) ==
    /\ up /\ starts < MaxStarts
    /\ starts' = starts + 1
    /\ stock' = n
    /\ issued' = issued + Raise(Level(stock), n)
    /\ drift' = IF Watched THEN drift + Raise(Level(stock), n) ELSE drift
    /\ UNCHANGED <<buyers, cooling, stream, wire, up, process, crashes>>

\* DEL of the stock key by handle_stop_seckill or handle_delete_product.
StopSale ==
    /\ up /\ stock # Absent
    /\ stock' = Absent
    /\ UNCHANGED <<buyers, cooling, stream, wire, up, process, issued, drift, bounds>>

\* The process dies: its requests are lost, Redis keeps its data and may still
\* execute what was sent.
Crash ==
    /\ up /\ crashes < MaxCrashes
    /\ crashes' = crashes + 1
    /\ up' = FALSE
    /\ local' = Absent
    /\ pc' = [r \in Requests |-> IF pc[r] \in {"idle", "done"} THEN pc[r] ELSE "lost"]
    /\ seen' = [r \in Requests |-> 0]
    /\ result' = [r \in Requests |-> "none"]
    /\ drift' = 0
    /\ UNCHANGED <<redis, wire, reply, issued, starts>>

\* main: initAllLocalStock reads the stock of the products MySQL lists before
\* the HTTP server is started; a product it does not list, or whose GET
\* throws, gets no entry.
Restart ==
    /\ ~up
    /\ up' = TRUE
    /\ local' \in {Level(stock), Absent}
    /\ UNCHANGED <<redis, wire, pc, seen, result, reply, issued, drift, bounds>>

--------------------------------------------------------------------------------
Init ==
    /\ stock \in {Absent} \cup 0..MaxStock
    /\ buyers = {} /\ cooling = {} /\ stream = {} /\ wire = {}
    /\ up = TRUE
    /\ local \in {Level(stock), Absent}
    /\ pc = [r \in Requests |-> "idle"]
    /\ seen = [r \in Requests |-> 0]
    /\ result = [r \in Requests |-> "none"]
    /\ reply = [r \in Requests |-> 0]
    /\ issued = Level(stock)
    /\ drift = 0 /\ starts = 0 /\ crashes = 0

Handle(r) == PreDeduct(r) \/ UndoPreDeduct(r) \/ InitRead(r) \/ InitWrite(r)
             \/ RetryPreDeduct(r) \/ Send(r) \/ SendThrows(r)

Await(r) == ReplyLost(r) \/ Callback(r)

Next ==
    \/ \E r \in Requests : Receive(r) \/ Handle(r) \/ Execute(r) \/ Await(r)
    \/ \E u \in Users : CooldownExpires(u)
    \/ \E n \in 0..MaxStock : SetStock(n)
    \/ StopSale
    \/ Crash
    \/ Restart

Spec == Init /\ [][Next]_vars

\* An HTTP thread that has a request goes on with it, and a future is
\* completed, by its reply or by the failure of its connection.  Clients,
\* administrators and crashes owe nothing.
Fairness == \A r \in Requests : WF_vars(Handle(r)) /\ WF_vars(Await(r))

FairSpec == Spec /\ Fairness

--------------------------------------------------------------------------------
(* Properties. *)

\* The values the variables take.
TypeOK ==
    /\ stock \in Nat \cup {Absent}
    /\ buyers \subseteq Users /\ cooling \subseteq Users
    /\ stream \subseteq Requests /\ wire \subseteq Requests
    /\ up \in BOOLEAN
    /\ local \in Int \cup {Absent}
    /\ pc \in [Requests -> PcStates]
    /\ seen \in [Requests -> Nat]
    /\ result \in [Requests -> Results]
    /\ reply \in [Requests -> Replies]
    /\ issued \in Nat /\ drift \in Nat
    /\ starts \in Nat /\ crashes \in Nat

\* The orders in the stream and the units still on sale never exceed the units
\* put on sale, across lost replies, crashes and restarts of the sale: the
\* in-process counter may overstate the stock, the script may not.
NoOversell == Cardinality(stream) + Level(stock) <= issued

\* A user gets one order (max_per_user is 1), even when several requests of
\* the user race, a reply is lost and the user tries again, or the sale is
\* stopped and started.
OneOrderPerUser ==
    \A r, q \in stream : UserOf[r] = UserOf[q] => r = q

\* The HTTP status tells the truth, now and from then on: 200 means an order
\* is in the stream, any refusal means there is none and no command is left
\* that could make one, and 409 means that the user does have an order.  Only
\* 503 leaves the buyer in doubt.
AnswersAreTrue ==
    \A r \in Requests :
        /\ reply[r] = 200 => r \in stream
        /\ reply[r] \in Refusals => r \notin stream \cup wire
        /\ reply[r] = 409 => \E q \in stream \ {r} : UserOf[q] = UserOf[r]

\* The in-process counter hides no unit that is on sale: it is short of the
\* stock in Redis by no more than what the requests in flight hold and what
\* it was never told of (units leaked by a 500, and starts of the sale).
CounterCoversStock ==
    local # Absent =>
        local + Cardinality(Undoing) + Cardinality(Holders) + drift >= Level(stock)

\* The counter is negative only while a thread is between fetch_sub and
\* fetch_add: an exhausted counter does not sink under load, so a unit that a
\* callback gives back can be taken again.
CounterSettles == local # Absent => local + Cardinality(Undoing) >= 0

\* What the buyer makes of a status: a purchase, a refusal, or nothing sure.
AnswerOf(code) ==
    IF code = 0 THEN "none"
    ELSE IF code = 200 THEN "ok"
    ELSE IF code = 503 THEN "unknown"
    ELSE "refused"

Sale == INSTANCE FlashSale WITH
            units  <- Level(stock),
            orders <- stream,
            answer <- [r \in Requests |-> AnswerOf(reply[r])]

\* The server keeps what a flash sale promises.
SellsAsPromised == Sale!SaleSpec

\* Every request that is received is answered, unless the process dies.
EveryRequestAnswered ==
    \A r \in Requests : pc[r] = "check" ~> pc[r] \in {"done", "lost"}

\* "初始化所有在 Redis 中存在的秒杀商品本地库存" and "若本地库存不足，直接返回售罄":
\* the counter follows the stock in Redis, so that an exhausted counter, with
\* no request in flight that holds a unit, means that nothing is left to sell.
SoldOutIsReal ==
    (local # Absent /\ local <= 0 /\ Undoing = {} /\ Holders = {})
        => Level(stock) = 0
================================================================================
