# Verification of the seckill server

The program is a flash-sale (seckill) server in C++: an HTTP server sells a
limited stock to many buyers, Redis decides who buys, MySQL stores the orders.
This directory holds TLA+ models of it, the TLC configurations that check them
on small instances, and proofs for every instance. Paths below are relative to
the root of the repository; the C++ code is in its `src/` and `include/`.

1. [The system](#1-the-system)
2. [Modules and code](#2-modules-and-code)
3. [Runs](#3-runs)
4. [Proofs](#4-proofs)
5. [Where the code and its comments disagree](#5-where-the-code-and-its-comments-disagree)
6. [What is not modelled](#6-what-is-not-modelled)
7. [Plan](#7-plan)

Everything is run from this directory:

    tlc -workers 2 -config MCSeckillBuy.cfg MCSeckillBuy
    tlapm SeckillBuyProofs.tla

## 1. The system

A purchase, from the click to the paid order:

    browser --POST /api/seckill/buy--> handle_seckill (HTTP thread)
        rate limits, parameters, token
        tryLocalPreDeduct            in-process counter of the product
        EVALSHA  ------------------> Redis: Lua script (check, DECR, SADD, XADD)
        return                            |
    Redis I/O thread: callback <----------+   give back the local unit,
        HTTP response                         answer 200/409/410/429/503

    stream seckill:stream:orders --XREADGROUP--> OrderProcessor (one thread)
        parse, batch INSERT into MySQL, SSE event and result cache, XACK

    pay     UPDATE orders SET status = 1
    cancel  SELECT, UPDATE status = 2, INCRBY stock, SREM buyer, SETEX cooldown
    TimeoutChecker (one thread): every 30 s the same for orders that are old

| Component | State | Operations | Interacts through |
|---|---|---|---|
| Purchase handler (`handler/seckill_handler.cpp`) | none of its own; an HTTP context held by a callback | gates, pre-deduction, order id, script, callback | counter, Redis, Snowflake, rate limiter |
| In-process counter (`service/redis_service.cpp`) | `local_stock_map_`: product to atomic integer, under a shared mutex | `initLocalStock`, `initAllLocalStock`, `tryLocalPreDeduct`, `rollbackLocalPreDeduct` | HTTP threads, Redis I/O thread |
| Lua script (`service/redis_service.h`) | stock key, set of buyers, cooldown keys, stream | one atomic script | Redis |
| Order stream (`mq/RedisStreamMQ.cpp`) | one `redisContext`; the consumer group and its pending entries (PEL) are in Redis | `consume`, `consumePending`, `ack` | OrderProcessor |
| OrderProcessor (`service/order_processor.cpp`) | the batch in hand | recovery of the PEL at start, then a loop of four stages | stream, MySQL, SSE, result cache, dead letter file |
| Order handlers (`handler/order_handler.cpp`) | none | pay, cancel; list, detail (read only) | MySQL, Redis |
| TimeoutChecker (`service/timeout_checker.cpp`) | none between rounds | scan, cancel one by one | MySQL, Redis |
| Snowflake (`common/snowflake.h`) | last time, sequence, a mutex | `nextId` | purchase handler |
| Administration (`handler/admin_handler.cpp`) | none | start, stop, add, update, delete | Redis, MySQL |
| MySQLService, MySQLPool | pool of connections, mutex and condition | acquire, release, reconnect | everybody who stores |
| RateLimiter | token bucket, sliding windows, two mutexes | `allow`, `allow_user`, `update_params`, `update_user_params` | purchase handler, SIGHUP handler |
| SIGHUP handler (`main.cpp`, `common/config.cpp`) | `Config`, `reload_mutex_` | reload the file, store its values, update the limiter | any thread it interrupts |
| Result query (`handler/order_handler.cpp`) | `seckill:result:...` keys in Redis | GET, then SELECT | OrderProcessor (fills the keys), MySQL |
| SSE server | two maps of descriptors | broadcast, unicast, accept loop, stop | OrderProcessor, handlers |
| Purchase token | keys in Redis | generate, verify | purchase handler |
| HTTP server, logger, metrics, health | | | |

What makes it hard:

* **Two copies of the stock.** The counter in the process is a cheap filter in
  front of the stock key in Redis. It is filled at start or lazily, taken from
  by HTTP threads with `fetch_sub`/`fetch_add` as two steps, given back by a
  callback in another thread, and forgotten by a crash.
* **Asynchronous calls.** A script may have sold although its caller saw an
  error; commands outlive the process that sent them.
* **At-least-once delivery.** The stream redelivers after a crash; the INSERT,
  the notification and the ack are separate steps.
* **No transactions.** A cancellation is five statements on two databases,
  and payments, other cancellations and the checker come between.
* **Signals.** The handler of SIGHUP parses a file and locks mutexes in whatever
  thread it finds, which may hold them.
* **Shared descriptors and connections.** A closed descriptor number is soon
  another socket; a pool with a timeout must neither lose a wakeup nor hand a
  connection to two callers.
* **Clocks.** Order ids and timeouts are computed from a clock that may be set
  back, in milliseconds here and in seconds there.

What makes each component correct: nothing is oversold, a user gets one order,
an answer is true for ever, the counter hides no stock, every request is
answered; a delivered order is stored or can be found again, buyers are told
once and only of stored orders, every order settles; a cancelled unit comes
back exactly once, a payment sticks; ids are unique and ascending; the limits
admit no more than they say, through any hot update, and a used token is refused;
a pooled connection has one user and none is forgotten; an event reaches its user
only, broadcasts keep their order; a result once shown is not denied later.

`PROJECT.json` lists the hazards line by line, with the properties aimed at each.

## 2. Modules and code

### FlashSale

The requirement, without a server: units, issued units, orders, and one answer
to each attempt. An answer `ok` implies an order, `refused` implies that there
is none and never will be, `unknown` promises nothing.

### SeckillBuy

One product. `pc[r]` is the line of `handle_seckill` or of `RedisService` that
request `r` has reached; several requests are in flight at once, each in an HTTP
thread until `Send` and in the Redis I/O thread at `Callback`.

| Action | Code |
|---|---|
| `Receive` | the gates of `handle_seckill`: passed, or answered |
| `PreDeduct`, `UndoPreDeduct`, `InitRead`, `InitWrite`, `RetryPreDeduct` | `tryLocalPreDeduct` with `fetch_sub` and `fetch_add` apart, and the lazy `initLocalStock` with its GET outside the lock |
| `Send`, `SendThrows` | `nextId`, which may throw, and EVALSHA |
| `Execute` | the Lua script, atomic in Redis, whether or not its sender is alive |
| `ReplyLost` | the future fails, before or after the script ran |
| `Callback` | `rollbackLocalPreDeduct`, then the response |
| `SetStock`, `StopSale` | SET by start, add and update of a product, DEL by stop and delete |
| `Crash`, `Restart` | loss of the counter and of the requests; `initAllLocalStock` |
| `CooldownExpires` | expiry of a key |

`wire` holds commands Redis may still execute. `issued` and `drift` are history:
the units ever put on sale, and those the counter was not told of (a sale that
was started again, a unit leaked by the 500 of `SendThrows`). The shared lock is
`Undoing`: `InitWrite` needs the exclusive one. The four codes of the gates
(400, 401, 429, 500) are one code, because what follows does not depend on it.
A sale is set to 0..`MaxStock`; a negative stock typed by an administrator is
left out. A cancellation's INCRBY and SREM are in OrderLifecycle.

### OrderDelivery

What the pipeline is for, whatever carries an order: it waits until it is stored,
leaves the waiting room stored or with an excuse, and never comes back; its buyer
is told once, while it waits, and not before somebody tried to store it. An
excuse is one of the ways the code takes without a row: `malformed`, `rejected`,
trimmed before it was read (`skipped`), and, as the code stands, a failed batch
(`failed`, section 5). `Delivery` in OrderPipeline is the refinement mapping:
what waits is what the group has still to deliver or to see acknowledged.

### OrderPipeline

A message is the number of its entry in the stream, and carries an order of its
own. `last`, `delivered` and `trimmed` are positions in the stream; `pel` is
what the group has delivered and nobody has acked.

| Action | Code |
|---|---|
| `Add` | XADD with MAXLEN ~ by the script |
| `Boot` | connection, group creation, `consumePending` |
| `Recover...` | `OrderProcessor::start`: parse, `create_order_with_error_type`, ack, dead letter |
| `Poll`, `PollLost`, `ConnectionLost` | `consume`, and the connection that is never replaced |
| `ParseMalformed`, `Parse`, `Parsed` | the first stage of `processLoop` |
| `Insert`, `InsertFails` | `batchCreateOrders`, which returns 0 for a failure |
| `Notify`, `Notified` | SSE event and result cache |
| `Ack`, `Acked` | acks, end of the batch |
| `Crash` | death between any two steps |

A message that is read by `consume` is new, so its order is not in the table:
`Insert` has that as a guard, and a duplicate key is one of the causes of
`InsertFails`.

### CancellableSale

A sale whose orders can be called off: an order holds a unit until it is called
off, and in that moment the unit is on sale again; a user holds one; a payment is
final, and so is a cancellation. `Lose` lets units disappear and nothing else,
for a stopped sale and for a failure in the middle of a cancellation. In the
code a cancellation is four steps on two databases; the mapping of OrderLifecycle
(`StateOf`, `Claims`) calls an order open until its unit is back.

### OrderLifecycle

Orders of one product from the script to their end. An order is the number of
its id. `pc[t]` and `todo[t]` say where a thread is with which orders: an HTTP
thread has one, the checker has those its scan has found.

| Action | Code |
|---|---|
| `Sell`, `Persist` | the script (one unit, whatever the quantity asked for), the OrderProcessor |
| `Pay` | `handle_order_pay`: one UPDATE on any row, success when there is none |
| `ReadForCancel` | `handle_order_cancel`: SELECT and the check of the status |
| `Wake`, `Scan` | `check_loop`: the sleep, `get_all_orders(1000)` and the test of the age |
| `Update`, `UpdateFails` | UPDATE to cancelled; a failure may have been executed |
| `Return`, `Forget`, `Cool` | INCRBY by the quantity, SREM, SETEX; failures are ignored by the code |
| `StopSale`, `CooldownExpires`, `Crash` | as in SeckillBuy |

`created` is in milliseconds and `now` in seconds, as in the code. Time passes
only when the checker wakes, so an order bears the time of the round in which it
is sold; the age of an order is exact to an interval.

### RateLimiter and PurchaseGate

What a request passes before it reaches the counter, in the detail that
SeckillBuy leaves out. RateLimiter has the state of the limiter (the bucket, the
windows, the owners of the two mutexes) and an operator for each critical
section, or for each half of one; PurchaseGate has the threads. `pc[r]` is where
a request is, `gate[r]` which of the two windows it is at, `handler[t]` where the
SIGHUP handler is in thread `t`. A thread in its handler does nothing else.

| Action | Code |
|---|---|
| `Arrive`, `EnterBucket`, `LeaveBucket` | `RateLimiter::allow`, first section: `refill_tokens` and one token |
| `ReadClock`, `EnterWindow`, `RefuseAll`, `LeaveWindow` | `now_ms` is read before `window_mutex_` is locked; old entries leave; a limit that is not positive refuses, and is read again before a new entry is pushed |
| `MissingParameters`, `Bypass` | 400; the token check is switched off |
| `CheckToken`, `DeleteToken`, `DeleteThrows` | `verifySeckillToken`: GET, comparison and DEL are three steps |
| `IssueToken`, `TokenExpires` | `handle_get_token`; the key's time to live |
| `Signal` | SIGHUP in any thread that is not in the handler |
| `Reload`, `ReloadNoLimits`, `ReloadFails`, `FinishLoad` | `Config::load` under `reload_mutex_`, up to the first update of the limiter; a file without `rate_limit`; a section that throws after earlier ones were stored; the rest of the file |
| `HotUpdateRate`, `HotUpdateLimits`, `HotUpdateUser`, `Fetch` | `update_params` and `update_user_params`, called by `Config::load`, and `update_params` again by the handler |
| `Tick` | `steady_clock`, in half milliseconds, so that the truncation of the refill shows |

The window limits are stored under the bucket's mutex and read under the other
one, so `StoreRate` lets a reader see either of the two first. An entry of a
window is the request that made it, and its time stamp is what that request had
read: entries need not be in the order of their time stamps, and `Behind`
removes, as the code does, only from the front. `spent`, `lastTake`, `newest`,
`ontime`, `used` and `disturbed` are history. Both rates and sizes may be
negative in a file; the code ignores such values in some places only, and so
does the model.

A file may hold any of the sections `token_bucket`, `sliding_window`,
`user_window` and `security`, and each one it holds is stored when it is read
(`Stored`, `Loaded`): a section that is no map throws, `load` returns false, and
what was stored before stays in `Config` although the limiter is never told.
`disturbed` is set by such a reload and by one that another handler joins; a
reload that runs alone and does not fail clears it. `Reload` and `ReloadFails`
store several atomics in one step, and `Fetch` reads four in one: nobody reads
more than one of them under a lock, and a handler that reads while another
stores makes `disturbed` true.

### MySQLPool

`at[c]` is where a caller of `getConnection` is: waiting for the mutex, asleep in
`wait_for`, woken, timed out, pinging with the mutex held, using a connection, or
without one. `TakeOut`, `FindEmpty`, `Expire`, `PingAnswers`, `Reconnect` and
`DropConnection` are `getConnection`; `Release` and `Leave` are the destructor of
`ConnectionGuard`; `WakeUp` is a spurious wakeup. `DropConnection` is the
failed reconnection that makes the pool smaller for good. A connection is the
address of its object, which a new one may reuse.

### SSEServer

The loop of the server thread (`accept_connections`, `process_event_queue`, the
keepalive), `sendToUser` and `broadcast` by other threads, and `stop` by main in
its four steps. Descriptor numbers are the kernel's: `peer[fd]` says who is at the
other end, a closed number goes to whoever opens next, and that may be a
socket of Redis or MySQL (`OpenForeign`). A send to a peer that has gone may fail
or be taken by the kernel. Functions that hold `mtx_` from first to last are one
action. A client that says nothing keeps the thread in `recv`: `Receive` is no
part of `LoopStep`, and has no fairness.

### ResultQuery

`GET /api/seckill/result` composed with the pipeline: the module extends
OrderPipeline, and `Pipeline` is one of its steps together with what that step
does to the cache (`Keyed`, the SETEX of each announced order). `AskHit` and
`AskMiss` are the GET, `SelectFound` and `SelectNone` the SELECT, which is a
step of its own, so that the order may be stored, announced, cancelled or
forgotten in between. `Rows` is any set of rows of the size the LIMIT allows,
since the code asks for no order. One user buys the same products again after
each cancellation; a product has one query in flight. The servers start when the
recovery is over (`Serving`).

### Snowflake

`nextId` of one worker. The mutex is held while the code waits for the clock, so
one program counter is enough; what interleaves is the clock, which moves
forward or is set back at any step, and a restart that forgets the last id. The
id is computed with its shifts as multiplications, and the time wraps as it does
in 64 bits.

### The other modules

The modules whose names begin with MC give the constants their values. MCServices
puts the pool, the event server and the id generator beside each other: they
share no state, and `subject` chooses the one that a behaviour is about. The
modules whose names end in Proofs have the theorems, and Smallest a lemma that
three of them use: a set of natural numbers that is not empty has a smallest
member.

## 3. Runs

"Passes" means that TLC has searched all states.

| Run | Properties | Result |
|---|---|---|
| `seckill_buy` (MCSeckillBuy.cfg) | `TypeOK`, `NoOversell`, `OneOrderPerUser`, `AnswersAreTrue`, `CounterCoversStock`, `CounterSettles`, `SellsAsPromised` | passes, 930,000 states |
| `seckill_buy_live` (MCSeckillBuyLive.cfg) | `EveryRequestAnswered` | passes |
| `stale_counter` (MCSeckillStale.cfg) | `SoldOutIsReal` | violated, see 5 |
| `order_pipeline` (MCOrderPipeline.cfg) | `TypeOK`, `NothingLost`, `ToldIsStored`, `BacklogDrained`, `ToldOnce`, `EveryOrderSettles`, `DeliversAsPromised` | passes, 750,000 states |
| `batch_lost` (MCOrderPipelineLost.cfg) | `FailedBatchStaysPending` | violated |
| `dead_letter` (MCOrderPipelineDead.cfg) | `RejectedIsOnRecord` | violated |
| `order_lifecycle` (MCOrderLifecycle.cfg) | `ReturnedOnce`, `NoLiveOversell`, `OneLiveOrder`, `PaidStaysPaid`, `NoUnitForgotten`, `CancelsAsPromised` | passes, 1.9 million states |
| `cancel_race` (MCLifecycleCancel.cfg) | `OnlyPendingIsCancelled` | violated |
| `timeout_units` (MCLifecycleTimeout.cfg) | `ExpiredIsFound` | violated |
| `result_query` (MCResultQuery.cfg) | `HitIsNewest`, `NeverUnsaid` | passes, 1.5 million states |
| `purchase_gate` (MCPurchaseGate.cfg) | `TypeOK`, `BucketBound`, `EmptyMeansBusy`, `WindowBound`, `UsedTokenIsRefused`, `SettingsSettle`, `NoDeadlock` | passes, 1.6 million states |
| `services` (MCServices.cfg) | pool: `OneOwner`, `NothingLeaks`, `NoLostWakeup`, `EveryCallReturns`; events: `OwnConnectionsOnly`, `NoDescriptorLeaks`, `BroadcastsInOrder`, `ServesAndStops`; ids: `UniqueIds`, `AscendingIds` | passes, 93,000 states |

Bounds, and why they are enough:

* **seckill_buy**: three requests, two of one user, so that both races exist:
  for a unit between users, for an order between requests of one user. At most
  two units, so that there is stock for some and not for all; one change of the
  stock and one crash, each of which may come at any step. The two requests of
  one user are symmetric. The cooldown is off here (it only makes the script
  refuse more) and on in the next run. Other values than these are the business
  of the proofs, which cover every safety property of this run.
* **seckill_buy_live**: two requests and one unit, so that one finds the counter
  exhausted; the cooldown is on, and expires; no symmetry, since a temporal
  property is checked.
* **order_pipeline**: four messages in batches of two, so that a crash leaves a
  backlog larger than a batch; room for three in the reply to a restart, so that
  unreadable messages of two crashed batches fill it and leave a readable one
  out; two crashes, so that one can hit the recovery from the other; one fault;
  a stream of three entries, so that trimming overtakes the reader.
* **order_lifecycle**: one user with two orders, the second of which needs the
  first one cancelled; two handlers and the checker; quantities 1 and 2; one
  failure of a statement and one crash. `StartTime` 10 is larger than the
  timeout, so that a comparison of seconds with seconds would find an expired
  order.
* **result_query**: three orders of two products, so that one product is bought
  again after a cancellation while the other has an order too; two rows per
  SELECT, so that the limit is reached; one crash and one fault. The two
  products are symmetric.
* **purchase_gate**: two requests of one user at one address, so that they meet
  in the bucket, in both windows and at the token; files that take any sections
  from one configuration and the rest from another, which has a rate to ignore,
  a capacity of two for one, a shorter window and a limit of none; the clock
  jumps once, by more than both windows; two SIGHUPs, each in either thread that
  serves a request, so that two handlers can overlap, one can mend what the
  other left, and each can hit a critical section; one token, that can be
  checked by both. The requests are symmetric. A SIGHUP in the main thread, which
  interrupts no critical section of the limiter, is left to the proofs.
* **services**: four callers of two connections, so that two can sleep while two
  release; four calls in all, one of whose pings fails. Two clients, two
  descriptors, one foreign socket, so that a number goes from a client to
  another part of the process and back; two broadcasts, so that they have an
  order. Two sequence numbers in a millisecond, so that they run out; a
  tolerance of two of the five milliseconds, so that the clock is set back by
  less, as much and more; two restarts.

Requests, messages, orders, restarts of a sale and the clock are bounded, so
every run really ends when they are used up: the configurations say
`CHECK_DEADLOCK FALSE`. A request, a batch or an order that is stuck before that
is the business of the liveness properties, of `NoDeadlock` and of
`BacklogDrained`.

**Fairness.** In SeckillBuy a thread that has a request goes on with it (threads
are scheduled, no step of a request waits for another request except for the
lock, which is held for one step), and a future completes: with the reply, or
with the error redis-plus-plus gives it when the connection fails. Weak fairness
of `Handle(r)` and `Await(r)` says this; `Execute` has no fairness, as Redis owes
the server nothing. In OrderPipeline the process is started again after a crash
and its thread runs: weak fairness of `Boot`, `Recover` and `Process`. Nothing
obliges buyers, administrators, faults or crashes. `EveryOrderSettles` makes an
exception for runs with a fault, and has to: the consumer never replaces a broken
connection, and a failed batch is gone (section 5). It makes another for an order
that a restart leaves out of the backlog it asks for (`LeftOut`), the same room
that `BacklogDrained` asks for. In MCServices a caller in `getConnection` goes on
when it can; its timeout has strong fairness, because `wait_for` computes its
deadline once, so the three seconds pass however often the caller is woken in
between. A caller that uses a connection owes the pool nothing, and neither does
a client in `recv` owe the event server: `ServesAndStops` is stated for runs in
which the thread is not in `recv` for ever.

**Conditions inside properties.** `NoLiveOversell` and `OneLiveOrder` are stated
for runs in which no cancellation or payment overtook another (`Undisturbed`)
and, for the first, for orders of one piece; the run `cancel_race` shows that
the condition can fail. They are not vacuous: cancellations, resales, failures
and crashes happen under it. `CancelsAsPromised` has both conditions, step by
step: every step up to the first that breaks one of them is a step of
CancellableSale. `UniqueIds` and `AscendingIds` are stated until a
process begins at or before the last id of its predecessor (`rewound`).
`NoDeadlock` is stated until a SIGHUP finds a thread inside a critical section
(`Hit`): then the handler waits for the thread it has interrupted, and that is a
hazard of the code. `WindowBound` counts the requests that were not overtaken
between their reading of the clock and the mutex; an overtaken one has an older
time stamp than the cutoff that was applied before it. `EmptyMeansBusy` is about
rates of at least 1000 per second, for which the truncation of `refill_tokens`
never gives zero. `WindowBound` asks that no limit below zero can be configured:
`allow` reads the limit twice, and one that becomes negative in between is
compared as a huge `size_t`. `SettingsSettle` excepts what two handlers at the
same time, or one reload that fails half-way, leave behind; it says that the
next reload that runs alone and does not fail mends it, whatever sections its
file has. `PaidStaysPaid` is about orders that no thread had read for
cancellation when they were paid; one that was read goes on to cancel them, as
the run `cancel_race` shows. `NoDescriptorLeaks` allows one connection to stay
open after `stop` (section 5). `NeverUnsaid`
names a SELECT that fails, an order whose batch INSERT had failed and a user
with more rows than the limit; `HitIsNewest` excepts runs with a crash or a
fault, as the recovery stores orders and leaves their keys alone.

## 4. Proofs

Every safety property of the passing runs is a theorem, the three refinements
included, for every value of the constants under the assumptions that the
modules name: sets of requests, users, orders and callers (finite where
something is counted), bounds that are natural numbers, settings with a positive
default, a worker id that fits its field, a clock that does not run past the
range of the time field. No module with theorems uses a recursive operator.

| Module | Theorems |
|---|---|
| SeckillBuyProofs | `TypeCorrect`, `OneOrder`, `TrueAnswers`, `NeverOversold`, `CounterNeverHides`, `CounterRecovers`, `Implementation`, `RequestsEnd` |
| OrderPipelineProofs | `TypeCorrect`, `OrdersAreAccounted`, `ToldAreStored`, `BuyersAreToldOnce`, `BacklogIsDrained`, `DeliveryImplemented`, `StagesGoOn`, `WorkEnds`, `WorkIsBounded`; of ResultQuery: `QueryTypes`, `BoughtIsNotUnsaid`, `HitsAreNewest`, `PipelineUnderQueries`, `DeliveryUnderQueries` |
| OrderLifecycleProofs | `TypeCorrect`, `UnitsReturnOnce`, `PaymentsStay`, `UnitsAreRemembered`, `OneLiveOrderEach`, `NothingLiveIsOversold`, `CancellationImplemented`, `CancellationsEnd`, `CheckerNeverCancels`, `OnlyRequestsCancel` |
| PurchaseGateProofs | `TypeCorrect`, `NoDeadlocks`, `BucketIsBounded`, `EmptyBucketIsBusy`, `UsedTokensAreRefused`, `SettingsAreSettled`, `WindowsAreBounded`, `RequestsAreDecided` |
| MySQLPoolProofs | `PoolTypes`, `ConnectionsAreOwned`, `ConnectionsAreCounted`, `WakeupsArrive` |
| SSEServerProofs | `ServerTypes`, `OnlyOwnConnections`, `DescriptorsAreKept`, `OrderedBroadcasts` |
| SnowflakeProofs | `TypesKept`, `Unique`, `Ascending` |

**Purchase path.** Two inductive invariants.

* `BuyInv` (theorem `BuyInvariant`) ties the request to Redis: who has an order
  is who is in the set of buyers, a command is on the wire only for a request
  that was sent, a result "sold" means the order is in the stream, a result that
  refuses means there is no order and no command left. From it follow
  `OneOrder`, `TrueAnswers` and `Implementation`. `AnswersAreTrue` alone is not
  inductive: nothing in it stops a refused request from being on the wire.
* `CounterInv` (theorem `CounterInvariant`) says what each request in flight
  holds of the counter. `CounterNeverHides` and `CounterRecovers` follow. It
  needs that what a lazy initialisation has read is still an upper bound of the
  stock when it is written, and that a process that is down has no requests.
* `NeverOversold` needs only types and the fact that the script appends each
  request once, which `BuyInv` gives.
* `Implementation` is the refinement: with `units` the level of the stock key,
  `orders` the stream and `answer` the meaning of the status code, every step of
  the server is a step of FlashSale or leaves its variables alone.

**Pipeline.** Four inductive invariants, the later ones over the earlier.

* `FlowInv` (theorem `FlowInvariant`): the positions in the stream are in order,
  a delivered order is stored, pending or gone on purpose (`NothingLost`), and
  `Held` says what each stage knows of the messages in its hands: they are
  delivered, those past the INSERT are stored unless it failed, those before the
  announcement are not told. `ToldIsStored` and `NothingLost` are parts of it;
  `ToldOnce` follows because the batch of `consume` is always new.
* `DrainInv` (theorem `DrainInvariant`) counts the backlog: apart from entries
  that cannot be read it is never larger than a batch (`Reach`), so that the
  reply to a restart has room for all of it and for the next. `BacklogIsDrained`
  follows.
* `DeliveryImplemented` maps each step to OrderDelivery. It needs `HeldPending`:
  what a stage is about to store, to announce or to acknowledge is still in the
  PEL. `FlowInv` does not say so, and without it an acknowledged order could be
  stored or announced afterwards, which the abstract specification forbids.
  The INSERT of a batch is one `Attempt`, an ack is `Settle`, and so is a poll
  that passes over trimmed entries; any other poll, and a parse, is a stutter.
* `FreshInv` says that what is stored was delivered and that a batch before its
  INSERT is not in the table. `StagesGoOn` follows, and with it the guard of
  `Insert` is no restriction: a batch that `consume` has read never meets its own
  rows.

**Result query.** `PipelineUnderQueries` and `DeliveryUnderQueries` carry the
results over to the composition. `QueryInv` says that a key and an answer speak
of delivered orders of their product that are stored or failed; every step of
ResultQuery is a step of OrderPipeline or changes none of what its invariants
speak of but the number of faults, so `FlowInv` is at hand. `BoughtIsNotUnsaid`
then needs that a SELECT with room for all rows finds the one there is.
`NewestInv`, for `HitsAreNewest`: what is in hand comes after all that was
announced (`InOrder`), what is stored has been announced or is about to be
(`Announced`), and no key is behind an announced order of its product
(`KeysFollow`).

**Order lifecycle.** `OnceInv` says that a thread that is about to return a unit
is the only one to hold that order and that the unit has not come back yet; from
it `UnitsReturnOnce`. `SoleInv` (theorem `SoleInvariant`): a user in the set of
buyers has one live order, and a thread that is about to remove the user holds a
cancelled one. `CountInv`, for `NothingLiveIsOversold`, adds up the level of the
stock and `Claims`, the orders that are live or whose unit is in the hands of a
thread: the sum never exceeds the units issued. The property without the units
in hand is not inductive, since a return raises the stock.
`CancellationImplemented` takes all three: a step of a cancellation is a stutter
until the INCRBY, which is `CallOff`, so it must be the only INCRBY of its order
(`OnceInv`); a sale is `Buy`, so its user must hold nothing, not even an order
whose cancellation is under way (`SoleInv`). `PaymentsStay` rests on the check of
the status: `SafeInv` adds to the property that no thread has a paid order on
its list with the UPDATE still to come, and it holds because a handler and the
scan put pending orders on their lists only.

The checker has theorems of its own. `ClockInv`: the clock stays within the
rounds it was given, and every order bears a stamp of the start or later. Under
`RealClock`, which says that at the end the clock counts fewer seconds than it
counted milliseconds at the start, no order is ever overdue
(`CheckerNeverCancels`), so an order that its buyer neither pays nor cancels
stays pending (`OnlyRequestsCancel`). A clock set to our days satisfies
`RealClock` for more than 50,000 years of rounds, and the configurations of this
directory do too; it excludes a clock that is still at 1970.

**Purchase gate.** `LockInv` says who is inside which critical section, and
`NoDeadlocks` follows from the order in which the three mutexes are taken:
`reload_mutex_` before either of the others, which are never held together.
`BucketInv` gives a token its price in ticks, so that what is spent, what is
left and what is still to be earned stay under the content of the start plus the
highest rate; `EmptyInv` says that a bucket that is empty was emptied after its
last refill, since from 1000 per second on a whole millisecond earns a token.
`KeyIsFresh`: the key never holds a used token. `SettingsAreSettled` takes two
invariants. `UserInv`: the limits of the user windows are those of `Config`
whenever `reload_mutex_` is free, torn and overlapping reloads included, since
they are the last section of `rate_limit` and only stored under that mutex.
`SettleInv`, while nothing is disturbed, says for each line of the handler which
of the other settings are already those of `Config`; a reload that begins needs
nothing of it, so it holds again however wrong the settings were. `WinInv`,
for `WindowsAreBounded`, is the longest: `LimitsInv` (sizes and limits in force
are among the configured ones), `PlacedInv` (a request that is on time at a gate
has read its clock there for good), `SlidInv` (inside the critical section the
newest time stamp is what the sliding has made it) and `AllBounded` (no interval
of the shortest size has more punctual entries than the highest limit, and those
that are too young to leave are still in the list).

**Pool.** `PoolInv` says that a caller has a connection exactly while it pings
or uses one, that no connection is in two places, and that while somebody sleeps
there are no more idle connections than callers on their way. The last one needs
the count: a release adds one to both sides.

**Event server.** `SSEInv`: the descriptor in hand is open, a client's and not
registered (`HandIsFresh`), the two maps agree, and the numbers sent, taken and
queued are 1 to the number of broadcasts (`InOrder`). `LeftInv`: once the
listening socket is closed the thread accepts nobody else, so after the maps are
cleared one connection is open at most, the one in hand or the one just
registered.

**Order ids.** `IdInv` says that every id is a time up to `newest` with a
sequence number, and that a process that has issued an id, and did not begin at
or before its predecessor's last one, knows the newest time and the largest id.
`IdOrder` shows that the fields of the layout do not overlap. `Unique` and
`Ascending` follow.

**Progress.** Liveness needs fairness, which the provers do not handle; the part
of it that needs none is proved by counting steps. `StepsOf(r)` counts what a
purchase still has before it (nine steps at most, the lazy initialisation and
the second attempt included), what a request has at the gate (eleven) and a
SIGHUP handler in its thread (seven); `StepsOf(t)` in the lifecycle counts four
for each order in the hands of a thread; `Left` in the pipeline counts three for
each message and a few for the batch, and never more than `MostWork`.
`RequestsEnd`, `RequestsAreDecided`, `CancellationsEnd`, `WorkEnds` and
`WorkIsBounded` say that every step of the thread leaves it fewer, that nothing
anybody else does adds any, and that none is left only at the end. So no retry
goes round, no stage waits for a message that another stage has, and what
remains of liveness is that a thread that can go on does: that is the fairness
of section 3, and TLC's part.

**Only model-checked**: liveness (`EveryRequestAnswered`, `EveryOrderSettles`,
`EveryCallReturns`, `ServesAndStops`), since the provers do not reason about
fairness and ENABLED. **Only proved**: the types of the pool, of the event
server and of the result query (`PoolTypeOK`, `SSETypeOK`, `QueryTypeOK`), and
those of the order lifecycle and of the ids (`TypeOK` there), which are parts of
the inductive invariants; and what is said of progress above.

## 5. Where the code and its comments disagree

With a run that shows it:

* **A stale counter** (`stale_counter`). At start every product that MySQL lists
  gets a counter, 0 when there is no stock key. Starting the sale sets the key
  and not the counter, so buyers are told "Sold out" of a full stock until the
  process restarts. `include/service/redis_service.h:70` speaks of products that
  exist in Redis.
* **A failed batch** (`batch_lost`). `batchCreateOrders` returns 0 for a failure
  and `order_processor.cpp:201` tests `>= 0`: buyers are told, messages acked,
  orders lost, against the comment at line 228.
* **Dead letters** (`dead_letter`). Line 102 says: write the dead letter, then
  ack. Line 103 acks first; a crash leaves neither.
* **Cancellation of a paid order** (`cancel_race`). `order_handler.cpp:233` lets
  only a pending order be cancelled; the UPDATE does not repeat the condition.
* **Timeouts** (`timeout_units`). The age of an order is seconds minus
  milliseconds, hence negative, and no order times out. `CheckerNeverCancels`
  proves it for every timeout, interval and number of rounds.

Met while reading, without a run of their own:

* A payment is answered with success when the order has no row yet, and the
  payment is then gone (`order_handler.cpp:166`; an UPDATE of no row succeeds).
  `PaidStaysPaid` speaks of orders with a row only. A cancelled order may be
  paid as well, and is then paid although its unit is on sale again.
* Unreadable messages are never acked and `start` asks for 100 of the backlog
  once (`order_processor.cpp:91`). When they fill the reply, the readable orders
  behind them are left out, at this start and at every later one.
* The script takes one unit, a cancellation returns the quantity of the request.
* A cancellation after a sale was stopped creates the stock key again, and with
  it the sale.
* `PreparedStatement` binds a pointer into a vector that later bindings may
  reallocate (`include/service/prepared_statement.h:32`), so a row written by
  the recovery may hold something else than the user it was given.
* The result query reads at most 100 rows of a user, of all products and
  statuses, and answers "pending" of a stored order that is not among them; it
  does so too when the SELECT fails (`order_handler.cpp:58`, against the comment
  at line 80). The SELECT has no ORDER BY, so when the key's hour is over it may
  show a cancelled order although a newer one is stored.
* `include/service/rate_limiter.h:78` says that the size of the window is in
  seconds; the code and `config.yaml` use milliseconds for the window of an
  address and seconds for that of a user.
* A SIGHUP that finds a thread inside the limiter, the configuration or the
  logger makes it wait for itself (`main.cpp:43`).
* `handle_sighup` updates the limiter after `reload` has done so already, outside
  `reload_mutex_`: of two overlapping handlers the older settings may win.
* `Config::load` stores section by section (`config.cpp:68`). A section of
  `rate_limit` that is no map (`sliding_window: 60`) throws after `token_bucket`
  was stored: `reload` returns false and the limiter keeps the old rate, while
  `Config` has the new one.
* `allow` reads `window_max_` for the test `<= 0` and again for the comparison
  (`rate_limiter.cpp:91`, `96`), under another mutex than the one that
  `update_params` holds: a limit that becomes negative in between admits whoever
  is there.
* Two requests that GET a token before either of them deletes it both pass
  (`redis_service.cpp:404`).
* A failed reconnection makes the pool smaller until the process is restarted
  (`mysql_pool.h:46`).
* `stop` closes and clears the maps before it waits for the thread
  (`sse_handler.cpp:124`); a client that the thread is greeting then is
  registered afterwards, and nobody closes its connection.
* A client that connects to the event server and says nothing stops all events
  (`sse_handler.cpp:221`), and `stop` with them.

## 6. What is not modelled

* The content of an order's row, product rows and the lists of the
  administration: data that no property so far depends on. `PreparedStatement` is
  therefore a hazard without a property.
* The list and the detail of orders: single SELECTs that change nothing.
* In the limiter, `get_available_tokens` (no caller). In the event server,
  `removeClient` (no caller) and the branch of `process_event_queue` for one user
  (no broadcast names one); its first send relies on SIGPIPE being ignored by the
  HTTP library. In the pool, the destructor, which runs after main, and a
  `mysql_ping` that does not return.
* The mutex of the logger, which the handler of SIGHUP takes too: the same case as
  those of `NoDeadlock`. POSIX lets the kernel choose any thread for a signal, and
  so does the model (`Targets`).
* HTTP routing, static files, the front end, logging, metrics, health, YAML
  parsing, the load script: input and output, without state that the rest of the
  program reads.
* The vendored redis-plus-plus: third-party code, and nine tenths of the lines
  of this repository (two copies of it). Its asynchronous call is modelled by
  its possible outcomes. Redis, MySQL, the kernel's descriptors and the clocks
  are modelled as the code uses them.

## 7. Plan

Done: the purchase path and its refinement of FlashSale, the gate before it, the
pipeline behind it, the result query over the pipeline, the lifecycle of orders,
the ids, the pool and the event server; the refinements of OrderDelivery and of
CancellableSale; proofs of all their safety properties, and of the bounds on the
work of every thread that liveness rests on.

Left, in this order:

1. A composition of purchase, pipeline and lifecycle: an answer 200 leads to a
   row in the table, a cancelled order to a unit that can be sold. FlashSale,
   OrderDelivery and CancellableSale are its abstract parts; what is left is to
   join them.
2. The content of a row: what `PreparedStatement` binds, statement by statement,
   and what a reallocation of its vectors leaves of it.
3. Product administration: the rows of the products table, the stock key and the
   counter together.
