----------------------------- MODULE OrderPipeline -----------------------------
(***************************************************************************)
(* From the stream to the database: the orders that the Lua script appends *)
(* to seckill:stream:orders, the consumer group over that stream, and the  *)
(* OrderProcessor that writes them to MySQL, tells the buyers and acks.    *)
(*                                                                         *)
(* A message is the number of its entry: the script appends 1, 2, 3, ...,  *)
(* and every message carries an order of its own.  Three positions in the  *)
(* stream say what Redis knows of it: "last" is the newest entry,          *)
(* "delivered" the group's last-delivered id, and MAXLEN has removed the   *)
(* entries up to "trimmed".                                                *)
(*                                                                         *)
(* pc is where the consumer thread is:                                     *)
(*   "down"       the process is not running                               *)
(*   "recover"    start(): the messages found in the PEL, one by one       *)
(*   "recack"     ... stored (or found stored), the ack is to come         *)
(*   "recreject"  ... refused for a business reason, the ack is to come    *)
(*   "recdead"    ... acked, the dead letter is to come                    *)
(*   "poll"       processLoop: about to read new messages                  *)
(*   "parse" "insert" "notify" "ack"   its four stages for one batch       *)
(***************************************************************************)
EXTENDS Integers, FiniteSets

CONSTANTS
    MaxBatch,     \* COUNT of consume (50 in the code)
    MaxPending,   \* COUNT of consumePending (100 in the code)
    MaxLen,       \* stream_maxlen
    MaxMessages,  \* bound: orders sold
    MaxCrashes,   \* bound: crashes of the process
    MaxFaults     \* bound: failures of Redis, of MySQL and of the log file

ASSUME LimitsAssumption ==
    MaxBatch \in Nat \ {0} /\ MaxPending \in Nat \ {0} /\ MaxLen \in Nat \ {0}
ASSUME BoundsAssumption ==
    MaxMessages \in Nat /\ MaxCrashes \in Nat /\ MaxFaults \in Nat

VARIABLES
    \* Redis
    last, trimmed, delivered,
    pel,        \* delivered to node_1_thread_1 and not acked
    malformed,  \* messages whose payload does not parse
    \* MySQL, the dead letter file, and what buyers were shown
    db, dead, told, cache,
    \* the consumer
    pc,
    conn,       \* its redisContext is usable: a broken one is never replaced
    todo,       \* messages the current stage has still to handle
    ready,      \* valid_orders of the batch
    \* history
    failed,     \* orders whose batch INSERT reported an error
    rejected,   \* orders refused for a business reason
    skipped,    \* messages trimmed before they were ever read
    crashes, faults

stream == <<last, trimmed, malformed, skipped>>
outside == <<db, dead, told, cache>>
history == <<failed, rejected>>
bounds == <<crashes, faults>>
vars == <<last, trimmed, delivered, pel, malformed, db, dead, told, cache, pc, conn,
          todo, ready, failed, rejected, skipped, crashes, faults>>

PcStates == {"down", "recover", "recack", "recreject", "recdead",
             "poll", "parse", "insert", "notify", "ack"}
Messages == 1..MaxMessages

Later(a, b) == IF a > b THEN a ELSE b
Earlier(a, b) == IF a < b THEN a ELSE b

\* The lowest n members of a set of messages.
Lowest(S, n) == {m \in S : Cardinality({k \in S : k < m}) < n}

\* Stages handle their messages in the order of the stream.
Oldest(m, S) == m \in S /\ \A k \in S : m <= k

Fault == faults < MaxFaults /\ faults' = faults + 1

--------------------------------------------------------------------------------
(* The stream. *)

\* XADD MAXLEN ~ by the Lua script, whatever the consumer is doing.  The
\* approximate form may keep more entries than MaxLen, never fewer.
Add ==
    /\ last < MaxMessages
    /\ last' = last + 1
    /\ malformed' \in {malformed, malformed \cup {last + 1}}
    /\ trimmed' \in {trimmed, Later(trimmed, last + 1 - MaxLen)}
    /\ skipped' = skipped \cup {m \in Messages : delivered < m /\ m <= trimmed'}
    /\ UNCHANGED <<delivered, pel, outside, pc, conn, todo, ready, history, bounds>>

\* XACK of one message: without a connection it does nothing, and nobody looks.
Acknowledge(m) == pel' = IF conn THEN pel \ {m} ELSE pel

--------------------------------------------------------------------------------
(* OrderProcessor::start: the backlog of the previous run. *)

Pending_OneOnly(S) == Lowest(S, 1)

\* XREADGROUP ... 0: the first MaxPending entries of the PEL.
Pending(S) == Lowest(S, MaxPending)

\* main connects and starts the processor.  The group exists or is created at
\* the beginning of the stream.
Boot ==
    /\ pc = "down"
    /\ pc' = "recover"
    /\ \/ conn' = TRUE /\ todo' = Pending(pel) /\ UNCHANGED faults
       \/ conn' = FALSE /\ todo' = {} /\ Fault
    /\ UNCHANGED <<stream, delivered, pel, outside, ready, history, crashes>>

\* A pending message that does not parse, or whose entry was trimmed, stays in
\* the PEL and is left alone.
RecoverUnreadable(m) ==
    /\ pc = "recover" /\ Oldest(m, todo)
    /\ m \in malformed \/ m <= trimmed
    /\ todo' = todo \ {m}
    /\ UNCHANGED <<stream, delivered, pel, outside, pc, conn, ready, history, bounds>>

RecoverOrder(m) ==
    /\ pc = "recover" /\ Oldest(m, todo)
    /\ m \notin malformed /\ m > trimmed

\* create_order_with_error_type stores the order, or finds it stored.
RecoverStored(m) ==
    /\ RecoverOrder(m)
    /\ db' = db \cup {m}
    /\ pc' = "recack"
    /\ UNCHANGED <<stream, delivered, pel, dead, told, cache, conn, todo, ready,
                   history, bounds>>

\* The product is gone from MySQL, or its stock there is below the quantity.
\* This is looked at first, so an order that is stored can be rejected too.
RecoverRejected(m) ==
    /\ RecoverOrder(m)
    /\ rejected' = rejected \cup {m}
    /\ pc' = "recreject"
    /\ UNCHANGED <<stream, delivered, pel, outside, conn, todo, ready, failed, bounds>>

RecoverFails_Acked(m) ==
    /\ RecoverOrder(m)
    /\ db' \in {db, db \cup {m}}
    /\ Acknowledge(m)
    /\ todo' = todo \ {m}
    /\ Fault
    /\ UNCHANGED <<stream, delivered, dead, told, cache, pc, conn, ready,
                   history, crashes>>

\* A system error: not acked.  The INSERT may have been executed.
RecoverFails(m) ==
    /\ RecoverOrder(m)
    /\ db' \in {db, db \cup {m}}
    /\ todo' = todo \ {m}
    /\ Fault
    /\ UNCHANGED <<stream, delivered, pel, dead, told, cache, pc, conn, ready,
                   history, crashes>>

RecoverAck(m) ==
    /\ pc = "recack" /\ Oldest(m, todo)
    /\ Acknowledge(m)
    /\ todo' = todo \ {m}
    /\ pc' = "recover"
    /\ UNCHANGED <<stream, delivered, outside, conn, ready, history, bounds>>

\* The ack of a rejected order comes before its dead letter.
RecoverAckRejected(m) ==
    /\ pc = "recreject" /\ Oldest(m, todo)
    /\ Acknowledge(m)
    /\ pc' = "recdead"
    /\ UNCHANGED <<stream, delivered, outside, conn, todo, ready, history, bounds>>

\* writeToDeadLetterLog: a file that cannot be opened is only logged.
RecoverDeadLetter(m) ==
    /\ pc = "recdead" /\ Oldest(m, todo)
    /\ \/ dead' = dead \cup {m} /\ UNCHANGED faults
       \/ dead' = dead /\ Fault
    /\ todo' = todo \ {m}
    /\ pc' = "recover"
    /\ UNCHANGED <<stream, delivered, pel, db, told, cache, conn, ready, history, crashes>>

\* The backlog is done: the worker thread starts.
Recovered ==
    /\ pc = "recover" /\ todo = {}
    /\ pc' = "poll"
    /\ UNCHANGED <<stream, delivered, pel, outside, conn, todo, ready, history, bounds>>

--------------------------------------------------------------------------------
(* OrderProcessor::processLoop. *)

ReadUpTo_Uncapped == Later(delivered, trimmed) + MaxBatch

\* The newest message the next XREADGROUP > returns, and what it returns.
ReadUpTo == Earlier(last, Later(delivered, trimmed) + MaxBatch)
Unread == {m \in Messages : Later(delivered, trimmed) < m /\ m <= ReadUpTo}

Deliver_Unrecorded ==
    /\ delivered' = ReadUpTo
    /\ UNCHANGED pel

Deliver_NotAdvanced ==
    /\ UNCHANGED delivered
    /\ pel' = pel \cup Unread

\* Redis moves the group forward and records the messages as pending.
Deliver ==
    /\ delivered' = ReadUpTo
    /\ pel' = pel \cup Unread

\* consume returns the next messages.
Poll ==
    /\ pc = "poll" /\ conn /\ Unread # {}
    /\ Deliver
    /\ todo' = Unread
    /\ pc' = "parse"
    /\ UNCHANGED <<stream, outside, conn, ready, history, bounds>>

\* The connection breaks with the reply on it: consume returns nothing, now and
\* until the process is restarted.
PollLost ==
    /\ pc = "poll" /\ conn /\ Unread # {}
    /\ Deliver
    /\ conn' = FALSE
    /\ Fault
    /\ UNCHANGED <<stream, outside, pc, todo, ready, history, crashes>>

\* The connection breaks at any other time.
ConnectionLost ==
    /\ pc # "down" /\ conn
    /\ conn' = FALSE
    /\ Fault
    /\ UNCHANGED <<stream, delivered, pel, outside, pc, todo, ready, history, crashes>>

\* A message that does not parse is acked at once.
ParseMalformed(m) ==
    /\ pc = "parse" /\ Oldest(m, todo) /\ m \in malformed
    /\ Acknowledge(m)
    /\ todo' = todo \ {m}
    /\ UNCHANGED <<stream, delivered, outside, pc, conn, ready, history, bounds>>

Parse(m) ==
    /\ pc = "parse" /\ Oldest(m, todo) /\ m \notin malformed
    /\ ready' = ready \cup {m}
    /\ todo' = todo \ {m}
    /\ UNCHANGED <<stream, delivered, pel, outside, pc, conn, history, bounds>>

Parsed_NotifyFirst ==
    /\ pc = "parse" /\ todo = {}
    /\ todo' = ready
    /\ pc' = IF ready = {} THEN "poll" ELSE "notify"
    /\ UNCHANGED <<stream, delivered, pel, outside, conn, ready, history, bounds>>

Parsed ==
    /\ pc = "parse" /\ todo = {}
    /\ pc' = IF ready = {} THEN "poll" ELSE "insert"
    /\ UNCHANGED <<stream, delivered, pel, outside, conn, todo, ready, history, bounds>>

\* batchCreateOrders: one INSERT for the batch, all rows or none.
Insert ==
    /\ pc = "insert"
    /\ ready \cap db = {}
    /\ db' = db \cup ready
    /\ todo' = ready
    /\ pc' = "notify"
    /\ UNCHANGED <<stream, delivered, pel, dead, told, cache, conn, ready, history, bounds>>

\* No connection, a failed INSERT, or one whose answer was lost: the function
\* returns 0, which the caller takes for success.
InsertFails ==
    /\ pc = "insert"
    /\ db' \in {db, db \cup ready}
    /\ failed' = failed \cup ready
    /\ todo' = ready
    /\ pc' = "notify"
    /\ Fault
    /\ UNCHANGED <<stream, delivered, pel, dead, told, cache, conn, ready, rejected, crashes>>

\* SSE "order_created" and the result cache, whose SETEX may fail unnoticed.
Notify(m) ==
    /\ pc = "notify" /\ Oldest(m, todo)
    /\ told' = told \cup {m}
    /\ \/ cache' = cache \cup {m} /\ UNCHANGED faults
       \/ cache' = cache /\ Fault
    /\ todo' = todo \ {m}
    /\ UNCHANGED <<stream, delivered, pel, db, dead, pc, conn, ready, history, crashes>>

Notified ==
    /\ pc = "notify" /\ todo = {}
    /\ todo' = ready
    /\ pc' = "ack"
    /\ UNCHANGED <<stream, delivered, pel, outside, conn, ready, history, bounds>>

Ack(m) ==
    /\ pc = "ack" /\ Oldest(m, todo)
    /\ Acknowledge(m)
    /\ todo' = todo \ {m}
    /\ UNCHANGED <<stream, delivered, outside, pc, conn, ready, history, bounds>>

\* The end of the batch.
Acked ==
    /\ pc = "ack" /\ todo = {}
    /\ ready' = {}
    /\ pc' = "poll"
    /\ UNCHANGED <<stream, delivered, pel, outside, conn, todo, history, bounds>>

\* The process dies.  (A graceful stop is a crash at "poll".)
Crash ==
    /\ pc # "down" /\ crashes < MaxCrashes
    /\ crashes' = crashes + 1
    /\ pc' = "down" /\ conn' = FALSE
    /\ todo' = {} /\ ready' = {}
    /\ UNCHANGED <<stream, delivered, pel, outside, history, faults>>

--------------------------------------------------------------------------------
Init ==
    /\ last = 0 /\ trimmed = 0 /\ delivered = 0
    /\ pel = {} /\ malformed = {}
    /\ db = {} /\ dead = {} /\ told = {} /\ cache = {}
    /\ pc = "down" /\ conn = FALSE /\ todo = {} /\ ready = {}
    /\ failed = {} /\ rejected = {} /\ skipped = {}
    /\ crashes = 0 /\ faults = 0

Recover ==
    \/ \E m \in Messages :
          \/ RecoverUnreadable(m) \/ RecoverStored(m) \/ RecoverRejected(m)
          \/ RecoverFails(m) \/ RecoverAck(m) \/ RecoverAckRejected(m)
          \/ RecoverDeadLetter(m)
    \/ Recovered

Process ==
    \/ Poll \/ PollLost \/ Parsed \/ Insert \/ InsertFails \/ Notified \/ Acked
    \/ \E m \in Messages : ParseMalformed(m) \/ Parse(m) \/ Notify(m) \/ Ack(m)

Next == Add \/ Boot \/ Recover \/ Process \/ ConnectionLost \/ Crash

Spec == Init /\ [][Next]_vars

\* The process is started again after a crash, and its consumer thread runs.
Fairness == WF_vars(Boot) /\ WF_vars(Recover) /\ WF_vars(Process)

FairSpec == Spec /\ Fairness

--------------------------------------------------------------------------------
(* Properties. *)

\* The values the variables take.
TypeOK ==
    /\ last \in Nat /\ delivered \in Nat /\ trimmed \in Nat
    /\ delivered <= last /\ trimmed <= last /\ last <= MaxMessages
    /\ pel \subseteq Messages /\ malformed \subseteq Messages
    /\ db \subseteq Messages /\ dead \subseteq Messages
    /\ told \subseteq Messages /\ cache \subseteq Messages
    /\ pc \in PcStates /\ conn \in BOOLEAN
    /\ todo \subseteq Messages /\ ready \subseteq Messages
    /\ failed \subseteq Messages /\ rejected \subseteq Messages
    /\ skipped \subseteq Messages
    /\ crashes \in Nat /\ faults \in Nat

\* An order that the group has delivered is stored in MySQL, or still pending
\* so that a restart finds it, through any crash, lost reply and broken
\* connection.  The only ways out are the ones the code takes on purpose (a
\* payload that does not parse, a business rejection) and a batch INSERT that
\* failed.
NothingLost ==
    \A m \in 1..delivered :
        m \in pel \cup db \cup rejected \cup failed \cup malformed \cup skipped

\* "order_created" and the result cache speak of orders that are stored, unless
\* the INSERT of the batch failed.
ToldIsStored == told \cup cache \subseteq db \cup failed

\* Pending messages that a restart reads and leaves where they are.
Unreadable == {m \in pel : m \in malformed \/ m <= trimmed}

\* When the worker waits for new messages and nothing has failed, the backlog
\* holds only messages that cannot be read: one restart is enough for a whole
\* batch, as long as the unreadable messages leave room for it in the reply.
BacklogDrained ==
    pc = "poll" /\ faults = 0 /\ Cardinality(Unreadable) + MaxBatch <= MaxPending
        => pel = Unreadable

\* A buyer is told of an order at most once, although messages are delivered
\* again after a crash.
ToldOnce == [][\A m \in told : ~Notify(m)]_vars

\* Orders that the group has still to deliver, or to see acknowledged.
Unsettled == {m \in Messages : delivered < m /\ m <= last} \cup pel

Delivery == INSTANCE OrderDelivery WITH
                Orders  <- Messages,
                sold    <- {m \in Messages : m <= last},
                waiting <- Unsettled,
                stored  <- db,
                excused <- rejected \cup failed \cup malformed \cup skipped

\* The stream, its group and the OrderProcessor keep what the delivery of an
\* order promises: an order is taken off the list only when it is stored or
\* there is an excuse that the code knows of, it never comes back, rows stay,
\* and the buyer is told once, between the INSERT and the ack.
DeliversAsPromised == Delivery!DeliverySpec

\* A restart would ask for the backlog and not get m: the reply is full of older
\* messages.
LeftOut(m) == pc = "down" /\ m \in pel \ Lowest(pel, MaxPending)

\* Every order that is sold is eventually stored or rejected, crashes
\* notwithstanding, as long as nothing fails, the stream is not trimmed before
\* it is read, and no restart leaves the order out of the backlog it asks for.
\* One that is left out may stay in the PEL for ever: unreadable messages are
\* never acked, and start() reads the PEL once.
EveryOrderSettles ==
    \A m \in Messages :
        <>(m <= last /\ m \notin malformed) =>
            <>(m \in db \cup rejected \/ m <= trimmed \/ faults > 0 \/ LeftOut(m))

\* "NO ACK ... the messages stay in the PEL and are retried when the database
\* is back": an order whose batch failed is stored or pending.
FailedBatchStaysPending == failed \subseteq db \cup pel

\* "write the dead letter, then ACK": whenever the process is down, a rejected
\* order is pending or in the dead letter file.
RejectedIsOnRecord == pc = "down" => rejected \subseteq pel \cup dead
================================================================================
