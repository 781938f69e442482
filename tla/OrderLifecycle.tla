----------------------------- MODULE OrderLifecycle -----------------------------
(***************************************************************************)
(* An order of one product after it is sold: stored, paid, cancelled by    *)
(* its buyer or by the timeout checker, and its unit put on sale again.    *)
(*                                                                         *)
(* MySQL holds the status of the order, Redis the stock and the set of     *)
(* buyers, and the handlers that cancel go from one to the other in steps: *)
(* SELECT, UPDATE, INCRBY, SREM, SETEX, with no transaction around them    *)
(* and no condition in the UPDATE.  Payments, other cancellations, sales,  *)
(* crashes and failures come between.                                      *)
(*                                                                         *)
(* An order is the number of its id.  pc[t] is where thread t is with the  *)
(* first order of todo[t]: "update", "return" (INCRBY), "forget" (SREM) or  *)
(* "cool" (SETEX).  "idle" is a handler without a request and the checker   *)
(* asleep, "scan" the checker awake.                                        *)
(***************************************************************************)
EXTENDS Integers, FiniteSets

CONSTANTS
    Orders,       \* numbers, in the order of the ids
    Users,
    UserOf,       \* the buyer of an order
    Handlers,     \* HTTP threads
    Timer,        \* the thread of the TimeoutChecker
    Quantities,   \* what atoi makes of the "quantity" of a request
    Cooldown,     \* TRUE iff request_cooldown_seconds > 0
    Absent,       \* a key Redis does not have
    ScanLimit,    \* LIMIT of get_all_orders in the checker (1000 in the code)
    Timeout,      \* order_timeout_seconds
    Interval,     \* check_interval_seconds
    StartTime,    \* the Unix time, in seconds, at which the model starts
    MaxStock,     \* bound: units on sale
    MaxScans,     \* bound: rounds of the checker
    MaxFaults,    \* bound: failures of MySQL and of Redis
    MaxCrashes    \* bound: crashes of the process

ASSUME OrdersAssumption == Orders \subseteq Nat /\ IsFiniteSet(Orders)
ASSUME UserOfAssumption == UserOf \in [Orders -> Users]
ASSUME ThreadsAssumption == Timer \notin Handlers
ASSUME QuantitiesAssumption == Quantities \subseteq Int
ASSUME CooldownAssumption == Cooldown \in BOOLEAN
ASSUME AbsentAssumption == Absent \notin Int
ASSUME LimitsAssumption == 
    ScanLimit \in Nat /\ Timeout \in Nat /\ Interval \in Nat /\ StartTime \in Nat
ASSUME BoundsAssumption ==
    MaxStock \in Nat /\ MaxScans \in Nat /\ MaxFaults \in Nat /\ MaxCrashes \in Nat

VARIABLES
    \* Redis
    stock, buyers, cooling,
    \* MySQL: the row of an order, "queued" while the order is still in the
    \* stream and has no row
    status, quantity, created,
    \* the process
    pc, todo,
    now,        \* system_clock in seconds, as of the checker's last sleep
    \* history
    issued,     \* units put on sale
    returned,   \* INCRBYs executed for an order
    stale,      \* orders cancelled when they were no longer pending
    revived,    \* TRUE iff an order was paid when it was already cancelled
    thanked,    \* orders that had a row when their payment was accepted, and that
                \* no cancellation had read before
    faults, crashes

redis == <<stock, buyers, cooling>>
rows == <<status, quantity, created>>
threads == <<pc, todo>>
history == <<stale, revived, thanked>>
bounds == <<faults, crashes>>
vars == <<stock, buyers, cooling, status, quantity, created, pc, todo, now, issued,
          returned, stale, revived, thanked, faults, crashes>>

Threads == Handlers \cup {Timer}
PcStates == {"idle", "scan", "update", "return", "forget", "cool"}
Statuses == {"none", "queued", "pending", "paid", "cancelled"}
MsPerSecond == 1000

Level(s) == IF s = Absent THEN 0 ELSE s
HasRow(o) == status[o] \in {"pending", "paid", "cancelled"}
First(t) == CHOOSE o \in todo[t] : \A p \in todo[t] : o <= p
\* Some thread has read o as one to cancel, and its UPDATE is still to come.
Doomed(o) == \E t \in Threads : o \in todo[t] /\ (pc[t] = "update" \/ o # First(t))

Fault == faults < MaxFaults /\ faults' = faults + 1
Goto(t, p) == pc' = [pc EXCEPT ![t] = p]

\* Thread t is done with its order: a handler has answered, the checker goes
\* on to the next one.
Done(t) ==
    LET rest == todo[t] \ {First(t)} IN
    /\ todo' = [todo EXCEPT ![t] = rest]
    /\ Goto(t, IF rest = {} THEN "idle" ELSE "update")

--------------------------------------------------------------------------------
(* Sale, storage and payment. *)

\* The script sells to a user who is not cooling down and has not bought.
MaySell(o) == UserOf[o] \notin cooling \cup buyers /\ Level(stock) > 0

\* The script sells: one unit is taken, whatever the quantity of the order.
Sell(o) ==
    /\ status[o] = "none"
    /\ MaySell(o)
    /\ stock' = stock - 1
    /\ buyers' = buyers \cup {UserOf[o]}
    /\ cooling' = IF Cooldown THEN cooling \cup {UserOf[o]} ELSE cooling
    /\ status' = [status EXCEPT ![o] = "queued"]
    /\ \E q \in Quantities : quantity' = [quantity EXCEPT ![o] = q]
    /\ created' = [created EXCEPT ![o] = now * MsPerSecond]
    /\ UNCHANGED <<threads, now, issued, returned, history, bounds>>

\* The OrderProcessor stores the order (see OrderPipeline).
Persist(o) ==
    /\ status[o] = "queued"
    /\ status' = [status EXCEPT ![o] = "pending"]
    /\ UNCHANGED <<redis, quantity, created, threads, now, issued, returned,
                   history, bounds>>

\* UPDATE orders SET status = 1 WHERE order_id = o.
Paid(o) == IF HasRow(o) THEN [status EXCEPT ![o] = "paid"] ELSE status

\* handle_order_pay: one UPDATE, on any row; a statement that finds no row
\* succeeds too.
Pay(o) ==
    /\ status[o] # "none"
    /\ status' = Paid(o)
    /\ revived' = (revived \/ status[o] = "cancelled")
    /\ thanked' = IF HasRow(o) /\ ~Doomed(o) THEN thanked \cup {o} ELSE thanked
    /\ UNCHANGED <<redis, quantity, created, threads, now, issued, returned,
                   stale, bounds>>

\* DEL of the stock key by handle_stop_seckill.
StopSale ==
    /\ stock # Absent
    /\ stock' = Absent
    /\ UNCHANGED <<buyers, cooling, rows, threads, now, issued, returned, history, bounds>>

CooldownExpires(u) ==
    /\ u \in cooling
    /\ cooling' = cooling \ {u}
    /\ UNCHANGED <<stock, buyers, rows, threads, now, issued, returned, history, bounds>>

--------------------------------------------------------------------------------
(* Cancellation, by a handler or by the checker. *)

MayCancel_AnyRow(o) == HasRow(o)

\* if (order.status != 0) "Order cannot be cancelled"
MayCancel(o) == status[o] = "pending"

\* handle_order_cancel: get_order_by_id and the check of the status.
ReadForCancel(t, o) ==
    /\ pc[t] = "idle"
    /\ MayCancel(o)
    /\ todo' = [todo EXCEPT ![t] = {o}]
    /\ Goto(t, "update")
    /\ UNCHANGED <<redis, rows, now, issued, returned, history, bounds>>

\* SELECT ... FROM orders LIMIT n: the rows with the lowest ids, whatever
\* their status.
Fetched ==
    {o \in Orders : HasRow(o) /\ Cardinality({p \in Orders : HasRow(p) /\ p < o}) < ScanLimit}

\* The checker's test: "now" is in seconds, created_at in milliseconds.
Overdue(o) == now - created[o] >= Timeout

\* What the checker would cancel if it looked now.
Found == {o \in Fetched : status[o] = "pending" /\ Overdue(o)}

\* check_loop: the checker has slept for its interval.  Time passes here: an
\* order is stamped with the time of the round in which it is sold.
Wake ==
    /\ pc[Timer] = "idle"
    /\ now < StartTime + MaxScans * Interval
    /\ now' = now + Interval
    /\ Goto(Timer, "scan")
    /\ UNCHANGED <<redis, rows, todo, issued, returned, history, bounds>>

\* check_loop: one read of the table, and the orders it will cancel one by one.
Scan ==
    /\ pc[Timer] = "scan"
    /\ todo' = [todo EXCEPT ![Timer] = Found]
    /\ Goto(Timer, IF Found = {} THEN "idle" ELSE "update")
    /\ UNCHANGED <<redis, rows, now, issued, returned, history, bounds>>

\* UPDATE orders SET status = 2: the row is not looked at again.
MarkCancelled(o) ==
    /\ status' = [status EXCEPT ![o] = "cancelled"]
    /\ stale' = IF status[o] # "pending" THEN stale \cup {o} ELSE stale

Update(t) ==
    /\ pc[t] = "update"
    /\ MarkCancelled(First(t))
    /\ Goto(t, "return")
    /\ UNCHANGED <<redis, quantity, created, todo, now, issued, returned,
                   revived, thanked, bounds>>

UpdateFails_GoesOn(t) ==
    /\ pc[t] = "update"
    /\ MarkCancelled(First(t)) \/ UNCHANGED <<status, stale>>
    /\ Goto(t, "return")
    /\ Fault
    /\ UNCHANGED <<redis, quantity, created, todo, now, issued, returned,
                   revived, thanked, crashes>>

\* The UPDATE reports an error, executed or not: the order is left alone.
UpdateFails(t) ==
    /\ pc[t] = "update"
    /\ MarkCancelled(First(t)) \/ UNCHANGED <<status, stale>>
    /\ Done(t)
    /\ Fault
    /\ UNCHANGED <<redis, quantity, created, now, issued, returned,
                   revived, thanked, crashes>>

PutBack_IfOnSale(o) ==
    IF stock = Absent
    THEN UNCHANGED <<stock, returned>>
    ELSE /\ stock' = stock + quantity[o]
         /\ returned' = [returned EXCEPT ![o] = @ + 1]

\* INCRBY by the quantity of the order: a key that was deleted starts from 0.
PutBack(o) ==
    /\ stock' = Level(stock) + quantity[o]
    /\ returned' = [returned EXCEPT ![o] = @ + 1]

AfterReturn_Retry(t) ==
    Goto(t, IF faults' # faults THEN "return" ELSE "forget")

AfterReturn(t) == Goto(t, "forget")

\* incrby: a failure is only logged, and the command may have been executed.
Return(t) ==
    /\ pc[t] = "return"
    /\ \/ PutBack(First(t)) /\ UNCHANGED faults
       \/ (PutBack(First(t)) \/ UNCHANGED <<stock, returned>>) /\ Fault
    /\ AfterReturn(t)
    /\ UNCHANGED <<buyers, cooling, rows, todo, now, issued, history, crashes>>

\* SREM; the checker is then done, a handler still has the SETEX to do.
Forget(t) ==
    /\ pc[t] = "forget"
    /\ \/ buyers' = buyers \ {UserOf[First(t)]} /\ UNCHANGED faults
       \/ Fault /\ UNCHANGED buyers
    /\ \/ t = Timer /\ Done(t)
       \/ t # Timer /\ Goto(t, "cool") /\ UNCHANGED todo
    /\ UNCHANGED <<stock, cooling, rows, now, issued, returned, history, crashes>>

\* SETEX of the cooldown key for 60 seconds.
Cool(t) ==
    /\ pc[t] = "cool"
    /\ \/ cooling' = cooling \cup {UserOf[First(t)]} /\ UNCHANGED faults
       \/ Fault /\ UNCHANGED cooling
    /\ Done(t)
    /\ UNCHANGED <<stock, buyers, rows, now, issued, returned, history, crashes>>

\* The process dies and is started again: nothing resumes a cancellation.
Crash ==
    /\ crashes < MaxCrashes
    /\ crashes' = crashes + 1
    /\ pc' = [t \in Threads |-> "idle"]
    /\ todo' = [t \in Threads |-> {}]
    /\ UNCHANGED <<redis, rows, now, issued, returned, history, faults>>

--------------------------------------------------------------------------------
Init ==
    /\ stock \in 1..MaxStock
    /\ buyers = {} /\ cooling = {}
    /\ status = [o \in Orders |-> "none"]
    /\ quantity = [o \in Orders |-> 0]
    /\ created = [o \in Orders |-> 0]
    /\ pc = [t \in Threads |-> "idle"]
    /\ todo = [t \in Threads |-> {}]
    /\ now = StartTime
    /\ issued = stock
    /\ returned = [o \in Orders |-> 0]
    /\ stale = {} /\ revived = FALSE /\ thanked = {}
    /\ faults = 0 /\ crashes = 0

\* A cancellation that has begun.
Cancel(t) == Update(t) \/ UpdateFails(t) \/ Return(t) \/ Forget(t) \/ Cool(t)

Next ==
    \/ \E o \in Orders : Sell(o) \/ Persist(o) \/ Pay(o)
    \/ \E t \in Handlers, o \in Orders : ReadForCancel(t, o)
    \/ Wake \/ Scan
    \/ \E t \in Threads : Cancel(t)
    \/ \E u \in Users : CooldownExpires(u)
    \/ StopSale
    \/ Crash

Spec == Init /\ [][Next]_vars

--------------------------------------------------------------------------------
(* Properties. *)

\* Orders that hold a unit.
Live == {o \in Orders : status[o] \in {"queued", "pending", "paid"}}

\* Thread t is about to put the unit of o on sale again.
Puts(t, o) == pc[t] = "return" /\ First(t) = o

\* Orders that have a claim on a unit: live ones, and those whose unit is about
\* to be put back.
Claims == Live \cup {o \in Orders : \E t \in Threads : Puts(t, o)}

\* No cancellation overtook a payment or another cancellation of its order.
Undisturbed == stale = {} /\ ~revived

OnePiece == \A o \in Orders : status[o] # "none" => quantity[o] = 1

\* The values the variables take.
TypeOK ==
    /\ stock \in Int \cup {Absent}
    /\ buyers \subseteq Users /\ cooling \subseteq Users
    /\ status \in [Orders -> Statuses]
    /\ quantity \in [Orders -> Int] /\ created \in [Orders -> Nat]
    /\ pc \in [Threads -> PcStates]
    /\ todo \in [Threads -> SUBSET Orders]
    /\ \A t \in Threads : pc[t] \in {"idle", "scan"} <=> todo[t] = {}
    /\ now \in Nat /\ issued \in Nat
    /\ returned \in [Orders -> Nat]
    /\ stale \subseteq Orders /\ revived \in BOOLEAN /\ thanked \subseteq Orders
    /\ faults \in Nat /\ crashes \in Nat

\* A cancellation puts the unit of its order on sale once, through failures
\* and crashes, unless two threads cancelled the order (or one of them a paid
\* one) because both had read it as pending.
ReturnedOnce == \A o \in Orders : returned[o] > 0 =>
                    o \in stale \/ (returned[o] = 1 /\ status[o] \in {"cancelled", "paid"})

\* The units on sale and the orders that hold one do not exceed the units put
\* on sale, while every order is for one piece and nothing overtook anything.
NoLiveOversell ==
    Undisturbed /\ OnePiece => Level(stock) + Cardinality(Live) <= issued

\* A user has one order that is not cancelled, although a cancelled one makes
\* room for the next.
OneLiveOrder ==
    Undisturbed => \A o, p \in Live : UserOf[o] = UserOf[p] => o = p

\* An order that is paid before any cancellation has read it stays paid, however
\* many cancellations of it are asked for and whatever the checker finds later:
\* each of them reads the status first.  One that was read before the payment
\* goes on and cancels the paid order.
PaidStaysPaid == \A o \in thanked : status[o] = "paid"

\* The unit of a cancelled order is on sale again, or some thread is about to
\* put it there: only a failure or a crash lets a unit disappear.
NoUnitForgotten ==
    faults = 0 /\ crashes = 0 =>
        \A o \in Orders : status[o] = "cancelled" /\ returned[o] = 0 =>
            \E t \in Threads : Puts(t, o)

\* What a buyer can know of an order: one that is being cancelled is open until
\* its unit is back on sale, or lost.
StateOf(o) ==
    IF status[o] \in {"none", "paid"} THEN status[o]
    ELSE IF o \in Claims THEN "open" ELSE "gone"

Sale == INSTANCE CancellableSale WITH
            units <- Level(stock),
            state <- [o \in Orders |-> StateOf(o)]

\* Handlers, checker and scripts keep what a sale with cancellation promises,
\* in every step, as long as no cancellation overtakes a payment or another
\* cancellation and orders are for one piece: whoever orders takes a unit and
\* had none, the unit of a cancelled order is on sale again once, a payment
\* and a cancellation are final, and otherwise units only disappear.
CancelsAsPromised ==
    /\ Sale!SaleInit
    /\ [][(Undisturbed /\ OnePiece)' => [Sale!SaleNext]_(Sale!saleVars)]_vars

\* "only a pending (0) order can be cancelled".
OnlyPendingIsCancelled ==
    [][\A o \in Orders :
          status[o] # "cancelled" /\ status'[o] = "cancelled" => status[o] = "pending"]_vars

\* "scans unpaid orders regularly and cancels them when they time out": an
\* unpaid order that is Timeout seconds old is one that a scan would cancel.
ExpiredIsFound ==
    \A o \in Orders :
        status[o] = "pending" /\ now * MsPerSecond - created[o] >= Timeout * MsPerSecond
            => o \in Found
================================================================================
