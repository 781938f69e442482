------------------------------ MODULE RateLimiter ------------------------------
(***************************************************************************)
(* RateLimiter: a token bucket shared by all callers, and a sliding window *)
(* for each client address and for each user.                              *)
(*                                                                         *)
(* The module has the limiter's state and, one operator per critical       *)
(* section or half of one, what a thread does to it; PurchaseGate has the  *)
(* threads.  A window keeps the time stamps of the requests it admitted:   *)
(* here an entry is the request itself, and its time stamp is reading.     *)
(***************************************************************************)
EXTENDS Integers, Sequences

CONSTANTS
    Requests,    \* purchase requests, each on a thread of the HTTP server
    Ips, Users,
    IpOf, UserOf,
    Main,        \* the main thread
    Free,        \* the owner of a mutex that nobody holds
    Settings,    \* the settings that Config may come to hold
    Default      \* the settings of the start

Gates == {"ip", "user"}
Keys == Ips \cup Users
Threads == Requests \cup {Main}
SettingsType ==
    [rate : Int, capacity : Int, size : Int, max : Int,
     userSize : Int, userMax : Int, tokenRequired : BOOLEAN]

ASSUME OfAssumption == IpOf \in [Requests -> Ips] /\ UserOf \in [Requests -> Users]
ASSUME KeysAssumption == Ips \cap Users = {}   \* the key of a user is "uid:" ...
ASSUME ThreadsAssumption == Main \notin Requests /\ Free \notin Threads
ASSUME SettingsAssumption == Settings \subseteq SettingsType
ASSUME DefaultAssumption ==
    /\ Default \in Settings
    /\ Default.rate > 0 /\ Default.capacity > 0
    /\ Default.userSize > 0 /\ Default.userMax > 0

VARIABLES
    now,          \* steady_clock, in ticks of half a millisecond
    tokens, lastRefill, rate, capacity,      \* the bucket
    winSize, winMax, userSize, userMax,      \* the limits of the windows
    records,      \* window_records_: per key, its entries, oldest arrival first
    reading,      \* the now_ms a request has read at each gate
    bucketLock, windowLock,                  \* owners of the two mutexes
    \* history
    spent,        \* tokens taken since the start
    lastTake,     \* when the last token was taken, -1 before
    newest,       \* per key, the largest now_ms that has entered its window
    ontime        \* <<request, gate>> admitted with a now_ms no older than that

TicksPerMs == 2
MsPerSecond == 1000

bucket == <<tokens, lastRefill, rate, capacity, spent, lastTake>>
limits == <<winSize, winMax, userSize, userMax>>
windows == <<records, reading, newest, ontime>>
limiter == <<now, bucket, limits, windows, bucketLock, windowLock>>

Ms == now \div TicksPerMs

Smaller(a, b) == IF a < b THEN a ELSE b

KeyOf(r, g) == IF g = "ip" THEN IpOf[r] ELSE UserOf[r]

\* window_size_ is in milliseconds, user_window_size_ in seconds.
SizeAt(g) == IF g = "ip" THEN winSize ELSE userSize * MsPerSecond

MaxAt(g) == IF g = "ip" THEN winMax ELSE userMax

--------------------------------------------------------------------------------
(* The bucket, under token_mutex_. *)

\* Whole milliseconds since the last refill.
Elapsed == (now - lastRefill) \div TicksPerMs

\* "Multiply first": a fraction of a token is dropped.
Earned(ms) == (ms * rate) \div MsPerSecond

\* last_refill_ advances by the milliseconds that were counted, not to now.
Kept(ms) == lastRefill + ms * TicksPerMs

Refilled_NotStored == tokens

\* refill_tokens: what tokens_ becomes before the caller takes one.
Refilled ==
    IF Elapsed > 0 THEN Smaller(tokens + Earned(Elapsed), capacity) ELSE tokens

LastRefilled == IF Elapsed > 0 THEN Kept(Elapsed) ELSE lastRefill

\* The first critical section of allow, when it lets the request through.
TakeToken ==
    /\ Refilled > 0
    /\ tokens' = Refilled - 1
    /\ lastRefill' = LastRefilled
    /\ spent' = spent + 1
    /\ lastTake' = now
    /\ UNCHANGED <<rate, capacity>>

\* "tokens_ <= 0": the request is refused.
NoToken ==
    /\ Refilled <= 0
    /\ tokens' = Refilled
    /\ lastRefill' = LastRefilled
    /\ UNCHANGED <<rate, capacity, spent, lastTake>>

--------------------------------------------------------------------------------
(* The windows, under window_mutex_. *)

\* The entries behind those at the front that are not younger than the cutoff.
\* A young entry at the front keeps what is behind it, older or not.
Behind(s, g, cutoff) ==
    LET young == {i \in 1..Len(s) : reading[s[i]][g] > cutoff}
    IN  IF young = {} THEN <<>>
        ELSE SubSeq(s, CHOOSE i \in young : \A j \in young : i <= j, Len(s))

Cutoff(r, g) == reading[r][g] - SizeAt(g)

\* Expired entries leave; a request that is not refused at once counts as on
\* time unless it was overtaken.
Slide(r, g) ==
    LET k == KeyOf(r, g) IN
    /\ records' = [records EXCEPT ![k] = Behind(@, g, Cutoff(r, g))]
    /\ newest' = [newest EXCEPT ![k] = IF reading[r][g] > @ THEN reading[r][g] ELSE @]
    /\ ontime' = IF MaxAt(g) > 0 /\ reading[r][g] >= newest[k]
                 THEN ontime \cup {<<r, g>>} ELSE ontime

HasRoom_OffByOne(r, g) == MaxAt(g) < 0 \/ Len(records[KeyOf(r, g)]) <= MaxAt(g)

\* The second read of the limit, which is not under the mutex that update_params
\* holds: a negative one, converted to size_t, is larger than any window.
HasRoom(r, g) == MaxAt(g) < 0 \/ Len(records[KeyOf(r, g)]) < MaxAt(g)

\* Second half, admitted: the time stamp is pushed at the back.
Record(r, g) ==
    /\ HasRoom(r, g)
    /\ records' = [records EXCEPT ![KeyOf(r, g)] = Append(@, r)]
    /\ UNCHANGED <<reading, newest, ontime>>

\* Second half, refused.
Decline(r, g) ==
    /\ ~HasRoom(r, g)
    /\ ontime' = ontime \ {<<r, g>>}
    /\ UNCHANGED <<records, reading, newest>>
--------------------------------------------------------------------------------
(* Hot update. *)

Positive_Any(new, old) == new

\* Values that are not positive are ignored.
Positive(new, old) == IF new > 0 THEN new ELSE old

Clipped_Refilled(s) == s.capacity

\* The bucket never holds more than its new capacity.
Clipped(s) == IF s.capacity > 0 THEN Smaller(tokens, s.capacity) ELSE tokens

\* update_params, first part, as it acquires token_mutex_.  The limits of the
\* windows are read under the other mutex, so a thread there may see one of
\* them stored and not yet the other, in either order.
StoreRate(s) ==
    /\ rate' = Positive(s.rate, rate)
    /\ capacity' = Positive(s.capacity, capacity)
    /\ tokens' = Clipped(s)
    /\ \/ winSize' = s.size /\ UNCHANGED winMax
       \/ winMax' = s.max /\ UNCHANGED winSize
    /\ UNCHANGED <<now, lastRefill, spent, lastTake, userSize, userMax, windows>>

StoreLimits_MaxOnly(s) ==
    /\ winMax' = s.max
    /\ lastRefill' = now
    /\ UNCHANGED <<now, tokens, rate, capacity, spent, lastTake, winSize, userSize,
                   userMax, windows>>

\* Second part, as it releases token_mutex_: the time since the last refill
\* earns nothing.
StoreLimits(s) ==
    /\ winSize' = s.size
    /\ winMax' = s.max
    /\ lastRefill' = now
    /\ UNCHANGED <<now, tokens, rate, capacity, spent, lastTake, userSize, userMax,
                   windows>>

\* update_user_params, under window_mutex_.
StoreUserLimits(s) ==
    /\ userSize' = Positive(s.userSize, userSize)
    /\ userMax' = Positive(s.userMax, userMax)
    /\ UNCHANGED <<now, bucket, winSize, winMax, windows>>

\* Config::load, which sets the limits of the users, and RateLimiter::init.
LimiterInit ==
    /\ now = 0
    /\ tokens = Default.capacity /\ lastRefill = 0
    /\ rate = Default.rate /\ capacity = Default.capacity
    /\ winSize = Default.size /\ winMax = Default.max
    /\ userSize = Default.userSize /\ userMax = Default.userMax
    /\ records = [k \in Keys |-> <<>>]
    /\ reading = [r \in Requests |-> [g \in Gates |-> 0]]
    /\ bucketLock = Free /\ windowLock = Free
    /\ spent = 0 /\ lastTake = -1
    /\ newest = [k \in Keys |-> 0]
    /\ ontime = {}
================================================================================
