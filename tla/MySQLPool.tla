------------------------------- MODULE MySQLPool -------------------------------
(***************************************************************************)
(* The pool of MySQL connections, and the threads that borrow from it:     *)
(* HTTP threads, the order processor and the timeout checker, each through *)
(* a ConnectionGuard.                                                      *)
(*                                                                         *)
(* at[c] is where a caller is:                                             *)
(*   "out"      not using the pool                                         *)
(*   "enter"    in getConnection, about to lock mutex_                     *)
(*   "asleep"   in wait_for, mutex_ released                               *)
(*   "awake"    notified, or woken for no reason: about to lock mutex_     *)
(*   "expired"  three seconds are over: about to lock mutex_               *)
(*   "ping"     holds mutex_ and a connection it has taken out             *)
(*   "using"    getConnection has returned a connection                    *)
(*   "failed"   getConnection has returned nullptr                         *)
(***************************************************************************)
EXTENDS Integers, Sequences, FiniteSets

CONSTANTS
    Callers,
    Connections,    \* addresses that a MYSQL object can have
    PoolSize,       \* mysql.pool_size
    Nobody,         \* no caller, no connection
    MaxCalls,       \* bound: calls of getConnection
    MaxPingFaults   \* bound: connections found dead by mysql_ping

ASSUME PoolSizeAssumption == PoolSize \in Nat
ASSUME PoolNobodyAssumption == Nobody \notin Callers \cup Connections
ASSUME PoolFiniteAssumption == IsFiniteSet(Callers) /\ IsFiniteSet(Connections)
ASSUME PoolBoundsAssumption == MaxCalls \in Nat /\ MaxPingFaults \in Nat

VARIABLES
    idle,        \* pool_
    open,        \* connections that are connected to the server
    mutex,       \* owner of mutex_
    at,
    conn,        \* the connection a caller has
    \* history
    dropped,     \* connections that could not be made again
    calls, pingFaults

poolVars == <<idle, open, mutex, at, conn, dropped, calls, pingFaults>>

PoolStates == {"out", "enter", "asleep", "awake", "expired", "ping", "using",
               "failed"}

Sleepers == {c \in Callers : at[c] = "asleep"}

\* Callers on their way to look at the pool.
Coming == {c \in Callers : at[c] \in {"enter", "awake", "expired"}}

MoveTo(c, p) == at' = [at EXCEPT ![c] = p]

\* mysql_close frees the object, createConnection makes one at any address.
NewConnection(old) == (Connections \ open) \cup {old}

--------------------------------------------------------------------------------
Call(c) ==
    /\ at[c] = "out" /\ calls < MaxCalls
    /\ calls' = calls + 1
    /\ MoveTo(c, "enter")
    /\ UNCHANGED <<idle, open, mutex, conn, dropped, pingFaults>>

\* wait_for finds the pool not empty, at once or after a sleep, in time or not.
TakeOut(c) ==
    /\ at[c] \in {"enter", "awake", "expired"}
    /\ mutex = Nobody
    /\ idle # <<>>
    /\ mutex' = c
    /\ conn' = [conn EXCEPT ![c] = Head(idle)]
    /\ idle' = Tail(idle)
    /\ MoveTo(c, "ping")
    /\ UNCHANGED <<open, dropped, calls, pingFaults>>

FindEmpty_NoTimeout(c) ==
    /\ at[c] \in {"enter", "awake", "expired"}
    /\ mutex = Nobody
    /\ idle = <<>>
    /\ MoveTo(c, "asleep")
    /\ UNCHANGED <<idle, open, mutex, conn, dropped, calls, pingFaults>>

\* The pool is empty: sleep, or return nullptr when the time is over.
FindEmpty(c) ==
    /\ at[c] \in {"enter", "awake", "expired"}
    /\ mutex = Nobody
    /\ idle = <<>>
    /\ MoveTo(c, IF at[c] = "expired" THEN "failed" ELSE "asleep")
    /\ UNCHANGED <<idle, open, mutex, conn, dropped, calls, pingFaults>>

Expire(c) ==
    /\ at[c] = "asleep"
    /\ MoveTo(c, "expired")
    /\ UNCHANGED <<idle, open, mutex, conn, dropped, calls, pingFaults>>

WakeUp(c) ==
    /\ at[c] = "asleep"
    /\ MoveTo(c, "awake")
    /\ UNCHANGED <<idle, open, mutex, conn, dropped, calls, pingFaults>>

\* mysql_ping answers.
PingAnswers(c) ==
    /\ at[c] = "ping"
    /\ mutex' = Nobody
    /\ MoveTo(c, "using")
    /\ UNCHANGED <<idle, open, conn, dropped, calls, pingFaults>>

\* mysql_ping fails, and createConnection makes a new connection.
Reconnect(c) ==
    /\ at[c] = "ping" /\ pingFaults < MaxPingFaults
    /\ pingFaults' = pingFaults + 1
    /\ \E new \in NewConnection(conn[c]) :
           /\ conn' = [conn EXCEPT ![c] = new]
           /\ open' = (open \ {conn[c]}) \cup {new}
    /\ mutex' = Nobody
    /\ MoveTo(c, "using")
    /\ UNCHANGED <<idle, dropped, calls>>

DropConnection_Kept(c) ==
    /\ at[c] = "ping" /\ pingFaults < MaxPingFaults
    /\ pingFaults' = pingFaults + 1
    /\ dropped' = dropped + 1
    /\ open' = open \ {conn[c]}
    /\ idle' = Append(idle, conn[c])
    /\ conn' = [conn EXCEPT ![c] = Nobody]
    /\ mutex' = Nobody
    /\ MoveTo(c, "failed")
    /\ UNCHANGED calls

\* mysql_ping and createConnection fail: the connection is gone for good.
DropConnection(c) ==
    /\ at[c] = "ping" /\ pingFaults < MaxPingFaults
    /\ pingFaults' = pingFaults + 1
    /\ dropped' = dropped + 1
    /\ open' = open \ {conn[c]}
    /\ conn' = [conn EXCEPT ![c] = Nobody]
    /\ mutex' = Nobody
    /\ MoveTo(c, "failed")
    /\ UNCHANGED <<idle, calls>>

NotifyOne_IfFirst ==
    IF Sleepers = {} \/ idle # <<>> THEN {at}
    ELSE {[at EXCEPT ![s] = "awake"] : s \in Sleepers}

\* notify_one: where the callers are after it.
NotifyOne ==
    IF Sleepers = {} THEN {at}
    ELSE {[at EXCEPT ![s] = "awake"] : s \in Sleepers}

\* ~ConnectionGuard of a caller that has a connection: releaseConnection.
Release(c) ==
    /\ at[c] = "using"
    /\ mutex = Nobody
    /\ idle' = Append(idle, conn[c])
    /\ conn' = [conn EXCEPT ![c] = Nobody]
    /\ \E woken \in NotifyOne : at' = [woken EXCEPT ![c] = "out"]
    /\ UNCHANGED <<open, mutex, dropped, calls, pingFaults>>

Leave_Returns(c) ==
    /\ at[c] = "failed"
    /\ idle' = Append(idle, conn[c])
    /\ MoveTo(c, "out")
    /\ UNCHANGED <<open, mutex, conn, dropped, calls, pingFaults>>

\* ~ConnectionGuard of a caller that has none.
Leave(c) ==
    /\ at[c] = "failed"
    /\ MoveTo(c, "out")
    /\ UNCHANGED <<idle, open, mutex, conn, dropped, calls, pingFaults>>

--------------------------------------------------------------------------------
\* init: a connection that cannot be made is left out.
PoolInit ==
    /\ \E made \in 0..PoolSize :
           /\ idle \in {s \in [1..made -> Connections] :
                            \A i, j \in 1..made : s[i] = s[j] => i = j}
           /\ dropped = PoolSize - made
    /\ open = {idle[i] : i \in DOMAIN idle}
    /\ mutex = Nobody
    /\ at = [c \in Callers |-> "out"]
    /\ conn = [c \in Callers |-> Nobody]
    /\ calls = 0 /\ pingFaults = 0

\* What a caller that has called does by itself.
PoolStep(c) ==
    \/ TakeOut(c) \/ FindEmpty(c) \/ Expire(c)
    \/ PingAnswers(c) \/ Reconnect(c) \/ DropConnection(c)

PoolNext ==
    \E c \in Callers : Call(c) \/ PoolStep(c) \/ WakeUp(c) \/ Release(c) \/ Leave(c)

PoolSpec == PoolInit /\ [][PoolNext]_poolVars

--------------------------------------------------------------------------------
(* Properties. *)

\* The values the variables take.
PoolTypeOK ==
    /\ idle \in Seq(Connections) /\ open \subseteq Connections
    /\ mutex \in Callers \cup {Nobody}
    /\ at \in [Callers -> PoolStates]
    /\ conn \in [Callers -> Connections \cup {Nobody}]
    /\ dropped \in Nat /\ calls \in Nat /\ pingFaults \in Nat

\* A connection serves one caller at a time: what is idle is open, is in the
\* pool once and in nobody's hands, and no two callers have the same one.
OneOwner ==
    /\ \A i, j \in DOMAIN idle : idle[i] = idle[j] => i = j
    /\ \A i \in DOMAIN idle : idle[i] \in open /\ \A c \in Callers : conn[c] # idle[i]
    /\ \A c, d \in Callers : conn[c] # Nobody =>
           conn[c] \in open /\ (conn[c] = conn[d] => c = d)

\* No connection leaks: what the pool started with is idle, in use, or was
\* lost to a failed connection attempt.
NothingLeaks ==
    Len(idle) + Cardinality({c \in Callers : conn[c] # Nobody}) + dropped = PoolSize

\* No wakeup is lost: while callers sleep, there are no more idle connections
\* than callers on their way to take one.
NoLostWakeup == Sleepers # {} => Len(idle) <= Cardinality(Coming)

\* Every call of getConnection returns: with a connection, or with nullptr
\* after three seconds or a failed reconnection.
EveryCallReturns ==
    \A c \in Callers : at[c] = "enter" ~> at[c] \in {"using", "failed"}
================================================================================
