-------------------------- MODULE OrderLifecycleProofs --------------------------
(***************************************************************************)
(* The life of an order for every number of orders, users and handlers,    *)
(* every quantity and any number of failures and crashes: a unit is put    *)
(* back once, nothing is oversold, a payment stays, the whole implements   *)
(* CancellableSale, and a cancellation that has begun ends; the timeout    *)
(* checker cancels nothing.                                                *)
(***************************************************************************)
EXTENDS OrderLifecycle, Smallest, FiniteSetTheorems

\* A thread that has orders to do has a first one.
LEMMA FirstIs ==
    ASSUME NEW t, todo[t] \in SUBSET Orders, todo[t] # {}
    PROVE  First(t) \in todo[t]
<1>1. todo[t] \in SUBSET Nat
  BY OrdersAssumption
<1>2. \E o \in todo[t] : \A p \in todo[t] : o <= p
  BY <1>1, HasSmallest
<1>3. QED BY <1>2 DEF First

\* The level of the stock is a number.
LEMMA LevelIs ==
    ASSUME stock \in Int \cup {Absent}
    PROVE  Level(stock) \in Int /\ (Level(stock) > 0 => stock \in Int)
<1> QED BY DEF Level

--------------------------------------------------------------------------------
(* Types. *)

\* What a thread has to do fits where it is.
ThreadTypes ==
    /\ pc \in [Threads -> PcStates]
    /\ todo \in [Threads -> SUBSET Orders]
    /\ \A t \in Threads : pc[t] \in {"idle", "scan"} <=> todo[t] = {}

DataTypes ==
    /\ stock \in Int \cup {Absent}
    /\ buyers \subseteq Users /\ cooling \subseteq Users
    /\ status \in [Orders -> Statuses]
    /\ quantity \in [Orders -> Int] /\ created \in [Orders -> Nat]
    /\ now \in Nat /\ issued \in Nat
    /\ returned \in [Orders -> Nat]
    /\ stale \subseteq Orders /\ revived \in BOOLEAN /\ thanked \subseteq Orders
    /\ faults \in Nat /\ crashes \in Nat

\* TypeOK is the two halves.
LEMMA Halves == TypeOK <=> ThreadTypes /\ DataTypes
<1> QED BY DEF TypeOK, ThreadTypes, DataTypes

\* A thread that is inside a cancellation is at one of its orders.
LEMMA FirstType ==
    ASSUME ThreadTypes, NEW t \in Threads, pc[t] \notin {"idle", "scan"}
    PROVE  First(t) \in Orders /\ First(t) \in todo[t]
<1>1. todo[t] \in SUBSET Orders /\ todo[t] # {}
  BY DEF ThreadTypes
<1>2. QED BY <1>1, FirstIs

\* An order that is done leaves the list.
LEMMA DoneTypes ==
    ASSUME ThreadTypes, NEW t \in Threads, Done(t)
    PROVE  ThreadTypes'
<1> DEFINE rest == todo[t] \ {First(t)}
<1>1. /\ todo' = [todo EXCEPT ![t] = rest]
      /\ pc' = [pc EXCEPT ![t] = IF rest = {} THEN "idle" ELSE "update"]
      /\ rest \in SUBSET Orders
  BY DEF Done, Goto, ThreadTypes
<1> HIDE DEF rest
<1>2. QED BY <1>1 DEF ThreadTypes, PcStates

\* Going on inside a cancellation.
LEMMA GotoTypes ==
    ASSUME ThreadTypes, NEW t \in Threads, pc[t] \notin {"idle", "scan"},
           NEW p \in {"return", "forget", "cool"}, Goto(t, p), UNCHANGED todo
    PROVE  ThreadTypes'
<1> QED BY DEF Goto, ThreadTypes, PcStates

\* The threads keep their types.
LEMMA ThreadTypesKept ==
    ASSUME ThreadTypes, Next
    PROVE  ThreadTypes'
<1>1. CASE UNCHANGED threads
  BY <1>1 DEF threads, ThreadTypes
<1>2. ASSUME NEW t \in Handlers, NEW o \in Orders, ReadForCancel(t, o)
      PROVE  ThreadTypes'
  BY <1>2 DEF ReadForCancel, Goto, ThreadTypes, PcStates, Threads
<1>3. CASE Wake
  BY <1>3 DEF Wake, Goto, ThreadTypes, PcStates, Threads
<1>4. CASE Scan
  <2>1. Found \in SUBSET Orders
    BY DEF Found, Fetched
  <2>2. QED BY <1>4, <2>1 DEF Scan, Goto, ThreadTypes, PcStates, Threads
<1>5. ASSUME NEW t \in Threads, Cancel(t)
      PROVE  ThreadTypes'
  <2>1. CASE Done(t)
    BY <2>1, DoneTypes
  <2>2. CASE UNCHANGED todo /\ \E p \in {"return", "forget", "cool"} : Goto(t, p)
    <3>1. pc[t] \notin {"idle", "scan"}
      BY <1>5 DEF Cancel, Update, UpdateFails, Return, Forget, Cool
    <3>2. QED BY <2>2, <3>1, GotoTypes
  <2>3. QED
    BY <1>5, <2>1, <2>2
       DEF Cancel, Update, UpdateFails, Return, AfterReturn, Forget, Cool
<1>6. CASE Crash
  BY <1>6 DEF Crash, ThreadTypes, PcStates
<1>7. CASE \/ \E o \in Orders : Sell(o) \/ Persist(o) \/ Pay(o)
           \/ \E u \in Users : CooldownExpires(u)
           \/ StopSale
  BY <1>1, <1>7 DEF Sell, Persist, Pay, CooldownExpires, StopSale
<1>8. QED BY <1>2, <1>3, <1>4, <1>5, <1>6, <1>7 DEF Next

\* The data keep their types.
LEMMA DataTypesKept ==
    ASSUME ThreadTypes, DataTypes, Next
    PROVE  DataTypes'
<1> USE DEF DataTypes
<1>1. ASSUME NEW o \in Orders, Sell(o)
      PROVE  DataTypes'
  <2>1. stock \in Int /\ UserOf[o] \in Users
    BY <1>1, LevelIs, UserOfAssumption DEF Sell, MaySell
  <2>2. quantity' \in [Orders -> Int]
    BY <1>1, QuantitiesAssumption DEF Sell
  <2>3. created' \in [Orders -> Nat]
    BY <1>1 DEF Sell, MsPerSecond
  <2>4. buyers' \subseteq Users /\ cooling' \subseteq Users
    BY <1>1, <2>1 DEF Sell
  <2>5. status' \in [Orders -> Statuses] /\ stock' \in Int
    BY <1>1, <2>1 DEF Sell, Statuses
  <2>6. UNCHANGED <<now, issued, returned, history, bounds>>
    BY <1>1 DEF Sell
  <2>7. QED BY <2>2, <2>3, <2>4, <2>5, <2>6 DEF history, bounds
<1>2. ASSUME NEW o \in Orders, Persist(o)
      PROVE  DataTypes'
  BY <1>2 DEF Persist, Statuses, redis, history, bounds
<1>3. ASSUME NEW o \in Orders, Pay(o)
      PROVE  DataTypes'
  <2>1. revived' \in BOOLEAN
    BY <1>3, Zenon DEF Pay
  <2>2. status' \in [Orders -> Statuses] /\ thanked' \subseteq Orders
    BY <1>3 DEF Pay, Paid, Statuses
  <2>3. UNCHANGED <<redis, quantity, created, now, issued, returned, stale, bounds>>
    BY <1>3 DEF Pay
  <2>4. QED BY <2>1, <2>2, <2>3 DEF redis, bounds
<1>4. CASE StopSale \/ \E u \in Users : CooldownExpires(u)
  BY <1>4 DEF StopSale, CooldownExpires, rows, history, bounds
<1>5. CASE Scan \/ Crash \/ \E t \in Handlers, o \in Orders : ReadForCancel(t, o)
  BY <1>5 DEF Scan, Crash, ReadForCancel, redis, rows, history, bounds
<1>6. CASE Wake
  BY <1>6, LimitsAssumption DEF Wake, redis, rows, history, bounds
<1>7. ASSUME NEW t \in Threads, Update(t) \/ UpdateFails(t)
      PROVE  DataTypes'
  <2>1. First(t) \in Orders
    BY <1>7, FirstType DEF Update, UpdateFails
  <2>2. /\ UNCHANGED <<redis, quantity, created, now, issued, returned, revived,
                       thanked, crashes>>
        /\ faults' \in {faults, faults + 1}
        /\ MarkCancelled(First(t)) \/ UNCHANGED <<status, stale>>
    BY <1>7 DEF Update, UpdateFails, Fault, bounds
  <2>3. status' \in [Orders -> Statuses] /\ stale' \subseteq Orders
    BY <2>1, <2>2 DEF MarkCancelled, Statuses
  <2>4. QED BY <2>2, <2>3 DEF redis
<1>8. ASSUME NEW t \in Threads, Return(t)
      PROVE  DataTypes'
  <2>1. First(t) \in Orders
    BY <1>8, FirstType DEF Return
  <2>2. /\ UNCHANGED <<buyers, cooling, rows, now, issued, history, crashes>>
        /\ faults' \in {faults, faults + 1}
        /\ PutBack(First(t)) \/ UNCHANGED <<stock, returned>>
    BY <1>8 DEF Return, Fault
  <2>3. stock' \in Int \cup {Absent} /\ returned' \in [Orders -> Nat]
    BY <2>1, <2>2, LevelIs DEF PutBack
  <2>4. QED BY <2>2, <2>3 DEF rows, history
<1>9. ASSUME NEW t \in Threads, Forget(t) \/ Cool(t)
      PROVE  DataTypes'
  <2>1. UserOf[First(t)] \in Users
    BY <1>9, FirstType, UserOfAssumption DEF Forget, Cool
  <2>2. QED BY <1>9, <2>1 DEF Forget, Cool, Fault, rows, history
<1>10. QED
  BY <1>1, <1>2, <1>3, <1>4, <1>5, <1>6, <1>7, <1>8, <1>9 DEF Next, Cancel

TypeInv == ThreadTypes /\ DataTypes

\* The types hold in every state.
THEOREM TypeInvariant == Spec => []TypeInv
<1>1. Init => TypeInv
  <2> SUFFICES ASSUME Init PROVE TypeInv
    OBVIOUS
  <2>1. ThreadTypes
    BY DEF Init, ThreadTypes, PcStates
  <2>2. stock \in Nat
    BY BoundsAssumption DEF Init
  <2>3. revived \in BOOLEAN
    BY DEF Init
  <2>4. DataTypes
    BY <2>2, <2>3, LimitsAssumption DEF Init, DataTypes, Statuses
  <2>5. QED BY <2>1, <2>4 DEF TypeInv
<1>2. TypeInv /\ [Next]_vars => TypeInv'
  <2> SUFFICES ASSUME TypeInv, [Next]_vars PROVE TypeInv'
    OBVIOUS
  <2>1. CASE Next
    BY <2>1, ThreadTypesKept, DataTypesKept DEF TypeInv
  <2>2. CASE UNCHANGED vars
    BY <2>2 DEF vars, TypeInv, ThreadTypes, DataTypes
  <2>3. QED BY <2>1, <2>2
<1>3. QED BY <1>1, <1>2, PTL DEF Spec

\* The variables of the life of an order keep their types.
THEOREM TypeCorrect == Spec => []TypeOK
<1>1. TypeInv => TypeOK
  BY Halves DEF TypeInv
<1>2. QED BY <1>1, TypeInvariant, PTL

--------------------------------------------------------------------------------
(* Who cancels what. *)

\* Thread t has still the buyer of o to forget.
Holds(t, o) == pc[t] \in {"return", "forget"} /\ First(t) = o

\* A thread that keeps its list keeps its first order.
LEMMA FirstStays ==
    ASSUME NEW t, todo'[t] = todo[t]
    PROVE  First(t)' = First(t)
<1> QED BY DEF First

\* Steps of other parts of the system.
LEMMA OthersMove ==
    ASSUME UNCHANGED threads, NEW u, NEW o
    PROVE  (Puts(u, o)' <=> Puts(u, o)) /\ (Holds(u, o)' <=> Holds(u, o))
<1> QED BY FirstStays DEF threads, Puts, Holds

\* A thread that is neither putting back nor forgetting, before and after.
LEMMA QuietMoves ==
    ASSUME NEW t, pc[t] \notin {"return", "forget"}, pc'[t] \notin {"return", "forget"},
           \A u \in Threads \ {t} : pc'[u] = pc[u] /\ todo'[u] = todo[u],
           NEW u \in Threads, NEW o
    PROVE  (Puts(u, o)' <=> Puts(u, o)) /\ (Holds(u, o)' <=> Holds(u, o))
<1>1. CASE u = t
  BY <1>1 DEF Puts, Holds
<1>2. CASE u # t
  BY <1>2, FirstStays DEF Puts, Holds
<1>3. QED BY <1>1, <1>2

\* A cancelled order is to be put back, and its buyer to be forgotten.
LEMMA UpdateMoves ==
    ASSUME TypeInv, NEW t \in Threads, Update(t), NEW u \in Threads, NEW o
    PROVE  /\ Puts(u, o)' <=> Puts(u, o) \/ (u = t /\ o = First(t))
           /\ Holds(u, o)' <=> Holds(u, o) \/ (u = t /\ o = First(t))
<1>1. /\ pc[t] = "update" /\ pc'[t] = "return" /\ UNCHANGED todo
      /\ u # t => pc'[u] = pc[u]
  BY DEF Update, Goto, TypeInv, ThreadTypes
<1>2. First(u)' = First(u)
  BY <1>1, FirstStays
<1>3. QED BY <1>1, <1>2 DEF Puts, Holds

\* After INCRBY only the buyer is left to be forgotten.
LEMMA ReturnMoves ==
    ASSUME TypeInv, NEW t \in Threads, Return(t), NEW u \in Threads, NEW o
    PROVE  /\ Puts(u, o)' <=> Puts(u, o) /\ u # t
           /\ Holds(u, o)' <=> Holds(u, o)
<1>1. /\ pc[t] = "return" /\ pc'[t] = "forget" /\ UNCHANGED todo
      /\ u # t => pc'[u] = pc[u]
  BY DEF Return, AfterReturn, Goto, TypeInv, ThreadTypes
<1>2. First(u)' = First(u)
  BY <1>1, FirstStays
<1>3. QED BY <1>1, <1>2 DEF Puts, Holds

\* After SREM there is nothing left that the invariants speak of.
LEMMA ForgetMoves ==
    ASSUME TypeInv, NEW t \in Threads, Forget(t), NEW u \in Threads, NEW o
    PROVE  /\ Puts(u, o)' <=> Puts(u, o)
           /\ Holds(u, o)' <=> Holds(u, o) /\ u # t
<1>1. /\ pc[t] = "forget" /\ pc'[t] \notin {"return", "forget"}
      /\ u # t => pc'[u] = pc[u] /\ todo'[u] = todo[u]
  BY DEF Forget, Done, Goto, TypeInv, ThreadTypes
<1>2. CASE u = t
  BY <1>1, <1>2 DEF Puts, Holds
<1>3. CASE u # t
  BY <1>1, <1>3, FirstStays DEF Puts, Holds
<1>4. QED BY <1>2, <1>3

\* What the other steps may do, as far as the invariants tell them apart.
Minor ==
    /\ \A u \in Threads, o \in Orders : (Puts(u, o)' => Puts(u, o)) /\ (Holds(u, o)' => Holds(u, o))
    /\ faults' = 0 /\ crashes' = 0 =>
           /\ faults = 0 /\ crashes = 0
           /\ \A u \in Threads, o \in Orders : Puts(u, o) => Puts(u, o)'
           /\ \A o \in Orders : status'[o] = "cancelled" => status[o] = "cancelled"
    /\ UNCHANGED <<buyers, returned, issued, quantity>>
    /\ stale \subseteq stale' /\ (revived => revived')
    /\ \A o \in Orders :
           /\ status'[o] \notin {"cancelled", "paid"} => status[o] \notin {"cancelled", "paid"}
           /\ status'[o] = "none" => status[o] = "none"
           /\ ~revived' => /\ status[o] = "cancelled" => status'[o] = "cancelled"
                           /\ o \in Live' => o \in Live
    /\ stock' = stock \/ stock' = Absent

\* A step is a sale, a cancellation's UPDATE, INCRBY or SREM, or a minor one.
LEMMA StepKinds ==
    ASSUME TypeInv, Next
    PROVE  \/ \E o \in Orders : Sell(o)
           \/ \E t \in Threads : Update(t) \/ Return(t) \/ Forget(t)
           \/ Minor
<1> USE DEF TypeInv, ThreadTypes, DataTypes
<1>1. ASSUME NEW o \in Orders, Persist(o) \/ Pay(o)
      PROVE  Minor
  <2>1. /\ UNCHANGED <<threads, redis, returned, issued, quantity, stale, faults, crashes>>
        /\ revived' = (revived \/ (status[o] = "cancelled" /\ Pay(o)))
        /\ \A p \in Orders \ {o} : status'[p] = status[p]
        /\ \/ status'[o] = status[o]
           \/ status[o] = "queued" /\ status'[o] = "pending"
           \/ HasRow(o) /\ Pay(o) /\ status'[o] = "paid"
    <3>1. CASE Persist(o)
      <4>1. ~Pay(o) \/ status[o] # "cancelled"
        BY <3>1 DEF Persist
      <4>2. QED BY <3>1, <4>1 DEF Persist, history, bounds
    <3>2. CASE Pay(o)
      BY <3>2 DEF Pay, Paid, bounds
    <3>3. QED BY <1>1, <3>1, <3>2
  <2>2. \A u \in Threads, p \in Orders :
            (Puts(u, p)' <=> Puts(u, p)) /\ (Holds(u, p)' <=> Holds(u, p))
    BY <2>1, OthersMove
  <2>3. \A p \in Orders :
           /\ status'[p] = "cancelled" => status[p] = "cancelled"
           /\ status'[p] \notin {"cancelled", "paid"} => status[p] \notin {"cancelled", "paid"}
           /\ status'[p] = "none" => status[p] = "none"
           /\ ~revived' => /\ status[p] = "cancelled" => status'[p] = "cancelled"
                           /\ p \in Live' => p \in Live
    BY <2>1 DEF Live, HasRow
  <2>4. QED BY <2>1, <2>2, <2>3 DEF Minor, redis
<1>2. CASE StopSale \/ \E u \in Users : CooldownExpires(u)
  <2>1. /\ UNCHANGED <<threads, buyers, rows, returned, issued, history, bounds>>
        /\ stock' = stock \/ stock' = Absent
    BY <1>2 DEF StopSale, CooldownExpires
  <2>2. Live' = Live
    BY <2>1 DEF Live, rows
  <2>3. QED BY <2>1, <2>2, OthersMove DEF Minor, rows, history, bounds
<1>3. ASSUME UNCHANGED <<stock, buyers, status, quantity, issued, returned, stale,
                         revived, faults, crashes>>,
             NEW t \in Threads, pc[t] \notin {"return", "forget"},
             pc'[t] \notin {"return", "forget"},
             \A u \in Threads \ {t} : pc'[u] = pc[u] /\ todo'[u] = todo[u]
      PROVE  Minor
  <2>1. Live' = Live
    BY <1>3 DEF Live
  <2>2. \A u \in Threads, p \in Orders :
            (Puts(u, p)' <=> Puts(u, p)) /\ (Holds(u, p)' <=> Holds(u, p))
    BY <1>3, QuietMoves
  <2>3. QED BY <1>3, <2>1, <2>2 DEF Minor
<1>4. ASSUME NEW t \in Handlers, NEW o \in Orders, ReadForCancel(t, o)
      PROVE  Minor
  <2>1. t \in Threads
    BY DEF Threads
  <2>2. /\ UNCHANGED <<stock, buyers, status, quantity, issued, returned, stale,
                         revived, faults, crashes>>
        /\ pc[t] \notin {"return", "forget"} /\ pc'[t] \notin {"return", "forget"}
        /\ \A u \in Threads \ {t} : pc'[u] = pc[u] /\ todo'[u] = todo[u]
    BY <1>4, <2>1 DEF ReadForCancel, Goto, redis, rows, history, bounds
  <2>3. QED BY <1>3, <2>1, <2>2
<1>5. CASE Wake \/ Scan
  <2>1. Timer \in Threads
    BY DEF Threads
  <2>2. /\ UNCHANGED <<stock, buyers, status, quantity, issued, returned, stale,
                         revived, faults, crashes>>
        /\ pc[Timer] \notin {"return", "forget"} /\ pc'[Timer] \notin {"return", "forget"}
        /\ \A u \in Threads \ {Timer} : pc'[u] = pc[u] /\ todo'[u] = todo[u]
    BY <1>5, <2>1 DEF Wake, Scan, Goto, redis, rows, history, bounds
  <2>3. QED BY <1>3, <2>1, <2>2
<1>6. ASSUME NEW t \in Threads, UpdateFails(t) \/ Cool(t)
      PROVE  Minor
  <2>1. /\ pc[t] \notin {"return", "forget"} /\ pc'[t] \notin {"return", "forget"}
        /\ \A u \in Threads \ {t} : pc'[u] = pc[u] /\ todo'[u] = todo[u]
    BY <1>6 DEF UpdateFails, Cool, Done, Goto
  <2>2. \A u \in Threads, p \in Orders :
            (Puts(u, p)' <=> Puts(u, p)) /\ (Holds(u, p)' <=> Holds(u, p))
    BY <2>1, QuietMoves
  <2>3. First(t) \in Orders
    BY <1>6, FirstType DEF UpdateFails, Cool
  <2>4. UNCHANGED <<stock, buyers, quantity, issued, returned, revived, crashes>>
    BY <1>6 DEF UpdateFails, Cool, redis, rows, history
  <2>5. \/ faults' = faults + 1 /\ MarkCancelled(First(t))
        \/ faults' \in {faults, faults + 1} /\ UNCHANGED <<status, stale>>
    BY <1>6 DEF UpdateFails, Cool, Fault, rows, history
  <2>6. stale \subseteq stale' /\ (faults' = 0 => faults = 0 /\ UNCHANGED status)
    BY <2>5 DEF MarkCancelled
  <2>7. \A p \in Orders : status'[p] = status[p] \/ status'[p] = "cancelled"
    BY <2>3, <2>5 DEF MarkCancelled
  <2>8. QED BY <2>2, <2>4, <2>6, <2>7 DEF Minor, Live
<1>7. CASE Crash
  <2>1. \A u \in Threads : pc'[u] = "idle"
    BY <1>7 DEF Crash
  <2>2. UNCHANGED <<stock, buyers, status, quantity, issued, returned, stale, revived>>
    BY <1>7 DEF Crash, redis, rows, history
  <2>3. crashes' # 0 /\ Live' = Live
    BY <1>7, <2>2 DEF Crash, Live
  <2>4. QED BY <2>1, <2>2, <2>3 DEF Minor, Puts, Holds
<1>8. QED
  BY <1>1, <1>2, <1>4, <1>5, <1>6, <1>7 DEF Next, Cancel

--------------------------------------------------------------------------------
(* One unit for one cancellation. *)

\* An order that was not cancelled twice is put back once: by the one thread
\* that cancelled it, and not before it did.
OnceInv ==
    \A o \in Orders \ stale :
        /\ status[o] \notin {"cancelled", "paid"} =>
               returned[o] = 0 /\ \A t \in Threads : ~Puts(t, o)
        /\ \A t \in Threads : Puts(t, o) => returned[o] = 0
        /\ \A t, u \in Threads : Puts(t, o) /\ Puts(u, o) => t = u
        /\ returned[o] \in {0, 1}

\* OnceInv does not mind what leaves the unit of the order alone.
LEMMA OnceFrame ==
    ASSUME OnceInv, stale \subseteq stale', NEW o \in Orders \ stale',
           returned'[o] = returned[o],
           status'[o] \notin {"cancelled", "paid"} => status[o] \notin {"cancelled", "paid"},
           \A u \in Threads : Puts(u, o)' => Puts(u, o)
    PROVE  /\ status'[o] \notin {"cancelled", "paid"} =>
                  returned'[o] = 0 /\ \A t \in Threads : ~(Puts(t, o)')
           /\ \A t \in Threads : Puts(t, o)' => returned'[o] = 0
           /\ \A t, u \in Threads : Puts(t, o)' /\ Puts(u, o)' => t = u
           /\ returned'[o] \in {0, 1}
<1> QED BY DEF OnceInv

\* Every step keeps OnceInv.
LEMMA OnceKept ==
    ASSUME TypeInv, OnceInv, Next
    PROVE  OnceInv'
<1> SUFFICES ASSUME NEW o \in Orders \ stale'
             PROVE  /\ status'[o] \notin {"cancelled", "paid"} =>
                           returned'[o] = 0 /\ \A t \in Threads : ~(Puts(t, o)')
                    /\ \A t \in Threads : Puts(t, o)' => returned'[o] = 0
                    /\ \A t, u \in Threads : Puts(t, o)' /\ Puts(u, o)' => t = u
                    /\ returned'[o] \in {0, 1}
  BY DEF OnceInv
<1>1. ASSUME NEW p \in Orders, Sell(p)
      PROVE  /\ UNCHANGED <<stale, returned>>
             /\ status'[o] \notin {"cancelled", "paid"} => status[o] \notin {"cancelled", "paid"}
             /\ \A u \in Threads : Puts(u, o)' => Puts(u, o)
  <2>1. UNCHANGED <<threads, stale, returned>>
    BY <1>1 DEF Sell, history
  <2>2. \A u \in Threads : Puts(u, o)' => Puts(u, o)
    BY <2>1, OthersMove
  <2>3. QED BY <1>1, <2>1, <2>2 DEF Sell, TypeInv, DataTypes
<1>2. ASSUME NEW t \in Threads, Update(t)
      PROVE  /\ status'[o] \notin {"cancelled", "paid"} =>
                    returned'[o] = 0 /\ \A u \in Threads : ~(Puts(u, o)')
             /\ \A u \in Threads : Puts(u, o)' => returned'[o] = 0
             /\ \A u, v \in Threads : Puts(u, o)' /\ Puts(v, o)' => u = v
             /\ returned'[o] \in {0, 1}
  <2> DEFINE f == First(t)
  <2>1. /\ f \in Orders /\ UNCHANGED returned
        /\ status' = [status EXCEPT ![f] = "cancelled"]
        /\ stale' = IF status[f] # "pending" THEN stale \cup {f} ELSE stale
    BY <1>2, FirstType DEF Update, MarkCancelled, TypeInv
  <2>2. \A u \in Threads : Puts(u, o)' <=> Puts(u, o) \/ (u = t /\ o = f)
    BY <1>2, UpdateMoves
  <2> HIDE DEF f
  <2>3. o \notin stale
    BY <2>1
  <2>4. CASE o = f
    <3>1. status[o] = "pending"
      BY <2>1, <2>4
    <3>2. returned[o] = 0 /\ \A u \in Threads : ~Puts(u, o)
      BY <2>3, <3>1 DEF OnceInv
    <3>3. status'[o] = "cancelled"
      BY <2>1, <2>4 DEF TypeInv, DataTypes
    <3>4. QED BY <2>1, <2>2, <3>2, <3>3
  <2>5. CASE o # f
    <3>1. status'[o] = status[o] /\ \A u \in Threads : Puts(u, o)' <=> Puts(u, o)
      BY <2>1, <2>2, <2>5 DEF TypeInv, DataTypes
    <3>2. QED BY <2>1, <2>3, <3>1 DEF OnceInv
  <2>6. QED BY <2>4, <2>5
<1>3. ASSUME NEW t \in Threads, Return(t)
      PROVE  /\ status'[o] \notin {"cancelled", "paid"} =>
                    returned'[o] = 0 /\ \A u \in Threads : ~(Puts(u, o)')
             /\ \A u \in Threads : Puts(u, o)' => returned'[o] = 0
             /\ \A u, v \in Threads : Puts(u, o)' /\ Puts(v, o)' => u = v
             /\ returned'[o] \in {0, 1}
  <2> DEFINE f == First(t)
  <2>1. /\ f \in Orders /\ UNCHANGED <<status, stale>>
        /\ returned' = returned \/ returned' = [returned EXCEPT ![f] = @ + 1]
        /\ Puts(t, f)
    BY <1>3, FirstType DEF Return, PutBack, rows, history, TypeInv, Puts
  <2>2. \A u \in Threads : Puts(u, o)' <=> Puts(u, o) /\ u # t
    BY <1>3, ReturnMoves
  <2> HIDE DEF f
  <2>3. o \notin stale
    BY <2>1
  <2>4. CASE o = f
    <3>1. returned[o] = 0 /\ status[o] \in {"cancelled", "paid"}
      BY <2>1, <2>3, <2>4 DEF OnceInv
    <3>2. \A u \in Threads : ~(Puts(u, o)')
      BY <2>1, <2>2, <2>3, <2>4 DEF OnceInv
    <3>3. returned'[o] \in {0, 1}
      BY <2>1, <2>4, <3>1 DEF TypeInv, DataTypes
    <3>4. QED BY <2>1, <3>1, <3>2, <3>3
  <2>5. CASE o # f
    <3>1. returned'[o] = returned[o]
      BY <2>1, <2>5 DEF TypeInv, DataTypes
    <3>2. QED BY <2>1, <2>2, <2>3, <3>1 DEF OnceInv
  <2>6. QED BY <2>4, <2>5
<1>4. ASSUME NEW t \in Threads, Forget(t)
      PROVE  /\ UNCHANGED <<stale, returned, status>>
             /\ \A u \in Threads : Puts(u, o)' => Puts(u, o)
  BY <1>4, ForgetMoves DEF Forget, rows, history
<1>5. CASE Minor
  BY <1>5, OnceFrame DEF Minor
<1>6. QED BY <1>1, <1>2, <1>3, <1>4, <1>5, StepKinds, OnceFrame

\* A cancellation puts its unit on sale once.
THEOREM UnitsReturnOnce == Spec => []ReturnedOnce
<1>1. Init => OnceInv
  BY DEF Init, OnceInv, Puts
<1>2. TypeInv /\ OnceInv /\ [Next]_vars => OnceInv'
  <2> SUFFICES ASSUME TypeInv, OnceInv, [Next]_vars PROVE OnceInv'
    OBVIOUS
  <2>1. CASE UNCHANGED vars
    BY <2>1 DEF vars, OnceInv, Puts, First
  <2>2. QED BY <2>1, OnceKept
<1>3. TypeInv /\ OnceInv => ReturnedOnce
  BY DEF TypeInv, DataTypes, OnceInv, ReturnedOnce
<1>4. QED BY <1>1, <1>2, <1>3, TypeInvariant, PTL DEF Spec

--------------------------------------------------------------------------------
(* Payments, and units that wait to be put back. *)

\* What was paid before any cancellation had read it is paid, and in no
\* cancellation's hands.
SafeInv == \A o \in thanked : status[o] = "paid" /\ ~Doomed(o)

\* A thread that is done, or goes on with its order, dooms no other.
LEMMA NoNewDoom ==
    ASSUME ThreadTypes, NEW t \in Threads, Cancel(t), NEW o \in Orders, Doomed(o)'
    PROVE  Doomed(o)
<1>1. PICK u \in Threads : o \in todo'[u] /\ (pc'[u] = "update" \/ o # First(u)')
  BY DEF Doomed
<1>2. CASE u # t
  <2>1. todo'[u] = todo[u] /\ pc'[u] = pc[u]
    BY <1>2 DEF Cancel, Update, UpdateFails, Return, AfterReturn, Forget, Cool, Done,
                Goto, ThreadTypes
  <2>2. First(u)' = First(u)
    BY <2>1 DEF First
  <2>3. QED BY <1>1, <2>1, <2>2 DEF Doomed
<1>3. CASE u = t /\ Done(t)
  <2>1. todo'[t] = todo[t] \ {First(t)}
    BY <1>3 DEF Done, ThreadTypes
  <2>2. o \in todo[t] /\ o # First(t)
    BY <1>1, <1>3, <2>1
  <2>3. QED BY <2>2 DEF Doomed
<1>4. CASE u = t /\ UNCHANGED todo /\ pc'[t] # "update"
  <2>1. First(t)' = First(t)
    BY <1>4 DEF First
  <2>2. QED BY <1>1, <1>4, <2>1 DEF Doomed
<1>5. Done(t) \/ (UNCHANGED todo /\ pc'[t] # "update")
  BY DEF Cancel, Update, UpdateFails, Return, AfterReturn, Forget, Cool, Goto, ThreadTypes
<1>6. QED BY <1>2, <1>3, <1>4, <1>5

\* A payment keeps what it finds, and adds an order nobody is about to cancel.
LEMMA SafePay ==
    ASSUME TypeInv, SafeInv, NEW o \in Orders, Pay(o)
    PROVE  SafeInv'
<1>1. /\ UNCHANGED <<pc, todo>> /\ status' = Paid(o)
      /\ thanked' = IF HasRow(o) /\ ~Doomed(o) THEN thanked \cup {o} ELSE thanked
  BY DEF Pay, threads
<1>2. ASSUME NEW p \in Orders
      PROVE  Doomed(p)' = Doomed(p)
  BY <1>1 DEF Doomed, First
<1>3. ASSUME NEW p \in thanked'
      PROVE  status'[p] = "paid" /\ ~Doomed(p)'
  <2>1. p \in Orders
    BY <1>1, <1>3 DEF TypeInv, DataTypes
  <2>2. CASE p \in thanked
    BY <1>1, <1>2, <2>1, <2>2 DEF SafeInv, Paid, TypeInv, DataTypes
  <2>3. CASE p \notin thanked
    <3>1. p = o /\ HasRow(o) /\ ~Doomed(o)
      BY <1>1, <1>3, <2>3
    <3>2. QED BY <1>1, <1>2, <3>1 DEF Paid, TypeInv, DataTypes
  <2>4. QED BY <2>2, <2>3
<1>4. QED BY <1>3 DEF SafeInv

\* A cancellation reads only pending orders, and updates the one it has read.
LEMMA SafeCancel ==
    ASSUME TypeInv, SafeInv, UNCHANGED thanked,
           \/ \E t \in Threads : Cancel(t)
           \/ \E t \in Handlers, o \in Orders : ReadForCancel(t, o)
           \/ Scan
    PROVE  SafeInv'
<1> USE DEF TypeInv
<1>1. ASSUME NEW o \in thanked
      PROVE  status'[o] = "paid" /\ ~Doomed(o)'
  <2>1. o \in Orders /\ status[o] = "paid" /\ ~Doomed(o)
    BY DEF DataTypes, SafeInv
  <2>2. ASSUME NEW t \in Threads, Cancel(t)
        PROVE  status'[o] = "paid" /\ ~Doomed(o)'
    <3>1. ~Doomed(o)'
      BY <2>1, <2>2, NoNewDoom
    <3>2. CASE pc[t] = "update"
      <4>1. First(t) \in Orders /\ o # First(t)
        BY <2>1, <3>2, FirstType DEF Doomed
      <4>2. MarkCancelled(First(t)) \/ UNCHANGED status
        BY <2>2, <3>2 DEF Cancel, Update, UpdateFails, Return, Forget, Cool
      <4>3. QED BY <2>1, <3>1, <4>1, <4>2 DEF MarkCancelled, DataTypes
    <3>3. CASE pc[t] # "update"
      BY <2>1, <2>2, <3>1, <3>3 DEF Cancel, Update, UpdateFails, Return, Forget, Cool, rows
    <3>4. QED BY <3>2, <3>3
  <2>3. ASSUME NEW t \in Threads, NEW S \in SUBSET {p \in Orders : status[p] = "pending"},
               NEW p \in PcStates, UNCHANGED status,
               todo' = [todo EXCEPT ![t] = S], pc' = [pc EXCEPT ![t] = p]
        PROVE  status'[o] = "paid" /\ ~Doomed(o)'
    <3>1. SUFFICES ASSUME NEW u \in Threads,
                          o \in todo'[u], pc'[u] = "update" \/ o # First(u)'
                   PROVE  FALSE
      BY <2>1, <2>3 DEF Doomed
    <3>2. o \notin S
      BY <2>1
    <3>3. u # t /\ todo'[u] = todo[u] /\ pc'[u] = pc[u]
      BY <2>3, <3>1, <3>2 DEF ThreadTypes
    <3>4. First(u)' = First(u)
      BY <3>3 DEF First
    <3>5. QED BY <2>1, <3>1, <3>3, <3>4 DEF Doomed
  <2>4. ASSUME NEW t \in Handlers, NEW p \in Orders, ReadForCancel(t, p)
        PROVE  status'[o] = "paid" /\ ~Doomed(o)'
    <3>1. /\ UNCHANGED status /\ todo' = [todo EXCEPT ![t] = {p}]
          /\ pc' = [pc EXCEPT ![t] = "update"]
          /\ {p} \in SUBSET {q \in Orders : status[q] = "pending"} /\ t \in Threads
          /\ "update" \in PcStates
      BY <2>4 DEF ReadForCancel, MayCancel, Goto, rows, Threads, PcStates
    <3>2. QED BY <2>3, <3>1
  <2>5. CASE Scan
    <3>1. /\ UNCHANGED status /\ todo' = [todo EXCEPT ![Timer] = Found]
          /\ Timer \in Threads
          /\ Found \in SUBSET {q \in Orders : status[q] = "pending"}
      BY <2>5 DEF Scan, Found, Fetched, rows, Threads
    <3>2. \E p \in PcStates : pc' = [pc EXCEPT ![Timer] = p]
      BY <2>5 DEF Scan, Goto, PcStates
    <3>3. QED BY <2>3, <3>1, <3>2
  <2>6. QED BY <2>2, <2>4, <2>5
<1>2. QED BY <1>1 DEF SafeInv

\* What was paid before a cancellation had read it is never cancelled.
THEOREM PaymentsStay == Spec => []PaidStaysPaid
<1>1. Init => SafeInv
  BY DEF Init, SafeInv
<1>2. ASSUME TypeInv, SafeInv, Next
      PROVE  SafeInv'
  <2>1. ASSUME NEW o \in Orders, Pay(o)
        PROVE  SafeInv'
    BY <1>2, <2>1, SafePay
  <2>2. ASSUME UNCHANGED <<threads, thanked>>, \A o \in thanked : status'[o] = status[o]
        PROVE  SafeInv'
    BY <1>2, <2>2 DEF SafeInv, Doomed, First, threads
  <2>3. ASSUME NEW o \in Orders, Sell(o) \/ Persist(o)
        PROVE  SafeInv'
    <3>1. /\ UNCHANGED <<threads, thanked>> /\ status[o] # "paid"
          /\ \E s \in Statuses : status' = [status EXCEPT ![o] = s]
      BY <2>3 DEF Sell, Persist, history, Statuses
    <3>2. \A p \in thanked : status'[p] = status[p]
      BY <1>2, <3>1 DEF SafeInv, TypeInv, DataTypes
    <3>3. QED BY <2>2, <3>1, <3>2
  <2>4. CASE \/ \E t \in Threads : Cancel(t)
             \/ \E t \in Handlers, o \in Orders : ReadForCancel(t, o)
             \/ Scan
    <3>1. UNCHANGED thanked
      BY <2>4 DEF Cancel, Update, UpdateFails, Return, Forget, Cool, ReadForCancel, Scan,
                  history
    <3>2. QED BY <1>2, <2>4, <3>1, SafeCancel
  <2>5. CASE Wake
    <3>1. /\ UNCHANGED <<todo, status, thanked>> /\ pc' = [pc EXCEPT ![Timer] = "scan"]
          /\ pc[Timer] = "idle"
      BY <2>5 DEF Wake, Goto, rows, history
    <3>2. ASSUME NEW o \in Orders, Doomed(o)'
          PROVE  Doomed(o)
      BY <1>2, <3>1, <3>2 DEF Doomed, First, TypeInv, ThreadTypes
    <3>3. thanked \subseteq Orders
      BY <1>2 DEF TypeInv, DataTypes
    <3>4. QED BY <1>2, <3>1, <3>2, <3>3 DEF SafeInv
  <2>6. CASE Crash
    <3>1. UNCHANGED <<status, thanked>> /\ \A t \in Threads : todo'[t] = {}
      BY <2>6 DEF Crash, rows, history
    <3>2. QED BY <1>2, <3>1 DEF SafeInv, Doomed
  <2>7. CASE StopSale \/ \E u \in Users : CooldownExpires(u)
    BY <2>2, <2>7 DEF StopSale, CooldownExpires, rows, history
  <2>8. QED BY <1>2, <2>1, <2>3, <2>4, <2>5, <2>6, <2>7 DEF Next
<1>3. TypeInv /\ SafeInv /\ [Next]_vars => SafeInv'
  <2> SUFFICES ASSUME TypeInv, SafeInv, [Next]_vars PROVE SafeInv'
    OBVIOUS
  <2>1. CASE UNCHANGED vars
    BY <2>1 DEF vars, SafeInv, Doomed, First
  <2>2. QED BY <1>2, <2>1
<1>4. SafeInv => PaidStaysPaid
  BY DEF SafeInv, PaidStaysPaid
<1>5. QED BY <1>1, <1>3, <1>4, TypeInvariant, PTL DEF Spec

\* Only a failure or a crash lets a unit disappear.
THEOREM UnitsAreRemembered == Spec => []NoUnitForgotten
<1> DEFINE Calm == faults = 0 /\ crashes = 0
           Waits(o) == \E t \in Threads : Puts(t, o)
           Inv == Calm => \A o \in Orders : status[o] = "cancelled" /\ returned[o] = 0
                                                => Waits(o)
<1>1. Inv <=> NoUnitForgotten
  BY DEF NoUnitForgotten, Puts
<1>2. Init => Inv
  BY DEF Init
<1>3. ASSUME TypeInv, Inv, Next
      PROVE  Inv'
  <2> SUFFICES ASSUME faults' = 0, crashes' = 0, NEW o \in Orders,
                      status'[o] = "cancelled", returned'[o] = 0
               PROVE  \E t \in Threads : Puts(t, o)'
    OBVIOUS
  <2> USE DEF TypeInv, DataTypes
  <2>1. ASSUME NEW p \in Orders, Sell(p)
        PROVE  \E t \in Threads : Puts(t, o)'
    <3>1. /\ UNCHANGED <<threads, returned, faults, crashes>>
          /\ status[o] = "cancelled"
      BY <1>3, <2>1 DEF Sell, bounds
    <3>2. QED BY <1>3, <3>1, OthersMove
  <2>2. ASSUME NEW t \in Threads, Update(t)
        PROVE  \E u \in Threads : Puts(u, o)'
    <3>1. /\ UNCHANGED <<returned, faults, crashes>> /\ First(t) \in Orders
          /\ o # First(t) => status'[o] = status[o]
      BY <1>3, <2>2, FirstType DEF Update, MarkCancelled, bounds
    <3>2. QED BY <1>3, <2>2, <3>1, UpdateMoves
  <2>3. ASSUME NEW t \in Threads, Return(t)
        PROVE  \E u \in Threads : Puts(u, o)'
    <3>1. faults' # faults + 1
      BY <1>3
    <3>2. /\ UNCHANGED <<faults, status, crashes>> /\ First(t) \in Orders
          /\ returned' = [returned EXCEPT ![First(t)] = @ + 1]
      BY <1>3, <2>3, <3>1, FirstType DEF Return, PutBack, Fault, rows
    <3>3. o # First(t) /\ returned[o] = 0
      BY <1>3, <3>2
    <3>4. PICK u \in Threads : Puts(u, o)
      BY <1>3, <3>2, <3>3
    <3>5. u # t
      BY <3>3, <3>4 DEF Puts
    <3>6. QED BY <1>3, <2>3, <3>4, <3>5, ReturnMoves
  <2>4. ASSUME NEW t \in Threads, Forget(t)
        PROVE  \E u \in Threads : Puts(u, o)'
    <3>1. UNCHANGED <<status, returned, crashes>> /\ faults = 0
      BY <1>3, <2>4 DEF Forget, Fault, rows
    <3>2. QED BY <1>3, <2>4, <3>1, ForgetMoves
  <2>5. CASE Minor
    <3>1. Calm /\ status[o] = "cancelled" /\ returned[o] = 0
      BY <2>5 DEF Minor
    <3>2. PICK u \in Threads : Puts(u, o)
      BY <1>3, <3>1
    <3>3. QED BY <2>5, <3>2 DEF Minor
  <2>6. QED BY <1>3, <2>1, <2>2, <2>3, <2>4, <2>5, StepKinds
<1>4. TypeInv /\ Inv /\ [Next]_vars => Inv'
  <2> SUFFICES ASSUME TypeInv, Inv, [Next]_vars PROVE Inv'
    OBVIOUS
  <2>1. CASE UNCHANGED vars
    BY <2>1 DEF vars, Puts, First
  <2>2. QED BY <1>3, <2>1
<1> HIDE DEF Inv
<1>5. QED BY <1>1, <1>2, <1>4, TypeInvariant, PTL DEF Spec

--------------------------------------------------------------------------------
(* One live order for a user. *)

\* While nothing overtakes anything: the buyer of a live order is in the set of
\* buyers, and one whose cancellation is not through has no other order.
SoleInv ==
    Undisturbed =>
        /\ \A o \in Live : UserOf[o] \in buyers
        /\ \A o, p \in Live : UserOf[o] = UserOf[p] => o = p
        /\ \A t \in Threads, o \in Orders : Holds(t, o) =>
               /\ status[o] = "cancelled" /\ UserOf[o] \in buyers
               /\ \A p \in Live : UserOf[p] # UserOf[o]
        /\ \A t, u \in Threads, o, p \in Orders :
               Holds(t, o) /\ Holds(u, p) /\ UserOf[o] = UserOf[p] => t = u

\* The minor steps keep it.
LEMMA SoleFrame ==
    ASSUME SoleInv, Undisturbed' => Undisturbed,
           UNCHANGED buyers,
           Undisturbed' => /\ Live' \subseteq Live
                           /\ \A o \in Orders : status[o] = "cancelled" => status'[o] = "cancelled",
           \A t \in Threads, o \in Orders : Holds(t, o)' => Holds(t, o)
    PROVE  SoleInv'
<1> SUFFICES ASSUME Undisturbed' PROVE SoleInv'
  BY DEF SoleInv
<1>1. Undisturbed
  OBVIOUS
<1>2. /\ Live' \subseteq Live
      /\ \A o \in Orders : status[o] = "cancelled" => status'[o] = "cancelled"
  OBVIOUS
<1> HIDE DEF Undisturbed, Live
<1>3. QED BY <1>1, <1>2 DEF SoleInv

\* A sale is to a user who is not a buyer, hence has no live order and none
\* whose cancellation is not through.
LEMMA SoleSell ==
    ASSUME TypeInv, SoleInv, NEW o \in Orders, Sell(o)
    PROVE  SoleInv'
<1>1. /\ UserOf[o] \notin buyers /\ buyers' = buyers \cup {UserOf[o]}
      /\ status[o] = "none" /\ status' = [status EXCEPT ![o] = "queued"]
      /\ UNCHANGED <<threads, stale, revived>>
  BY DEF Sell, MaySell, history
<1>2. Live' = Live \cup {o} /\ o \in Orders
  BY <1>1 DEF Live, TypeInv, DataTypes
<1>3. \A t \in Threads, p \in Orders : Holds(t, p)' <=> Holds(t, p)
  BY <1>1, OthersMove
<1>4. \A p \in Orders : status[p] = "cancelled" => status'[p] = "cancelled"
  BY <1>1 DEF TypeInv, DataTypes
<1> SUFFICES ASSUME Undisturbed' PROVE SoleInv'
  BY DEF SoleInv
<1>5. Undisturbed
  BY <1>1 DEF Undisturbed
<1> HIDE DEF Undisturbed, Live
<1>6. QED BY <1>1, <1>2, <1>3, <1>4, <1>5 DEF SoleInv

\* An order that is cancelled was the only live one of its user.
LEMMA SoleUpdate ==
    ASSUME TypeInv, SoleInv, NEW t \in Threads, Update(t)
    PROVE  SoleInv'
<1> SUFFICES ASSUME Undisturbed' PROVE SoleInv'
  BY DEF SoleInv
<1> DEFINE f == First(t)
<1>1. /\ f \in Orders /\ UNCHANGED <<buyers, revived>>
      /\ status' = [status EXCEPT ![f] = "cancelled"]
      /\ stale' = IF status[f] # "pending" THEN stale \cup {f} ELSE stale
  BY FirstType DEF Update, MarkCancelled, TypeInv, redis
<1>2. \A u \in Threads, o \in Orders : Holds(u, o)' <=> Holds(u, o) \/ (u = t /\ o = f)
  BY UpdateMoves
<1> HIDE DEF f
<1>3. status[f] = "pending" /\ Undisturbed
  BY <1>1 DEF Undisturbed
<1>4. Live' = Live \ {f} /\ f \in Live
  BY <1>1, <1>3 DEF Live, TypeInv, DataTypes
<1>5. \A o \in Orders : status[o] = "cancelled" \/ o = f => status'[o] = "cancelled"
  BY <1>1 DEF TypeInv, DataTypes
<1> HIDE DEF Undisturbed, Live
<1>6. /\ \A o \in Live' : UserOf[o] \in buyers'
      /\ \A o, p \in Live' : UserOf[o] = UserOf[p] => o = p
  BY <1>1, <1>3, <1>4 DEF SoleInv
<1>7. ASSUME NEW u \in Threads, NEW o \in Orders, Holds(u, o)'
      PROVE  /\ status'[o] = "cancelled" /\ UserOf[o] \in buyers'
             /\ \A p \in Live' : UserOf[p] # UserOf[o]
  BY <1>1, <1>2, <1>3, <1>4, <1>5, <1>7 DEF SoleInv
<1>8. ASSUME NEW u \in Threads, NEW v \in Threads, NEW o \in Orders, NEW p \in Orders,
             Holds(u, o)', Holds(v, p)', UserOf[o] = UserOf[p]
      PROVE  u = v
  <2>1. \A w \in Threads, q \in Orders : Holds(w, q) => UserOf[q] # UserOf[f]
    BY <1>3, <1>4 DEF SoleInv
  <2>2. QED BY <1>2, <1>3, <1>8, <2>1 DEF SoleInv
<1>9. QED BY <1>6, <1>7, <1>8 DEF SoleInv

\* A user who is forgotten has no live order.
LEMMA SoleForget ==
    ASSUME TypeInv, SoleInv, NEW t \in Threads, Forget(t)
    PROVE  SoleInv'
<1> DEFINE f == First(t)
<1>1. /\ f \in Orders /\ UNCHANGED <<status, stale, revived>> /\ Holds(t, f)
      /\ buyers' = buyers \/ buyers' = buyers \ {UserOf[f]}
  BY FirstType DEF Forget, Holds, TypeInv, rows, history
<1>2. \A u \in Threads, o \in Orders : Holds(u, o)' <=> Holds(u, o) /\ u # t
  BY ForgetMoves
<1> HIDE DEF f
<1>3. Live' = Live
  BY <1>1 DEF Live
<1> SUFFICES ASSUME Undisturbed' PROVE SoleInv'
  BY DEF SoleInv
<1>4. Undisturbed
  BY <1>1 DEF Undisturbed
<1> HIDE DEF Undisturbed, Live
<1>5. \A o \in Live : UserOf[o] # UserOf[f]
  BY <1>1, <1>4 DEF SoleInv
<1>6. \A u \in Threads, o \in Orders : Holds(u, o) /\ u # t => UserOf[o] # UserOf[f]
  BY <1>1, <1>4 DEF SoleInv
<1>7. /\ \A o \in Live' : UserOf[o] \in buyers'
      /\ \A o, p \in Live' : UserOf[o] = UserOf[p] => o = p
  BY <1>1, <1>3, <1>4, <1>5 DEF SoleInv
<1>8. ASSUME NEW u \in Threads, NEW o \in Orders, Holds(u, o)'
      PROVE  /\ status'[o] = "cancelled" /\ UserOf[o] \in buyers'
             /\ \A p \in Live' : UserOf[p] # UserOf[o]
  BY <1>1, <1>2, <1>3, <1>4, <1>6, <1>8 DEF SoleInv
<1>9. \A u, v \in Threads, o, p \in Orders :
          Holds(u, o)' /\ Holds(v, p)' /\ UserOf[o] = UserOf[p] => u = v
  BY <1>2, <1>4 DEF SoleInv
<1>10. QED BY <1>7, <1>8, <1>9 DEF SoleInv

\* Every step keeps SoleInv.
LEMMA SoleKept ==
    ASSUME TypeInv, SoleInv, Next
    PROVE  SoleInv'
<1>1. ASSUME NEW t \in Threads, Return(t)
      PROVE  SoleInv'
  <2>1. UNCHANGED <<buyers, status, stale, revived>>
    BY <1>1 DEF Return, rows, history
  <2>2. Live' = Live /\ (Undisturbed' => Undisturbed)
    BY <2>1 DEF Live, Undisturbed
  <2>3. \A u \in Threads, o \in Orders : Holds(u, o)' => Holds(u, o)
    BY <1>1, ReturnMoves
  <2>4. QED BY <2>1, <2>2, <2>3, SoleFrame
<1>2. CASE Minor
  <2>1. Undisturbed' => Undisturbed /\ ~revived'
    BY <1>2 DEF Minor, Undisturbed, TypeInv, DataTypes
  <2>2. Undisturbed' =>
            /\ Live' \subseteq Live
            /\ \A o \in Orders : status[o] = "cancelled" => status'[o] = "cancelled"
    <3>1. Live' \subseteq Orders
      BY DEF Live
    <3>2. QED BY <1>2, <2>1, <3>1 DEF Minor
  <2>3. QED BY <1>2, <2>1, <2>2, SoleFrame DEF Minor
<1>3. QED BY <1>1, <1>2, SoleSell, SoleUpdate, SoleForget, StepKinds

\* At the start there are no orders.
LEMMA SoleStart == Init => SoleInv
<1> QED BY DEF Init, SoleInv, Live, Holds

\* SoleInv holds in every state.
THEOREM SoleInvariant == Spec => []SoleInv
<1>1. TypeInv /\ SoleInv /\ [Next]_vars => SoleInv'
  <2> SUFFICES ASSUME TypeInv, SoleInv, [Next]_vars PROVE SoleInv'
    OBVIOUS
  <2>1. CASE UNCHANGED vars
    BY <2>1 DEF vars, SoleInv, Undisturbed, Live, Holds, First
  <2>2. QED BY <2>1, SoleKept
<1>2. QED BY <1>1, SoleStart, TypeInvariant, PTL DEF Spec

\* A user has one order that is not cancelled.
THEOREM OneLiveOrderEach == Spec => []OneLiveOrder
<1>1. SoleInv => OneLiveOrder
  BY DEF SoleInv, OneLiveOrder
<1>2. QED BY <1>1, SoleInvariant, PTL

--------------------------------------------------------------------------------
(* Units. *)

\* While nothing overtakes anything and orders are for one piece, the stock is
\* not negative, and stock and claims stay within what was put on sale.
CountInv ==
    Undisturbed /\ OnePiece =>
        /\ Level(stock) >= 0
        /\ Level(stock) + Cardinality(Claims) <= issued

\* A set of orders has a size, and is no larger than one it is part of.
LEMMA ClaimsCount ==
    ASSUME NEW S \in SUBSET Orders, NEW T \in SUBSET S
    PROVE  /\ IsFiniteSet(S) /\ Cardinality(S) \in Nat
           /\ Cardinality(T) \in Nat /\ Cardinality(T) <= Cardinality(S)
           /\ \A o : o \in S /\ o \notin T => Cardinality(T) + 1 <= Cardinality(S)
<1>1. IsFiniteSet(S) /\ IsFiniteSet(T)
  BY OrdersAssumption, FS_Subset
<1>2. Cardinality(S) \in Nat /\ Cardinality(T) \in Nat
  BY <1>1, FS_CardinalityType
<1>3. Cardinality(T) <= Cardinality(S)
  BY <1>1, FS_Subset
<1>4. ASSUME NEW o, o \in S, o \notin T
      PROVE  Cardinality(T) + 1 <= Cardinality(S)
  <2>1. Cardinality(T \cup {o}) = Cardinality(T) + 1
    BY <1>1, <1>4, FS_AddElement
  <2>2. (T \cup {o}) \in SUBSET S
    BY <1>4
  <2>3. Cardinality(T \cup {o}) <= Cardinality(S)
    BY <1>1, <2>2, FS_Subset
  <2>4. QED BY <2>1, <2>3
<1>5. QED BY <1>1, <1>2, <1>3, <1>4

\* Steps that bring no unit and no claim keep the count.
LEMMA CountFrame ==
    ASSUME TypeInv, CountInv, Undisturbed' /\ OnePiece' => Undisturbed /\ OnePiece,
           Undisturbed' => Claims' \subseteq Claims,
           UNCHANGED issued, stock' = stock \/ stock' = Absent
    PROVE  CountInv'
<1> SUFFICES ASSUME Undisturbed', OnePiece'
             PROVE  Level(stock') >= 0 /\ Level(stock') + Cardinality(Claims') <= issued
  BY DEF CountInv
<1>1. Level(stock) >= 0 /\ Level(stock) + Cardinality(Claims) <= issued
  BY DEF CountInv
<1>2. Claims \in SUBSET Orders /\ Claims' \in SUBSET Claims
  BY DEF Claims, Live
<1>3. Cardinality(Claims) \in Nat /\ Cardinality(Claims') \in Nat
      /\ Cardinality(Claims') <= Cardinality(Claims)
  BY <1>2, ClaimsCount
<1>4. Level(stock') = Level(stock) \/ Level(stock') = 0
  BY DEF Level
<1>5. Level(stock) \in Int /\ issued \in Nat
  BY LevelIs DEF TypeInv, DataTypes
<1> HIDE DEF Claims, Level
<1>6. QED BY <1>1, <1>3, <1>4, <1>5

\* A sale takes a unit and makes a claim.
LEMMA CountSell ==
    ASSUME TypeInv, CountInv, NEW o \in Orders, Sell(o)
    PROVE  CountInv'
<1> SUFFICES ASSUME Undisturbed', OnePiece'
             PROVE  Level(stock') >= 0 /\ Level(stock') + Cardinality(Claims') <= issued'
  BY DEF CountInv
<1>1. /\ Level(stock) > 0 /\ stock' = stock - 1
      /\ status[o] = "none" /\ status' = [status EXCEPT ![o] = "queued"]
      /\ \E q \in Quantities : quantity' = [quantity EXCEPT ![o] = q]
      /\ UNCHANGED <<threads, stale, revived, issued>>
  BY DEF Sell, MaySell, history
<1>2. stock \in Int /\ Level(stock) = stock /\ Level(stock') = stock - 1
  BY <1>1, AbsentAssumption DEF Level, TypeInv, DataTypes
<1>3. Undisturbed /\ OnePiece
  <2>1. Undisturbed
    BY <1>1 DEF Undisturbed
  <2>2. \A p \in Orders : status[p] # "none" =>
            status'[p] # "none" /\ quantity'[p] = quantity[p]
    BY <1>1 DEF TypeInv, DataTypes
  <2>3. QED BY <2>1, <2>2 DEF OnePiece
<1>4. Claims' \subseteq Claims \cup {o} /\ Claims \in SUBSET Orders
  <2>1. \A t \in Threads, p \in Orders : Puts(t, p)' <=> Puts(t, p)
    BY <1>1, OthersMove
  <2>2. Live' \subseteq Live \cup {o}
    BY <1>1 DEF Live, TypeInv, DataTypes
  <2>3. QED BY <2>1, <2>2 DEF Claims, Live
<1>5. Level(stock) + Cardinality(Claims) <= issued
  BY <1>3 DEF CountInv
<1> HIDE DEF Claims, Level
<1>6. Cardinality(Claims) \in Nat /\ Cardinality(Claims') \in Nat
      /\ Cardinality(Claims') <= Cardinality(Claims) + 1
  <2>1. IsFiniteSet(Claims) /\ Cardinality(Claims) \in Nat
    BY <1>4, ClaimsCount
  <2>2. /\ IsFiniteSet(Claims \cup {o})
        /\ Cardinality(Claims \cup {o}) <= Cardinality(Claims) + 1
    BY <2>1, FS_AddElement
  <2>3. Claims' \in SUBSET (Claims \cup {o}) /\ (Claims \cup {o}) \in SUBSET Orders
    BY <1>4
  <2>4. /\ Cardinality(Claims') <= Cardinality(Claims \cup {o})
        /\ Cardinality(Claims') \in Nat /\ Cardinality(Claims \cup {o}) \in Nat
    BY <2>3, ClaimsCount
  <2>5. QED BY <2>1, <2>2, <2>4
<1>7. issued \in Nat /\ issued' = issued
  BY <1>1 DEF TypeInv, DataTypes
<1>8. QED BY <1>1, <1>2, <1>5, <1>6, <1>7

\* INCRBY turns a claim into a unit.
LEMMA CountReturn ==
    ASSUME TypeInv, OnceInv, SoleInv, CountInv, NEW t \in Threads, Return(t)
    PROVE  CountInv'
<1> DEFINE f == First(t)
<1>1. /\ f \in Orders /\ Puts(t, f) /\ Holds(t, f)
      /\ UNCHANGED <<status, quantity, stale, revived, issued>>
      /\ \/ UNCHANGED stock
         \/ stock' = Level(stock) + quantity[f]
  BY FirstType DEF Return, PutBack, Puts, Holds, TypeInv, rows, history
<1>2. \A u \in Threads, o \in Orders : Puts(u, o)' <=> Puts(u, o) /\ u # t
  BY ReturnMoves
<1> HIDE DEF f
<1>3. Live' = Live /\ Claims' \subseteq Claims
  BY <1>1, <1>2 DEF Live, Claims
<1>4. CASE UNCHANGED stock
  <2>1. Undisturbed' /\ OnePiece' => Undisturbed /\ OnePiece
    BY <1>1 DEF Undisturbed, OnePiece
  <2>2. QED BY <1>1, <1>3, <1>4, <2>1, CountFrame
<1>5. CASE stock' = Level(stock) + quantity[f]
  <2> SUFFICES ASSUME Undisturbed', OnePiece'
               PROVE  Level(stock') >= 0 /\ Level(stock') + Cardinality(Claims') <= issued'
    BY DEF CountInv
  <2>1. Undisturbed /\ OnePiece /\ stale = {}
    BY <1>1 DEF Undisturbed, OnePiece
  <2>2. status[f] = "cancelled"
    BY <1>1, <2>1 DEF SoleInv
  <2>3. quantity[f] = 1 /\ f \notin Live
    BY <1>1, <2>1, <2>2 DEF OnePiece, Live
  <2>4. f \in Claims
    BY <1>1 DEF Claims
  <2>5. PICK g \in Orders : g = f
    BY <1>1
  <2> HIDE DEF Puts
  <2>6. g \in Claims /\ g \notin Live
    BY <2>3, <2>4, <2>5
  <2>7. \A u \in Threads : Puts(u, g) => u = t
    BY <1>1, <2>1, <2>5 DEF OnceInv
  <2>8. \A u \in Threads : ~(Puts(u, g)')
    BY <1>2, <2>7
  <2>9. g \notin Claims'
    BY <1>3, <2>6, <2>8 DEF Claims
  <2>10. Level(stock) \in Int /\ stock' = Level(stock) + 1 /\ Level(stock') = Level(stock) + 1
    <3>1. Level(stock) \in Int
      BY LevelIs DEF TypeInv, DataTypes
    <3>2. stock' = Level(stock) + 1 /\ stock' \in Int
      BY <1>5, <2>3, <3>1
    <3>3. Level(stock') = stock'
      BY <3>2, AbsentAssumption DEF Level
    <3>4. QED BY <3>1, <3>2, <3>3
  <2>11. Level(stock) >= 0 /\ Level(stock) + Cardinality(Claims) <= issued
    BY <2>1 DEF CountInv
  <2>12. /\ Cardinality(Claims) \in Nat /\ Cardinality(Claims') \in Nat
        /\ Cardinality(Claims') + 1 <= Cardinality(Claims)
    <3>1. Claims \in SUBSET Orders /\ Claims' \in SUBSET Claims
      BY <1>3 DEF Claims, Live
    <3>2. QED BY <2>6, <2>9, <3>1, ClaimsCount
  <2>13. issued \in Nat /\ issued' = issued
    BY <1>1 DEF TypeInv, DataTypes
  <2> HIDE DEF Claims, Level
  <2>14. QED BY <2>10, <2>11, <2>12, <2>13
<1>6. QED BY <1>1, <1>4, <1>5

\* Every step keeps the count.
LEMMA CountKept ==
    ASSUME TypeInv, OnceInv, SoleInv, CountInv, Next
    PROVE  CountInv'
<1>1. ASSUME NEW t \in Threads, Update(t)
      PROVE  CountInv'
  <2> DEFINE f == First(t)
  <2>1. /\ f \in Orders /\ UNCHANGED <<stock, quantity, revived, issued>>
        /\ status' = [status EXCEPT ![f] = "cancelled"]
        /\ stale' = IF status[f] # "pending" THEN stale \cup {f} ELSE stale
    BY <1>1, FirstType DEF Update, MarkCancelled, TypeInv, redis
  <2>2. \A u \in Threads, o \in Orders : Puts(u, o)' <=> Puts(u, o) \/ (u = t /\ o = f)
    BY <1>1, UpdateMoves
  <2> HIDE DEF f
  <2>3. Undisturbed' => Undisturbed /\ status[f] = "pending"
    BY <2>1 DEF Undisturbed
  <2>4. OnePiece' /\ status[f] = "pending" => OnePiece
    BY <2>1 DEF OnePiece, TypeInv, DataTypes
  <2>5. Undisturbed' => Claims' \subseteq Claims
    <3> SUFFICES ASSUME status[f] = "pending" PROVE Claims' \subseteq Claims
      BY <2>3
    <3>1. Live' \subseteq Live /\ f \in Live
      BY <2>1 DEF Live, TypeInv, DataTypes
    <3>2. QED BY <2>1, <2>2, <3>1 DEF Claims
  <2>6. QED BY <2>1, <2>3, <2>4, <2>5, CountFrame
<1>2. ASSUME NEW t \in Threads, Forget(t)
      PROVE  CountInv'
  <2>1. UNCHANGED <<stock, status, quantity, stale, revived, issued>>
    BY <1>2 DEF Forget, rows, history
  <2>2. \A u \in Threads, o \in Orders : Puts(u, o)' <=> Puts(u, o)
    BY <1>2, ForgetMoves
  <2>3. Claims' = Claims
    BY <2>1, <2>2 DEF Claims, Live
  <2>4. Undisturbed' /\ OnePiece' => Undisturbed /\ OnePiece
    BY <2>1 DEF Undisturbed, OnePiece
  <2>5. QED BY <2>1, <2>3, <2>4, CountFrame
<1>3. CASE Minor
  <2>1. Undisturbed' => Undisturbed /\ ~revived'
    BY <1>3 DEF Minor, Undisturbed, TypeInv, DataTypes
  <2>2. OnePiece' => OnePiece
    BY <1>3 DEF Minor, OnePiece
  <2>3. Undisturbed' => Claims' \subseteq Claims
    <3>1. Live' \subseteq Orders
      BY DEF Live
    <3>2. ~revived' => Live' \subseteq Live
      BY <1>3, <3>1 DEF Minor
    <3>3. \A u \in Threads, o \in Orders : Puts(u, o)' => Puts(u, o)
      BY <1>3 DEF Minor
    <3> HIDE DEF Live, Undisturbed
    <3>4. QED BY <2>1, <3>2, <3>3 DEF Claims
  <2>4. QED BY <1>3, <2>1, <2>2, <2>3, CountFrame DEF Minor
<1>4. QED BY <1>1, <1>2, <1>3, CountSell, CountReturn, StepKinds

\* The count holds in every state.
THEOREM CountInvariant == Spec => [](OnceInv /\ CountInv)
<1>1. Init => OnceInv /\ CountInv
  <2> SUFFICES ASSUME Init PROVE OnceInv /\ CountInv
    OBVIOUS
  <2>1. OnceInv
    BY DEF Init, OnceInv, Puts
  <2>2. Claims = {}
    BY DEF Init, Claims, Live, Puts
  <2>3. stock \in Nat /\ issued = stock /\ Level(stock) = stock
    BY BoundsAssumption, AbsentAssumption DEF Init, Level
  <2>4. Cardinality({}) = 0
    BY FS_EmptySet
  <2> HIDE DEF Claims, Level
  <2>5. Level(stock) >= 0 /\ Level(stock) + Cardinality(Claims) <= issued
    BY <2>2, <2>3, <2>4
  <2>6. QED BY <2>1, <2>5 DEF CountInv
<1>2. TypeInv /\ OnceInv /\ SoleInv /\ CountInv /\ [Next]_vars => OnceInv' /\ CountInv'
  <2> SUFFICES ASSUME TypeInv, OnceInv, SoleInv, CountInv, [Next]_vars
               PROVE  OnceInv' /\ CountInv'
    OBVIOUS
  <2>1. CASE UNCHANGED vars
    <3>1. OnceInv'
      BY <2>1 DEF vars, OnceInv, Puts, First
    <3>2. Claims' = Claims
      BY <2>1 DEF vars, Claims, Live, Puts, First
    <3>3. QED BY <2>1, <3>1, <3>2 DEF vars, CountInv, Undisturbed, OnePiece
  <2>2. QED BY <2>1, OnceKept, CountKept
<1>3. QED BY <1>1, <1>2, TypeInvariant, SoleInvariant, PTL DEF Spec

\* What is on sale and what is sold stay within what was put on sale.
THEOREM NothingLiveIsOversold == Spec => []NoLiveOversell
<1>1. TypeInv /\ CountInv => NoLiveOversell
  <2> SUFFICES ASSUME TypeInv, CountInv, Undisturbed, OnePiece
               PROVE  Level(stock) + Cardinality(Live) <= issued
    BY DEF NoLiveOversell, OnePiece
  <2>1. Level(stock) + Cardinality(Claims) <= issued
    BY DEF CountInv
  <2>2. Live \in SUBSET Claims /\ Claims \in SUBSET Orders
    BY DEF Claims, Live
  <2>3. /\ Cardinality(Live) <= Cardinality(Claims)
        /\ Cardinality(Live) \in Nat /\ Cardinality(Claims) \in Nat
    BY <2>2, ClaimsCount
  <2>4. Level(stock) \in Int /\ issued \in Nat
    BY LevelIs DEF TypeInv, DataTypes
  <2> HIDE DEF Claims, Live, Level
  <2>5. QED BY <2>1, <2>3, <2>4
<1>2. QED BY <1>1, TypeInvariant, CountInvariant, PTL
--------------------------------------------------------------------------------
(* The handlers and the checker implement CancellableSale. *)

saleState == [o \in Orders |-> StateOf(o)]
Calm == Undisturbed /\ OnePiece

\* What the four invariants say of a state in which nothing was disturbed, in
\* the words of the sale.
LEMMA CalmState ==
    ASSUME TypeInv, OnceInv, SoleInv, CountInv, Calm
    PROVE  /\ Level(stock) \in Nat
           /\ \A o \in Orders : status[o] = "paid" => UserOf[o] \in buyers
           /\ \A o \in Claims : UserOf[o] \in buyers
           /\ \A t \in Threads, o \in Orders : Puts(t, o) => status[o] = "cancelled"
           /\ \A t, u \in Threads, o \in Orders : Puts(t, o) /\ Puts(u, o) => t = u
<1>1. Undisturbed /\ OnePiece /\ stale = {}
  BY DEF Calm, Undisturbed
<1>2. \A t \in Threads, o \in Orders : Puts(t, o) => Holds(t, o)
  BY DEF Puts, Holds
<1>3. Level(stock) \in Nat
  BY <1>1, LevelIs DEF CountInv, TypeInv, DataTypes
<1>4. \A o \in Orders : status[o] = "paid" => o \in Live
  BY DEF Live
<1>5. \A t, u \in Threads, o \in Orders : Puts(t, o) /\ Puts(u, o) => t = u
  BY <1>1 DEF OnceInv
<1> HIDE DEF Undisturbed, Live, Puts, Holds
<1>6. QED BY <1>1, <1>2, <1>3, <1>4, <1>5 DEF SoleInv, Claims

\* A calm state comes from a calm one.
LEMMA CalmBefore ==
    ASSUME TypeInv, Next, Calm'
    PROVE  Calm
<1> USE DEF TypeInv, DataTypes
<1>1. ASSUME NEW o \in Orders, Sell(o)
      PROVE  Calm
  <2>1. /\ UNCHANGED <<stale, revived>> /\ status[o] = "none"
        /\ status' = [status EXCEPT ![o] = "queued"]
        /\ \E q \in Quantities : quantity' = [quantity EXCEPT ![o] = q]
    BY <1>1 DEF Sell, history
  <2>2. \A p \in Orders : status[p] # "none" =>
            status'[p] # "none" /\ quantity'[p] = quantity[p]
    BY <2>1
  <2>3. QED BY <2>1, <2>2 DEF Calm, Undisturbed, OnePiece
<1>2. ASSUME NEW t \in Threads, Update(t)
      PROVE  Calm
  <2>1. /\ First(t) \in Orders /\ UNCHANGED <<quantity, revived>>
        /\ status' = [status EXCEPT ![First(t)] = "cancelled"]
        /\ stale' = IF status[First(t)] # "pending" THEN stale \cup {First(t)} ELSE stale
    BY <1>2, FirstType DEF Update, MarkCancelled
  <2>2. QED BY <2>1 DEF Calm, Undisturbed, OnePiece
<1>3. ASSUME NEW t \in Threads, Return(t) \/ Forget(t)
      PROVE  Calm
  <2>1. UNCHANGED <<status, quantity, stale, revived>>
    BY <1>3 DEF Return, Forget, rows, history
  <2>2. QED BY <2>1 DEF Calm, Undisturbed, OnePiece
<1>4. CASE Minor
  BY <1>4 DEF Minor, Calm, Undisturbed, OnePiece
<1>5. QED BY <1>1, <1>2, <1>3, <1>4, StepKinds

\* The state of an order follows its row and its claim.
LEMMA StateMoves ==
    ASSUME NEW o \in Orders, status'[o] = status[o],
           o \in Claims' <=> o \in Claims
    PROVE  StateOf(o)' = StateOf(o)
<1> QED BY DEF StateOf

\* Steps that move no unit, no row and no claim.
LEMMA SaleStutter ==
    ASSUME UNCHANGED <<stock, status>>,
           \A t \in Threads, o \in Orders : Puts(t, o)' <=> Puts(t, o)
    PROVE  UNCHANGED Sale!saleVars
<1>1. Live' = Live
  BY DEF Live
<1>2. \A o \in Orders : o \in Claims' <=> o \in Claims
  BY <1>1 DEF Claims
<1>3. \A o \in Orders : StateOf(o)' = StateOf(o)
  BY <1>2, StateMoves
<1>4. saleState' = saleState
  BY <1>3 DEF saleState
<1>5. QED BY <1>4 DEF Sale!saleVars, saleState

\* Steps that lose units, and claims on units.
LEMMA SaleLoses ==
    ASSUME Level(stock) \in Nat, Level(stock)' \in Nat, Level(stock)' <= Level(stock),
           \A o \in Orders :
               \/ StateOf(o)' = StateOf(o)
               \/ StateOf(o) = "open" /\ StateOf(o)' = "gone"
    PROVE  Sale!Lose
<1> DEFINE L == {o \in Orders : StateOf(o) = "open" /\ StateOf(o)' = "gone"}
<1>1. L \in SUBSET {o \in Orders : saleState[o] = "open"}
  BY DEF saleState
<1>2. saleState' = [o \in Orders |-> IF o \in L THEN "gone" ELSE saleState[o]]
  BY DEF saleState
<1> HIDE DEF L
<1>3. \E K \in SUBSET {o \in Orders : saleState[o] = "open"} :
          saleState' = [o \in Orders |-> IF o \in K THEN "gone" ELSE saleState[o]]
  BY <1>1, <1>2
<1>4. QED BY <1>3 DEF Sale!Lose, saleState

\* The script sells.
LEMMA SaleSell ==
    ASSUME TypeInv, OnceInv, SoleInv, CountInv, Calm, NEW o \in Orders, Sell(o)
    PROVE  Sale!Buy(o)
<1>1. /\ UserOf[o] \notin buyers /\ Level(stock) > 0 /\ stock' = stock - 1
      /\ status[o] = "none" /\ status' = [status EXCEPT ![o] = "queued"]
      /\ UNCHANGED threads
  BY DEF Sell, MaySell
<1>2. Level(stock)' = Level(stock) - 1
  <2>1. stock \in Int /\ Level(stock) = stock
    BY <1>1, AbsentAssumption DEF Level, TypeInv, DataTypes
  <2>2. QED BY <1>1, <2>1, AbsentAssumption DEF Level
<1>3. \A t \in Threads, p \in Orders : Puts(t, p)' <=> Puts(t, p)
  BY <1>1, OthersMove
<1>4. /\ o \in Live' /\ \A p \in Orders \ {o} : p \in Live' <=> p \in Live
      /\ \A p \in Orders \ {o} : status'[p] = status[p]
  BY <1>1 DEF Live, TypeInv, DataTypes
<1>5. \A p \in Orders \ {o} : StateOf(p)' = StateOf(p)
  <2>1. \A p \in Orders \ {o} : p \in Claims' <=> p \in Claims
    BY <1>3, <1>4 DEF Claims
  <2>2. QED BY <1>4, <2>1, StateMoves
<1>6. StateOf(o) = "none" /\ StateOf(o)' = "open"
  <2>1. status'[o] = "queued" /\ o \in Claims'
    BY <1>1, <1>4 DEF Claims, TypeInv, DataTypes
  <2>2. QED BY <1>1, <2>1 DEF StateOf
<1>7. ~Sale!Holds(UserOf[o])
  <2> SUFFICES ASSUME NEW p \in Orders, UserOf[p] = UserOf[o], StateOf(p) \in {"open", "paid"}
               PROVE  FALSE
    BY DEF Sale!Holds
  <2>1. status[p] = "paid" \/ p \in Claims
    BY DEF StateOf
  <2>2. UserOf[p] \in buyers
    BY <2>1, CalmState
  <2>3. QED BY <1>1, <2>2
<1>8. saleState' = [saleState EXCEPT ![o] = "open"]
  BY <1>5, <1>6 DEF saleState
<1>9. QED BY <1>1, <1>2, <1>6, <1>7, <1>8 DEF Sale!Buy, saleState

\* A payment, of an order that is pending, or in vain.
LEMMA SalePay ==
    ASSUME TypeInv, OnceInv, SoleInv, CountInv, Calm, Calm', NEW o \in Orders, Pay(o)
    PROVE  Sale!Pay(o) \/ UNCHANGED Sale!saleVars
<1>1. /\ UNCHANGED <<stock, threads>> /\ status' = Paid(o)
      /\ revived' = (revived \/ status[o] = "cancelled")
  BY DEF Pay, redis
<1>2. status[o] # "cancelled"
  BY <1>1 DEF Calm, Undisturbed
<1>3. \A t \in Threads, p \in Orders : Puts(t, p)' <=> Puts(t, p)
  BY <1>1, OthersMove
<1>4. CASE status[o] = "pending"
  <2>1. status' = [status EXCEPT ![o] = "paid"]
    BY <1>1, <1>4 DEF Paid, HasRow
  <2>2. /\ status'[o] = "paid" /\ \A p \in Orders \ {o} : status'[p] = status[p]
        /\ \A p \in Orders \ {o} : p \in Live' <=> p \in Live
    BY <2>1 DEF Live, TypeInv, DataTypes
  <2>3. \A p \in Orders \ {o} : StateOf(p)' = StateOf(p)
    <3>1. \A p \in Orders \ {o} : p \in Claims' <=> p \in Claims
      BY <1>3, <2>2 DEF Claims
    <3>2. QED BY <2>2, <3>1, StateMoves
  <2>4. StateOf(o) = "open" /\ StateOf(o)' = "paid"
    BY <1>4, <2>2 DEF StateOf, Claims, Live
  <2>5. saleState' = [saleState EXCEPT ![o] = "paid"]
    BY <2>3, <2>4 DEF saleState
  <2>6. QED BY <1>1, <2>4, <2>5 DEF Sale!Pay, saleState
<1>5. CASE status[o] # "pending"
  <2>1. status' = status
    BY <1>1, <1>2, <1>5 DEF Paid, HasRow, TypeInv, DataTypes
  <2>2. QED BY <1>1, <1>3, <2>1, SaleStutter
<1>6. QED BY <1>4, <1>5

\* UPDATE: the order has a claim before and after.
LEMMA SaleUpdate ==
    ASSUME TypeInv, Calm', NEW t \in Threads, Update(t)
    PROVE  UNCHANGED Sale!saleVars
<1>1. PICK f \in Orders : f = First(t)
  BY FirstType DEF Update, TypeInv
<1>2. /\ UNCHANGED stock
      /\ status' = [status EXCEPT ![f] = "cancelled"]
      /\ stale' = IF status[f] # "pending" THEN stale \cup {f} ELSE stale
  BY <1>1 DEF Update, MarkCancelled, redis
<1>3. status[f] = "pending" /\ status'[f] = "cancelled"
  BY <1>2 DEF Calm, Undisturbed, TypeInv, DataTypes
<1>4. \A u \in Threads, o \in Orders : Puts(u, o)' <=> Puts(u, o) \/ (u = t /\ o = f)
  BY <1>1, UpdateMoves
<1>5. StateOf(f) = "open" /\ StateOf(f)' = "open"
  <2>1. f \in Claims /\ f \in Claims'
    BY <1>3, <1>4 DEF Claims, Live
  <2>2. QED BY <1>3, <2>1 DEF StateOf
<1>6. \A o \in Orders \ {f} : StateOf(o)' = StateOf(o)
  <2>1. \A o \in Orders \ {f} : status'[o] = status[o] /\ (o \in Live' <=> o \in Live)
    BY <1>2 DEF Live, TypeInv, DataTypes
  <2>2. \A o \in Orders \ {f} : o \in Claims' <=> o \in Claims
    BY <1>4, <2>1 DEF Claims
  <2>3. QED BY <2>1, <2>2, StateMoves
<1>7. saleState' = saleState
  BY <1>5, <1>6 DEF saleState
<1>8. QED BY <1>2, <1>7 DEF Sale!saleVars, saleState

\* UPDATE reports an error: when it was executed, the unit is lost.
LEMMA SaleUpdateFails ==
    ASSUME TypeInv, OnceInv, SoleInv, CountInv, Calm, Calm', NEW t \in Threads,
           UpdateFails(t)
    PROVE  Sale!Lose \/ UNCHANGED Sale!saleVars
<1>1. PICK f \in Orders : f = First(t)
  BY FirstType DEF UpdateFails, TypeInv
<1>2. /\ UNCHANGED stock /\ pc[t] = "update" /\ Done(t)
      /\ MarkCancelled(f) \/ UNCHANGED <<status, stale>>
  BY <1>1 DEF UpdateFails, redis
<1>3. \A u \in Threads, o \in Orders : Puts(u, o)' <=> Puts(u, o)
  <2>1. /\ pc[t] \notin {"return", "forget"} /\ pc'[t] \notin {"return", "forget"}
        /\ \A u \in Threads \ {t} : pc'[u] = pc[u] /\ todo'[u] = todo[u]
    BY <1>2 DEF Done, Goto, TypeInv, ThreadTypes
  <2>2. QED BY <2>1, QuietMoves
<1>4. CASE UNCHANGED status
  BY <1>2, <1>3, <1>4, SaleStutter
<1>5. CASE MarkCancelled(f)
  <2>1. /\ status[f] = "pending" /\ status'[f] = "cancelled"
        /\ \A o \in Orders \ {f} : status'[o] = status[o]
    BY <1>5 DEF MarkCancelled, Calm, Undisturbed, TypeInv, DataTypes
  <2>2. \A o \in Orders \ {f} : StateOf(o)' = StateOf(o)
    <3>1. \A o \in Orders \ {f} : o \in Live' <=> o \in Live
      BY <2>1 DEF Live
    <3>2. \A o \in Orders \ {f} : o \in Claims' <=> o \in Claims
      BY <1>3, <3>1 DEF Claims
    <3>3. QED BY <2>1, <3>2, StateMoves
  <2>3. StateOf(f) = "open" /\ StateOf(f)' = "gone"
    <3>1. f \in Claims
      BY <2>1 DEF Claims, Live
    <3>2. \A u \in Threads : ~Puts(u, f)
      BY <2>1, CalmState
    <3>3. f \notin Claims'
      BY <1>3, <2>1, <3>2 DEF Claims, Live
    <3>4. QED BY <2>1, <3>1, <3>3 DEF StateOf
  <2>4. Level(stock) \in Nat /\ Level(stock)' = Level(stock)
    BY <1>2, CalmState
  <2>5. Sale!Lose
    BY <2>2, <2>3, <2>4, SaleLoses
  <2>6. QED BY <2>5
<1>6. QED BY <1>2, <1>4, <1>5

\* INCRBY, executed or not: the claim is gone, and with luck the unit is back.
LEMMA SaleReturn ==
    ASSUME TypeInv, OnceInv, SoleInv, CountInv, Calm, NEW t \in Threads, Return(t)
    PROVE  Sale!Lose \/ \E o \in Orders : Sale!CallOff(o)
<1>1. PICK f \in Orders : f = First(t)
  BY FirstType DEF Return, TypeInv
<1>2. /\ Puts(t, f) /\ UNCHANGED status
      /\ PutBack(f) \/ UNCHANGED stock
  BY <1>1 DEF Return, Puts, rows
<1>3. \A u \in Threads, o \in Orders : Puts(u, o)' <=> Puts(u, o) /\ u # t
  BY ReturnMoves
<1>4. Live' = Live /\ status[f] = "cancelled" /\ Level(stock) \in Nat
  BY <1>2, CalmState DEF Live
<1>5. StateOf(f) = "open" /\ StateOf(f)' = "gone"
  <2>1. f \in Claims
    BY <1>2 DEF Claims
  <2>2. \A u \in Threads : ~(Puts(u, f)')
    BY <1>2, <1>3, CalmState
  <2>3. f \notin Claims'
    BY <1>4, <2>2 DEF Claims, Live
  <2>4. QED BY <1>2, <1>4, <2>1, <2>3 DEF StateOf
<1>6. \A o \in Orders \ {f} : StateOf(o)' = StateOf(o)
  <2>1. \A o \in Orders \ {f} : ~Puts(t, o)
    BY <1>1 DEF Puts
  <2>2. \A o \in Orders \ {f} : o \in Claims' <=> o \in Claims
    BY <1>3, <1>4, <2>1 DEF Claims
  <2>3. QED BY <1>2, <2>2, StateMoves
<1>7. CASE UNCHANGED stock
  <2>1. Level(stock)' = Level(stock)
    BY <1>7
  <2>2. Sale!Lose
    BY <1>4, <1>5, <1>6, <2>1, SaleLoses
  <2>3. QED BY <2>2
<1>8. CASE PutBack(f)
  <2>1. quantity[f] = 1
    BY <1>4 DEF Calm, OnePiece
  <2>2. Level(stock)' = Level(stock) + 1
    <3>1. stock' = Level(stock) + 1 /\ stock' \in Int
      BY <1>4, <1>8, <2>1 DEF PutBack
    <3>2. Level(stock)' = stock'
      BY <3>1, AbsentAssumption DEF Level
    <3>3. QED BY <3>1, <3>2
  <2>3. saleState' = [saleState EXCEPT ![f] = "gone"] /\ saleState[f] = "open"
    BY <1>5, <1>6 DEF saleState
  <2>4. Sale!CallOff(f)
    BY <2>2, <2>3 DEF Sale!CallOff, saleState
  <2>5. QED BY <2>4
<1>9. QED BY <1>2, <1>7, <1>8

\* The process dies: what its threads were about to put back is lost.
LEMMA SaleCrash ==
    ASSUME TypeInv, OnceInv, SoleInv, CountInv, Calm, Crash
    PROVE  Sale!Lose
<1>1. UNCHANGED <<stock, status>> /\ \A t \in Threads : pc'[t] = "idle"
  BY DEF Crash, redis, rows
<1>2. \A t \in Threads, o \in Orders : ~(Puts(t, o)')
  BY <1>1 DEF Puts
<1>3. Live' = Live
  BY <1>1 DEF Live
<1>4. ASSUME NEW o \in Orders
      PROVE  \/ StateOf(o)' = StateOf(o)
             \/ StateOf(o) = "open" /\ StateOf(o)' = "gone"
  <2>1. o \in Claims' => o \in Claims
    BY <1>2, <1>3 DEF Claims
  <2>2. QED BY <1>1, <2>1 DEF StateOf
<1>5. Level(stock) \in Nat /\ Level(stock)' = Level(stock)
  BY <1>1, CalmState
<1>6. QED BY <1>4, <1>5, SaleLoses

\* DEL of the stock key.
LEMMA SaleStop ==
    ASSUME TypeInv, OnceInv, SoleInv, CountInv, Calm, StopSale
    PROVE  Sale!Lose
<1>1. UNCHANGED <<status, threads>> /\ Level(stock)' = 0
  BY DEF StopSale, Level, rows
<1>2. \A t \in Threads, o \in Orders : Puts(t, o)' <=> Puts(t, o)
  BY <1>1, OthersMove
<1>3. \A o \in Orders : StateOf(o)' = StateOf(o)
  <2>1. Live' = Live
    BY <1>1 DEF Live
  <2>2. \A o \in Orders : o \in Claims' <=> o \in Claims
    BY <1>2, <2>1 DEF Claims
  <2>3. QED BY <1>1, <2>2, StateMoves
<1>4. Level(stock) \in Nat
  BY CalmState
<1>5. QED BY <1>1, <1>3, <1>4, SaleLoses

\* Every step into a calm state is one of the sale.
LEMMA SaleStep ==
    ASSUME TypeInv, OnceInv, SoleInv, CountInv, Next, Calm'
    PROVE  Sale!SaleNext \/ UNCHANGED Sale!saleVars
<1>0. Calm
  BY CalmBefore
<1>1. ASSUME NEW o \in Orders, Persist(o)
      PROVE  UNCHANGED Sale!saleVars
  <2>1. /\ UNCHANGED <<stock, threads>> /\ status[o] = "queued" /\ status'[o] = "pending"
        /\ \A p \in Orders \ {o} : status'[p] = status[p]
    BY <1>1 DEF Persist, redis, TypeInv, DataTypes
  <2>2. \A t \in Threads, p \in Orders : Puts(t, p)' <=> Puts(t, p)
    BY <2>1, OthersMove
  <2>3. \A p \in Orders : p \in Live' <=> p \in Live
    BY <2>1 DEF Live
  <2>4. \A p \in Orders : p \in Claims' <=> p \in Claims
    BY <2>2, <2>3 DEF Claims
  <2>5. StateOf(o)' = StateOf(o)
    BY <2>1, <2>3, <2>4 DEF StateOf, Claims, Live
  <2>6. \A p \in Orders : StateOf(p)' = StateOf(p)
    BY <2>1, <2>4, <2>5, StateMoves
  <2>7. QED BY <2>1, <2>6 DEF Sale!saleVars
<1>2. ASSUME UNCHANGED <<stock, status>>,
             NEW t \in Threads, pc[t] \notin {"return", "forget"},
             pc'[t] \notin {"return", "forget"},
             \A u \in Threads \ {t} : pc'[u] = pc[u] /\ todo'[u] = todo[u]
      PROVE  UNCHANGED Sale!saleVars
  <2>1. \A u \in Threads, p \in Orders : Puts(u, p)' <=> Puts(u, p)
    BY <1>2, QuietMoves
  <2>2. QED BY <1>2, <2>1, SaleStutter
<1>3. ASSUME NEW t \in Handlers, NEW o \in Orders, ReadForCancel(t, o)
      PROVE  UNCHANGED Sale!saleVars
  <2>1. t \in Threads /\ pc \in [Threads -> PcStates]
    BY DEF Threads, TypeInv, ThreadTypes
  <2>2. /\ UNCHANGED <<stock, status>>
        /\ pc[t] \notin {"return", "forget"} /\ pc'[t] \notin {"return", "forget"}
        /\ \A u \in Threads \ {t} : pc'[u] = pc[u] /\ todo'[u] = todo[u]
    BY <1>3, <2>1 DEF ReadForCancel, Goto, redis, rows, TypeInv, ThreadTypes
  <2>3. QED BY <1>2, <2>1, <2>2
<1>4. CASE Wake \/ Scan
  <2>1. Timer \in Threads
    BY DEF Threads
  <2>2. /\ UNCHANGED <<stock, status>>
        /\ pc[Timer] \notin {"return", "forget"} /\ pc'[Timer] \notin {"return", "forget"}
        /\ \A u \in Threads \ {Timer} : pc'[u] = pc[u] /\ todo'[u] = todo[u]
    BY <1>4, <2>1 DEF Wake, Scan, Goto, redis, rows, TypeInv, ThreadTypes
  <2>3. QED BY <1>2, <2>1, <2>2
<1>5. ASSUME NEW t \in Threads, Cool(t)
      PROVE  UNCHANGED Sale!saleVars
  <2>1. /\ UNCHANGED <<stock, status>>
        /\ pc[t] \notin {"return", "forget"} /\ pc'[t] \notin {"return", "forget"}
        /\ \A u \in Threads \ {t} : pc'[u] = pc[u] /\ todo'[u] = todo[u]
    BY <1>5 DEF Cool, Done, Goto, rows, TypeInv, ThreadTypes
  <2>2. QED BY <1>2, <2>1
<1>6. ASSUME NEW t \in Threads, Forget(t)
      PROVE  UNCHANGED Sale!saleVars
  <2>1. UNCHANGED <<stock, status>>
    BY <1>6 DEF Forget, rows
  <2>2. QED BY <1>6, <2>1, ForgetMoves, SaleStutter
<1>7. ASSUME NEW u \in Users, CooldownExpires(u)
      PROVE  UNCHANGED Sale!saleVars
  <2>1. UNCHANGED <<stock, status, threads>>
    BY <1>7 DEF CooldownExpires, rows
  <2>2. \A t \in Threads, o \in Orders : Puts(t, o)' <=> Puts(t, o)
    BY <2>1, OthersMove
  <2>3. QED BY <2>1, <2>2, SaleStutter
<1>8. QED
  BY <1>0, <1>1, <1>3, <1>4, <1>5, <1>6, <1>7, SaleSell, SalePay, SaleUpdate,
     SaleUpdateFails, SaleReturn, SaleCrash, SaleStop
     DEF Next, Cancel, Sale!SaleNext

\* At the start all units are on sale and there is no order.
LEMMA SaleStart == Init => Sale!SaleInit
<1> SUFFICES ASSUME Init PROVE Sale!SaleInit
  OBVIOUS
<1>1. Level(stock) \in Nat
  BY BoundsAssumption, AbsentAssumption DEF Init, Level
<1>2. \A o \in Orders : StateOf(o) = "none"
  BY DEF Init, StateOf
<1>3. QED BY <1>1, <1>2 DEF Sale!SaleInit

\* As long as no cancellation overtakes anything and orders are for one piece,
\* every step keeps what a sale with cancellation promises.
THEOREM CancellationImplemented == Spec => CancelsAsPromised
<1>1. TypeInv /\ OnceInv /\ SoleInv /\ CountInv /\ [Next]_vars
        => [Calm' => [Sale!SaleNext]_(Sale!saleVars)]_vars
  BY SaleStep
<1>2. [Calm' => [Sale!SaleNext]_(Sale!saleVars)]_vars
        => [(Undisturbed /\ OnePiece)' => [Sale!SaleNext]_(Sale!saleVars)]_vars
  BY DEF Calm
<1>3. QED
  BY <1>1, <1>2, SaleStart, TypeInvariant, CountInvariant, SoleInvariant, PTL
     DEF Spec, CancelsAsPromised

--------------------------------------------------------------------------------
(* The checker under a clock of our days. *)

\* The seconds since 1970 stay below the milliseconds at which the first order
\* was created: from a StartTime in 2024, for more than 50000 years of rounds.
RealClock == StartTime + MaxScans * Interval + Interval < StartTime * MsPerSecond + Timeout

\* Time goes on from StartTime, sold orders are stamped with it, and only sold
\* orders are on a list.
ClockInv ==
    /\ StartTime <= now /\ now <= StartTime + MaxScans * Interval + Interval
    /\ \A o \in Orders : status[o] # "none" => StartTime * MsPerSecond <= created[o]
    /\ \A t \in Threads : \A o \in todo[t] : status[o] # "none"

\* The bound of the clock is a number.
LEMMA HorizonType ==
    /\ StartTime \in Nat /\ Interval \in Nat /\ Timeout \in Nat
    /\ MaxScans * Interval \in Nat
<1> QED BY LimitsAssumption, BoundsAssumption

\* Lists that only lose orders, and orders that stay sold.
LEMMA ClockFrame ==
    ASSUME ClockInv, UNCHANGED <<now, created>>,
           \A o \in Orders : (status'[o] = "none") <=> (status[o] = "none"),
           \A t \in Threads : todo'[t] \subseteq todo[t],
           ThreadTypes
    PROVE  ClockInv'
<1>1. \A t \in Threads : todo[t] \subseteq Orders
  BY DEF ThreadTypes
<1>2. QED BY <1>1 DEF ClockInv

\* An order that is done leaves the list, the others stay.
LEMMA DoneShrinks ==
    ASSUME ThreadTypes, NEW t \in Threads, Done(t) \/ UNCHANGED todo
    PROVE  \A u \in Threads : todo'[u] \subseteq todo[u]
<1> QED BY DEF Done, ThreadTypes

\* Every step keeps ClockInv.
LEMMA ClockKept ==
    ASSUME TypeInv, ClockInv, Next
    PROVE  ClockInv'
<1> DEFINE rounds == MaxScans * Interval
<1>0. StartTime \in Nat /\ Interval \in Nat /\ rounds \in Nat /\ now \in Nat
  BY HorizonType DEF TypeInv, DataTypes
<1>1. StartTime <= now /\ now <= StartTime + rounds + Interval
  BY DEF ClockInv
<1>2. CASE Wake
  <2>1. now < StartTime + rounds /\ now' = now + Interval
        /\ UNCHANGED <<status, created, todo>>
    BY <1>2 DEF Wake, rows
  <2> HIDE DEF rounds
  <2>2. StartTime <= now' /\ now' <= StartTime + rounds + Interval
    BY <1>0, <1>1, <2>1
  <2>3. QED BY <2>1, <2>2 DEF ClockInv, rounds
<1>3. ASSUME NEW o \in Orders, Sell(o)
      PROVE  ClockInv'
  <2>1. /\ UNCHANGED <<now, todo>> /\ status' = [status EXCEPT ![o] = "queued"]
        /\ created' = [created EXCEPT ![o] = now * MsPerSecond]
    BY <1>3 DEF Sell, threads
  <2>2. StartTime * MsPerSecond <= now * MsPerSecond
    BY <1>0, <1>1 DEF MsPerSecond
  <2>3. \A p \in Orders : status'[p] # "none" => StartTime * MsPerSecond <= created'[p]
    BY <2>1, <2>2 DEF ClockInv, TypeInv, DataTypes
  <2>4. \A p \in Orders : status[p] # "none" => status'[p] # "none"
    BY <2>1 DEF TypeInv, DataTypes
  <2>5. \A t \in Threads : todo[t] \subseteq Orders
    BY DEF TypeInv, ThreadTypes
  <2>6. QED BY <2>1, <2>3, <2>4, <2>5 DEF ClockInv
<1>4. ASSUME NEW o \in Orders, Persist(o) \/ Pay(o)
      PROVE  ClockInv'
  <2>1. UNCHANGED <<now, created, todo>>
        /\ \A p \in Orders : (status'[p] = "none") <=> (status[p] = "none")
    BY <1>4 DEF Persist, Pay, Paid, HasRow, TypeInv, DataTypes, threads
  <2>2. QED BY <2>1, ClockFrame DEF TypeInv
<1>5. ASSUME NEW t \in Threads, Update(t) \/ UpdateFails(t)
      PROVE  ClockInv'
  <2>1. \/ UNCHANGED <<now, created>> /\ Done(t)
        \/ UNCHANGED <<now, created, todo>>
    BY <1>5 DEF Update, UpdateFails
  <2>2. First(t) \in Orders /\ status[First(t)] # "none"
    BY <1>5, FirstType DEF Update, UpdateFails, TypeInv, ClockInv
  <2>3. \A p \in Orders : (status'[p] = "none") <=> (status[p] = "none")
    BY <1>5, <2>2 DEF Update, UpdateFails, MarkCancelled, TypeInv, DataTypes
  <2>4. QED BY <2>1, <2>3, DoneShrinks, ClockFrame DEF TypeInv
<1>6. ASSUME NEW t \in Threads, Return(t) \/ Forget(t) \/ Cool(t)
      PROVE  ClockInv'
  <2>1. UNCHANGED <<now, created, status>> /\ (Done(t) \/ UNCHANGED todo)
    BY <1>6 DEF Return, Forget, Cool, rows
  <2>2. QED BY <2>1, DoneShrinks, ClockFrame DEF TypeInv
<1>7. ASSUME NEW t \in Handlers, NEW o \in Orders, ReadForCancel(t, o)
      PROVE  ClockInv'
  <2>1. UNCHANGED <<now, created, status>> /\ status[o] # "none"
        /\ todo' = [todo EXCEPT ![t] = {o}]
    BY <1>7 DEF ReadForCancel, MayCancel, rows
  <2>2. QED BY <2>1 DEF ClockInv, TypeInv, ThreadTypes
<1>8. CASE Scan
  <2>1. UNCHANGED <<now, created, status>> /\ todo' = [todo EXCEPT ![Timer] = Found]
    BY <1>8 DEF Scan, rows
  <2>2. QED BY <2>1 DEF ClockInv, Found, TypeInv, ThreadTypes
<1>9. CASE StopSale \/ Crash \/ \E u \in Users : CooldownExpires(u)
  <2>1. UNCHANGED <<now, created, status>> /\ \A t \in Threads : todo'[t] \subseteq todo[t]
    BY <1>9 DEF StopSale, Crash, CooldownExpires, rows, threads, TypeInv, ThreadTypes
  <2>2. QED BY <2>1, ClockFrame DEF TypeInv
<1>10. QED BY <1>2, <1>3, <1>4, <1>5, <1>6, <1>7, <1>8, <1>9 DEF Next, Cancel

\* Time and the stamps of the orders, in every run.
THEOREM ClockInvariant == Spec => []ClockInv
<1>1. Init => ClockInv
  BY HorizonType DEF Init, ClockInv
<1>2. TypeInv /\ ClockInv /\ [Next]_vars => ClockInv'
  <2> SUFFICES ASSUME TypeInv, ClockInv, [Next]_vars PROVE ClockInv'
    OBVIOUS
  <2>1. CASE UNCHANGED vars
    BY <2>1, ClockFrame DEF vars, TypeInv
  <2>2. QED BY <2>1, ClockKept
<1>3. QED BY <1>1, <1>2, TypeInvariant, PTL DEF Spec

\* What the checker would cancel, and where it is: never past its scan.
CheckerIdle == Found = {} /\ pc[Timer] \in {"idle", "scan"}

\* With such a clock no order is ever overdue.
LEMMA NothingFound ==
    ASSUME RealClock, TypeInv, ClockInv
    PROVE  Found = {}
<1> SUFFICES ASSUME NEW o \in Orders, status[o] = "pending", Overdue(o)
             PROVE  FALSE
  BY DEF Found, Fetched
<1> DEFINE rounds == MaxScans * Interval
           stamp == StartTime * MsPerSecond
<1>1. /\ StartTime \in Nat /\ Interval \in Nat /\ Timeout \in Nat /\ rounds \in Nat
      /\ now \in Nat /\ created[o] \in Nat /\ stamp \in Nat
  BY HorizonType DEF TypeInv, DataTypes, MsPerSecond
<1>2. /\ now <= StartTime + rounds + Interval /\ stamp <= created[o]
      /\ StartTime + rounds + Interval < stamp + Timeout
  BY DEF ClockInv, RealClock
<1>3. now - created[o] >= Timeout
  BY DEF Overdue
<1> HIDE DEF rounds, stamp
<1>4. QED BY <1>1, <1>2, <1>3

\* The checker never finds an order and never cancels one, whatever the
\* timeout, the interval and the number of rounds: check_loop takes the
\* milliseconds of created_at from the seconds of the clock.
THEOREM CheckerNeverCancels == RealClock => (Spec => []CheckerIdle)
<1> SUFFICES ASSUME RealClock PROVE Spec => []CheckerIdle
  OBVIOUS
<1> DEFINE Asleep == pc[Timer] \in {"idle", "scan"}
<1>1. Init => Asleep
  BY DEF Init, Threads
<1>2. TypeInv /\ ClockInv /\ Asleep /\ [Next]_vars => Asleep'
  <2> SUFFICES ASSUME TypeInv, ClockInv, Asleep, [Next]_vars PROVE Asleep'
    OBVIOUS
  <2>1. Timer \in Threads /\ Timer \notin Handlers
    BY ThreadsAssumption DEF Threads
  <2>2. CASE Wake \/ Scan
    BY <2>1, <2>2, NothingFound DEF Wake, Scan, Goto, TypeInv, ThreadTypes
  <2>3. ASSUME NEW t \in Handlers, NEW o \in Orders, ReadForCancel(t, o)
        PROVE  Asleep'
    BY <2>1, <2>3 DEF ReadForCancel, Goto, TypeInv, ThreadTypes
  <2>4. ASSUME NEW t \in Threads, Cancel(t)
        PROVE  Asleep'
    <3>1. t # Timer
      BY <2>4 DEF Cancel, Update, UpdateFails, Return, Forget, Cool
    <3>2. pc'[Timer] = pc[Timer]
      BY <2>1, <2>4, <3>1
         DEF Cancel, Update, UpdateFails, Return, AfterReturn, Forget, Cool, Done, Goto,
             TypeInv, ThreadTypes
    <3>3. QED BY <3>2
  <2>5. CASE Crash
    BY <2>1, <2>5 DEF Crash
  <2>6. CASE UNCHANGED vars
    BY <2>6 DEF vars
  <2>7. CASE \/ \E o \in Orders : Sell(o) \/ Persist(o) \/ Pay(o)
             \/ \E u \in Users : CooldownExpires(u)
             \/ StopSale
    BY <2>7 DEF Sell, Persist, Pay, CooldownExpires, StopSale, threads
  <2>8. QED BY <2>2, <2>3, <2>4, <2>5, <2>6, <2>7 DEF Next
<1>3. TypeInv /\ ClockInv /\ Asleep => CheckerIdle
  BY NothingFound DEF CheckerIdle
<1>4. QED BY <1>1, <1>2, <1>3, TypeInvariant, ClockInvariant, PTL DEF Spec

\* An order is cancelled by a handler that is in the middle of a request.
ByRequest ==
    \A o \in Orders : status[o] # "cancelled" /\ status'[o] = "cancelled" =>
        \E t \in Handlers : pc[t] = "update" /\ First(t) = o

\* So an order that nobody pays and nobody cancels stays pending for ever: only
\* a request of its buyer ends it, never the passing of time.
THEOREM OnlyRequestsCancel == RealClock => (Spec => [][ByRequest]_vars)
<1> SUFFICES ASSUME RealClock PROVE Spec => [][ByRequest]_vars
  OBVIOUS
<1>1. TypeInv /\ CheckerIdle /\ [Next]_vars => [ByRequest]_vars
  <2> SUFFICES ASSUME TypeInv, CheckerIdle, Next PROVE ByRequest
    OBVIOUS
  <2>1. ASSUME NEW t \in Threads, Update(t) \/ UpdateFails(t)
        PROVE  ByRequest
    <3>1. pc[t] = "update" /\ t \in Handlers /\ First(t) \in Orders
      BY <2>1, FirstType DEF Update, UpdateFails, CheckerIdle, Threads, TypeInv
    <3>2. \A o \in Orders : status'[o] # status[o] => o = First(t)
      BY <2>1, <3>1 DEF Update, UpdateFails, MarkCancelled, TypeInv, DataTypes
    <3>3. QED BY <3>1, <3>2 DEF ByRequest
  <2>2. ASSUME NEW o \in Orders, Sell(o) \/ Persist(o) \/ Pay(o)
        PROVE  ByRequest
    BY <2>2 DEF Sell, Persist, Pay, Paid, ByRequest, TypeInv, DataTypes
  <2>3. CASE \/ \E t \in Threads : Return(t) \/ Forget(t) \/ Cool(t)
             \/ \E t \in Handlers, o \in Orders : ReadForCancel(t, o)
             \/ Wake \/ Scan \/ StopSale \/ Crash
             \/ \E u \in Users : CooldownExpires(u)
    <3>1. UNCHANGED status
      BY <2>3 DEF Return, Forget, Cool, ReadForCancel, Wake, Scan, StopSale, Crash,
                  CooldownExpires, rows
    <3>2. QED BY <3>1 DEF ByRequest
  <2>4. QED BY <2>1, <2>2, <2>3 DEF Next, Cancel
<1>2. QED BY <1>1, CheckerNeverCancels, TypeInvariant, PTL DEF Spec

--------------------------------------------------------------------------------
(* A cancellation that has begun ends.                                      *)

\* The steps that thread t still has to take for its orders, at most.
StepsOf(t) ==
    CASE pc[t] = "update" -> 4 * Cardinality(todo[t])
      [] pc[t] = "return" -> 4 * Cardinality(todo[t]) - 1
      [] pc[t] = "forget" -> 4 * Cardinality(todo[t]) - 2
      [] pc[t] = "cool"   -> 4 * Cardinality(todo[t]) - 3
      [] OTHER            -> 0

\* A thread in the middle of a cancellation has something to do, each of its
\* steps leaves it less, and until it is done nobody gives it more.
CancellationsShrink ==
    \A t \in Threads :
        /\ StepsOf(t) \in Nat
        /\ StepsOf(t) = 0 <=> pc[t] \in {"idle", "scan"}
        /\ Cancel(t) => StepsOf(t)' < StepsOf(t)
        /\ StepsOf(t) > 0 => StepsOf(t)' <= StepsOf(t)

\* The orders of a thread can be counted.
LEMMA ListCounted ==
    ASSUME ThreadTypes, NEW t \in Threads
    PROVE  /\ IsFiniteSet(todo[t]) /\ Cardinality(todo[t]) \in Nat
           /\ Cardinality(todo[t]) = 0 <=> pc[t] \in {"idle", "scan"}
<1>1. todo[t] \in SUBSET Orders
  BY DEF ThreadTypes
<1>2. IsFiniteSet(todo[t])
  BY <1>1, OrdersAssumption, FS_Subset
<1>3. Cardinality(todo[t]) = 0 <=> todo[t] = {}
  BY <1>2, FS_EmptySet
<1>4. QED BY <1>2, <1>3, FS_CardinalityType DEF ThreadTypes

\* One order less, or one step less for the same order.
LEMMA OwnSteps ==
    ASSUME TypeInv, NEW t \in Threads, Cancel(t)
    PROVE  StepsOf(t)' < StepsOf(t)
<1> DEFINE n == Cardinality(todo[t])
<1>1. /\ pc[t] \in {"update", "return", "forget", "cool"}
      /\ ThreadTypes /\ pc \in [Threads -> PcStates] /\ todo \in [Threads -> SUBSET Orders]
  BY DEF Cancel, Update, UpdateFails, Return, Forget, Cool, TypeInv, ThreadTypes
<1>2. n \in Nat /\ n >= 1 /\ IsFiniteSet(todo[t])
  BY <1>1, ListCounted
<1>3. CASE Done(t)
  <2>1. First(t) \in todo[t]
    BY <1>1, FirstType
  <2>2. /\ todo'[t] = todo[t] \ {First(t)} /\ pc'[t] \in {"idle", "update"}
    BY <1>1, <1>3 DEF Done, Goto
  <2>3. Cardinality(todo'[t]) = n - 1
    BY <1>2, <2>1, <2>2, FS_RemoveElement
  <2> HIDE DEF n
  <2>4. QED BY <1>1, <1>2, <2>2, <2>3 DEF StepsOf, n
<1>4. CASE UNCHANGED todo /\ \/ pc[t] = "update" /\ pc'[t] = "return"
                             \/ pc[t] = "return" /\ pc'[t] = "forget"
                             \/ pc[t] = "forget" /\ pc'[t] = "cool"
  <2>1. Cardinality(todo'[t]) = n
    BY <1>4
  <2> HIDE DEF n
  <2>2. QED BY <1>2, <1>4, <2>1 DEF StepsOf, n
<1>5. QED
  BY <1>1, <1>3, <1>4
     DEF Cancel, Update, UpdateFails, Return, AfterReturn, Forget, Cool, Goto

\* A cancellation, or the checker's round over all the orders it has found, is
\* over after four steps for each order, through failures of every statement
\* and whatever other threads do to the same orders.
THEOREM CancellationsEnd == Spec => [][CancellationsShrink]_vars
<1>1. TypeInv /\ [Next]_vars => [CancellationsShrink]_vars
  <2> SUFFICES ASSUME TypeInv, Next, NEW t \in Threads
               PROVE  /\ StepsOf(t) \in Nat
                      /\ StepsOf(t) = 0 <=> pc[t] \in {"idle", "scan"}
                      /\ Cancel(t) => StepsOf(t)' < StepsOf(t)
                      /\ StepsOf(t) > 0 => StepsOf(t)' <= StepsOf(t)
    BY DEF CancellationsShrink
  <2>1. /\ Cardinality(todo[t]) \in Nat /\ pc[t] \in PcStates
        /\ Cardinality(todo[t]) = 0 <=> pc[t] \in {"idle", "scan"}
    BY ListCounted DEF TypeInv, ThreadTypes
  <2>2. StepsOf(t) \in Nat /\ (StepsOf(t) = 0 <=> pc[t] \in {"idle", "scan"})
    <3> DEFINE n == Cardinality(todo[t])
    <3>1. n \in Nat /\ (n = 0 <=> pc[t] \in {"idle", "scan"}) /\ pc[t] \in PcStates
      BY <2>1
    <3> HIDE DEF n
    <3>2. QED BY <3>1 DEF StepsOf, PcStates, n
  <2>3. StepsOf(t)' \in Int
    <3> DEFINE n == Cardinality(todo'[t])
    <3>1. ThreadTypes' /\ Orders' = Orders
      BY ThreadTypesKept DEF TypeInv
    <3>2. todo'[t] \in SUBSET Orders
      BY <3>1 DEF ThreadTypes
    <3>3. n \in Nat
      BY <3>2, OrdersAssumption, FS_Subset, FS_CardinalityType
    <3> HIDE DEF n
    <3>4. QED BY <3>3 DEF StepsOf, n
  <2>4. ASSUME NEW u \in Threads, Cancel(u), StepsOf(t) > 0
        PROVE  StepsOf(t)' <= StepsOf(t)
    <3>1. CASE u = t
      <4>1. StepsOf(t)' < StepsOf(t)
        BY <2>4, <3>1, OwnSteps
      <4>2. QED BY <2>2, <2>3, <4>1
    <3>2. CASE u # t
      <4>1. pc'[t] = pc[t] /\ todo'[t] = todo[t]
        BY <2>4, <3>2
           DEF Cancel, Update, UpdateFails, Return, AfterReturn, Forget, Cool, Done, Goto,
               TypeInv, ThreadTypes
      <4>2. StepsOf(t)' = StepsOf(t)
        BY <4>1 DEF StepsOf
      <4>3. QED BY <2>2, <4>2
    <3>3. QED BY <3>1, <3>2
  <2>5. ASSUME StepsOf(t) > 0, ~ \E u \in Threads : Cancel(u)
        PROVE  StepsOf(t)' <= StepsOf(t)
    <3>1. pc[t] \notin {"idle", "scan"}
      BY <2>2, <2>5
    <3>2. \/ pc'[t] = pc[t] /\ todo'[t] = todo[t]
          \/ Crash
      BY <2>5, <3>1
         DEF Next, Sell, Persist, Pay, ReadForCancel, Wake, Scan, CooldownExpires, StopSale,
             threads, Goto, TypeInv, ThreadTypes
    <3>3. CASE Crash
      <4>1. pc'[t] = "idle"
        BY <3>3 DEF Crash
      <4>2. QED BY <2>2, <2>5, <4>1 DEF StepsOf
    <3>4. CASE pc'[t] = pc[t] /\ todo'[t] = todo[t]
      <4>1. StepsOf(t)' = StepsOf(t)
        BY <3>4 DEF StepsOf
      <4>2. QED BY <2>2, <4>1
    <3>5. QED BY <3>2, <3>3, <3>4
  <2>6. QED BY <2>2, <2>4, <2>5, OwnSteps
<1>2. QED BY <1>1, TypeInvariant, PTL DEF Spec
================================================================================
