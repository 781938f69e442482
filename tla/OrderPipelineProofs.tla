-------------------------- MODULE OrderPipelineProofs --------------------------
(***************************************************************************)
(* The consumer of the stream, for batches, backlogs and streams of every  *)
(* length and any number of crashes and faults: no delivered order is      *)
(* lost, buyers are told once and of stored orders, one restart drains the *)
(* backlog, the whole implements OrderDelivery, and no stage is stuck or   *)
(* goes on for ever; then the result query over it, for any number of      *)
(* products.                                                               *)
(***************************************************************************)
EXTENDS ResultQuery, Smallest, FiniteSetTheorems

\* Positions in the stream are ordered.
LEMMA LaterEarlier ==
    ASSUME NEW a \in Int, NEW b \in Int
    PROVE  /\ Later(a, b) \in {a, b} /\ Later(a, b) >= a /\ Later(a, b) >= b
           /\ Earlier(a, b) \in {a, b} /\ Earlier(a, b) <= a /\ Earlier(a, b) <= b
<1> QED BY DEF Later, Earlier

\* What a read returns lies behind the group's position and not behind the end.
LEMMA ReadRange ==
    ASSUME TypeOK
    PROVE  /\ ReadUpTo \in Nat /\ delivered <= ReadUpTo /\ ReadUpTo <= last
           /\ Unread = {m \in Messages : delivered < m /\ trimmed < m /\ m <= ReadUpTo}
<1> DEFINE from == Later(delivered, trimmed)
<1>1. /\ last \in Nat /\ delivered \in Nat /\ trimmed \in Nat /\ MaxBatch \in Nat
      /\ delivered <= last /\ trimmed <= last
  BY LimitsAssumption DEF TypeOK
<1>2. from \in {delivered, trimmed} /\ from >= delivered /\ from >= trimmed
  BY <1>1, LaterEarlier
<1>3. /\ ReadUpTo \in {last, from + MaxBatch}
      /\ ReadUpTo <= last /\ ReadUpTo <= from + MaxBatch
  BY <1>1, <1>2, LaterEarlier DEF ReadUpTo
<1> HIDE DEF from
<1>4. ReadUpTo \in Nat /\ delivered <= ReadUpTo
  BY <1>1, <1>2, <1>3
<1>5. \A m \in Messages : from < m <=> delivered < m /\ trimmed < m
  BY <1>1, <1>2, BoundsAssumption DEF Messages
<1>6. Unread = {m \in Messages : from < m /\ m <= ReadUpTo}
  BY DEF Unread, from
<1>7. QED BY <1>3, <1>4, <1>5, <1>6

--------------------------------------------------------------------------------
(* Types. *)

\* An entry is added at the end of the stream.
LEMMA AddMoves ==
    ASSUME TypeOK, Add
    PROVE  /\ last' = last + 1 /\ last + 1 \in Messages /\ last + 1 <= MaxMessages
           /\ trimmed' \in Nat /\ trimmed <= trimmed' /\ trimmed' <= last'
           /\ malformed \subseteq malformed' /\ malformed' \subseteq malformed \cup {last + 1}
           /\ skipped' = skipped \cup {m \in Messages : delivered < m /\ m <= trimmed'}
           /\ UNCHANGED <<delivered, pel, outside, pc, conn, todo, ready, history, bounds>>
<1>1. /\ last \in Nat /\ trimmed \in Nat /\ trimmed <= last /\ last < MaxMessages
      /\ MaxLen \in Nat \ {0} /\ MaxMessages \in Nat
  BY LimitsAssumption, BoundsAssumption DEF TypeOK, Add
<1>2. LET k == Later(trimmed, last + 1 - MaxLen)
      IN  k \in Nat /\ trimmed <= k /\ k <= last + 1
  BY <1>1 DEF Later
<1>3. trimmed' \in {trimmed, Later(trimmed, last + 1 - MaxLen)}
  BY DEF Add
<1>4. last + 1 \in Messages
  BY <1>1 DEF Messages
<1> HIDE DEF Later
<1>5. QED BY <1>1, <1>2, <1>3, <1>4 DEF Add

\* Every step keeps the types.
LEMMA TypesKept ==
    ASSUME TypeOK, Next
    PROVE  TypeOK'
<1> USE DEF TypeOK, PcStates
<1>1. CASE Add
  <2>1. /\ last' = last + 1 /\ last + 1 \in Messages /\ last + 1 <= MaxMessages
        /\ trimmed' \in Nat /\ trimmed' <= last'
        /\ malformed' \subseteq malformed \cup {last + 1}
        /\ skipped' \subseteq Messages
        /\ UNCHANGED <<delivered, pel, db, dead, told, cache, pc, conn, todo, ready,
                       failed, rejected, crashes, faults>>
    BY <1>1, AddMoves DEF outside, history, bounds
  <2>2. QED BY <2>1
<1>2. CASE Boot
  <2>1. Pending(pel) \subseteq pel
    BY DEF Pending, Lowest
  <2>2. conn' \in BOOLEAN
    BY <1>2, Zenon DEF Boot
  <2>3. /\ pc' = "recover" /\ todo' \in {Pending(pel), {}}
        /\ UNCHANGED faults \/ Fault
        /\ UNCHANGED <<stream, delivered, pel, outside, ready, history, crashes>>
    BY <1>2 DEF Boot
  <2>4. QED BY <2>1, <2>2, <2>3 DEF Fault, stream, outside, history
<1>3. ASSUME NEW m \in Messages,
             \/ RecoverUnreadable(m) \/ RecoverStored(m) \/ RecoverRejected(m)
             \/ RecoverFails(m) \/ RecoverAck(m) \/ RecoverAckRejected(m)
             \/ RecoverDeadLetter(m)
      PROVE  TypeOK'
  BY <1>3 DEF RecoverUnreadable, RecoverStored, RecoverRejected, RecoverFails, RecoverAck,
              RecoverAckRejected, RecoverDeadLetter, Acknowledge, Fault, stream, outside,
              history, bounds
<1>4. CASE Recovered
  BY <1>4 DEF Recovered, stream, outside, history, bounds
<1>5. CASE Poll \/ PollLost
  <2>1. Unread \subseteq Messages
    BY DEF Unread
  <2>2. delivered' = ReadUpTo /\ pel' = pel \cup Unread
        /\ UNCHANGED <<stream, outside, ready, history, crashes>>
        /\ (UNCHANGED faults \/ Fault)
        /\ pc' \in PcStates /\ conn' \in BOOLEAN /\ todo' \in {todo, Unread}
    BY <1>5 DEF Poll, PollLost, Deliver, bounds
  <2>3. ReadUpTo \in Nat /\ ReadUpTo <= last
    BY ReadRange
  <2>4. faults' \in Nat
    BY <2>2 DEF Fault
  <2>5. QED BY <2>1, <2>2, <2>3, <2>4 DEF stream, outside, history
<1>6. CASE Parsed \/ Insert \/ InsertFails \/ Notified \/ Acked
  BY <1>6 DEF Parsed, Insert, InsertFails, Notified, Acked, Fault, stream, outside, history,
              bounds
<1>7. ASSUME NEW m \in Messages, ParseMalformed(m) \/ Parse(m) \/ Notify(m) \/ Ack(m)
      PROVE  TypeOK'
  BY <1>7 DEF ParseMalformed, Parse, Notify, Ack, Acknowledge, Fault, stream, outside,
              history, bounds
<1>8. CASE ConnectionLost \/ Crash
  <2>1. conn' \in BOOLEAN
    BY <1>8, Zenon DEF ConnectionLost, Crash
  <2>2. /\ pc' \in {pc, "down"} /\ todo' \in {todo, {}} /\ ready' \in {ready, {}}
        /\ UNCHANGED <<stream, delivered, pel, outside, history>>
        /\ crashes' \in {crashes, crashes + 1} /\ faults' \in {faults, faults + 1}
    BY <1>8 DEF ConnectionLost, Crash, Fault
  <2>3. QED BY <2>1, <2>2 DEF stream, outside, history
<1>9. QED BY <1>1, <1>2, <1>3, <1>4, <1>5, <1>6, <1>7, <1>8 DEF Next, Recover, Process

\* The types hold at the start.
LEMMA InitTypes == Init => TypeOK
<1>1. Init => conn \in BOOLEAN
  BY Zenon DEF Init
<1>2. QED BY <1>1, BoundsAssumption DEF Init, TypeOK, PcStates

\* The variables of the pipeline keep their types.
THEOREM TypeCorrect == Spec => []TypeOK
<1>1. TypeOK /\ [Next]_vars => TypeOK'
  BY TypesKept DEF vars, TypeOK
<1>2. QED BY <1>1, InitTypes, PTL DEF Spec

--------------------------------------------------------------------------------
(* Where an order is. *)

Batch == {"parse", "insert", "notify", "ack"}

\* What is pending or told has been delivered, what the group passed over was
\* skipped, and an entry is malformed from its beginning.
Positions ==
    /\ \A m \in Messages : delivered < m /\ m <= trimmed => m \in skipped
    /\ \A m \in pel \cup told : m <= delivered
    /\ \A m \in malformed : m <= last

\* What a stage knows of the messages it holds.
Held ==
    /\ pc = "recack" => \A m \in todo : Oldest(m, todo) => m \in db
    /\ pc = "recreject" => \A m \in todo : Oldest(m, todo) => m \in rejected
    /\ pc \notin Batch => ready = {}
    /\ pc \in Batch => \A m \in todo \cup ready : m <= delivered
    /\ pc \in {"notify", "ack"} => todo \subseteq ready /\ ready \subseteq db \cup failed
    /\ pc \in {"parse", "insert"} => (todo \cup ready) \cap told = {}
    /\ pc = "notify" => todo \cap told = {}

FlowInv == Positions /\ NothingLost /\ Held /\ ToldIsStored

\* A step that delivers nothing loses nothing unless it takes a message off the
\* list that is nowhere else.
LEMMA LostFrame ==
    ASSUME NothingLost, delivered' = delivered,
           db \subseteq db', rejected \subseteq rejected', failed \subseteq failed',
           malformed \subseteq malformed', skipped \subseteq skipped',
           pel \subseteq pel' \cup db' \cup rejected' \cup failed' \cup malformed'
    PROVE  NothingLost'
<1> SUFFICES ASSUME NEW m \in 1..delivered
             PROVE  m \in pel' \cup db' \cup rejected' \cup failed' \cup malformed' \cup skipped'
  BY DEF NothingLost
<1>1. m \in pel \cup db \cup rejected \cup failed \cup malformed \cup skipped
  BY DEF NothingLost
<1>2. QED BY <1>1

\* A step of the stream alone.
LEMMA FlowAdd ==
    ASSUME TypeOK, FlowInv, Add
    PROVE  FlowInv'
<1>1. /\ last' = last + 1 /\ trimmed \in Nat /\ last \in Nat
      /\ malformed \subseteq malformed' /\ malformed' \subseteq malformed \cup {last + 1}
      /\ skipped' = skipped \cup {m \in Messages : delivered < m /\ m <= trimmed'}
      /\ UNCHANGED <<delivered, pel, db, dead, told, cache, pc, conn, todo, ready,
                     failed, rejected>>
  BY AddMoves DEF outside, history, TypeOK
<1>2. malformed \subseteq Nat
  BY DEF TypeOK, Messages
<1>3. Positions'
  BY <1>1, <1>2 DEF FlowInv, Positions
<1>4. NothingLost'
  BY <1>1, LostFrame DEF FlowInv
<1>5. QED BY <1>1, <1>3, <1>4 DEF FlowInv, Held, Oldest, ToldIsStored

\* The recovery, the start and the end of a process.
LEMMA FlowRecover ==
    ASSUME TypeOK, FlowInv, Boot \/ Recover \/ ConnectionLost \/ Crash
    PROVE  FlowInv'
<1>1. /\ UNCHANGED <<stream, delivered, told, cache, failed>>
      /\ db \subseteq db' /\ rejected \subseteq rejected'
      /\ pel' \subseteq pel
  BY DEF Boot, Recover, ConnectionLost, Crash, RecoverUnreadable, RecoverStored,
         RecoverRejected, RecoverFails, RecoverAck, RecoverAckRejected, RecoverDeadLetter,
         Recovered, Acknowledge, outside, history
<1>2. Positions' /\ ToldIsStored'
  BY <1>1 DEF FlowInv, Positions, ToldIsStored, stream
<1>3. pel \subseteq pel' \cup db' \cup rejected'
  <2>1. ASSUME NEW m \in Messages, RecoverAck(m) \/ RecoverAckRejected(m)
        PROVE  pel \subseteq pel' \cup db' \cup rejected'
    <3>1. m \in db \cup rejected
      BY <2>1 DEF RecoverAck, RecoverAckRejected, Oldest, FlowInv, Held
    <3>2. pel \subseteq pel' \cup {m}
      BY <2>1 DEF RecoverAck, RecoverAckRejected, Acknowledge
    <3>3. QED BY <1>1, <3>1, <3>2
  <2>2. QED
    BY <2>1 DEF Boot, Recover, ConnectionLost, Crash, RecoverUnreadable, RecoverStored,
           RecoverRejected, RecoverFails, RecoverDeadLetter, Recovered
<1>4. NothingLost'
  BY <1>1, <1>3, LostFrame DEF FlowInv, stream
<1>5. Held'
  <2>1. CASE ConnectionLost
    BY <2>1 DEF FlowInv, Held, ConnectionLost, stream, outside, history, Oldest
  <2>2. CASE Crash
    BY <2>2 DEF Held, Crash, Batch
  <2>3. CASE Boot
    BY <2>3 DEF FlowInv, Held, Boot, Batch
  <2>4. ASSUME NEW m \in Messages,
               RecoverUnreadable(m) \/ RecoverFails(m) \/ RecoverAck(m) \/ RecoverDeadLetter(m)
        PROVE  Held'
    BY <2>4 DEF FlowInv, Held, RecoverUnreadable, RecoverOrder, RecoverFails, RecoverAck,
                RecoverDeadLetter, Batch
  <2>5. ASSUME NEW m \in Messages, RecoverStored(m)
        PROVE  Held'
    <3>1. \A k \in todo : Oldest(k, todo) => k = m
      BY <2>5 DEF RecoverStored, RecoverOrder, Oldest, TypeOK, Messages
    <3>2. QED BY <2>5, <3>1 DEF FlowInv, Held, RecoverStored, RecoverOrder, Batch, Oldest
  <2>6. ASSUME NEW m \in Messages, RecoverRejected(m)
        PROVE  Held'
    <3>1. \A k \in todo : Oldest(k, todo) => k = m
      BY <2>6 DEF RecoverRejected, RecoverOrder, Oldest, TypeOK, Messages
    <3>2. QED BY <2>6, <3>1 DEF FlowInv, Held, RecoverRejected, RecoverOrder, Batch, Oldest
  <2>7. ASSUME NEW m \in Messages, RecoverAckRejected(m)
        PROVE  Held'
    BY <2>7 DEF FlowInv, Held, RecoverAckRejected, Batch
  <2>8. CASE Recovered
    BY <2>8 DEF FlowInv, Held, Recovered, Batch
  <2>9. QED BY <2>1, <2>2, <2>3, <2>4, <2>5, <2>6, <2>7, <2>8 DEF Recover
<1>6. QED BY <1>2, <1>4, <1>5 DEF FlowInv

\* A read: what the group moves over is recorded, or was trimmed away.
LEMMA FlowPoll ==
    ASSUME TypeOK, FlowInv, Poll \/ PollLost
    PROVE  FlowInv'
<1>1. /\ delivered' = ReadUpTo /\ pel' = pel \cup Unread /\ pc = "poll"
      /\ UNCHANGED <<stream, outside, ready, history>>
      /\ \/ pc' = "parse" /\ todo' = Unread
         \/ pc' = "poll"
  BY DEF Poll, PollLost, Deliver
<1>2. /\ ReadUpTo \in Nat /\ delivered <= ReadUpTo /\ ReadUpTo <= last
      /\ Unread = {m \in Messages : delivered < m /\ trimmed < m /\ m <= ReadUpTo}
  BY ReadRange
<1>3. /\ delivered \in Nat /\ trimmed \in Nat /\ last \in Nat /\ last <= MaxMessages
      /\ pel \subseteq Nat /\ told \subseteq Nat
  BY DEF TypeOK, Messages
<1> HIDE DEF ReadUpTo, Unread
<1>4. Positions'
  <2>1. \A m \in Messages : m \in Nat
    BY DEF Messages
  <2>2. \A m \in Messages : ReadUpTo < m /\ m <= trimmed => m \in skipped
    BY <1>2, <1>3, <2>1 DEF FlowInv, Positions
  <2>3. \A m \in pel \cup Unread \cup told : m <= ReadUpTo
    BY <1>2, <1>3 DEF FlowInv, Positions
  <2>4. QED BY <1>1, <2>2, <2>3 DEF FlowInv, Positions, stream, outside
<1>5. NothingLost'
  <2> SUFFICES ASSUME NEW m \in 1..ReadUpTo
               PROVE  m \in pel' \cup db \cup rejected \cup failed \cup malformed \cup skipped
    BY <1>1 DEF NothingLost, stream, outside, history
  <2>1. CASE m <= delivered
    BY <1>1, <1>3, <2>1 DEF FlowInv, NothingLost
  <2>2. CASE delivered < m
    <3>1. m \in Messages
      BY <1>2, <1>3, BoundsAssumption DEF Messages
    <3>2. CASE m <= trimmed
      BY <2>2, <3>1, <3>2 DEF FlowInv, Positions
    <3>3. CASE trimmed < m
      BY <1>1, <1>2, <2>2, <3>1, <3>3
    <3>4. QED BY <1>3, <3>2, <3>3
  <2>3. QED BY <1>3, <2>1, <2>2
<1>6. Held'
  <2>1. ready = {}
    BY <1>1 DEF FlowInv, Held, Batch
  <2>2. CASE pc' = "poll"
    BY <1>1, <2>1, <2>2 DEF Held, Batch
  <2>3. CASE pc' = "parse" /\ todo' = Unread
    <3>1. \A m \in Unread : m <= ReadUpTo /\ m \notin told
      BY <1>2, <1>3 DEF FlowInv, Positions, Messages
    <3>2. QED BY <1>1, <2>1, <2>3, <3>1 DEF Held, Batch, outside
  <2>4. QED BY <1>1, <2>2, <2>3
<1>7. QED BY <1>1, <1>4, <1>5, <1>6 DEF FlowInv, ToldIsStored, outside, history

\* The four stages of a batch.
LEMMA FlowBatch ==
    ASSUME TypeOK, FlowInv,
           \/ Parsed \/ Insert \/ InsertFails \/ Notified \/ Acked
           \/ \E m \in Messages : ParseMalformed(m) \/ Parse(m) \/ Notify(m) \/ Ack(m)
    PROVE  FlowInv'
<1> USE DEF FlowInv, Held, Batch
<1>1. CASE Parsed \/ Notified \/ Acked
  <2>1. /\ UNCHANGED <<stream, delivered, pel, outside, history>>
        /\ ready' \in {ready, {}}
    BY <1>1 DEF Parsed, Notified, Acked
  <2>2. Positions' /\ NothingLost' /\ ToldIsStored'
    BY <2>1 DEF Positions, NothingLost, ToldIsStored, stream, outside, history
  <2>3. Held'
    BY <1>1 DEF Parsed, Notified, Acked, stream, outside, history
  <2>4. QED BY <2>2, <2>3
<1>2. CASE Insert \/ InsertFails
  <2>1. /\ UNCHANGED <<stream, delivered, pel, told, cache, rejected, ready>>
        /\ db \subseteq db' /\ failed \subseteq failed'
        /\ pc = "insert" /\ pc' = "notify" /\ todo' = ready
        /\ ready \subseteq db' \cup failed'
    BY <1>2 DEF Insert, InsertFails, history
  <2>2. Positions' /\ ToldIsStored'
    BY <2>1 DEF Positions, ToldIsStored, stream
  <2>3. NothingLost'
    BY <2>1, LostFrame DEF stream
  <2>4. Held'
    BY <2>1
  <2>5. QED BY <2>2, <2>3, <2>4
<1>3. ASSUME NEW m \in Messages, ParseMalformed(m) \/ Parse(m)
      PROVE  FlowInv'
  <2>1. /\ UNCHANGED <<stream, delivered, outside, history, pc>> /\ pc = "parse"
        /\ todo' = todo \ {m} /\ ready' \subseteq ready \cup {m} /\ m \in todo
        /\ pel' \subseteq pel /\ pel \subseteq pel' \cup malformed
    BY <1>3 DEF ParseMalformed, Parse, Acknowledge, Oldest
  <2>2. Positions' /\ ToldIsStored'
    BY <2>1 DEF Positions, ToldIsStored, stream, outside, history
  <2>3. NothingLost'
    BY <2>1, LostFrame DEF stream, outside, history
  <2>4. Held'
    BY <2>1 DEF outside
  <2>5. QED BY <2>2, <2>3, <2>4
<1>4. ASSUME NEW m \in Messages, Notify(m)
      PROVE  FlowInv'
  <2>1. /\ UNCHANGED <<stream, delivered, pel, db, ready, history, pc>>
        /\ pc = "notify" /\ m \in todo
        /\ told' = told \cup {m} /\ cache' \subseteq cache \cup {m} /\ todo' = todo \ {m}
    BY <1>4 DEF Notify, Oldest
  <2>2. m \in db \cup failed /\ m <= delivered
    BY <2>1
  <2>3. Positions' /\ ToldIsStored'
    BY <2>1, <2>2 DEF Positions, ToldIsStored, stream, history
  <2>4. NothingLost'
    BY <2>1, LostFrame DEF stream, history
  <2>5. Held'
    BY <2>1, <2>2 DEF history
  <2>6. QED BY <2>3, <2>4, <2>5
<1>5. ASSUME NEW m \in Messages, Ack(m)
      PROVE  FlowInv'
  <2>1. /\ UNCHANGED <<stream, delivered, outside, ready, history, pc>>
        /\ pc = "ack" /\ m \in todo /\ todo' = todo \ {m}
        /\ pel' \subseteq pel /\ pel \subseteq pel' \cup {m}
    BY <1>5 DEF Ack, Acknowledge, Oldest
  <2>2. m \in db \cup failed
    BY <2>1
  <2>3. Positions' /\ ToldIsStored'
    BY <2>1 DEF Positions, ToldIsStored, stream, outside, history
  <2>4. NothingLost'
    BY <2>1, <2>2, LostFrame DEF stream, outside, history
  <2>5. Held'
    BY <2>1 DEF outside, history
  <2>6. QED BY <2>3, <2>4, <2>5
<1>6. QED BY <1>1, <1>2, <1>3, <1>4, <1>5

\* At the start there is nothing to account for.
LEMMA InitFlow == Init => FlowInv
<1> SUFFICES ASSUME Init PROVE FlowInv
  OBVIOUS
<1>1. /\ delivered = 0 /\ trimmed = 0 /\ pel = {} /\ malformed = {} /\ told = {}
      /\ cache = {} /\ pc = "down" /\ ready = {}
  BY DEF Init
<1>2. Positions
  BY <1>1 DEF Positions, Messages
<1>3. NothingLost
  BY <1>1 DEF NothingLost
<1>4. Held /\ ToldIsStored
  BY <1>1 DEF Held, ToldIsStored, Batch
<1>5. QED BY <1>2, <1>3, <1>4 DEF FlowInv

\* Every step keeps FlowInv.
LEMMA FlowKept ==
    ASSUME TypeOK, FlowInv, Next
    PROVE  FlowInv'
<1> QED BY FlowAdd, FlowRecover, FlowPoll, FlowBatch DEF Next, Process

\* FlowInv holds in every state.
THEOREM FlowInvariant == Spec => []FlowInv
<1>1. FlowInv /\ UNCHANGED vars => FlowInv'
  BY DEF vars, FlowInv, Positions, NothingLost, Held, ToldIsStored, Oldest
<1>2. TypeOK /\ FlowInv /\ [Next]_vars => FlowInv'
  BY <1>1, FlowKept
<1>3. QED BY <1>2, InitFlow, TypeCorrect, PTL DEF Spec

\* A delivered order is stored, pending, or gone a way that the code takes on
\* purpose, unless its batch failed.
THEOREM OrdersAreAccounted == Spec => []NothingLost
<1>1. FlowInv => NothingLost
  BY DEF FlowInv
<1>2. QED BY <1>1, FlowInvariant, PTL

\* Buyers are told of stored orders, unless the INSERT of the batch failed.
THEOREM ToldAreStored == Spec => []ToldIsStored
<1>1. FlowInv => ToldIsStored
  BY DEF FlowInv
<1>2. QED BY <1>1, FlowInvariant, PTL

\* Whoever was told is not on the list of those to tell.
LEMMA ToldAreDone == FlowInv => \A m \in told : ~Notify(m)
<1> QED BY DEF FlowInv, Held, Notify, Oldest

\* A buyer is told of an order once, through redeliveries.
THEOREM BuyersAreToldOnce == Spec => ToldOnce
<1>1. FlowInv => [\A m \in told : ~Notify(m)]_vars
  BY ToldAreDone
<1>2. QED BY <1>1, FlowInvariant, PTL DEF ToldOnce

--------------------------------------------------------------------------------
(* The backlog. *)

\* Messages the thread is about to acknowledge.
InFlight ==
    {m \in todo \cup ready :
        pc \in Batch \/ (pc \in {"recack", "recreject"} /\ Oldest(m, todo))}

\* Messages that no thread will ever take off the list.
Stuck == Unreadable \ InFlight

\* Messages the thread has still to handle, or will find when it is started.
Reach ==
    {m \in pel :
        \/ pc = "down"
        \/ pc \in Batch \cup {"recover", "recack", "recreject", "recdead"} /\ m \in todo
        \/ pc \in {"parse", "insert", "notify"} /\ m \in ready}

Roomy == Cardinality(Stuck) + MaxBatch <= MaxPending

Drained ==
    /\ Cardinality(pel \ Stuck) <= MaxBatch
    /\ pel \subseteq Stuck \cup Reach

DrainInv ==
    faults = 0 =>
        /\ pc # "down" => conn
        /\ pc = "insert" => todo = {}
        /\ pc = "recdead" => \A m \in todo : Oldest(m, todo) => m \notin pel
        /\ Roomy => Drained

\* A set of messages is finite.
LEMMA Counted ==
    ASSUME NEW S \in SUBSET Messages, NEW T \in SUBSET S
    PROVE  /\ IsFiniteSet(S) /\ Cardinality(S) \in Nat
           /\ IsFiniteSet(T) /\ Cardinality(T) \in Nat
           /\ Cardinality(T) <= Cardinality(S)
<1>1. IsFiniteSet(Messages)
  BY BoundsAssumption, FS_Interval DEF Messages
<1>2. IsFiniteSet(S)
  BY <1>1, FS_Subset
<1>3. QED BY <1>2, FS_Subset, FS_CardinalityType

\* A backlog that fits into the reply is returned as a whole.
LEMMA WholeBacklog ==
    ASSUME NEW S \in SUBSET Messages, NEW n \in Nat, Cardinality(S) <= n
    PROVE  Lowest(S, n) = S
<1> SUFFICES ASSUME NEW m \in S
             PROVE  Cardinality({k \in S : k < m}) < n
  BY DEF Lowest
<1> DEFINE below == {k \in S : k < m}
<1>1. below \in SUBSET (S \ {m}) /\ (S \ {m}) \in SUBSET S
  BY DEF Messages
<1>2. Cardinality(S \ {m}) = Cardinality(S) - 1 /\ Cardinality(S) \in Nat
  BY Counted, FS_RemoveElement
<1>3. Cardinality(below) <= Cardinality(S \ {m}) /\ Cardinality(below) \in Nat
  BY <1>1, Counted
<1>4. QED BY <1>2, <1>3

\* A read returns no more than a batch.
LEMMA UnreadCount ==
    ASSUME TypeOK
    PROVE  Cardinality(Unread) <= MaxBatch /\ Cardinality(Unread) \in Nat
<1> DEFINE from == Later(delivered, trimmed)
           range == (from + 1)..(from + MaxBatch)
<1>1. from \in Nat /\ MaxBatch \in Nat /\ last \in Nat
  BY LimitsAssumption DEF TypeOK, Later
<1>2. ReadUpTo \in Int /\ ReadUpTo <= from + MaxBatch
  BY <1>1, LaterEarlier DEF ReadUpTo
<1> HIDE DEF from
<1>3. IsFiniteSet(range) /\ Cardinality(range) = MaxBatch
  BY <1>1, FS_Interval
<1>4. Unread \in SUBSET range
  BY <1>1, <1>2 DEF Unread, Messages, from
<1>5. QED BY <1>3, <1>4, FS_Subset, FS_CardinalityType

\* While nothing is delivered and no message leaves the unreadable ones, room
\* for the backlog in the reply is room there was before.
LEMMA StuckFrame ==
    ASSUME TypeOK, TypeOK', Stuck \subseteq Stuck', pel' \subseteq pel
    PROVE  /\ Roomy' => Roomy
           /\ Cardinality(pel \ Stuck) <= MaxBatch => Cardinality(pel' \ Stuck') <= MaxBatch
<1>1. /\ Stuck' \in SUBSET Messages /\ Stuck \in SUBSET Stuck'
      /\ (pel \ Stuck) \in SUBSET Messages
      /\ (pel' \ Stuck') \in SUBSET (pel \ Stuck)
  BY DEF Stuck, Unreadable, TypeOK
<1>2. Cardinality(Stuck) <= Cardinality(Stuck')
      /\ Cardinality(Stuck) \in Nat /\ Cardinality(Stuck') \in Nat
  BY <1>1, Counted
<1>3. Cardinality(pel' \ Stuck') <= Cardinality(pel \ Stuck)
      /\ Cardinality(pel' \ Stuck') \in Nat /\ Cardinality(pel \ Stuck) \in Nat
  BY <1>1, Counted
<1>4. QED BY <1>2, <1>3, LimitsAssumption DEF Roomy

\* What is left to prove of a step that delivers nothing.
LEMMA DrainFrame ==
    ASSUME TypeOK, TypeOK', DrainInv,
           faults' = 0 =>
               /\ faults = 0 /\ pel' \subseteq pel
               /\ pc' # "down" => conn'
               /\ pc' = "insert" => todo' = {}
               /\ pc' = "recdead" => \A m \in todo' : Oldest(m, todo') => m \notin pel'
               /\ Stuck \subseteq Stuck'
               /\ Roomy /\ Drained => pel' \subseteq Stuck' \cup Reach'
    PROVE  DrainInv'
<1> SUFFICES ASSUME faults' = 0
             PROVE  /\ pc' # "down" => conn'
                    /\ pc' = "insert" => todo' = {}
                    /\ pc' = "recdead" =>
                           \A m \in todo' : Oldest(m, todo') => m \notin pel'
                    /\ Roomy' => Drained'
  BY DEF DrainInv, Oldest
<1>1. Roomy' => Roomy /\ Drained
  BY StuckFrame DEF DrainInv
<1>2. Roomy' => Drained'
  BY <1>1, StuckFrame DEF Drained
<1>3. QED BY <1>2

\* With room in the reply, a restart reads all that is pending.
LEMMA BacklogFits ==
    ASSUME TypeOK, Roomy, Drained
    PROVE  Pending(pel) = pel
<1> DEFINE rest == pel \ Stuck
<1>1. /\ pel \in SUBSET Messages /\ Stuck \in SUBSET pel /\ rest \in SUBSET pel
  BY DEF TypeOK, Stuck, Unreadable
<1>2. /\ IsFiniteSet(Stuck) /\ Cardinality(Stuck) \in Nat
      /\ IsFiniteSet(rest) /\ Cardinality(rest) \in Nat
      /\ Cardinality(pel) \in Nat
  BY <1>1, Counted
<1>3. Stuck \cup rest = pel /\ Stuck \cap rest = {}
  BY <1>1
<1>4. Cardinality(rest) <= MaxBatch /\ Cardinality(Stuck) + MaxBatch <= MaxPending
  BY DEF Roomy, Drained
<1> HIDE DEF rest
<1>5. Cardinality(Stuck \cup rest) =
          Cardinality(Stuck) + Cardinality(rest) - Cardinality(Stuck \cap rest)
  BY <1>2, FS_Union
<1>6. Cardinality(Stuck \cap rest) = 0
  BY <1>3, FS_EmptySet
<1>7. Cardinality(Stuck \cup rest) = Cardinality(pel)
  BY <1>3
<1>8. Cardinality(pel) <= MaxPending /\ MaxPending \in Nat /\ MaxBatch \in Nat
  BY <1>2, <1>4, <1>5, <1>6, <1>7, LimitsAssumption
<1>9. QED BY <1>1, <1>8, WholeBacklog DEF Pending

\* The stream, the start and the end of a process.
LEMMA DrainOutside ==
    ASSUME TypeOK, TypeOK', FlowInv, DrainInv, Add \/ Boot \/ ConnectionLost \/ Crash
    PROVE  DrainInv'
<1>0. faults \in Nat
  BY DEF TypeOK
<1>1. CASE Add
  <2>1. /\ trimmed \in Nat /\ trimmed' \in Nat /\ trimmed <= trimmed'
        /\ malformed \subseteq malformed'
        /\ UNCHANGED <<pel, pc, conn, todo, ready, faults>>
    BY <1>1, AddMoves DEF TypeOK, bounds
  <2>2. InFlight' = InFlight /\ Reach' = Reach
    BY <2>1 DEF InFlight, Reach, Oldest
  <2>3. Stuck \subseteq Stuck'
    <3>1. \A m \in pel : m \in Nat
      BY DEF TypeOK, Messages
    <3>2. Unreadable \subseteq Unreadable'
      BY <2>1, <3>1 DEF Unreadable
    <3>3. QED BY <2>2, <3>2 DEF Stuck
  <2>4. QED BY <2>1, <2>2, <2>3, DrainFrame DEF DrainInv, Drained
<1>2. CASE Boot
  <2>1. /\ pc = "down" /\ pc' = "recover" /\ UNCHANGED <<trimmed, malformed, pel>>
        /\ faults' = 0 => faults = 0 /\ conn' /\ todo' = Pending(pel)
    BY <1>0, <1>2 DEF Boot, Fault, stream
  <2>2. Stuck' = Stuck
    BY <2>1 DEF Stuck, Unreadable, InFlight, Batch
  <2>3. faults' = 0 /\ Roomy /\ Drained => pel' \subseteq Stuck' \cup Reach'
    BY <2>1, BacklogFits DEF Reach
  <2>4. QED BY <2>1, <2>2, <2>3, DrainFrame
<1>3. CASE ConnectionLost
  BY <1>0, <1>3 DEF ConnectionLost, Fault, DrainInv
<1>4. CASE Crash
  <2>1. pc' = "down" /\ UNCHANGED <<trimmed, malformed, pel, faults>>
    BY <1>4 DEF Crash, stream
  <2>2. Stuck \subseteq Stuck' /\ pel' \subseteq Reach'
    BY <2>1 DEF Stuck, Unreadable, InFlight, Batch, Reach
  <2>3. QED BY <2>1, <2>2, DrainFrame
<1>5. QED BY <1>1, <1>2, <1>3, <1>4

\* The recovery takes off the list what it handles.
LEMMA DrainRecover ==
    ASSUME TypeOK, TypeOK', FlowInv, DrainInv, Recover
    PROVE  DrainInv'
<1>0. faults \in Nat
  BY DEF TypeOK
<1> USE DEF Stuck, Unreadable, InFlight, Reach, Batch, Drained
<1>1. ASSUME NEW m \in Messages, RecoverUnreadable(m)
      PROVE  DrainInv'
  <2>1. /\ pc = "recover" /\ todo' = todo \ {m} /\ (m \in malformed \/ m <= trimmed)
        /\ UNCHANGED <<trimmed, malformed, pel, pc, conn, ready, faults>>
    BY <1>1 DEF RecoverUnreadable, stream, bounds
  <2>2. Stuck' = Stuck
    BY <2>1
  <2>3. Drained => pel' \subseteq Stuck' \cup Reach'
    BY <2>1, <2>2
  <2>4. QED BY <2>1, <2>2, <2>3, DrainFrame DEF DrainInv
<1>2. ASSUME NEW m \in Messages, RecoverStored(m) \/ RecoverRejected(m)
      PROVE  DrainInv'
  <2>1. /\ pc = "recover" /\ pc' \in {"recack", "recreject"} /\ Oldest(m, todo)
        /\ m \notin malformed /\ ~(m <= trimmed)
        /\ UNCHANGED <<trimmed, malformed, pel, conn, todo, ready, faults>>
    BY <1>2 DEF RecoverStored, RecoverRejected, RecoverOrder, stream, bounds, TypeOK, Messages
  <2>2. \A k \in todo : Oldest(k, todo) => k = m
    BY <2>1 DEF Oldest, TypeOK, Messages
  <2>3. ready = {}
    BY <2>1 DEF FlowInv, Held
  <2>4. InFlight' \subseteq {m}
    BY <2>1, <2>2, <2>3 DEF Oldest
  <2>5. Stuck \subseteq Stuck'
    BY <2>1, <2>4
  <2>6. Drained => pel' \subseteq Stuck' \cup Reach'
    BY <2>1, <2>5
  <2>7. QED BY <2>1, <2>5, <2>6, DrainFrame DEF DrainInv
<1>3. ASSUME NEW m \in Messages, RecoverFails(m)
      PROVE  DrainInv'
  BY <1>0, <1>3 DEF RecoverFails, Fault, DrainInv
<1>4. ASSUME NEW m \in Messages, RecoverAck(m)
      PROVE  DrainInv'
  <2>1. /\ pc = "recack" /\ pc' = "recover" /\ Oldest(m, todo) /\ todo' = todo \ {m}
        /\ pel' = (IF conn THEN pel \ {m} ELSE pel)
        /\ UNCHANGED <<trimmed, malformed, conn, ready, faults>>
    BY <1>4 DEF RecoverAck, Acknowledge, stream, bounds
  <2>2. m \in InFlight /\ InFlight' = {}
    BY <2>1 DEF Oldest
  <2>3. faults = 0 => conn /\ pel' = pel \ {m}
    BY <2>1 DEF DrainInv
  <2>4. faults = 0 => Stuck \subseteq Stuck'
    BY <2>1, <2>2, <2>3
  <2>5. faults = 0 /\ Drained => pel' \subseteq Stuck' \cup Reach'
    BY <2>1, <2>3, <2>4
  <2>6. QED BY <2>1, <2>3, <2>4, <2>5, DrainFrame
<1>5. ASSUME NEW m \in Messages, RecoverAckRejected(m)
      PROVE  DrainInv'
  <2>1. /\ pc = "recreject" /\ pc' = "recdead" /\ Oldest(m, todo)
        /\ pel' = (IF conn THEN pel \ {m} ELSE pel)
        /\ UNCHANGED <<trimmed, malformed, conn, todo, ready, faults>>
    BY <1>5 DEF RecoverAckRejected, Acknowledge, stream, bounds
  <2>2. m \in InFlight /\ InFlight' = {}
    BY <2>1 DEF Oldest
  <2>3. faults = 0 => conn /\ pel' = pel \ {m}
    BY <2>1 DEF DrainInv
  <2>4. faults = 0 => Stuck \subseteq Stuck'
    BY <2>1, <2>2, <2>3
  <2>5. faults = 0 /\ Drained => pel' \subseteq Stuck' \cup Reach'
    BY <2>1, <2>3, <2>4
  <2>6. \A k \in todo : Oldest(k, todo) => k = m
    BY <2>1 DEF Oldest, TypeOK, Messages
  <2>7. faults = 0 => \A k \in todo' : Oldest(k, todo') => k \notin pel'
    BY <2>1, <2>3, <2>6
  <2>8. QED BY <2>1, <2>3, <2>4, <2>5, <2>7, DrainFrame
<1>6. ASSUME NEW m \in Messages, RecoverDeadLetter(m)
      PROVE  DrainInv'
  <2>1. /\ pc = "recdead" /\ pc' = "recover" /\ Oldest(m, todo) /\ todo' = todo \ {m}
        /\ UNCHANGED <<trimmed, malformed, pel, conn, ready>>
        /\ faults' = 0 => faults = 0
    BY <1>0, <1>6 DEF RecoverDeadLetter, stream, Fault
  <2>2. faults = 0 => m \notin pel /\ conn
    BY <2>1 DEF DrainInv, Oldest
  <2>3. Stuck' = Stuck
    BY <2>1
  <2>4. faults = 0 /\ Drained => pel' \subseteq Stuck' \cup Reach'
    BY <2>1, <2>2, <2>3
  <2>5. QED BY <2>1, <2>2, <2>3, <2>4, DrainFrame
<1>7. CASE Recovered
  <2>1. /\ pc = "recover" /\ pc' = "poll" /\ todo = {}
        /\ UNCHANGED <<trimmed, malformed, pel, conn, todo, ready, faults>>
    BY <1>7 DEF Recovered, stream, bounds
  <2>2. ready = {}
    BY <2>1 DEF FlowInv, Held
  <2>3. Stuck' = Stuck /\ Reach' = Reach
    BY <2>1, <2>2
  <2>4. QED BY <2>1, <2>3, DrainFrame DEF DrainInv
<1>8. QED BY <1>1, <1>2, <1>3, <1>4, <1>5, <1>6, <1>7 DEF Recover

\* A read adds a batch to an empty backlog.
LEMMA DrainPoll ==
    ASSUME TypeOK, TypeOK', FlowInv, DrainInv, Poll
    PROVE  DrainInv'
<1>1. /\ pc = "poll" /\ pc' = "parse" /\ conn /\ todo' = Unread
      /\ pel' = pel \cup Unread
      /\ UNCHANGED <<trimmed, malformed, conn, ready, faults>>
  BY DEF Poll, Deliver, stream, bounds
<1>2. ready = {} /\ Unread \cap pel = {} /\ Unread \subseteq Messages
  <2>1. Unread = {m \in Messages : delivered < m /\ trimmed < m /\ m <= ReadUpTo}
    BY ReadRange
  <2>2. \A m \in pel : m <= delivered /\ m \in Nat
    BY DEF FlowInv, Positions, TypeOK, Messages
  <2>3. delivered \in Nat
    BY DEF TypeOK
  <2>4. Unread \cap pel = {}
    BY <2>1, <2>2, <2>3
  <2>5. QED BY <1>1, <2>1, <2>4 DEF FlowInv, Held, Batch
<1> HIDE DEF Unread
<1>3. Stuck' = Stuck
  <2>1. InFlight = {} /\ InFlight' = Unread
    BY <1>1, <1>2 DEF InFlight, Batch
  <2>2. Unreadable \subseteq pel /\ Unreadable \subseteq Unreadable'
        /\ Unreadable' \subseteq Unreadable \cup Unread
    BY <1>1 DEF Unreadable
  <2>3. QED BY <1>2, <2>1, <2>2 DEF Stuck
<1>4. ASSUME Roomy', faults' = 0
      PROVE  Drained'
  <2>1. Roomy
    BY <1>3, <1>4 DEF Roomy
  <2>2. pel \subseteq Stuck
    BY <1>1, <1>4, <2>1 DEF DrainInv, Drained, Reach, Batch
  <2>3. (pel' \ Stuck') \in SUBSET Unread
    BY <1>1, <1>3, <2>2
  <2>4. Cardinality(pel' \ Stuck') <= Cardinality(Unread)
        /\ Cardinality(pel' \ Stuck') \in Nat
    BY <1>2, <2>3, Counted
  <2>5. Cardinality(pel' \ Stuck') <= MaxBatch
    BY <2>4, UnreadCount, LimitsAssumption
  <2>6. pel' \subseteq Stuck' \cup Reach'
    BY <1>1, <1>3, <2>2 DEF Reach, Batch
  <2>7. QED BY <2>5, <2>6 DEF Drained
<1>5. QED BY <1>1, <1>4 DEF DrainInv

\* The batch takes off the list what it read.
LEMMA DrainBatch ==
    ASSUME TypeOK, TypeOK', FlowInv, DrainInv,
           \/ PollLost \/ Parsed \/ Insert \/ InsertFails \/ Notified \/ Acked
           \/ \E m \in Messages : ParseMalformed(m) \/ Parse(m) \/ Notify(m) \/ Ack(m)
    PROVE  DrainInv'
<1>0. faults \in Nat
  BY DEF TypeOK
<1> USE DEF Stuck, Unreadable, InFlight, Reach, Batch, Drained
<1>1. CASE PollLost \/ InsertFails
  BY <1>0, <1>1 DEF PollLost, InsertFails, Fault, DrainInv
<1>2. CASE Parsed
  <2>1. /\ pc = "parse" /\ todo = {} /\ pc' = IF ready = {} THEN "poll" ELSE "insert"
        /\ UNCHANGED <<trimmed, malformed, pel, conn, todo, ready, faults>>
    BY <1>2 DEF Parsed, stream, bounds
  <2>2. Stuck' = Stuck
    BY <2>1
  <2>3. Drained => pel' \subseteq Stuck' \cup Reach'
    BY <2>1, <2>2
  <2>4. QED BY <2>1, <2>2, <2>3, DrainFrame DEF DrainInv
<1>3. CASE Insert
  <2>1. /\ pc = "insert" /\ pc' = "notify" /\ todo' = ready
        /\ UNCHANGED <<trimmed, malformed, pel, conn, ready, faults>>
    BY <1>3 DEF Insert, stream, bounds
  <2>2. faults = 0 => todo = {} /\ conn
    BY <2>1 DEF DrainInv
  <2>3. faults = 0 => Stuck' = Stuck
    BY <2>1, <2>2
  <2>4. faults = 0 /\ Drained => pel' \subseteq Stuck' \cup Reach'
    BY <2>1, <2>2, <2>3
  <2>5. QED BY <2>1, <2>2, <2>3, <2>4, DrainFrame
<1>4. CASE Notified
  <2>1. /\ pc = "notify" /\ pc' = "ack" /\ todo = {} /\ todo' = ready
        /\ UNCHANGED <<trimmed, malformed, pel, conn, ready, faults>>
    BY <1>4 DEF Notified, stream, bounds
  <2>2. Stuck' = Stuck
    BY <2>1
  <2>3. Drained => pel' \subseteq Stuck' \cup Reach'
    BY <2>1, <2>2
  <2>4. QED BY <2>1, <2>2, <2>3, DrainFrame DEF DrainInv
<1>5. CASE Acked
  <2>1. /\ pc = "ack" /\ pc' = "poll" /\ todo = {} /\ ready' = {}
        /\ UNCHANGED <<trimmed, malformed, pel, conn, todo, faults>>
    BY <1>5 DEF Acked, stream, bounds
  <2>2. Stuck \subseteq Stuck'
    BY <2>1
  <2>3. Drained => pel' \subseteq Stuck' \cup Reach'
    BY <2>1, <2>2
  <2>4. QED BY <2>1, <2>2, <2>3, DrainFrame DEF DrainInv
<1>6. ASSUME NEW m \in Messages, ParseMalformed(m)
      PROVE  DrainInv'
  <2>1. /\ pc = "parse" /\ m \in todo /\ m \in malformed /\ todo' = todo \ {m}
        /\ pel' = (IF conn THEN pel \ {m} ELSE pel)
        /\ UNCHANGED <<trimmed, malformed, pc, conn, ready, faults>>
    BY <1>6 DEF ParseMalformed, Acknowledge, Oldest, stream, bounds
  <2>2. faults = 0 => conn /\ pel' = pel \ {m}
    BY <2>1 DEF DrainInv
  <2>3. faults = 0 => Stuck \subseteq Stuck'
    BY <2>1, <2>2
  <2>4. faults = 0 /\ Drained => pel' \subseteq Stuck' \cup Reach'
    BY <2>1, <2>2, <2>3
  <2>5. QED BY <2>1, <2>2, <2>3, <2>4, DrainFrame
<1>7. ASSUME NEW m \in Messages, Parse(m)
      PROVE  DrainInv'
  <2>1. /\ pc = "parse" /\ m \in todo /\ todo' = todo \ {m} /\ ready' = ready \cup {m}
        /\ UNCHANGED <<trimmed, malformed, pel, pc, conn, faults>>
    BY <1>7 DEF Parse, Oldest, stream, bounds
  <2>2. Stuck' = Stuck
    BY <2>1
  <2>3. Drained => pel' \subseteq Stuck' \cup Reach'
    BY <2>1, <2>2
  <2>4. QED BY <2>1, <2>2, <2>3, DrainFrame DEF DrainInv
<1>8. ASSUME NEW m \in Messages, Notify(m)
      PROVE  DrainInv'
  <2>1. /\ pc = "notify" /\ todo' = todo \ {m}
        /\ UNCHANGED <<trimmed, malformed, pel, pc, conn, ready>>
        /\ faults' = 0 => faults = 0
    BY <1>0, <1>8 DEF Notify, stream, Fault
  <2>2. todo \subseteq ready
    BY <2>1 DEF FlowInv, Held
  <2>3. Stuck' = Stuck
    BY <2>1, <2>2
  <2>4. Drained => pel' \subseteq Stuck' \cup Reach'
    BY <2>1, <2>2, <2>3
  <2>5. QED BY <2>1, <2>3, <2>4, DrainFrame DEF DrainInv
<1>9. ASSUME NEW m \in Messages, Ack(m)
      PROVE  DrainInv'
  <2>1. /\ pc = "ack" /\ m \in todo /\ todo' = todo \ {m}
        /\ pel' = (IF conn THEN pel \ {m} ELSE pel)
        /\ UNCHANGED <<trimmed, malformed, pc, conn, ready, faults>>
    BY <1>9 DEF Ack, Acknowledge, Oldest, stream, bounds
  <2>2. todo \subseteq ready
    BY <2>1 DEF FlowInv, Held
  <2>3. faults = 0 => conn /\ pel' = pel \ {m}
    BY <2>1 DEF DrainInv
  <2>4. faults = 0 => Stuck \subseteq Stuck'
    BY <2>1, <2>2, <2>3
  <2>5. faults = 0 /\ Drained => pel' \subseteq Stuck' \cup Reach'
    BY <2>1, <2>2, <2>3, <2>4
  <2>6. QED BY <2>1, <2>3, <2>4, <2>5, DrainFrame
<1>10. QED BY <1>1, <1>2, <1>3, <1>4, <1>5, <1>6, <1>7, <1>8, <1>9

\* At the start there is no backlog.
LEMMA InitDrain == Init => DrainInv
<1> SUFFICES ASSUME Init PROVE DrainInv
  OBVIOUS
<1>1. pel = {} /\ pc = "down"
  BY DEF Init
<1>2. pel \ Stuck = {} /\ Cardinality({}) = 0
  BY <1>1, FS_EmptySet
<1>3. Drained
  BY <1>1, <1>2, LimitsAssumption DEF Drained
<1>4. QED BY <1>1, <1>3 DEF DrainInv

\* Every step keeps DrainInv.
LEMMA DrainKept ==
    ASSUME TypeOK, TypeOK', FlowInv, DrainInv, Next
    PROVE  DrainInv'
<1> QED BY DrainOutside, DrainRecover, DrainPoll, DrainBatch DEF Next, Process

\* DrainInv holds in every state.
THEOREM DrainInvariant == Spec => []DrainInv
<1>1. TypeOK /\ TypeOK' /\ FlowInv /\ DrainInv /\ [Next]_vars => DrainInv'
  <2> SUFFICES ASSUME TypeOK, TypeOK', FlowInv, DrainInv, [Next]_vars
               PROVE  DrainInv'
    OBVIOUS
  <2>1. CASE UNCHANGED vars
    BY <2>1 DEF vars, DrainInv, Drained, Roomy, Stuck, Unreadable, InFlight, Reach, Oldest
  <2>2. QED BY <2>1, DrainKept
<1>2. QED BY <1>1, InitDrain, TypeCorrect, FlowInvariant, PTL DEF Spec

\* What the two invariants say of the backlog when the worker waits.
LEMMA DrainedBacklog ==
    ASSUME FlowInv, DrainInv
    PROVE  BacklogDrained
<1> SUFFICES ASSUME pc = "poll", faults = 0,
                    Cardinality(Unreadable) + MaxBatch <= MaxPending
             PROVE  pel = Unreadable
  BY DEF BacklogDrained
<1>1. Stuck = Unreadable
  BY DEF FlowInv, Held, Stuck, InFlight, Batch
<1>2. pel \subseteq Unreadable
  BY <1>1 DEF DrainInv, Roomy, Drained, Reach, Batch
<1>3. QED BY <1>2 DEF Unreadable

\* One restart without a fault is enough for a whole batch.
THEOREM BacklogIsDrained == Spec => []BacklogDrained
BY DrainedBacklog, FlowInvariant, DrainInvariant, PTL

--------------------------------------------------------------------------------
(* The pipeline implements OrderDelivery. *)

\* What a stage is about to store, to announce or to acknowledge is pending.
HeldPending ==
    /\ pc \in {"recover", "recack", "recreject", "parse"} => todo \subseteq pel
    /\ pc = "recdead" => \A m \in todo : ~Oldest(m, todo) => m \in pel
    /\ pc \in {"parse", "insert", "notify"} => ready \subseteq pel
    /\ pc = "parse" => todo \cap ready = {}
    /\ pc = "ack" => todo \subseteq pel

\* There is one oldest message.
LEMMA OneOldest ==
    ASSUME NEW S \in SUBSET Messages, NEW m, Oldest(m, S), NEW k \in S, Oldest(k, S)
    PROVE  k = m
<1> QED BY DEF Oldest, Messages

\* The stream, the start and the end of a process, and the recovery.
LEMMA HeldRecover ==
    ASSUME TypeOK, HeldPending, Add \/ Boot \/ Recover \/ ConnectionLost \/ Crash
    PROVE  HeldPending'
<1> USE DEF HeldPending
<1>1. CASE Add
  BY <1>1 DEF Add, Oldest
<1>2. CASE Boot
  <2>1. pc' = "recover" /\ todo' \in {Pending(pel), {}} /\ pel' = pel
    BY <1>2 DEF Boot
  <2>2. QED BY <2>1 DEF Pending, Lowest
<1>3. CASE ConnectionLost \/ Crash
  BY <1>3 DEF ConnectionLost, Crash, Oldest
<1>4. ASSUME NEW m \in Messages, RecoverUnreadable(m) \/ RecoverFails(m)
      PROVE  HeldPending'
  BY <1>4 DEF RecoverUnreadable, RecoverFails, RecoverOrder
<1>5. ASSUME NEW m \in Messages, RecoverStored(m) \/ RecoverRejected(m)
      PROVE  HeldPending'
  BY <1>5 DEF RecoverStored, RecoverRejected, RecoverOrder
<1>6. ASSUME NEW m \in Messages, RecoverAck(m)
      PROVE  HeldPending'
  BY <1>6 DEF RecoverAck, Acknowledge
<1>7. ASSUME NEW m \in Messages, RecoverAckRejected(m)
      PROVE  HeldPending'
  <2>1. /\ pc = "recreject" /\ pc' = "recdead" /\ todo' = todo /\ Oldest(m, todo)
        /\ pel \ {m} \subseteq pel'
    BY <1>7 DEF RecoverAckRejected, Acknowledge
  <2>2. \A k \in todo' : ~Oldest(k, todo') => k # m
    BY <2>1
  <2>3. QED BY <2>1, <2>2
<1>8. ASSUME NEW m \in Messages, RecoverDeadLetter(m)
      PROVE  HeldPending'
  <2>1. /\ pc = "recdead" /\ pc' = "recover" /\ todo' = todo \ {m} /\ Oldest(m, todo)
        /\ pel' = pel
    BY <1>8 DEF RecoverDeadLetter
  <2>2. \A k \in todo' : ~Oldest(k, todo)
    BY <2>1, OneOldest DEF TypeOK
  <2>3. QED BY <2>1, <2>2
<1>9. CASE Recovered
  BY <1>9 DEF Recovered
<1>10. QED BY <1>1, <1>2, <1>3, <1>4, <1>5, <1>6, <1>7, <1>8, <1>9 DEF Recover

\* A batch.
LEMMA HeldProcess ==
    ASSUME TypeOK, FlowInv, HeldPending, Process
    PROVE  HeldPending'
<1> USE DEF HeldPending
<1>1. CASE Poll
  <2>1. ready = {}
    BY <1>1 DEF Poll, FlowInv, Held, Batch
  <2>2. QED BY <1>1, <2>1 DEF Poll, Deliver
<1>2. CASE PollLost
  BY <1>2 DEF PollLost, Deliver
<1>3. ASSUME NEW m \in Messages, ParseMalformed(m)
      PROVE  HeldPending'
  BY <1>3 DEF ParseMalformed, Acknowledge, Oldest
<1>4. ASSUME NEW m \in Messages, Parse(m)
      PROVE  HeldPending'
  BY <1>4 DEF Parse, Oldest
<1>5. CASE Parsed \/ Insert \/ InsertFails
  BY <1>5 DEF Parsed, Insert, InsertFails
<1>6. ASSUME NEW m \in Messages, Notify(m)
      PROVE  HeldPending'
  BY <1>6 DEF Notify
<1>7. CASE Notified \/ Acked
  BY <1>7 DEF Notified, Acked
<1>8. ASSUME NEW m \in Messages, Ack(m)
      PROVE  HeldPending'
  BY <1>8 DEF Ack, Acknowledge
<1>9. QED BY <1>1, <1>2, <1>3, <1>4, <1>5, <1>6, <1>7, <1>8 DEF Process

\* HeldPending holds in every state.
LEMMA HeldKept ==
    ASSUME TypeOK, FlowInv, HeldPending, Next
    PROVE  HeldPending'
<1> QED BY HeldRecover, HeldProcess DEF Next

LEMMA HeldInvariant == Spec => []HeldPending
<1>1. Init => HeldPending
  BY DEF Init, HeldPending
<1>2. TypeOK /\ FlowInv /\ HeldPending /\ [Next]_vars => HeldPending'
  <2> SUFFICES ASSUME TypeOK, FlowInv, HeldPending, [Next]_vars
               PROVE  HeldPending'
    OBVIOUS
  <2>1. CASE UNCHANGED vars
    BY <2>1 DEF vars, HeldPending, Oldest
  <2>2. QED BY <2>1, HeldKept
<1>3. QED BY <1>1, <1>2, TypeCorrect, FlowInvariant, PTL DEF Spec

\* The reasons for which an order need not be stored, and the orders sold.
Excused == rejected \cup failed \cup malformed \cup skipped
SoldSoFar == {m \in Messages : m <= last}

\* The delivery does not see a step that leaves its sets alone.
LEMMA DeliveryStutter ==
    ASSUME UNCHANGED <<last, delivered, pel, db, told, rejected, failed, malformed, skipped>>
    PROVE  UNCHANGED Delivery!deliveryVars
<1> QED BY DEF Delivery!deliveryVars, Unsettled

\* XADD accepts an order; the entries that MAXLEN removes are excused.
LEMMA DeliveryAdd ==
    ASSUME TypeOK, FlowInv, Add
    PROVE  \E m \in Messages : Delivery!Accept(m)
<1>0. PICK n \in Messages : n = last + 1
  BY AddMoves
<1>1. /\ last' = n /\ last \in Nat /\ delivered \in Nat /\ delivered <= last
      /\ trimmed' \in Nat /\ trimmed' <= last'
      /\ malformed \subseteq malformed' /\ malformed' \subseteq malformed \cup {n}
      /\ skipped' = skipped \cup {m \in Messages : delivered < m /\ m <= trimmed'}
      /\ UNCHANGED <<delivered, pel, db, told, rejected, failed>>
  BY <1>0, AddMoves DEF TypeOK, outside, history
<1>2. SoldSoFar' = SoldSoFar \cup {n} /\ n \notin SoldSoFar
  BY <1>0, <1>1 DEF SoldSoFar, Messages
<1>3. Unsettled' = Unsettled \cup {n}
  BY <1>0, <1>1 DEF Unsettled, Messages
<1>4. \A m \in Messages : m <= trimmed' => m <= last'
  BY <1>1 DEF Messages
<1>5. Delivery!Gains(Excused, Excused', Unsettled')
  <2>1. skipped' \ skipped \subseteq Unsettled'
    BY <1>1, <1>4 DEF Unsettled
  <2>2. malformed' \ malformed \subseteq Unsettled'
    BY <1>1, <1>3
  <2>3. QED BY <1>1, <2>1, <2>2 DEF Excused, Delivery!Gains
<1>6. Delivery!Accept(n)
  BY <1>1, <1>2, <1>3, <1>5 DEF Delivery!Accept, SoldSoFar, Excused
<1>7. QED BY <1>6

\* INSERTs, of the recovery and of a batch, and rejections.
LEMMA DeliveryAttempt ==
    ASSUME TypeOK, HeldPending,
           \/ Insert \/ InsertFails
           \/ \E m \in Messages : RecoverStored(m) \/ RecoverRejected(m) \/ RecoverFails(m)
    PROVE  Delivery!Attempt
<1>1. UNCHANGED <<last, delivered, pel, told, malformed, skipped>>
  BY DEF Insert, InsertFails, RecoverStored, RecoverRejected, RecoverFails, stream, outside
<1>2. /\ db \subseteq db' /\ db' \subseteq db \cup pel
      /\ rejected \subseteq rejected' /\ rejected' \subseteq rejected \cup pel
      /\ failed \subseteq failed' /\ failed' \subseteq failed \cup pel
  <2>1. CASE Insert \/ InsertFails
    BY <2>1 DEF Insert, InsertFails, HeldPending, history
  <2>2. ASSUME NEW m \in Messages, RecoverStored(m) \/ RecoverRejected(m) \/ RecoverFails(m)
        PROVE  /\ db \subseteq db' /\ db' \subseteq db \cup pel
               /\ rejected \subseteq rejected' /\ rejected' \subseteq rejected \cup pel
               /\ failed \subseteq failed' /\ failed' \subseteq failed \cup pel
    <3>1. m \in pel
      BY <2>2 DEF RecoverStored, RecoverRejected, RecoverFails, RecoverOrder, Oldest,
                  HeldPending
    <3>2. QED BY <2>2, <3>1 DEF RecoverStored, RecoverRejected, RecoverFails, outside, history
  <2>3. QED BY <2>1, <2>2
<1>3. pel \subseteq Unsettled
  BY DEF Unsettled
<1>4. Unsettled' = Unsettled
  BY <1>1 DEF Unsettled
<1>5. /\ Delivery!Gains(db, db', Unsettled')
      /\ Delivery!Gains(Excused, Excused', Unsettled')
  BY <1>1, <1>2, <1>3, <1>4 DEF Excused, Delivery!Gains
<1>6. QED BY <1>1, <1>4, <1>5 DEF Delivery!Attempt, Excused

\* The announcement.
LEMMA DeliveryTell ==
    ASSUME TypeOK, FlowInv, HeldPending, NEW m \in Messages, Notify(m)
    PROVE  Delivery!Tell(m)
<1>1. /\ pc = "notify" /\ m \in todo /\ told' = told \cup {m}
      /\ UNCHANGED <<last, delivered, pel, db, rejected, failed, malformed, skipped>>
  BY DEF Notify, Oldest, stream, history
<1>2. m \in pel /\ m \in db \cup failed /\ m \notin told
  BY <1>1 DEF FlowInv, Held, HeldPending
<1>3. m \in Unsettled \cap (db \cup Excused)
  BY <1>2 DEF Unsettled, Excused
<1>4. Unsettled' = Unsettled
  BY <1>1 DEF Unsettled
<1>5. QED BY <1>1, <1>2, <1>3, <1>4 DEF Delivery!Tell, Excused

\* An ack takes off the list what is stored or excused.
LEMMA DeliverySettle ==
    ASSUME TypeOK, FlowInv,
           \E m \in Messages :
              RecoverAck(m) \/ RecoverAckRejected(m) \/ ParseMalformed(m) \/ Ack(m)
    PROVE  Delivery!Settle
<1>1. PICK m \in Messages :
          RecoverAck(m) \/ RecoverAckRejected(m) \/ ParseMalformed(m) \/ Ack(m)
  OBVIOUS
<1>2. /\ UNCHANGED <<last, delivered, db, told, rejected, failed, malformed, skipped>>
      /\ pel' \subseteq pel /\ pel \ pel' \subseteq {m}
  BY <1>1 DEF RecoverAck, RecoverAckRejected, ParseMalformed, Ack, Acknowledge, stream,
              outside, history
<1>3. m \in db \cup Excused
  BY <1>1 DEF RecoverAck, RecoverAckRejected, ParseMalformed, Ack, Oldest, FlowInv, Held,
              Excused
<1>4. Unsettled' \subseteq Unsettled /\ Unsettled \ Unsettled' \subseteq {m}
  BY <1>2 DEF Unsettled
<1>5. QED BY <1>2, <1>3, <1>4 DEF Delivery!Settle, Excused

\* A read hands messages over to the list, or finds that they were trimmed.
LEMMA DeliveryPoll ==
    ASSUME TypeOK, FlowInv, Poll \/ PollLost
    PROVE  Delivery!Settle
<1>1. /\ delivered' = ReadUpTo /\ pel' = pel \cup Unread
      /\ UNCHANGED <<last, trimmed, db, told, rejected, failed, malformed, skipped>>
  BY DEF Poll, PollLost, Deliver, stream, outside, history
<1>2. /\ ReadUpTo \in Nat /\ delivered <= ReadUpTo /\ ReadUpTo <= last
      /\ Unread = {m \in Messages : delivered < m /\ trimmed < m /\ m <= ReadUpTo}
  BY ReadRange
<1>3. delivered \in Nat /\ trimmed \in Nat /\ last \in Nat
  BY DEF TypeOK
<1> HIDE DEF ReadUpTo, Unread
<1>4. Unsettled' \subseteq Unsettled
  BY <1>1, <1>2, <1>3 DEF Unsettled, Messages
<1>5. ASSUME NEW m \in Unsettled \ Unsettled'
      PROVE  m \in skipped
  <2>1. m \in Messages /\ delivered < m /\ m <= ReadUpTo /\ m \notin Unread
    BY <1>1, <1>2, <1>3, <1>5 DEF Unsettled, Messages
  <2>2. m <= trimmed
    BY <1>2, <1>3, <2>1 DEF Messages
  <2>3. QED BY <2>1, <2>2 DEF FlowInv, Positions
<1>6. QED BY <1>1, <1>4, <1>5 DEF Delivery!Settle

\* Every step of the pipeline is a step of the delivery.
LEMMA DeliveryStep ==
    ASSUME TypeOK, FlowInv, HeldPending, Next
    PROVE  Delivery!DeliveryNext \/ UNCHANGED Delivery!deliveryVars
<1>1. CASE Boot \/ ConnectionLost \/ Crash
  <2>1. UNCHANGED <<last, delivered, pel, db, told, rejected, failed, malformed, skipped>>
    BY <1>1 DEF Boot, ConnectionLost, Crash, stream, outside, history
  <2>2. QED BY <2>1, DeliveryStutter
<1>2. CASE Recovered \/ \E m \in Messages : RecoverUnreadable(m) \/ RecoverDeadLetter(m)
  <2>1. UNCHANGED <<last, delivered, pel, db, told, rejected, failed, malformed, skipped>>
    BY <1>2 DEF Recovered, RecoverUnreadable, RecoverDeadLetter, stream, outside, history
  <2>2. QED BY <2>1, DeliveryStutter
<1>3. CASE Parsed \/ Notified \/ Acked \/ \E m \in Messages : Parse(m)
  <2>1. UNCHANGED <<last, delivered, pel, db, told, rejected, failed, malformed, skipped>>
    BY <1>3 DEF Parsed, Notified, Acked, Parse, stream, outside, history
  <2>2. QED BY <2>1, DeliveryStutter
<1>4. QED
  BY <1>1, <1>2, <1>3, DeliveryAdd, DeliveryAttempt, DeliveryTell, DeliverySettle,
     DeliveryPoll
     DEF Next, Recover, Process, Delivery!DeliveryNext

LEMMA DeliveryStart == Init => Delivery!DeliveryInit
<1> SUFFICES ASSUME Init PROVE Delivery!DeliveryInit
  OBVIOUS
<1>1. /\ last = 0 /\ pel = {} /\ db = {} /\ told = {} /\ rejected = {} /\ failed = {}
      /\ malformed = {} /\ skipped = {}
  BY DEF Init
<1>2. {m \in Messages : m <= last} = {} /\ Unsettled = {}
  BY <1>1 DEF Unsettled, Messages
<1>3. QED BY <1>1, <1>2 DEF Delivery!DeliveryInit

\* The pipeline keeps what the delivery of an order promises, for streams and
\* batches of every size and any number of crashes and faults.
THEOREM DeliveryImplemented == Spec => DeliversAsPromised
<1>1. /\ TypeOK /\ FlowInv /\ HeldPending /\ [Next]_vars
         => [Delivery!DeliveryNext]_(Delivery!deliveryVars)
  <2> SUFFICES ASSUME TypeOK, FlowInv, HeldPending, [Next]_vars
               PROVE  Delivery!DeliveryNext \/ UNCHANGED Delivery!deliveryVars
    OBVIOUS
  <2>1. CASE UNCHANGED vars
    BY <2>1, DeliveryStutter DEF vars
  <2>2. QED BY <2>1, DeliveryStep
<1>2. QED
  BY <1>1, DeliveryStart, TypeCorrect, FlowInvariant, HeldInvariant, PTL
     DEF Spec, DeliversAsPromised, Delivery!DeliverySpec

--------------------------------------------------------------------------------
(* No stage is stuck, and none goes on for ever: the part of                *)
(* EveryOrderSettles that needs no fairness.                                *)

\* What the orders table has was delivered, a batch before its INSERT is not in
\* it, and a step of the recovery that is not the first has its message.
FreshInv ==
    /\ \A m \in db : m <= delivered
    /\ pc \in {"parse", "insert"} => (todo \cup ready) \cap db = {}
    /\ pc \in {"recack", "recreject", "recdead"} => todo # {}

\* The INSERT of a batch meets no row of its own orders, and every stage that
\* has messages has a first one to take.
StageGoesOn ==
    /\ pc = "insert" => ready \cap db = {}
    /\ pc \in {"recack", "recreject", "recdead"} => todo # {}
    /\ todo # {} => \E m \in todo : Oldest(m, todo)

\* Steps of the stream, of the recovery, and the two ends of a process.
LEMMA FreshRecover ==
    ASSUME TypeOK, FlowInv, HeldPending, FreshInv,
           Add \/ Boot \/ Recover \/ ConnectionLost \/ Crash
    PROVE  FreshInv'
<1> USE DEF FreshInv
<1>1. CASE Add \/ ConnectionLost
  BY <1>1 DEF Add, ConnectionLost, outside
<1>2. CASE Boot \/ Crash
  BY <1>2 DEF Boot, Crash, outside
<1>3. ASSUME NEW m \in Messages, RecoverStored(m) \/ RecoverFails(m)
      PROVE  FreshInv'
  <2>1. m \in todo /\ m <= delivered
    BY <1>3 DEF RecoverStored, RecoverFails, RecoverOrder, Oldest, HeldPending, FlowInv, Positions
  <2>2. QED BY <1>3, <2>1 DEF RecoverStored, RecoverFails, RecoverOrder
<1>4. ASSUME NEW m \in Messages, RecoverRejected(m)
      PROVE  FreshInv'
  BY <1>4 DEF RecoverRejected, RecoverOrder, Oldest, outside
<1>5. ASSUME NEW m \in Messages,
             \/ RecoverUnreadable(m) \/ RecoverAck(m) \/ RecoverAckRejected(m)
             \/ RecoverDeadLetter(m)
      PROVE  FreshInv'
  BY <1>5 DEF RecoverUnreadable, RecoverAck, RecoverAckRejected, RecoverDeadLetter, outside
<1>6. CASE Recovered
  BY <1>6 DEF Recovered, outside
<1>7. QED BY <1>1, <1>2, <1>3, <1>4, <1>5, <1>6 DEF Recover

\* A batch is read behind everything that is stored.
LEMMA FreshProcess ==
    ASSUME TypeOK, FlowInv, FreshInv, Process
    PROVE  FreshInv'
<1> USE DEF FreshInv
<1>1. CASE Poll \/ PollLost
  <2>1. /\ delivered' = ReadUpTo /\ db' = db /\ ready' = ready
        /\ \/ pc' = "parse" /\ todo' = Unread
           \/ pc' = "poll"
    BY <1>1 DEF Poll, PollLost, Deliver, outside
  <2>2. ready = {}
    BY <1>1 DEF Poll, PollLost, FlowInv, Held, Batch
  <2>3. \A m \in Unread : delivered < m
    BY ReadRange
  <2>4. \A m \in db : m \in Nat /\ delivered \in Nat /\ ReadUpTo \in Nat /\ delivered <= ReadUpTo
    BY ReadRange DEF TypeOK, Messages
  <2>5. \A m \in db : m <= ReadUpTo /\ m \notin Unread
    BY <2>3, <2>4
  <2>6. QED BY <2>1, <2>2, <2>5
<1>2. ASSUME NEW m \in Messages, ParseMalformed(m) \/ Parse(m) \/ Notify(m) \/ Ack(m)
      PROVE  FreshInv'
  BY <1>2 DEF ParseMalformed, Parse, Notify, Ack, Oldest, outside
<1>3. CASE Insert \/ InsertFails
  <2>1. \A m \in ready : m <= delivered
    BY <1>3 DEF Insert, InsertFails, FlowInv, Held, Batch
  <2>2. QED BY <1>3, <2>1 DEF Insert, InsertFails
<1>4. CASE Parsed \/ Notified \/ Acked
  BY <1>4 DEF Parsed, Notified, Acked, outside
<1>5. QED BY <1>1, <1>2, <1>3, <1>4 DEF Process

\* A batch is new to the orders table in every state.
LEMMA FreshInvariant == Spec => []FreshInv
<1>1. Init => FreshInv
  BY DEF Init, FreshInv
<1>2. TypeOK /\ FlowInv /\ HeldPending /\ FreshInv /\ [Next]_vars => FreshInv'
  <2> SUFFICES ASSUME TypeOK, FlowInv, HeldPending, FreshInv, [Next]_vars
               PROVE  FreshInv'
    OBVIOUS
  <2>1. CASE UNCHANGED vars
    BY <2>1 DEF vars, FreshInv
  <2>2. QED BY <2>1, FreshRecover, FreshProcess DEF Next
<1>3. QED BY <1>1, <1>2, TypeCorrect, FlowInvariant, HeldInvariant, PTL DEF Spec

\* No stage of the recovery or of a batch waits for anything: after any number
\* of crashes and redeliveries a batch INSERT never meets a row that is there.
THEOREM StagesGoOn == Spec => []StageGoesOn
<1>1. TypeOK /\ FreshInv => StageGoesOn
  <2> SUFFICES ASSUME TypeOK, FreshInv, todo # {}
               PROVE  \E m \in todo : Oldest(m, todo)
    BY DEF StageGoesOn, FreshInv
  <2>1. todo \in SUBSET Nat
    BY DEF TypeOK, Messages
  <2>2. QED BY <2>1, HasSmallest DEF Oldest
<1>2. QED BY <1>1, TypeCorrect, FreshInvariant, PTL

\* The steps that are left at most until the consumer polls again.
StepsLeft(p, t, r) ==
    CASE p = "recover"   -> 3 * t + 1
      [] p = "recack"    -> 3 * t - 1
      [] p = "recreject" -> 3 * t
      [] p = "recdead"   -> 3 * t - 1
      [] p = "parse"     -> 3 * t + 2 * r + 4
      [] p = "insert"    -> 2 * r + 3
      [] p = "notify"    -> t + r + 2
      [] p = "ack"       -> t + 1
      [] OTHER           -> 0

Left == StepsLeft(pc, Cardinality(todo), Cardinality(ready))

\* Every step of the recovery and of a batch leaves fewer steps, down to none
\* at the next poll; the stream and the connection leave them as they are.
WorkShrinks ==
    /\ Left \in Nat /\ (Left = 0 <=> pc \in {"down", "poll"})
    /\ pc # "poll" /\ (Recover \/ Process) => Left' < Left
    /\ Add \/ ConnectionLost => Left' = Left

\* The messages in the hands of a stage can be counted.
LEMMA HandsCounted ==
    ASSUME TypeOK
    PROVE  /\ Cardinality(todo) \in Nat /\ Cardinality(ready) \in Nat
           /\ \A m \in todo : /\ Cardinality(todo \ {m}) = Cardinality(todo) - 1
                              /\ Cardinality(todo) >= 1
           /\ \A m \in Messages \ ready :
                 Cardinality(ready \cup {m}) = Cardinality(ready) + 1
           /\ todo = {} <=> Cardinality(todo) = 0
<1>1. /\ IsFiniteSet(todo) /\ Cardinality(todo) \in Nat
      /\ IsFiniteSet(ready) /\ Cardinality(ready) \in Nat
  BY Counted DEF TypeOK
<1>2. \A m \in todo : Cardinality(todo \ {m}) = Cardinality(todo) - 1
  BY <1>1, FS_RemoveElement
<1>3. \A m \in Messages \ ready : Cardinality(ready \cup {m}) = Cardinality(ready) + 1
  BY <1>1, FS_AddElement
<1>4. todo = {} <=> Cardinality(todo) = 0
  BY <1>1, FS_EmptySet
<1>5. QED BY <1>1, <1>2, <1>3, <1>4

\* The steps left are counted in numbers.
LEMMA WorkCounted ==
    ASSUME NEW p, NEW t \in Nat, NEW r \in Nat
    PROVE  StepsLeft(p, t, r) \in Int
<1> QED BY DEF StepsLeft

\* A message of the backlog takes three steps at most.
LEMMA RecoverShrinks ==
    ASSUME TypeOK, FreshInv, Recover
    PROVE  Left' < Left
<1> DEFINE t == Cardinality(todo)
           r == Cardinality(ready)
<1>1. t \in Nat /\ r \in Nat
  BY HandsCounted
<1>2. ASSUME NEW m \in Messages, Oldest(m, todo), todo' = todo \ {m}, ready' = ready
      PROVE  Cardinality(todo') = t - 1 /\ Cardinality(ready') = r
  BY <1>2, HandsCounted DEF Oldest
<1>3. ASSUME NEW m \in Messages, RecoverUnreadable(m) \/ RecoverFails(m)
      PROVE  Left' < Left
  <2>1. pc = "recover" /\ pc' = "recover" /\ Cardinality(todo') = t - 1
    BY <1>2, <1>3 DEF RecoverUnreadable, RecoverFails, RecoverOrder
  <2> HIDE DEF t, r
  <2>2. QED BY <1>1, <2>1 DEF Left, StepsLeft, t
<1>4. ASSUME NEW m \in Messages, RecoverStored(m) \/ RecoverRejected(m)
      PROVE  Left' < Left
  <2>1. pc = "recover" /\ pc' \in {"recack", "recreject"} /\ Cardinality(todo') = t
    BY <1>4 DEF RecoverStored, RecoverRejected, RecoverOrder
  <2> HIDE DEF t, r
  <2>2. QED BY <1>1, <2>1 DEF Left, StepsLeft, t
<1>5. ASSUME NEW m \in Messages, RecoverAck(m) \/ RecoverDeadLetter(m)
      PROVE  Left' < Left
  <2>1. pc \in {"recack", "recdead"} /\ pc' = "recover" /\ Cardinality(todo') = t - 1
    BY <1>2, <1>5 DEF RecoverAck, RecoverDeadLetter
  <2> HIDE DEF t, r
  <2>2. QED BY <1>1, <2>1 DEF Left, StepsLeft, t
<1>6. ASSUME NEW m \in Messages, RecoverAckRejected(m)
      PROVE  Left' < Left
  <2>1. pc = "recreject" /\ pc' = "recdead" /\ Cardinality(todo') = t
    BY <1>6 DEF RecoverAckRejected
  <2> HIDE DEF t, r
  <2>2. QED BY <1>1, <2>1 DEF Left, StepsLeft, t
<1>7. CASE Recovered
  <2>1. pc = "recover" /\ pc' = "poll"
    BY <1>7 DEF Recovered
  <2> HIDE DEF t, r
  <2>2. QED BY <1>1, <2>1 DEF Left, StepsLeft, t
<1>8. QED BY <1>3, <1>4, <1>5, <1>6, <1>7 DEF Recover

\* A message of a batch takes five: its parsing, its announcement, its ack, and
\* two that it has in common with the others.
LEMMA BatchShrinks ==
    ASSUME TypeOK, HeldPending, FlowInv, Process, pc # "poll"
    PROVE  Left' < Left
<1> DEFINE t == Cardinality(todo)
           r == Cardinality(ready)
<1>1. t \in Nat /\ r \in Nat
  BY HandsCounted
<1>2. ASSUME NEW m \in Messages, Oldest(m, todo), todo' = todo \ {m}
      PROVE  Cardinality(todo') = t - 1
  BY <1>2, HandsCounted DEF Oldest
<1>3. ASSUME NEW m \in Messages, ParseMalformed(m)
      PROVE  Left' < Left
  <2>1. /\ pc = "parse" /\ pc' = "parse" /\ Cardinality(todo') = t - 1
        /\ Cardinality(ready') = r
    BY <1>2, <1>3 DEF ParseMalformed
  <2> HIDE DEF t, r
  <2>2. QED BY <1>1, <2>1 DEF Left, StepsLeft, t, r
<1>4. ASSUME NEW m \in Messages, Parse(m)
      PROVE  Left' < Left
  <2>1. pc = "parse" /\ pc' = "parse" /\ Cardinality(todo') = t - 1
    BY <1>2, <1>4 DEF Parse
  <2>2. m \in Messages \ ready /\ ready' = ready \cup {m}
    BY <1>4 DEF Parse, Oldest, HeldPending
  <2>3. Cardinality(ready') = r + 1
    BY <2>2, HandsCounted
  <2> HIDE DEF t, r
  <2>4. QED BY <1>1, <2>1, <2>3 DEF Left, StepsLeft, t, r
<1>5. CASE Parsed
  <2>1. /\ pc = "parse" /\ pc' \in {"poll", "insert"} /\ Cardinality(ready') = r
    BY <1>5 DEF Parsed
  <2> HIDE DEF t, r
  <2>2. QED BY <1>1, <2>1 DEF Left, StepsLeft, t, r
<1>6. CASE Insert \/ InsertFails
  <2>1. /\ pc = "insert" /\ pc' = "notify"
        /\ Cardinality(todo') = r /\ Cardinality(ready') = r
    BY <1>6 DEF Insert, InsertFails
  <2> HIDE DEF t, r
  <2>2. QED BY <1>1, <2>1 DEF Left, StepsLeft, t, r
<1>7. ASSUME NEW m \in Messages, Notify(m) \/ Ack(m)
      PROVE  Left' < Left
  <2>1. /\ pc \in {"notify", "ack"} /\ pc' = pc /\ Cardinality(todo') = t - 1
        /\ Cardinality(ready') = r
    BY <1>2, <1>7 DEF Notify, Ack
  <2> HIDE DEF t, r
  <2>2. QED BY <1>1, <2>1 DEF Left, StepsLeft, t, r
<1>8. CASE Notified
  <2>1. pc = "notify" /\ pc' = "ack" /\ Cardinality(todo') = r /\ t = 0
    BY <1>8, HandsCounted DEF Notified
  <2> HIDE DEF t, r
  <2>2. QED BY <1>1, <2>1 DEF Left, StepsLeft, t, r
<1>9. CASE Acked
  <2>1. pc = "ack" /\ pc' = "poll"
    BY <1>9 DEF Acked
  <2> HIDE DEF t, r
  <2>2. QED BY <1>1, <2>1 DEF Left, StepsLeft, t, r
<1>10. QED
  BY <1>3, <1>4, <1>5, <1>6, <1>7, <1>8, <1>9 DEF Process, Poll, PollLost

\* Recovery and batches end: each of their steps brings the next poll nearer,
\* for backlogs and batches of every size and whatever fails in between.
THEOREM WorkEnds == Spec => [][WorkShrinks]_vars
<1>1. TypeOK /\ FlowInv /\ HeldPending /\ FreshInv /\ [Next]_vars => [WorkShrinks]_vars
  <2> SUFFICES ASSUME TypeOK, FlowInv, HeldPending, FreshInv, Next
               PROVE  WorkShrinks
    OBVIOUS
  <2>1. Left \in Nat /\ (Left = 0 <=> pc \in {"down", "poll"})
    <3> DEFINE t == Cardinality(todo)
               r == Cardinality(ready)
    <3>1. t \in Nat /\ r \in Nat /\ pc \in PcStates
          /\ (pc \in {"recack", "recreject", "recdead"} => t >= 1)
      BY HandsCounted DEF TypeOK, FreshInv
    <3>2. QED BY <3>1 DEF Left, StepsLeft, PcStates
  <2>2. Add \/ ConnectionLost => Left' = Left
    BY DEF Add, ConnectionLost, Left
  <2>3. QED BY <2>1, <2>2, RecoverShrinks, BatchShrinks DEF WorkShrinks
<1>2. QED
  BY <1>1, TypeCorrect, FlowInvariant, HeldInvariant, FreshInvariant, PTL DEF Spec

\* A set of messages that is not empty has a newest one.
LEMMA HasNewest ==
    ASSUME NEW S \in SUBSET Messages, S # {}
    PROVE  \E m \in S : \A k \in S : k <= m
<1> DEFINE back == {MaxMessages - m : m \in S}
<1>1. MaxMessages \in Nat /\ \A m \in S : m \in Nat /\ m <= MaxMessages
  BY BoundsAssumption DEF Messages
<1>2. back \in SUBSET Nat /\ back # {}
  BY <1>1
<1>3. PICK b \in back : \A c \in back : b <= c
  BY <1>2, HasSmallest
<1>4. PICK m \in S : b = MaxMessages - m
  OBVIOUS
<1>5. ASSUME NEW k \in S
      PROVE  k <= m
  <2>1. MaxMessages - m <= MaxMessages - k
    BY <1>3, <1>4
  <2>2. QED BY <1>1, <2>1
<1>6. QED BY <1>5

\* The lowest n members are n at most.
LEMMA LowestCount ==
    ASSUME NEW S \in SUBSET Messages, NEW n \in Nat
    PROVE  Cardinality(Lowest(S, n)) <= n
<1> DEFINE L == Lowest(S, n)
<1>1. L \in SUBSET S /\ L \in SUBSET Messages
  BY DEF Lowest
<1>2. IsFiniteSet(L) /\ Cardinality(L) \in Nat
  BY <1>1, Counted
<1>3. CASE L = {}
  BY <1>3, FS_EmptySet
<1>4. CASE L # {}
  <2>1. PICK m \in L : \A k \in L : k <= m
    BY <1>1, <1>4, HasNewest
  <2> DEFINE below == {k \in S : k < m}
  <2>2. (L \ {m}) \in SUBSET below /\ below \in SUBSET Messages
    <3>1. ASSUME NEW k \in L, k # m PROVE k \in S /\ k < m
      <4>1. k \in S /\ k \in Int /\ m \in Int /\ k <= m
        BY <1>1, <2>1 DEF Messages
      <4>2. QED BY <3>1, <4>1
    <3>2. L \ {m} \subseteq below
      BY <3>1
    <3>3. QED BY <3>2
  <2>3. Cardinality(below) < n
    BY <2>1 DEF Lowest
  <2>4. Cardinality(L \ {m}) <= Cardinality(below)
        /\ Cardinality(below) \in Nat /\ Cardinality(L \ {m}) \in Nat
    BY <2>2, Counted
  <2>5. Cardinality(L \ {m}) = Cardinality(L) - 1
    BY <1>2, <2>1, FS_RemoveElement
  <2>6. QED BY <1>2, <2>3, <2>4, <2>5
<1>5. QED BY <1>3, <1>4

\* The work of a recovery, or of a batch, from its beginning.
MostWork == Later(3 * MaxPending + 1, 3 * MaxBatch + 4)

\* A recovery takes at most three steps for each of the MaxPending messages it
\* reads and one more, a batch three for each of its MaxBatch messages and four
\* more.  With WorkEnds, no message can keep the consumer from its next poll.
THEOREM WorkIsBounded == Spec => [](Left <= MostWork)
<1> DEFINE Fits == Left <= MostWork
<1>1. /\ MostWork \in Nat /\ MostWork' = MostWork
      /\ MostWork >= 3 * MaxPending + 1 /\ MostWork >= 3 * MaxBatch + 4
  <2>1. MaxPending \in Nat /\ MaxBatch \in Nat
    BY LimitsAssumption
  <2>2. QED BY <2>1 DEF MostWork, Later
<1>2. Init => Fits
  BY <1>1 DEF Init, Left, StepsLeft
<1>3. ASSUME TypeOK, FlowInv, HeldPending, FreshInv, Fits, [Next]_vars
      PROVE  Fits'
  <2>1. TypeOK'
    <3>1. CASE UNCHANGED vars
      BY <1>3, <3>1 DEF vars, TypeOK
    <3>2. QED BY <1>3, <3>1, TypesKept
  <2> DEFINE t == Cardinality(todo')
             r == Cardinality(ready')
  <2>2. t \in Nat /\ r \in Nat
    BY <2>1, Counted DEF TypeOK
  <2>3. CASE UNCHANGED vars \/ Add \/ ConnectionLost
    <3>1. Left' = Left
      BY <2>3 DEF vars, Add, ConnectionLost, Left
    <3>2. QED BY <1>1, <1>3, <3>1
  <2>4. CASE Crash
    <3>1. pc' = "down"
      BY <2>4 DEF Crash
    <3>2. QED BY <1>1, <3>1 DEF Left, StepsLeft
  <2>5. CASE Boot
    <3>1. pc' = "recover" /\ todo' \in {Pending(pel), {}}
      BY <2>5 DEF Boot
    <3>2. MaxPending \in Nat /\ Cardinality(Pending(pel)) <= MaxPending
      BY <1>3, LimitsAssumption, LowestCount DEF Pending, TypeOK
    <3>3. t <= MaxPending
      BY <3>1, <3>2, FS_EmptySet
    <3> HIDE DEF t, r
    <3>4. QED BY <1>1, <2>2, <3>1, <3>2, <3>3 DEF Left, StepsLeft, t
  <2>6. CASE Poll
    <3>1. pc' = "parse" /\ todo' = Unread /\ ready' = {}
      BY <1>3, <2>6 DEF Poll, FlowInv, Held, Batch
    <3>2. t <= MaxBatch /\ MaxBatch \in Nat /\ r = 0
      BY <1>3, <3>1, UnreadCount, LimitsAssumption, FS_EmptySet
    <3> HIDE DEF t, r
    <3>3. QED BY <1>1, <2>2, <3>1, <3>2 DEF Left, StepsLeft, t, r
  <2>7. CASE PollLost
    BY <1>1, <2>7 DEF PollLost, Left, StepsLeft
  <2>8. CASE Recover \/ (Process /\ pc # "poll")
    <3>1. Left' < Left
      BY <1>3, <2>8, RecoverShrinks, BatchShrinks
    <3>2. Left \in Int /\ Left' \in Int
      BY <1>3, <2>2, HandsCounted, WorkCounted DEF Left
    <3>3. QED BY <1>1, <1>3, <3>1, <3>2
  <2>9. pc = "poll" /\ Process => Poll \/ PollLost
    BY DEF Process, Parsed, Insert, InsertFails, Notified, Acked, ParseMalformed, Parse,
           Notify, Ack
  <2>10. QED
    BY <1>3, <2>3, <2>4, <2>5, <2>6, <2>7, <2>8, <2>9 DEF Next
<1>4. TypeOK /\ FlowInv /\ HeldPending /\ FreshInv /\ Fits /\ [Next]_vars => Fits'
  BY <1>3
<1>5. QED
  BY <1>2, <1>4, TypeCorrect, FlowInvariant, HeldInvariant, FreshInvariant, PTL DEF Spec

--------------------------------------------------------------------------------
(* The result query. *)

\* What the steps of the query leave alone: they may only count a fault.
LEMMA QuerySteps ==
    ASSUME QueryNext
    PROVE  \/ Pipeline
           \/ /\ UNCHANGED <<stream, delivered, pel, outside, pc, conn, todo, ready, history,
                             crashes>>
              /\ UNCHANGED faults \/ Fault
              /\ UNCHANGED goods
              /\ \/ \E m \in Messages : Cancel(m)
                 \/ \E p \in Products : \/ KeyExpires(p) \/ AskHit(p) \/ AskMiss(p)
                                        \/ SelectFound(p) \/ SelectNone(p)
<1>1. ASSUME NEW m \in Messages, Cancel(m)
      PROVE  UNCHANGED <<vars, goods>>
  BY <1>1 DEF Cancel
<1>2. ASSUME NEW p \in Products, KeyExpires(p) \/ AskHit(p) \/ SelectFound(p)
      PROVE  UNCHANGED <<vars, goods>>
  BY <1>2 DEF KeyExpires, AskHit, SelectFound
<1>3. ASSUME NEW p \in Products, AskMiss(p) \/ SelectNone(p)
      PROVE  /\ UNCHANGED <<stream, delivered, pel, outside, pc, conn, todo, ready, history,
                            crashes, goods>>
             /\ UNCHANGED faults \/ Fault
  BY <1>3 DEF AskMiss, SelectNone
<1>4. UNCHANGED vars =>
          UNCHANGED <<stream, delivered, pel, outside, pc, conn, todo, ready, history,
                      crashes, faults>>
  BY DEF vars, stream, outside, history
<1>5. QED BY <1>1, <1>2, <1>3, <1>4 DEF QueryNext

\* The pipeline keeps its invariants while it is queried.
LEMMA PipelineHolds == QuerySpec => [](TypeOK /\ FlowInv)
<1>1. QueryInit => TypeOK /\ FlowInv
  BY InitTypes, InitFlow DEF QueryInit
<1>2. TypeOK /\ FlowInv /\ [QueryNext]_allVars => TypeOK' /\ FlowInv'
  <2> SUFFICES ASSUME TypeOK, FlowInv, [QueryNext]_allVars
               PROVE  TypeOK' /\ FlowInv'
    OBVIOUS
  <2>1. CASE Pipeline
    BY <2>1, TypesKept, FlowKept DEF Pipeline
  <2>2. CASE /\ UNCHANGED <<stream, delivered, pel, outside, pc, conn, todo, ready, history,
                            crashes>>
             /\ UNCHANGED faults \/ Fault
    BY <2>2 DEF stream, outside, history, Fault, TypeOK, FlowInv, Positions, NothingLost,
                Held, ToldIsStored, Oldest
  <2>3. CASE UNCHANGED allVars
    BY <2>2, <2>3 DEF allVars, vars, stream, outside, history
  <2>4. QED BY <2>1, <2>2, <2>3, QuerySteps
<1>3. QED BY <1>1, <1>2, PTL DEF QuerySpec

\* What the pipeline needs to deliver stays while it is queried.
LEMMA PipelineDelivers == QuerySpec => [](HeldPending /\ DrainInv)
<1>1. QueryInit => HeldPending /\ DrainInv
  BY InitDrain DEF QueryInit, Init, HeldPending
<1>2. ASSUME TypeOK, TypeOK', FlowInv, HeldPending, DrainInv, [QueryNext]_allVars
      PROVE  HeldPending' /\ DrainInv'
  <2>1. CASE Pipeline
    BY <1>2, <2>1, HeldKept, DrainKept DEF Pipeline
  <2>2. CASE /\ UNCHANGED <<stream, delivered, pel, outside, pc, conn, todo, ready, history,
                            crashes>>
             /\ UNCHANGED faults \/ Fault
    <3>1. faults' = 0 => faults = 0
      BY <1>2, <2>2 DEF Fault, TypeOK
    <3>2. UNCHANGED <<trimmed, malformed, pel, pc, conn, todo, ready>>
      BY <2>2 DEF stream
    <3>3. HeldPending'
      BY <1>2, <3>2 DEF HeldPending, Oldest
    <3>4. DrainInv'
      BY <1>2, <3>1, <3>2 DEF DrainInv, Drained, Roomy, Stuck, Unreadable, InFlight, Reach,
                              Oldest
    <3>5. QED BY <3>3, <3>4
  <2>3. CASE UNCHANGED allVars
    BY <2>2, <2>3 DEF allVars, vars, stream, outside, history
  <2>4. QED BY <1>2, <2>1, <2>2, <2>3, QuerySteps
<1>3. QED BY <1>1, <1>2, PipelineHolds, PTL DEF QuerySpec

\* Nothing that the queries, the cancellations and the expiry of keys do costs
\* the pipeline what it guarantees: no order is lost, buyers are told once and
\* of stored orders, and one restart drains the backlog.
THEOREM PipelineUnderQueries ==
    QuerySpec => /\ [](NothingLost /\ ToldIsStored /\ BacklogDrained)
                 /\ ToldOnce
<1>1. FlowInv => NothingLost /\ ToldIsStored
  BY DEF FlowInv
<1>2. FlowInv /\ DrainInv => BacklogDrained
  BY DrainedBacklog
<1>3. FlowInv => [\A m \in told : ~Notify(m)]_vars
  BY ToldAreDone
<1>4. QED BY <1>1, <1>2, <1>3, PipelineHolds, PipelineDelivers, PTL DEF ToldOnce

\* The pipeline implements OrderDelivery while it is queried.
THEOREM DeliveryUnderQueries == QuerySpec => DeliversAsPromised
<1>1. /\ TypeOK /\ FlowInv /\ HeldPending /\ [QueryNext]_allVars
         => [Delivery!DeliveryNext]_(Delivery!deliveryVars)
  <2> SUFFICES ASSUME TypeOK, FlowInv, HeldPending, [QueryNext]_allVars
               PROVE  Delivery!DeliveryNext \/ UNCHANGED Delivery!deliveryVars
    OBVIOUS
  <2>1. CASE Pipeline
    BY <2>1, DeliveryStep DEF Pipeline
  <2>2. CASE UNCHANGED <<stream, delivered, pel, outside, history>>
    BY <2>2, DeliveryStutter DEF stream, outside, history
  <2>3. CASE UNCHANGED allVars
    BY <2>2, <2>3 DEF allVars, vars, stream, outside, history
  <2>4. QED BY <2>1, <2>2, <2>3, QuerySteps
<1>2. QueryInit => Delivery!DeliveryInit
  BY DeliveryStart DEF QueryInit
<1>3. QED
  BY <1>1, <1>2, PipelineHolds, PipelineDelivers, PTL
     DEF QuerySpec, DeliversAsPromised, Delivery!DeliverySpec

\* Orders are stored and announced, never the reverse, and a key is written
\* only when its order is announced.
LEMMA PipelineMoves ==
    ASSUME Next
    PROVE  /\ db \subseteq db' /\ failed \subseteq failed' /\ told \subseteq told'
           /\ cache' \ cache \subseteq told'
           /\ faults' = 0 /\ faults \in Nat => faults = 0
           /\ crashes' = 0 /\ crashes \in Nat => crashes = 0
<1>1. CASE Add \/ Boot \/ ConnectionLost \/ Crash
  BY <1>1 DEF Add, Boot, ConnectionLost, Crash, Fault, outside, history, bounds
<1>2. CASE Recover
  BY <1>2 DEF Recover, RecoverUnreadable, RecoverStored, RecoverRejected, RecoverFails,
              RecoverAck, RecoverAckRejected, RecoverDeadLetter, Recovered, Fault,
              outside, history, bounds
<1>3. CASE Process
  BY <1>3 DEF Process, Poll, PollLost, Parsed, Insert, InsertFails, Notified, Acked,
              ParseMalformed, Parse, Notify, Ack, Fault, outside, history, bounds
<1>4. QED BY <1>1, <1>2, <1>3 DEF Next

\* The new value of a key.
LEMMA KeyedIs ==
    ASSUME NEW new, NEW p \in Products
    PROVE  /\ new \cap OrdersOf(p) # {} => Keyed(new)[p] \in new \cap OrdersOf(p)
           /\ new \cap OrdersOf(p) = {} => Keyed(new)[p] = result[p]
<1> QED BY DEF Keyed

\* Keys and answers speak of orders of their product that were stored, or whose
\* batch failed.
QueryInv ==
    /\ goods \in [Messages -> Products] /\ asking \subseteq Products
    /\ cancelled \subseteq db
    /\ result \in [Products -> Messages \cup {0}]
    /\ answer \in [Products -> Messages \cup {0}]
    /\ \A p \in Products :
           /\ result[p] # 0 => result[p] \in told \cap OrdersOf(p)
           /\ answer[p] # 0 => answer[p] \in (db \cup failed) \cap OrdersOf(p)

\* An answer that takes an order back comes from a SELECT.
LEMMA UnsaidBySelect ==
    ASSUME TypeOK, QueryInv, [QueryNext]_allVars, NEW p \in Products,
           answer[p] # 0, answer'[p] = 0
    PROVE  SelectNone(p)
<1>1. answer' # answer
  OBVIOUS
<1>2. ~Pipeline /\ \A m \in Messages : ~Cancel(m)
  BY <1>1 DEF Pipeline, Cancel
<1>3. PICK q \in Products : AskHit(q) \/ SelectFound(q) \/ SelectNone(q)
  BY <1>1, <1>2 DEF QueryNext, allVars, queryVars, KeyExpires, AskMiss
<1>4. CASE AskHit(q)
  BY <1>4 DEF AskHit, Answer, QueryInv
<1>5. CASE SelectFound(q)
  <2>1. PICK m \in OrdersOf(q) : answer' = [answer EXCEPT ![q] = m]
    BY <1>5 DEF SelectFound, Answer
  <2>2. m # 0
    BY BoundsAssumption DEF OrdersOf, Messages
  <2>3. QED BY <2>1, <2>2 DEF QueryInv
<1>6. CASE SelectNone(q)
  BY <1>6 DEF SelectNone, Answer, QueryInv
<1>7. QED BY <1>3, <1>4, <1>5, <1>6

\* Every step keeps QueryInv.
LEMMA QueryKept ==
    ASSUME TypeOK, FlowInv, QueryInv, QueryNext
    PROVE  QueryInv'
<1>1. CASE Pipeline
  <2>1. /\ Next /\ result' = Keyed(cache' \ cache) /\ asking' \in {{}, asking}
        /\ UNCHANGED <<goods, cancelled, answer>>
    BY <1>1 DEF Pipeline
  <2>2. /\ db \subseteq db' /\ failed \subseteq failed' /\ told \subseteq told'
        /\ cache' \ cache \subseteq told'
    BY <2>1, PipelineMoves
  <2>3. \A p \in Products : OrdersOf(p)' = OrdersOf(p)
    BY <2>1 DEF OrdersOf
  <2>4. \A p \in Products : result'[p] # 0 => result'[p] \in told' \cap OrdersOf(p)
    BY <2>1, <2>2, KeyedIs DEF QueryInv
  <2>5. result' \in [Products -> Messages \cup {0}]
    <3>1. \A p \in Products : result'[p] \in Messages \cup {0}
      BY <2>4 DEF OrdersOf
    <3>2. QED BY <2>1, <3>1 DEF Keyed
  <2>6. QED BY <2>1, <2>2, <2>3, <2>4, <2>5 DEF QueryInv
<1>2. CASE ~Pipeline
  <2>1. /\ UNCHANGED <<db, told, failed, goods>>
    BY <1>2, QuerySteps DEF outside, history
  <2>2. \A p \in Products : OrdersOf(p)' = OrdersOf(p)
    BY <2>1 DEF OrdersOf
  <2>3. ASSUME NEW m \in Messages, Cancel(m)
        PROVE  QueryInv'
    BY <2>1, <2>2, <2>3 DEF Cancel, QueryInv
  <2>4. ASSUME NEW p \in Products, KeyExpires(p)
        PROVE  QueryInv'
    BY <2>1, <2>2, <2>4 DEF KeyExpires, QueryInv
  <2>5. ASSUME NEW p \in Products, AskHit(p)
        PROVE  QueryInv'
    <3>1. result[p] \in (db \cup failed) \cap OrdersOf(p)
      BY <2>5 DEF AskHit, QueryInv, FlowInv, ToldIsStored
    <3>2. QED BY <2>1, <2>2, <2>5, <3>1 DEF AskHit, Answer, QueryInv
  <2>6. ASSUME NEW p \in Products, AskMiss(p)
        PROVE  QueryInv'
    BY <2>1, <2>2, <2>6 DEF AskMiss, QueryInv
  <2>7. ASSUME NEW p \in Products, SelectFound(p)
        PROVE  QueryInv'
    <3>1. PICK m \in db \cap OrdersOf(p) : answer' = [answer EXCEPT ![p] = m]
      BY <2>7 DEF SelectFound, Answer, Rows
    <3>2. QED BY <2>1, <2>2, <2>7, <3>1 DEF SelectFound, QueryInv, OrdersOf
  <2>8. ASSUME NEW p \in Products, SelectNone(p)
        PROVE  QueryInv'
    BY <2>1, <2>2, <2>8 DEF SelectNone, Answer, QueryInv
  <2>9. QED BY <1>2, <2>3, <2>4, <2>5, <2>6, <2>7, <2>8 DEF QueryNext
<1>3. QED BY <1>1, <1>2

\* QueryInv holds in every state.
LEMMA QueryInvariant == QuerySpec => []QueryInv
<1>1. QueryInit => QueryInv
  BY DEF QueryInit, Init, QueryInv
<1>2. TypeOK /\ FlowInv /\ QueryInv /\ [QueryNext]_allVars => QueryInv'
  <2>1. QueryInv /\ UNCHANGED allVars => QueryInv'
    BY DEF allVars, vars, queryVars, QueryInv, OrdersOf
  <2>2. QED BY <2>1, QueryKept
<1>3. QED BY <1>1, <1>2, PipelineHolds, PTL DEF QuerySpec

\* The variables of the query keep their types.
THEOREM QueryTypes == QuerySpec => []QueryTypeOK
<1>1. TypeOK /\ QueryInv => QueryTypeOK
  BY DEF QueryTypeOK, QueryInv
<1>2. QED BY <1>1, PipelineHolds, QueryInvariant, PTL

\* A product that was once shown as bought is not "pending" later, unless the
\* SELECT fails, the batch had failed, or the user has too many rows.
THEOREM BoughtIsNotUnsaid == QuerySpec => NeverUnsaid
<1>1. ASSUME TypeOK, QueryInv, [QueryNext]_allVars, NEW p \in Products,
             answer[p] # 0, answer'[p] = 0
      PROVE  faults' > faults \/ answer[p] \in failed \/ Cardinality(db) > QueryLimit
  <2>1. SelectNone(p)
    BY <1>1, UnsaidBySelect
  <2>2. CASE \E R \in Rows : R \cap OrdersOf(p) = {}
    <3>1. PICK R \in SUBSET db : /\ R \cap OrdersOf(p) = {}
                                 /\ Cardinality(R) = Earlier(Cardinality(db), QueryLimit)
      BY <2>2 DEF Rows
    <3>2. db \in SUBSET Messages
      BY <1>1 DEF TypeOK
    <3>3. IsFiniteSet(db) /\ Cardinality(db) \in Nat
      BY <3>2, Counted
    <3>4. Cardinality(db) <= QueryLimit => R = db
      BY <3>1, <3>3, FS_Subset, QueryLimitAssumption DEF Earlier
    <3>5. R = db => answer[p] \in failed
      BY <1>1, <3>1 DEF QueryInv
    <3>6. QED BY <3>3, <3>4, <3>5, QueryLimitAssumption
  <2>3. CASE Fault
    BY <1>1, <2>3 DEF Fault, TypeOK
  <2>4. QED BY <2>1, <2>2, <2>3 DEF SelectNone
<1>2. TypeOK /\ QueryInv /\ [QueryNext]_allVars =>
          [\A p \in Products :
              answer[p] # 0 /\ answer'[p] = 0 =>
                  \/ faults' > faults \/ answer[p] \in failed
                  \/ Cardinality(db) > QueryLimit]_allVars
  BY <1>1
<1>3. QED BY <1>2, PipelineHolds, QueryInvariant, PTL DEF QuerySpec, NeverUnsaid

\* In a process without a crash or a fault, the keys follow the announcements,
\* which come in the order of the stream: what is stored is announced or about
\* to be, and no key is behind an announced order of its product.
Announced ==
    /\ pc = "down" => pel = {}
    /\ pc \in {"down", "recover", "recack", "recreject", "recdead"} =>
           todo = {} /\ pc \in {"down", "recover"}
    /\ \A m \in db \ told : pc = "notify" /\ m \in todo
    /\ cache = told

InOrder ==
    /\ pc \in {"parse", "insert"} => \A k \in told : \A m \in todo \cup ready : k < m
    /\ pc = "notify" => \A k \in told : \A m \in todo : k < m

KeysFollow ==
    \A p \in Products : result[p] # 0 => \A m \in told \cap OrdersOf(p) : m <= result[p]

NewestInv == InOrder /\ (faults = 0 /\ crashes = 0 => Announced /\ KeysFollow)

\* Announcements come in the order of the stream.
LEMMA OrderKept ==
    ASSUME TypeOK, FlowInv, InOrder, Next
    PROVE  InOrder'
<1>1. CASE Poll
  <2>1. \A k \in told : k <= delivered /\ k \in Nat
    BY DEF FlowInv, Positions, TypeOK, Messages
  <2>2. \A m \in Unread : delivered < m /\ m \in Nat
    BY ReadRange DEF Messages
  <2>3. delivered \in Nat /\ ready = {}
    BY <1>1 DEF TypeOK, FlowInv, Held, Batch, Poll
  <2>4. pc' = "parse" /\ todo' = Unread /\ UNCHANGED <<told, ready>>
    BY <1>1 DEF Poll, outside
  <2> HIDE DEF Unread
  <2>5. \A k \in told : \A m \in Unread : k < m
    BY <2>1, <2>2, <2>3
  <2>6. QED BY <2>3, <2>4, <2>5 DEF InOrder
<1>2. ASSUME NEW m \in Messages, Notify(m)
      PROVE  InOrder'
  <2>1. /\ pc = "notify" /\ pc' = pc /\ Oldest(m, todo)
        /\ told' = told \cup {m} /\ todo' = todo \ {m}
    BY <1>2 DEF Notify
  <2>2. \A k \in todo \ {m} : m < k
    BY <2>1 DEF Oldest, TypeOK, Messages
  <2>3. QED BY <2>1, <2>2 DEF InOrder
<1>3. CASE Insert \/ InsertFails
  BY <1>3 DEF Insert, InsertFails, InOrder
<1>4. CASE Parsed \/ Notified \/ Acked
  BY <1>4 DEF Parsed, Notified, Acked, InOrder, outside
<1>5. ASSUME NEW m \in Messages, ParseMalformed(m) \/ Parse(m)
      PROVE  InOrder'
  BY <1>5 DEF ParseMalformed, Parse, InOrder, Oldest, outside
<1>6. ASSUME NEW m \in Messages, Ack(m)
      PROVE  InOrder'
  BY <1>6 DEF Ack, InOrder
<1>7. CASE Add \/ Boot \/ ConnectionLost \/ Crash \/ PollLost
  BY <1>7 DEF Add, Boot, ConnectionLost, Crash, PollLost, InOrder, outside
<1>8. CASE Recover
  BY <1>8 DEF Recover, RecoverUnreadable, RecoverOrder, RecoverStored, RecoverRejected,
              RecoverFails, RecoverAck, RecoverAckRejected, RecoverDeadLetter, Recovered,
              InOrder
<1>9. QED BY <1>1, <1>2, <1>3, <1>4, <1>5, <1>6, <1>7, <1>8 DEF Next, Process

\* Nothing is stored but by a batch that is then announced.
LEMMA AnnouncedKept ==
    ASSUME TypeOK, FlowInv, Announced, Next, faults' = 0, crashes' = 0
    PROVE  Announced'
<1>0. faults \in Nat /\ crashes \in Nat
  BY DEF TypeOK
<1>1. CASE Add
  BY <1>1 DEF Add, Announced, outside
<1>2. CASE Boot
  <2>1. pc = "down" /\ pel = {} /\ pc' = "recover" /\ UNCHANGED <<pel, outside>>
        /\ todo' \in {Pending(pel), {}}
    BY <1>2 DEF Boot, Announced
  <2>2. Pending(pel) = {}
    BY <2>1 DEF Pending, Lowest
  <2>3. QED BY <2>1, <2>2 DEF Announced, outside
<1>3. CASE ConnectionLost \/ Crash \/ PollLost \/ InsertFails
  BY <1>0, <1>3 DEF ConnectionLost, Crash, PollLost, InsertFails, Fault
<1>4. CASE Recover
  <2>1. Recovered
    BY <1>4 DEF Recover, RecoverUnreadable, RecoverOrder, RecoverStored, RecoverRejected,
                RecoverFails, RecoverAck, RecoverAckRejected, RecoverDeadLetter, Announced,
                Oldest
  <2>2. QED BY <2>1 DEF Recovered, Announced, outside
<1>5. CASE Poll
  BY <1>5 DEF Poll, Announced, outside
<1>6. CASE Parsed \/ Insert
  BY <1>6 DEF Parsed, Insert, Announced, outside
<1>7. CASE Notified \/ Acked
  BY <1>7 DEF Notified, Acked, Announced, outside
<1>8. ASSUME NEW m \in Messages, ParseMalformed(m) \/ Parse(m) \/ Ack(m)
      PROVE  Announced'
  BY <1>8 DEF ParseMalformed, Parse, Ack, Announced, outside
<1>9. ASSUME NEW m \in Messages, Notify(m)
      PROVE  Announced'
  BY <1>0, <1>9 DEF Notify, Announced, Fault
<1>10. QED BY <1>1, <1>2, <1>3, <1>4, <1>5, <1>6, <1>7, <1>8, <1>9 DEF Next, Process

\* The announcement of an order overwrites the key of its product.
LEMMA KeysKept ==
    ASSUME TypeOK, FlowInv, QueryInv, InOrder, Announced, KeysFollow, Pipeline,
           Announced'
    PROVE  KeysFollow'
<1>1. /\ Next /\ result' = Keyed(told' \ told) /\ goods' = goods
      /\ \A p \in Products : OrdersOf(p)' = OrdersOf(p)
  BY DEF Pipeline, Announced, OrdersOf
<1>2. CASE told' = told
  <2>1. \A p \in Products : result'[p] = result[p]
    BY <1>1, <1>2, KeyedIs
  <2>2. QED BY <1>1, <1>2, <2>1 DEF KeysFollow
<1>3. ASSUME NEW m \in Messages, Notify(m)
      PROVE  KeysFollow'
  <2>1. /\ told' = told \cup {m} /\ m \in todo /\ pc = "notify"
    BY <1>3 DEF Notify, Oldest
  <2>2. told' \ told = {m} /\ \A k \in told : k < m /\ k \in Nat
    BY <2>1 DEF FlowInv, Held, InOrder, TypeOK, Messages
  <2>3. m \in Nat
    BY DEF Messages
  <2> SUFFICES ASSUME NEW p \in Products, result'[p] # 0,
                      NEW k \in told' \cap OrdersOf(p)
               PROVE  k <= result'[p]
    BY <1>1 DEF KeysFollow
  <2>4. CASE m \in OrdersOf(p)
    <3>1. result'[p] = m
      BY <1>1, <2>2, <2>4, KeyedIs
    <3>2. QED BY <2>1, <2>2, <2>3, <3>1
  <2>5. CASE m \notin OrdersOf(p)
    <3>1. result'[p] = result[p] /\ k \in told
      BY <1>1, <2>1, <2>2, <2>5, KeyedIs
    <3>2. QED BY <3>1 DEF KeysFollow
  <2>6. QED BY <2>4, <2>5
<1>4. Next => told' = told \/ \E m \in Messages : Notify(m)
  BY DEF Next, Add, Boot, ConnectionLost, Crash, Recover, RecoverUnreadable, RecoverStored,
         RecoverRejected, RecoverFails, RecoverAck, RecoverAckRejected, RecoverDeadLetter,
         Recovered, Process, Poll, PollLost, Parsed, Insert, InsertFails, Notified, Acked,
         ParseMalformed, Parse, Ack, outside
<1>5. QED BY <1>1, <1>2, <1>3, <1>4

\* A key is stale only until the announcement in progress overwrites it, in a
\* process without a crash or a fault.
THEOREM HitsAreNewest == QuerySpec => []HitIsNewest
<1>1. QueryInit => NewestInv
  BY DEF QueryInit, Init, NewestInv, InOrder, Announced, KeysFollow
<1>2. ASSUME TypeOK, FlowInv, QueryInv, NewestInv, QueryNext
      PROVE  NewestInv'
  <2>0. faults \in Nat /\ crashes \in Nat
    BY <1>2 DEF TypeOK
  <2>1. CASE Pipeline
    <3>1. Next
      BY <2>1 DEF Pipeline
    <3>2. InOrder'
      BY <1>2, <3>1, OrderKept DEF NewestInv
    <3>3. ASSUME faults' = 0, crashes' = 0
          PROVE  Announced' /\ KeysFollow'
      <4>1. Announced /\ KeysFollow
        BY <1>2, <2>0, <3>1, <3>3, PipelineMoves DEF NewestInv
      <4>2. Announced'
        BY <1>2, <3>1, <3>3, <4>1, AnnouncedKept
      <4>3. QED BY <1>2, <2>1, <4>1, <4>2, KeysKept DEF NewestInv
    <3>4. QED BY <3>2, <3>3 DEF NewestInv
  <2>2. CASE ~Pipeline
    <3>1. /\ UNCHANGED <<pc, todo, ready, pel, db, told, cache, crashes, goods>>
          /\ faults' = 0 => faults = 0
      BY <1>2, <2>0, <2>2, QuerySteps DEF outside, Fault
    <3>2. InOrder' /\ (Announced => Announced')
      BY <1>2, <3>1 DEF NewestInv, InOrder, Announced
    <3>3. \A p \in Products : result'[p] \in {0, result[p]} /\ OrdersOf(p)' = OrdersOf(p)
      BY <1>2, <2>2, <3>1 DEF QueryNext, Cancel, KeyExpires, AskHit, AskMiss, SelectFound,
                              SelectNone, QueryInv, OrdersOf
    <3>4. KeysFollow => KeysFollow'
      BY <3>1, <3>3 DEF KeysFollow
    <3>5. QED BY <1>2, <3>1, <3>2, <3>4 DEF NewestInv
  <2>3. QED BY <2>1, <2>2
<1>3. NewestInv /\ UNCHANGED allVars => NewestInv'
  BY DEF allVars, vars, queryVars, NewestInv, InOrder, Announced, KeysFollow, OrdersOf
<1>4. ASSUME TypeOK, NewestInv, QueryInv
      PROVE  HitIsNewest
  <2> SUFFICES ASSUME faults = 0, crashes = 0, NEW p \in Products, NEW m \in Newer(p)
               PROVE  pc = "notify" /\ m \in todo
    BY DEF HitIsNewest
  <2>1. m \in db \cap OrdersOf(p) /\ result[p] # 0 /\ ~(m <= result[p])
    BY <1>4 DEF Newer, QueryInv, OrdersOf, Messages
  <2>2. m \notin told
    BY <1>4, <2>1 DEF NewestInv, KeysFollow
  <2>3. QED BY <1>4, <2>1, <2>2 DEF NewestInv, Announced
<1>5. TypeOK /\ FlowInv /\ QueryInv /\ NewestInv /\ [QueryNext]_allVars => NewestInv'
  BY <1>2, <1>3
<1>6. QED BY <1>1, <1>4, <1>5, PipelineHolds, QueryInvariant, PTL DEF QuerySpec
================================================================================
