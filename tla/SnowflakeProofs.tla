---------------------------- MODULE SnowflakeProofs -----------------------------
(***************************************************************************)
(* The ids of a worker are unique and ascending for every layout, every    *)
(* tolerance and every behaviour of the clock.                             *)
(***************************************************************************)
EXTENDS Snowflake, TLAPS

Times == Epoch..MaxClock
Seqs == 0..(SeqRange - 1)

\* Every id is made of a time and a sequence number.
Formed == \A i \in ids : \E ts \in Epoch..newest, s \in Seqs : i = Id(ts, s)

\* What the live process knows of the ids before: its last time is the newest
\* one, and its last id the largest.
Knows ==
    ~rewound /\ lastTimestamp # 0 =>
        /\ lastTimestamp = newest
        /\ pc # "full" => \A i \in ids : i <= Id(lastTimestamp, sequence)

\* A call waits for a time to pass, so there is one.
WaitsForLast == pc # "idle" => lastTimestamp # 0

IdInv == TypeOK /\ Formed /\ Knows /\ WaitsForLast /\ UniqueIds

--------------------------------------------------------------------------------
(* The layout. *)

\* The fields do not overlap: an id of a later time, or of the same time and a
\* higher sequence number, is larger.
LEMMA IdOrder ==
    ASSUME NEW ts \in Times, NEW us \in Times, NEW s \in Seqs, NEW r \in Seqs,
           ts < us \/ (ts = us /\ s < r)
    PROVE  Id(ts, s) < Id(us, r)
<1> DEFINE a == ts - Epoch
           b == us - Epoch
<1>1. a \in Nat /\ b \in Nat /\ a < TimeRange /\ b < TimeRange
  BY ClockAssumption, LayoutAssumption DEF Times
<1>2. a % TimeRange = a /\ b % TimeRange = b
  BY <1>1, LayoutAssumption
<1>3. /\ WorkerRange \in Nat /\ SeqRange \in Nat /\ WorkerId \in Nat
      /\ WorkerId < WorkerRange /\ SeqRange > 0
      /\ s \in Nat /\ r \in Nat /\ s < SeqRange /\ r < SeqRange
  BY LayoutAssumption DEF Seqs
<1>4. CASE ts = us /\ s < r
  BY <1>1, <1>2, <1>3, <1>4 DEF Id, Times
<1>5. CASE ts < us
  <2> DEFINE x == a * WorkerRange + WorkerId
             y == b * WorkerRange + WorkerId
  <2>1. a + 1 <= b
    BY <1>1, <1>5, ClockAssumption DEF Times
  <2>2. (a + 1) * WorkerRange <= b * WorkerRange
    <3> HIDE DEF a, b
    <3>1. QED BY <2>1, <1>1, <1>3
  <2>3. x \in Nat /\ y \in Nat /\ x + 1 <= y
    <3> HIDE DEF a, b
    <3>1. (a + 1) * WorkerRange = a * WorkerRange + WorkerRange
      BY <1>1, <1>3
    <3>2. a * WorkerRange \in Nat /\ b * WorkerRange \in Nat
      BY <1>1, <1>3
    <3>3. QED BY <2>2, <3>1, <3>2, <1>3
  <2>4. x * SeqRange + s < y * SeqRange + r
    <3> HIDE DEF x, y
    <3>1. (x + 1) * SeqRange <= y * SeqRange
      BY <2>3, <1>3
    <3>2. (x + 1) * SeqRange = x * SeqRange + SeqRange
      BY <2>3, <1>3
    <3>3. x * SeqRange \in Nat /\ y * SeqRange \in Nat
      BY <2>3, <1>3
    <3>4. QED BY <3>1, <3>2, <3>3, <1>3
  <2>5. QED BY <2>4, <1>2 DEF Id
<1>6. QED BY <1>4, <1>5

\* An id is a number: a clock within the bounds does not wrap.
LEMMA IdNat ==
    ASSUME NEW ts \in Times, NEW s \in Seqs
    PROVE  Id(ts, s) \in Nat
<1> DEFINE a == ts - Epoch
<1>1. a \in Nat /\ a < TimeRange
  BY ClockAssumption, LayoutAssumption DEF Times
<1>2. a % TimeRange = a
  BY <1>1, LayoutAssumption
<1>3. (a * WorkerRange + WorkerId) * SeqRange + s \in Nat
  <2> HIDE DEF a
  <2>1. a * WorkerRange + WorkerId \in Nat
    BY <1>1, LayoutAssumption
  <2>2. QED BY <2>1, LayoutAssumption DEF Seqs
<1>4. QED BY <1>2, <1>3 DEF Id

--------------------------------------------------------------------------------
(* One issue. *)

\* Issuing an id that is larger than all before keeps the invariant, and the
\* new id is larger than the old ones.
LEMMA IssueKeeps ==
    ASSUME IdInv, clock \in Times, clock' = clock, restarts' = restarts,
           rewound' \in BOOLEAN, ~rewound' => ~rewound,
           ~rewound' => newest <= clock,
           NEW s \in Seqs, Issue(clock, s),
           ~rewound' => \A i \in ids : i < Id(clock, s)
    PROVE  IdInv'
<1>1. Id(clock, s) \in Nat
  BY IdNat
<1>2. clock \in Nat /\ clock # 0 /\ newest \in Nat
  BY ClockAssumption DEF Times, IdInv, TypeOK
<1>3. newest' \in {0} \cup Times /\ clock <= newest' /\ newest <= newest'
  BY <1>2 DEF Issue, IdInv, TypeOK, Times
<1>4. TypeOK'
  <2>1. repeated' \in BOOLEAN
    BY Zenon DEF Issue, IdInv, TypeOK
  <2>2. rewound' \in BOOLEAN /\ restarts' \in Nat /\ ids' \subseteq Nat
    BY <1>1 DEF Issue, IdInv, TypeOK
  <2>3. /\ clock' \in Times /\ lastTimestamp' \in Times /\ sequence' \in Seqs
        /\ pc' = "idle"
    BY DEF Issue
  <2>4. QED BY <1>3, <2>1, <2>2, <2>3 DEF TypeOK, Times, Seqs
<1>5. Formed'
  <2> SUFFICES ASSUME NEW i \in ids'
               PROVE  \E ts \in Epoch..newest', r \in Seqs : i = Id(ts, r)
    BY DEF Formed
  <2>1. CASE i \in ids
    <3>1. PICK ts \in Epoch..newest, r \in Seqs : i = Id(ts, r)
      BY <2>1 DEF IdInv, Formed
    <3>2. ts \in Epoch..newest'
      BY <1>2, <1>3, ClockAssumption DEF Times
    <3>3. QED BY <3>1, <3>2
  <2>2. CASE i = Id(clock, s)
    <3>1. clock \in Epoch..newest'
      BY <1>3, ClockAssumption DEF Times
    <3>2. QED BY <2>2, <3>1
  <2>3. QED BY <2>1, <2>2 DEF Issue
<1>6. Knows'
  <2> SUFFICES ASSUME ~rewound'
               PROVE  /\ lastTimestamp' = newest'
                      /\ \A i \in ids' : i <= Id(lastTimestamp', sequence')
    BY DEF Knows
  <2>1. newest' = clock
    BY <1>2 DEF Issue
  <2>2. \A i \in ids : i <= Id(clock, s)
    BY <1>1 DEF IdInv, TypeOK
  <2>3. QED BY <1>1, <2>1, <2>2 DEF Issue
<1>7. WaitsForLast'
  BY DEF Issue, WaitsForLast
<1>8. UniqueIds'
  <2> SUFFICES ASSUME ~rewound', repeated'
               PROVE  FALSE
    BY DEF UniqueIds
  <2>1. ~repeated
    BY DEF IdInv, UniqueIds
  <2>2. Id(clock, s) \in ids
    BY <2>1 DEF Issue
  <2>3. QED BY <1>1, <2>2
<1>9. QED BY <1>4, <1>5, <1>6, <1>7, <1>8 DEF IdInv

\* The ids issued so far are smaller than any id of a later time.
LEMMA LaterIsLarger ==
    ASSUME IdInv, clock \in Times, newest < clock
    PROVE  \A i \in ids : i < Id(clock, 0)
<1> SUFFICES ASSUME NEW i \in ids PROVE i < Id(clock, 0)
  OBVIOUS
<1>1. PICK ts \in Epoch..newest, r \in Seqs : i = Id(ts, r)
  BY DEF IdInv, Formed
<1>2. ts \in Times /\ ts < clock
  BY <1>1, ClockAssumption DEF IdInv, TypeOK, Times
<1>3. 0 \in Seqs
  BY LayoutAssumption DEF Seqs
<1>4. QED BY <1>1, <1>2, <1>3, IdOrder

\* nextId in a new millisecond, also the first of a new process.
LEMMA NewMs ==
    ASSUME IdInv, NextNewMs
    PROVE  IdInv' /\ (~rewound' => \A i \in ids : i < Id(clock, 0))
<1>1. clock \in Times /\ 0 \in Seqs /\ newest \in {0} \cup Times
  BY LayoutAssumption DEF IdInv, TypeOK, Times, Seqs
<1>2. rewound' \in BOOLEAN /\ (~rewound' => ~rewound)
  BY DEF NextNewMs, Begin, IdInv, TypeOK
<1>3. ASSUME ~rewound' PROVE newest < clock
  <2>1. CASE lastTimestamp = 0
    <3>1. ~(clock <= newest)
      BY <1>3, <2>1, Zenon DEF NextNewMs, Begin
    <3>2. QED BY <1>1, <3>1, ClockAssumption DEF Times
  <2>2. CASE lastTimestamp # 0
    BY <1>2, <1>3, <2>2 DEF NextNewMs, IdInv, Knows
  <2>3. QED BY <2>1, <2>2
<1>4. ~rewound' => \A i \in ids : i < Id(clock, 0)
  BY <1>1, <1>3, LaterIsLarger
<1>5. ~rewound' => newest <= clock
  BY <1>1, <1>3, ClockAssumption DEF Times
<1>6. IdInv'
  BY <1>1, <1>2, <1>4, <1>5, IssueKeeps DEF NextNewMs
<1>7. QED BY <1>4, <1>6

\* nextId in the millisecond of the last id.
LEMMA SameMs ==
    ASSUME IdInv, NextSameMs
    PROVE  /\ IdInv'
           /\ \/ ids' = ids
              \/ \E s \in Seqs : /\ Issue(clock, s)
                                 /\ ~rewound' => \A i \in ids : i < Id(clock, s)
<1> DEFINE seq == (sequence + 1) % SeqRange
<1>1. clock \in Times /\ sequence \in Seqs /\ newest \in {0} \cup Times
  BY DEF IdInv, TypeOK, Times, Seqs
<1>2. sequence + 1 < SeqRange => seq = sequence + 1
  BY <1>1, LayoutAssumption DEF Seqs
<1>3. sequence + 1 = SeqRange => seq = 0
  BY LayoutAssumption
<1>4. seq \in Seqs /\ (seq # 0 => seq = sequence + 1)
  <2> HIDE DEF seq
  <2>1. sequence + 1 < SeqRange \/ sequence + 1 = SeqRange
    BY <1>1, LayoutAssumption DEF Seqs
  <2>2. QED BY <1>1, <1>2, <1>3, <2>1, LayoutAssumption DEF Seqs
<1>5. rewound' = rewound /\ clock' = clock /\ restarts' = restarts /\ clock # 0
      /\ pc = "idle" /\ lastTimestamp = clock
  BY <1>1, ClockAssumption DEF NextSameMs, Times
<1> HIDE DEF seq
<1>6. CASE seq # 0 /\ Issue(clock, seq)
  <2>1. ASSUME ~rewound', NEW i \in ids PROVE i < Id(clock, seq)
    <3>1. i <= Id(clock, sequence)
      BY <1>5, <2>1 DEF IdInv, Knows
    <3>2. Id(clock, sequence) < Id(clock, seq)
      <4>1. sequence < seq
        BY <1>1, <1>4, <1>6 DEF Seqs
      <4>2. QED BY <1>1, <1>4, <4>1, IdOrder
    <3>3. i \in Nat /\ Id(clock, sequence) \in Nat /\ Id(clock, seq) \in Nat
      BY <1>1, <1>4, IdNat DEF IdInv, TypeOK
    <3>4. QED BY <3>1, <3>2, <3>3
  <2>2. ~rewound' => newest <= clock
    BY <1>1, <1>5, ClockAssumption DEF IdInv, Knows, Times
  <2>3. rewound' \in BOOLEAN /\ (~rewound' => ~rewound)
    BY <1>5 DEF IdInv, TypeOK
  <2>4. IdInv'
    BY <1>1, <1>4, <1>5, <1>6, <2>1, <2>2, <2>3, IssueKeeps
  <2>5. QED BY <1>4, <1>6, <2>1, <2>4
<1>7. CASE /\ seq = 0 /\ sequence' = 0 /\ pc' = "full"
           /\ UNCHANGED <<lastTimestamp, ids, newest, repeated>>
  <2>1. TypeOK'
    BY <1>5, <1>7, LayoutAssumption DEF IdInv, TypeOK
  <2>2. Formed' /\ Knows' /\ WaitsForLast' /\ UniqueIds'
    BY <1>5, <1>7 DEF IdInv, Formed, Knows, WaitsForLast, UniqueIds, Id
  <2>3. QED BY <1>7, <2>1, <2>2 DEF IdInv
<1>8. QED BY <1>6, <1>7 DEF NextSameMs, seq

\* nextId after it has waited for the clock.
LEMMA Waited ==
    ASSUME IdInv, NextWaited
    PROVE  IdInv' /\ (~rewound' => \A i \in ids : i < Id(clock, 0))
<1>1. clock \in Times /\ 0 \in Seqs /\ newest \in {0} \cup Times
  BY LayoutAssumption DEF IdInv, TypeOK, Times, Seqs
<1>2. rewound' \in BOOLEAN /\ (~rewound' => ~rewound)
  BY DEF NextWaited, IdInv, TypeOK
<1>3. ~rewound' => newest < clock
  BY <1>2 DEF NextWaited, WaitOver, IdInv, Knows, WaitsForLast
<1>4. ~rewound' => \A i \in ids : i < Id(clock, 0)
  BY <1>1, <1>3, LaterIsLarger
<1>5. ~rewound' => newest <= clock
  BY <1>1, <1>3, ClockAssumption DEF Times
<1>6. IdInv'
  BY <1>1, <1>2, <1>4, <1>5, IssueKeeps DEF NextWaited
<1>7. QED BY <1>4, <1>6

\* Waiting, the clock and a restart change no id.
LEMMA OthersKeep ==
    ASSUME IdInv,
           NextBehind \/ Advance \/ SetBack \/ Restart \/ UNCHANGED vars
    PROVE  IdInv' /\ ids' = ids
<1>1. CASE NextBehind
  BY <1>1, ClockAssumption, SMTT(30)
     DEF NextBehind, IdInv, TypeOK, Formed, Knows, WaitsForLast, UniqueIds, Id
<1>2. CASE Advance
  BY <1>2, ClockAssumption, SMTT(30)
     DEF Advance, IdInv, TypeOK, Formed, Knows, WaitsForLast, UniqueIds, Id
<1>3. CASE SetBack
  BY <1>3, ClockAssumption, SMTT(30)
     DEF SetBack, IdInv, TypeOK, Formed, Knows, WaitsForLast, UniqueIds, Id
<1>4. CASE Restart
  BY <1>4, LayoutAssumption, RestartsAssumption, SMTT(30)
     DEF Restart, IdInv, TypeOK, Formed, Knows, WaitsForLast, UniqueIds, Id
<1>5. CASE UNCHANGED vars
  BY <1>5 DEF vars, IdInv, TypeOK, Formed, Knows, WaitsForLast, UniqueIds, Id
<1>6. QED BY <1>1, <1>2, <1>3, <1>4, <1>5

--------------------------------------------------------------------------------
(* Theorems. *)

\* The invariant of the generator.
THEOREM IdInvariant == Spec => []IdInv
<1>1. Init => IdInv
  <2> SUFFICES ASSUME Init PROVE IdInv
    OBVIOUS
  <2>1. repeated \in BOOLEAN /\ rewound \in BOOLEAN
    BY DEF Init
  <2>2. TypeOK
    BY <2>1, ClockAssumption, LayoutAssumption DEF Init, TypeOK
  <2>3. Formed /\ Knows /\ WaitsForLast
    BY DEF Init, Formed, Knows, WaitsForLast
  <2>4. UniqueIds
    BY DEF Init, UniqueIds
  <2>5. QED BY <2>2, <2>3, <2>4 DEF IdInv
<1>2. IdInv /\ [Next]_vars => IdInv'
  BY NewMs, SameMs, Waited, OthersKeep DEF Next, NextId
<1>3. QED BY <1>1, <1>2, PTL DEF Spec

\* The clock, the fields of the generator and the ids stay in their ranges.
THEOREM TypesKept == Spec => []TypeOK
<1>1. IdInv => TypeOK
  BY DEF IdInv
<1>2. QED BY <1>1, IdInvariant, PTL

\* No id is issued twice, for every width of the fields, every tolerance and
\* every behaviour of the clock, as long as no process begins at or before the
\* last id of its predecessor.
THEOREM Unique == Spec => []UniqueIds
<1>1. IdInv => UniqueIds
  BY DEF IdInv
<1>2. QED BY <1>1, IdInvariant, PTL

\* Every id is larger than the ones before it.
THEOREM Ascending == Spec => AscendingIds
<1> DEFINE Up == ids' # ids /\ ~rewound' => \A i \in ids, j \in ids' \ ids : i < j
<1>1. IdInv /\ [Next]_vars => [Up]_vars
  <2> SUFFICES ASSUME IdInv, Next, ids' # ids, ~rewound',
                      NEW i \in ids, NEW j \in ids' \ ids
               PROVE  i < j
    BY DEF Up
  <2>1. CASE NextNewMs
    BY <2>1, NewMs DEF NextNewMs, Issue
  <2>2. CASE NextSameMs
    BY <2>2, SameMs DEF Issue
  <2>3. CASE NextWaited
    BY <2>3, Waited DEF NextWaited, Issue
  <2>4. QED BY <2>1, <2>2, <2>3, OthersKeep DEF Next, NextId
<1>2. QED BY <1>1, IdInvariant, PTL DEF Spec, AscendingIds
================================================================================
