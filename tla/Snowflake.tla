-------------------------------- MODULE Snowflake --------------------------------
(***************************************************************************)
(* The generator of order ids of one worker.                               *)
(*                                                                         *)
(* nextId holds a mutex from its first line to its last, also while it     *)
(* waits for the clock, so calls do not overlap and one program counter is *)
(* enough: "idle" (the mutex is free), "behind" (the clock is a little     *)
(* behind the last id) and "full" (the sequence numbers of this            *)
(* millisecond are used up).  What interleaves with a call is the clock,   *)
(* which can be set back while a call waits, and a restart of the process, *)
(* which forgets the last id.                                              *)
(***************************************************************************)
EXTENDS Integers

CONSTANTS
    WorkerId,
    WorkerRange,   \* 2^kWorkerIdBits
    SeqRange,      \* 2^kSequenceBits
    TimeRange,     \* 2^(64 - kTimestampShift): what the shift leaves of the time
    Epoch,         \* kEpoch
    Tolerance,     \* kClockBackoffToleranceMs
    MaxClock,      \* bound: the latest time
    MaxRestarts    \* bound: restarts of the process

ASSUME LayoutAssumption ==
    /\ WorkerRange \in Nat \ {0} /\ SeqRange \in Nat \ {0} /\ TimeRange \in Nat \ {0}
    /\ WorkerId \in 0..(WorkerRange - 1)
ASSUME ClockAssumption ==
    /\ Epoch \in Nat \ {0} /\ Tolerance \in Nat /\ MaxClock \in Nat
    /\ Epoch <= MaxClock /\ MaxClock < Epoch + TimeRange
ASSUME RestartsAssumption == MaxRestarts \in Nat

VARIABLES
    clock,           \* system_clock, in milliseconds
    lastTimestamp,   \* 0 until the process has issued an id
    sequence,
    pc,
    ids,             \* ids issued since the worker was first started
    \* history
    newest,          \* the latest millisecond an id was issued for
    repeated,        \* TRUE iff an id was issued twice
    rewound,         \* TRUE iff a new process began at or before "newest"
    restarts

vars == <<clock, lastTimestamp, sequence, pc, ids, newest, repeated, rewound, restarts>>

\* [ time | worker | sequence ] in 64 bits: a clock before the epoch wraps.
Id(ts, seq) ==
    (((ts - Epoch) % TimeRange) * WorkerRange + WorkerId) * SeqRange + seq

Issue(ts, seq) ==
    /\ lastTimestamp' = ts
    /\ sequence' = seq
    /\ ids' = ids \cup {Id(ts, seq)}
    /\ newest' = IF ts > newest THEN ts ELSE newest
    /\ repeated' = (repeated \/ Id(ts, seq) \in ids)
    /\ pc' = "idle"

\* A process that has issued nothing yet knows nothing of the ids before it.
Begin == rewound' = (rewound \/ (lastTimestamp = 0 /\ clock <= newest))

--------------------------------------------------------------------------------
\* A new millisecond: the sequence starts again.
NextNewMs ==
    /\ pc = "idle" /\ clock > lastTimestamp
    /\ Begin
    /\ Issue(clock, 0)
    /\ UNCHANGED <<clock, restarts>>

\* The same millisecond: the next number, or wait for the next millisecond.
NextSameMs ==
    /\ pc = "idle" /\ clock = lastTimestamp
    /\ LET seq == (sequence + 1) % SeqRange IN
       \/ seq # 0 /\ Issue(clock, seq)
       \/ /\ seq = 0
          /\ sequence' = 0
          /\ pc' = "full"
          /\ UNCHANGED <<lastTimestamp, ids, newest, repeated>>
    /\ UNCHANGED <<clock, rewound, restarts>>

NextBehind_NoWait ==
    /\ pc = "idle" /\ clock < lastTimestamp
    /\ lastTimestamp - clock <= Tolerance
    /\ Issue(clock, 0)
    /\ UNCHANGED <<clock, rewound, restarts>>

\* The clock is behind, by no more than the tolerance: wait.  (Further back,
\* nextId throws and changes nothing.)
NextBehind ==
    /\ pc = "idle" /\ clock < lastTimestamp
    /\ lastTimestamp - clock <= Tolerance
    /\ pc' = "behind"
    /\ UNCHANGED <<clock, lastTimestamp, sequence, ids, newest, repeated, rewound, restarts>>

WaitOver_Reached == pc # "idle" /\ clock >= lastTimestamp

\* waitNextMillis spins until the clock has passed the last id.
WaitOver == pc # "idle" /\ clock > lastTimestamp

\* After either wait the millisecond is new, and the sequence is 0.
NextWaited ==
    /\ WaitOver
    /\ Issue(clock, 0)
    /\ UNCHANGED <<clock, rewound, restarts>>

\* Time passes, or the clock is set back.
Advance ==
    /\ clock < MaxClock
    /\ clock' = clock + 1
    /\ UNCHANGED <<lastTimestamp, sequence, pc, ids, newest, repeated, rewound, restarts>>

SetBack ==
    /\ \E c \in Epoch..(clock - 1) : clock' = c
    /\ UNCHANGED <<lastTimestamp, sequence, pc, ids, newest, repeated, rewound, restarts>>

\* The process dies and is started again with the same worker id.
Restart ==
    /\ restarts < MaxRestarts
    /\ restarts' = restarts + 1
    /\ lastTimestamp' = 0 /\ sequence' = 0 /\ pc' = "idle"
    /\ UNCHANGED <<clock, ids, newest, repeated, rewound>>

Init ==
    /\ clock = Epoch
    /\ lastTimestamp = 0 /\ sequence = 0 /\ pc = "idle"
    /\ ids = {} /\ newest = 0 /\ repeated = FALSE /\ rewound = FALSE /\ restarts = 0

NextId == NextNewMs \/ NextSameMs \/ NextBehind \/ NextWaited

Next == NextId \/ Advance \/ SetBack \/ Restart

Spec == Init /\ [][Next]_vars

--------------------------------------------------------------------------------
(* Properties. *)

\* The values the variables take; a call that waits for a full millisecond has
\* already reset the sequence.
TypeOK ==
    /\ clock \in Epoch..MaxClock
    /\ lastTimestamp \in {0} \cup Epoch..MaxClock
    /\ sequence \in 0..(SeqRange - 1)
    /\ pc \in {"idle", "behind", "full"}
    /\ pc = "full" => sequence = 0
    /\ ids \subseteq Nat
    /\ newest \in {0} \cup Epoch..MaxClock
    /\ repeated \in BOOLEAN /\ rewound \in BOOLEAN /\ restarts \in Nat

\* No id is issued twice, however the clock is set, as long as a restarted
\* process begins after the last id of its predecessor.
UniqueIds == ~rewound => ~repeated

\* While a process lives, each id it issues is larger than all before it, so
\* the order of the ids is the order of the sales.
AscendingIds ==
    [][ids' # ids /\ ~rewound' =>
          \A i \in ids, j \in ids' \ ids : i < j]_vars
================================================================================
