---------------------------- MODULE MySQLPoolProofs -----------------------------
(***************************************************************************)
(* The connection pool for every number of callers and of connections:     *)
(* no connection is shared, lost or left idle under a sleeping caller.     *)
(***************************************************************************)
EXTENDS MySQLPool, SequenceTheorems, FiniteSetTheorems, TLAPS

Holders == {c \in Callers : conn[c] # Nobody}

\* A caller has a connection exactly while it pings or uses one.
HoldsAsItShould == \A c \in Callers : conn[c] # Nobody <=> at[c] \in {"ping", "using"}

PoolInv == PoolTypeOK /\ OneOwner /\ NothingLeaks /\ HoldsAsItShould /\ NoLostWakeup

--------------------------------------------------------------------------------
(* Initial states. *)

\* The pool starts with distinct open connections and no caller.
LEMMA PoolStarts == PoolInit => PoolInv
<1> SUFFICES ASSUME PoolInit PROVE PoolInv
  OBVIOUS
<1>1. PICK made \in 0..PoolSize :
          /\ idle \in [1..made -> Connections]
          /\ \A i, j \in 1..made : idle[i] = idle[j] => i = j
          /\ dropped = PoolSize - made
  BY DEF PoolInit
<1>2. made \in Nat /\ dropped \in Nat
  BY <1>1, PoolSizeAssumption
<1>3. idle \in Seq(Connections) /\ Len(idle) = made /\ DOMAIN idle = 1..made
  BY <1>1, <1>2
<1>4. PoolTypeOK
  BY <1>2, <1>3 DEF PoolInit, PoolTypeOK, PoolStates
<1>5. OneOwner
  BY <1>1, <1>3, PoolNobodyAssumption DEF PoolInit, OneOwner
<1>6. NothingLeaks
  <2>1. {c \in Callers : conn[c] # Nobody} = {}
    BY DEF PoolInit
  <2>2. Cardinality({c \in Callers : conn[c] # Nobody}) = 0
    BY <2>1, FS_EmptySet, Zenon
  <2>3. QED BY <1>1, <1>2, <1>3, <2>2, PoolSizeAssumption DEF NothingLeaks
<1>7. HoldsAsItShould /\ NoLostWakeup
  BY DEF PoolInit, HoldsAsItShould, NoLostWakeup, Sleepers
<1>8. QED BY <1>4, <1>5, <1>6, <1>7 DEF PoolInv

--------------------------------------------------------------------------------
(* Counting. *)

\* The callers on their way are finitely many, so that one more or less counts.
LEMMA ComingIsFinite ==
    ASSUME PoolTypeOK
    PROVE  /\ IsFiniteSet(Coming) /\ IsFiniteSet(Coming') /\ IsFiniteSet(Holders)
           /\ Cardinality(Coming) \in Nat /\ Cardinality(Holders) \in Nat
<1>1. /\ Coming \in SUBSET Callers /\ Coming' \in SUBSET Callers
      /\ Holders \in SUBSET Callers
  BY DEF Coming, Holders
<1>2. QED BY <1>1, PoolFiniteAssumption, FS_Subset, FS_CardinalityType

\* A step that takes a connection out, or leaves with none.
LEMMA TakeOutKeeps ==
    ASSUME PoolInv, NEW c \in Callers, TakeOut(c)
    PROVE  PoolInv'
<1> USE DEF PoolInv
<1>1. /\ Head(idle) \in Connections /\ Tail(idle) \in Seq(Connections)
      /\ Len(Tail(idle)) = Len(idle) - 1 /\ Len(idle) \in Nat /\ Len(idle) > 0
      /\ \A i \in 1..Len(Tail(idle)) : Tail(idle)[i] = idle[i + 1]
      /\ Head(idle) = idle[1]
  BY HeadTailProperties, LenProperties, EmptySeq DEF TakeOut, PoolTypeOK
<1>2. DOMAIN idle = 1..Len(idle) /\ DOMAIN Tail(idle) = 1..Len(Tail(idle))
  BY <1>1, LenProperties DEF PoolTypeOK
<1>3. /\ conn[c] = Nobody /\ conn'[c] = Head(idle) /\ Head(idle) # Nobody
      /\ \A d \in Callers : d # c => conn'[d] = conn[d]
  BY <1>1, PoolNobodyAssumption DEF TakeOut, HoldsAsItShould, PoolTypeOK
<1>4. PoolTypeOK'
  BY <1>1 DEF TakeOut, MoveTo, PoolTypeOK, PoolStates
<1>5. OneOwner'
  BY <1>1, <1>2, <1>3 DEF TakeOut, OneOwner
<1>6. NothingLeaks'
  <2>1. Holders' = Holders \cup {c} /\ c \notin Holders
    BY <1>3 DEF Holders
  <2>2. Cardinality(Holders') = Cardinality(Holders) + 1
    BY <2>1, ComingIsFinite, FS_AddElement
  <2>3. QED
    BY <1>1, <2>2, ComingIsFinite DEF TakeOut, NothingLeaks, Holders, PoolTypeOK
<1>7. HoldsAsItShould'
  BY <1>3 DEF TakeOut, MoveTo, HoldsAsItShould, PoolTypeOK
<1>8. NoLostWakeup'
  <2>1. Coming' = Coming \ {c} /\ c \in Coming /\ Sleepers' = Sleepers
    BY DEF TakeOut, MoveTo, Coming, Sleepers, PoolTypeOK
  <2>2. Cardinality(Coming') = Cardinality(Coming) - 1
    BY <2>1, ComingIsFinite, FS_RemoveElement
  <2>3. QED
    BY <1>1, <2>1, <2>2, ComingIsFinite DEF TakeOut, NoLostWakeup
<1>9. QED BY <1>4, <1>5, <1>6, <1>7, <1>8

--------------------------------------------------------------------------------
(* The other steps. *)

\* Steps that move callers and leave the connections alone.
LEMMA MovesKeep ==
    ASSUME PoolInv, UNCHANGED <<idle, open, conn, dropped>>
    PROVE  OneOwner' /\ NothingLeaks'
<1> QED BY DEF PoolInv, OneOwner, NothingLeaks

\* A caller that arrives, times out or wakes up comes for a connection.
LEMMA ArrivalKeeps ==
    ASSUME PoolInv, NEW c \in Callers, Call(c) \/ Expire(c) \/ WakeUp(c)
    PROVE  PoolInv'
<1> USE DEF PoolInv
<1>1. /\ UNCHANGED <<idle, open, mutex, conn, dropped>>
      /\ at[c] \in {"out", "asleep"}
      /\ \E p \in {"enter", "expired", "awake"} : at' = [at EXCEPT ![c] = p]
      /\ calls' \in Nat /\ pingFaults' \in Nat
  BY DEF Call, Expire, WakeUp, MoveTo, PoolTypeOK
<1>2. PoolTypeOK'
  BY <1>1 DEF PoolTypeOK, PoolStates
<1>3. OneOwner' /\ NothingLeaks'
  BY <1>1, MovesKeep
<1>4. HoldsAsItShould'
  BY <1>1 DEF HoldsAsItShould, PoolTypeOK
<1>5. NoLostWakeup'
  <2>1. Coming \in SUBSET Coming' /\ (Sleepers' # {} => Sleepers # {})
    BY <1>1 DEF Coming, Sleepers, PoolTypeOK
  <2>2. Cardinality(Coming) <= Cardinality(Coming') /\ Cardinality(Coming') \in Nat
    BY <2>1, ComingIsFinite, FS_Subset, FS_CardinalityType
  <2>3. Len(idle) \in Nat
    BY LenProperties DEF PoolTypeOK
  <2>4. QED BY <1>1, <2>1, <2>2, <2>3, ComingIsFinite DEF NoLostWakeup
<1>6. QED BY <1>2, <1>3, <1>4, <1>5

\* Nobody is needed on the way to an empty pool.
LEMMA FindEmptyKeeps ==
    ASSUME PoolInv, NEW c \in Callers, FindEmpty(c)
    PROVE  PoolInv'
<1> USE DEF PoolInv
<1>1. PoolTypeOK'
  BY DEF FindEmpty, MoveTo, PoolTypeOK, PoolStates
<1>2. OneOwner' /\ NothingLeaks'
  BY MovesKeep DEF FindEmpty
<1>3. HoldsAsItShould'
  BY DEF FindEmpty, MoveTo, HoldsAsItShould, PoolTypeOK
<1>4. NoLostWakeup'
  <2>1. Len(idle') = 0
    BY EmptySeq DEF FindEmpty
  <2>2. Cardinality(Coming') \in Nat
    BY ComingIsFinite, FS_CardinalityType
  <2>3. QED BY <2>1, <2>2 DEF NoLostWakeup
<1>5. QED BY <1>1, <1>2, <1>3, <1>4

\* The end of getConnection and of a guard without a connection.
LEMMA ReturnKeeps ==
    ASSUME PoolInv, NEW c \in Callers, PingAnswers(c) \/ Leave(c)
    PROVE  PoolInv'
<1> USE DEF PoolInv
<1>1. /\ UNCHANGED <<idle, open, conn, dropped, calls, pingFaults>>
      /\ mutex' \in Callers \cup {Nobody}
      /\ \/ at[c] = "ping" /\ at' = [at EXCEPT ![c] = "using"]
         \/ at[c] = "failed" /\ at' = [at EXCEPT ![c] = "out"]
  BY DEF PingAnswers, Leave, MoveTo, PoolTypeOK
<1>2. PoolTypeOK'
  BY <1>1 DEF PoolTypeOK, PoolStates
<1>3. OneOwner' /\ NothingLeaks'
  BY <1>1, MovesKeep
<1>4. HoldsAsItShould'
  BY <1>1 DEF HoldsAsItShould, PoolTypeOK
<1>5. NoLostWakeup'
  <2>1. Coming' = Coming /\ Sleepers' = Sleepers
    BY <1>1 DEF Coming, Sleepers, PoolTypeOK
  <2>2. QED BY <1>1, <2>1 DEF NoLostWakeup
<1>6. QED BY <1>2, <1>3, <1>4, <1>5

\* A new connection has an address that nothing open has.
LEMMA ReconnectKeeps ==
    ASSUME PoolInv, NEW c \in Callers, Reconnect(c)
    PROVE  PoolInv'
<1> USE DEF PoolInv
<1>1. PICK new \in NewConnection(conn[c]) :
          /\ conn' = [conn EXCEPT ![c] = new]
          /\ open' = (open \ {conn[c]}) \cup {new}
  BY DEF Reconnect
<1>2. conn[c] \in Connections /\ conn[c] # Nobody /\ at[c] = "ping"
  BY DEF Reconnect, HoldsAsItShould, PoolTypeOK
<1>3. /\ new \in Connections /\ new # Nobody
      /\ new = conn[c] \/ new \notin open
  BY <1>1, <1>2, PoolNobodyAssumption DEF NewConnection
<1>4. PoolTypeOK'
  BY <1>1, <1>2, <1>3 DEF Reconnect, MoveTo, PoolTypeOK, PoolStates
<1>5. OneOwner'
  BY <1>1, <1>2, <1>3 DEF Reconnect, OneOwner, PoolTypeOK
<1>6. NothingLeaks'
  <2>1. {d \in Callers : conn'[d] # Nobody} = {d \in Callers : conn[d] # Nobody}
    BY <1>1, <1>2, <1>3 DEF PoolTypeOK
  <2>2. QED BY <2>1 DEF Reconnect, NothingLeaks
<1>7. HoldsAsItShould'
  BY <1>1, <1>2, <1>3 DEF Reconnect, MoveTo, HoldsAsItShould, PoolTypeOK
<1>8. NoLostWakeup'
  <2>1. Coming' = Coming /\ Sleepers' = Sleepers
    BY <1>2 DEF Reconnect, MoveTo, Coming, Sleepers, PoolTypeOK
  <2>2. QED BY <2>1 DEF Reconnect, NoLostWakeup
<1>9. QED BY <1>4, <1>5, <1>6, <1>7, <1>8

\* A caller that gives up what it holds is one holder less.
LEMMA OneHolderLess ==
    ASSUME PoolInv, NEW c \in Callers, conn[c] # Nobody,
           conn' = [conn EXCEPT ![c] = Nobody]
    PROVE  Cardinality(Holders') = Cardinality(Holders) - 1
<1>1. Holders' = Holders \ {c} /\ c \in Holders
  BY DEF Holders, PoolInv, PoolTypeOK
<1>2. QED BY <1>1, ComingIsFinite, FS_RemoveElement DEF PoolInv

\* The count, in terms of the holders.
LEMMA Counted ==
    /\ NothingLeaks <=> Len(idle) + Cardinality(Holders) + dropped = PoolSize
    /\ NothingLeaks' <=> Len(idle') + Cardinality(Holders') + dropped' = PoolSize
<1> QED BY DEF NothingLeaks, Holders

\* A connection that cannot be made again is counted.
LEMMA DropKeeps ==
    ASSUME PoolInv, NEW c \in Callers, DropConnection(c)
    PROVE  PoolInv'
<1> USE DEF PoolInv
<1>1. conn[c] \in Connections /\ conn[c] # Nobody /\ at[c] = "ping"
  BY DEF DropConnection, HoldsAsItShould, PoolTypeOK
<1>2. PoolTypeOK'
  BY DEF DropConnection, MoveTo, PoolTypeOK, PoolStates
<1>3. OneOwner'
  <2>1. \A d \in Callers : conn'[d] = (IF d = c THEN Nobody ELSE conn[d])
    BY DEF DropConnection, PoolTypeOK
  <2>2. idle' = idle /\ open' = open \ {conn[c]}
    BY DEF DropConnection
  <2>3. \A i \in DOMAIN idle : idle[i] \in Connections
    BY ElementOfSeq, LenProperties DEF PoolTypeOK
  <2>4. QED BY <1>1, <2>1, <2>2, <2>3, PoolNobodyAssumption DEF OneOwner
<1>4. NothingLeaks'
  <2>1. Cardinality(Holders') = Cardinality(Holders) - 1
    BY <1>1, OneHolderLess DEF DropConnection
  <2>2. Len(idle) \in Nat /\ Cardinality(Holders) \in Nat
    BY ComingIsFinite, LenProperties DEF PoolTypeOK
  <2>3. idle' = idle /\ dropped' = dropped + 1 /\ dropped \in Nat
    BY DEF DropConnection, PoolTypeOK
  <2>4. QED BY <2>1, <2>2, <2>3, Counted
<1>5. HoldsAsItShould'
  BY <1>1 DEF DropConnection, MoveTo, HoldsAsItShould, PoolTypeOK
<1>6. NoLostWakeup'
  <2>1. Coming' = Coming /\ Sleepers' = Sleepers
    BY <1>1 DEF DropConnection, MoveTo, Coming, Sleepers, PoolTypeOK
  <2>2. QED BY <2>1 DEF DropConnection, NoLostWakeup
<1>7. QED BY <1>2, <1>3, <1>4, <1>5, <1>6

\* A released connection is idle, and for one sleeper one is on its way.
LEMMA ReleaseKeeps ==
    ASSUME PoolInv, NEW c \in Callers, Release(c)
    PROVE  PoolInv'
<1> USE DEF PoolInv
<1>1. conn[c] \in Connections /\ conn[c] # Nobody /\ at[c] = "using"
  BY DEF Release, HoldsAsItShould, PoolTypeOK
<1>2. PICK woken \in NotifyOne : at' = [woken EXCEPT ![c] = "out"]
  BY DEF Release
<1>3. \/ Sleepers = {} /\ at' = [at EXCEPT ![c] = "out"]
      \/ \E s \in Callers :
             /\ at[s] = "asleep" /\ s # c
             /\ at' = [at EXCEPT ![s] = "awake", ![c] = "out"]
  BY <1>1, <1>2 DEF NotifyOne, Sleepers
<1>4. /\ Append(idle, conn[c]) \in Seq(Connections)
      /\ Len(Append(idle, conn[c])) = Len(idle) + 1
      /\ \A i \in 1..Len(idle) : Append(idle, conn[c])[i] = idle[i]
      /\ Append(idle, conn[c])[Len(idle) + 1] = conn[c]
      /\ Len(idle) \in Nat /\ DOMAIN idle = 1..Len(idle)
      /\ DOMAIN Append(idle, conn[c]) = 1..(Len(idle) + 1)
  BY <1>1, AppendProperties, LenProperties DEF PoolTypeOK
<1>5. PoolTypeOK'
  BY <1>3, <1>4 DEF Release, PoolTypeOK, PoolStates
<1>6. OneOwner'
  <2>1. \A d \in Callers : conn'[d] = (IF d = c THEN Nobody ELSE conn[d])
    BY DEF Release, PoolTypeOK
  <2>2. \A i \in 1..(Len(idle) + 1) :
            idle'[i] = IF i = Len(idle) + 1 THEN conn[c] ELSE idle[i]
    BY <1>4 DEF Release
  <2>3. DOMAIN idle' = 1..(Len(idle) + 1) /\ open' = open
    BY <1>4 DEF Release
  <2>4. \A i, j \in DOMAIN idle' : idle'[i] = idle'[j] => i = j
    BY <1>4, <2>2, <2>3 DEF OneOwner
  <2>5. \A i \in DOMAIN idle' :
            idle'[i] \in open' /\ \A d \in Callers : conn'[d] # idle'[i]
    <3> SUFFICES ASSUME NEW i \in 1..(Len(idle) + 1), NEW d \in Callers
                 PROVE  idle'[i] \in open' /\ conn'[d] # idle'[i]
      BY <2>3
    <3>1. CASE i = Len(idle) + 1
      BY <1>1, <2>1, <2>2, <2>3, <3>1 DEF OneOwner
    <3>2. CASE i \in 1..Len(idle)
      <4>1. idle[i] \in open /\ idle[i] # conn[d] /\ idle[i] \in Connections
        BY <1>4, <3>2, ElementOfSeq DEF OneOwner, PoolTypeOK
      <4>2. QED BY <1>4, <2>1, <2>2, <2>3, <3>2, <4>1, PoolNobodyAssumption
    <3>3. QED BY <1>4, <3>1, <3>2
  <2>6. QED BY <2>1, <2>3, <2>4, <2>5 DEF OneOwner
<1>7. NothingLeaks'
  <2>1. Cardinality(Holders') = Cardinality(Holders) - 1
    BY <1>1, OneHolderLess DEF Release
  <2>2. Len(idle') = Len(idle) + 1 /\ dropped' = dropped /\ dropped \in Nat
    BY <1>4 DEF Release, PoolTypeOK
  <2>3. QED BY <1>4, <2>1, <2>2, ComingIsFinite, Counted
<1>8. HoldsAsItShould'
  BY <1>1, <1>3 DEF Release, HoldsAsItShould, PoolTypeOK
<1>9. NoLostWakeup'
  <2>1. CASE Sleepers = {} /\ at' = [at EXCEPT ![c] = "out"]
    BY <2>1 DEF NoLostWakeup, Sleepers, PoolTypeOK
  <2>2. ASSUME NEW s \in Callers, at[s] = "asleep", s # c,
               at' = [at EXCEPT ![s] = "awake", ![c] = "out"]
        PROVE  NoLostWakeup'
    <3>1. Coming' = Coming \cup {s} /\ s \notin Coming /\ s \in Sleepers
      BY <1>1, <2>2 DEF Coming, Sleepers, PoolTypeOK
    <3>2. Cardinality(Coming') = Cardinality(Coming) + 1
      BY <3>1, ComingIsFinite, FS_AddElement
    <3>3. QED
      BY <1>4, <3>1, <3>2, ComingIsFinite DEF Release, NoLostWakeup
  <2>3. QED BY <1>3, <2>1, <2>2
<1>10. QED BY <1>5, <1>6, <1>7, <1>8, <1>9

--------------------------------------------------------------------------------
(* Theorems. *)

\* The inductive invariant: types, ownership, the count of the connections and
\* of the wakeups.
THEOREM PoolInvariant == PoolSpec => []PoolInv
<1>1. PoolInit => PoolInv
  BY PoolStarts
<1>2. PoolInv /\ [PoolNext]_poolVars => PoolInv'
  <2> SUFFICES ASSUME PoolInv, [PoolNext]_poolVars PROVE PoolInv'
    OBVIOUS
  <2>1. ASSUME NEW c \in Callers,
               Call(c) \/ PoolStep(c) \/ WakeUp(c) \/ Release(c) \/ Leave(c)
        PROVE  PoolInv'
    BY <2>1, ArrivalKeeps, TakeOutKeeps, FindEmptyKeeps, ReturnKeeps, ReconnectKeeps,
       DropKeeps, ReleaseKeeps DEF PoolStep
  <2>2. CASE UNCHANGED poolVars
    BY <2>2 DEF poolVars, PoolInv, PoolTypeOK, OneOwner, NothingLeaks,
                HoldsAsItShould, NoLostWakeup, Sleepers, Coming
  <2>3. QED BY <2>1, <2>2 DEF PoolNext
<1>3. QED BY <1>1, <1>2, PTL DEF PoolSpec

\* The variables of the pool keep their types.
THEOREM PoolTypes == PoolSpec => []PoolTypeOK
<1>1. PoolInv => PoolTypeOK
  BY DEF PoolInv
<1>2. QED BY <1>1, PoolInvariant, PTL

\* No connection is in two hands, or in a hand and in the pool.
THEOREM ConnectionsAreOwned == PoolSpec => []OneOwner
<1>1. PoolInv => OneOwner
  BY DEF PoolInv
<1>2. QED BY <1>1, PoolInvariant, PTL

\* Every connection of the start is idle, in use, or counted as lost.
THEOREM ConnectionsAreCounted == PoolSpec => []NothingLeaks
<1>1. PoolInv => NothingLeaks
  BY DEF PoolInv
<1>2. QED BY <1>1, PoolInvariant, PTL

\* No idle connection waits for a sleeping caller that nobody will wake.
THEOREM WakeupsArrive == PoolSpec => []NoLostWakeup
<1>1. PoolInv => NoLostWakeup
  BY DEF PoolInv
<1>2. QED BY <1>1, PoolInvariant, PTL
================================================================================
