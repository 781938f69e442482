--------------------------- MODULE PurchaseGateProofs ---------------------------
(***************************************************************************)
(* The gate of a purchase for every number of requests, threads, signals   *)
(* and settings: the bucket and the windows admit no more than they were   *)
(* ever configured to, a used token is refused, settings settle, the three *)
(* mutexes leave no cycle, and requests and handlers come to their end.    *)
(***************************************************************************)
EXTENDS PurchaseGate, Smallest, SequenceTheorems, FiniteSetTheorems

--------------------------------------------------------------------------------
(* Types. *)

\* TypeOK, in two halves: the limiter, and the threads, settings and tokens.
LimiterTypes ==
    /\ now \in Nat
    /\ tokens \in Int /\ lastRefill \in Nat
    /\ rate \in Nat /\ capacity \in Nat
    /\ winSize \in Int /\ winMax \in Int /\ userSize \in Int /\ userMax \in Int
    /\ records \in [Keys -> Seq(Requests)]
    /\ reading \in [Requests -> [Gates -> Nat]]
    /\ spent \in Nat /\ lastTake \in Nat \cup {-1}
    /\ newest \in [Keys -> Nat]
    /\ ontime \subseteq Requests \X Gates

GateTypes ==
    /\ bucketLock \in Threads \cup {Free} /\ windowLock \in Threads \cup {Free}
    /\ pc \in [Requests -> PcStates] /\ gate \in [Requests -> Gates]
    /\ handler \in [Threads -> HandlerStates]
    /\ args \in [Threads -> Settings] /\ cfg \in Settings
    /\ reloadLock \in Threads \cup {Free}
    /\ tokenKey \in [Users -> Nat \cup {NoKey}]
    /\ held \in [Requests -> Nat \cup {NoKey}]
    /\ given \in [Users -> SUBSET Nat] /\ used \in [Users -> SUBSET Nat]
    /\ disturbed \in BOOLEAN
    /\ signals \in Nat

\* TypeOK is the two halves, in a state and in the next.
LEMMA Halves == /\ TypeOK <=> LimiterTypes /\ GateTypes
                /\ TypeOK' <=> LimiterTypes' /\ GateTypes'
<1> QED BY DEF TypeOK, LimiterTypes, GateTypes

\* The keys of the two windows are apart.
LEMMA KeyTypes ==
    ASSUME NEW r \in Requests, NEW g \in Gates
    PROVE  /\ KeyOf(r, g) \in Keys
           /\ g = "ip" => KeyOf(r, g) \in Ips /\ KeyOf(r, g) \notin Users
           /\ g = "user" => KeyOf(r, g) \in Users /\ KeyOf(r, g) \notin Ips
<1> QED BY OfAssumption, KeysAssumption DEF KeyOf, Keys, Gates

\* What is read at once after a lock: whole milliseconds, and a refilled bucket.
LEMMA RefillTypes ==
    ASSUME LimiterTypes, lastRefill <= now
    PROVE  /\ Elapsed \in Nat /\ lastRefill + Elapsed * 2 <= now
           /\ Earned(Elapsed) \in Nat
           /\ Elapsed * rate \in Nat
           /\ 1000 * Earned(Elapsed) <= Elapsed * rate
           /\ Refilled \in Int /\ LastRefilled \in Nat
           /\ lastRefill <= LastRefilled /\ LastRefilled <= now
           /\ LastRefilled = lastRefill + Elapsed * 2
<1>1. Elapsed \in Nat /\ lastRefill + Elapsed * 2 <= now
  BY DEF Elapsed, LimiterTypes, TicksPerMs
<1>2. Elapsed * rate \in Nat
  BY <1>1 DEF LimiterTypes
<1>3. Earned(Elapsed) \in Nat /\ 1000 * Earned(Elapsed) <= Elapsed * rate
  BY <1>2 DEF Earned, MsPerSecond
<1>4. LastRefilled = lastRefill + Elapsed * 2
  BY <1>1 DEF LastRefilled, Kept, LimiterTypes, TicksPerMs
<1>5. Refilled \in Int
  BY <1>3 DEF Refilled, Smaller, LimiterTypes
<1>6. QED BY <1>1, <1>2, <1>3, <1>4, <1>5 DEF LimiterTypes

\* The entries behind the expired ones are entries of the window, and none that
\* is younger than the cutoff has left it.
LEMMA BehindProperties ==
    ASSUME NEW s \in Seq(Requests), NEW g \in Gates, NEW cutoff \in Int,
           reading \in [Requests -> [Gates -> Nat]]
    PROVE  /\ Behind(s, g, cutoff) \in Seq(Requests)
           /\ Len(Behind(s, g, cutoff)) <= Len(s)
           /\ \A i \in 1..Len(Behind(s, g, cutoff)) :
                  \E j \in 1..Len(s) : Behind(s, g, cutoff)[i] = s[j]
           /\ \A j \in 1..Len(s) : reading[s[j]][g] > cutoff =>
                  \E i \in 1..Len(Behind(s, g, cutoff)) : Behind(s, g, cutoff)[i] = s[j]
<1> DEFINE young == {i \in 1..Len(s) : reading[s[i]][g] > cutoff}
           first == CHOOSE i \in young : \A j \in young : i <= j
<1>1. Len(s) \in Nat /\ \A i \in 1..Len(s) : s[i] \in Requests
  BY LenProperties, ElementOfSeq
<1>2. CASE young = {}
  <2>1. Behind(s, g, cutoff) = <<>>
    BY <1>2 DEF Behind
  <2>2. QED BY <1>1, <1>2, <2>1, EmptySeq
<1>3. CASE young # {}
  <2>1. \E i \in young : \A j \in young : i <= j
    <3>1. young \in SUBSET Nat
      BY <1>1
    <3> HIDE DEF young
    <3>2. QED BY <1>3, <3>1, HasSmallest
  <2>2. first \in young /\ \A j \in young : first <= j
    BY <2>1
  <2> HIDE DEF first
  <2>3. Behind(s, g, cutoff) = SubSeq(s, first, Len(s))
    BY <1>3 DEF Behind, first
  <2>4. first \in 1..Len(s)
    BY <2>2
  <2>5. /\ SubSeq(s, first, Len(s)) \in Seq(Requests)
        /\ Len(SubSeq(s, first, Len(s))) = Len(s) - first + 1
        /\ \A i \in 1..(Len(s) - first + 1) :
               SubSeq(s, first, Len(s))[i] = s[first + i - 1]
    BY <1>1, <2>4, SubSeqProperties
  <2>6. ASSUME NEW j \in 1..Len(s), reading[s[j]][g] > cutoff
        PROVE  \E i \in 1..(Len(s) - first + 1) : SubSeq(s, first, Len(s))[i] = s[j]
    <3>1. j \in young
      BY <2>6
    <3>2. first <= j
      BY <2>2, <3>1
    <3>3. (j - first + 1) \in 1..(Len(s) - first + 1)
      BY <1>1, <2>4, <3>2
    <3>4. SubSeq(s, first, Len(s))[j - first + 1] = s[j]
      BY <1>1, <2>4, <2>5, <3>3
    <3>5. QED BY <3>3, <3>4
  <2>7. ASSUME NEW i \in 1..(Len(s) - first + 1)
        PROVE  \E j \in 1..Len(s) : SubSeq(s, first, Len(s))[i] = s[j]
    <3>1. first + i - 1 \in 1..Len(s)
      BY <1>1, <2>4, <2>7
    <3>2. QED BY <2>5, <2>7, <3>1
  <2>8. Len(SubSeq(s, first, Len(s))) <= Len(s)
    BY <1>1, <2>4, <2>5
  <2> DEFINE rest == SubSeq(s, first, Len(s))
  <2>9. /\ Behind(s, g, cutoff) = rest
        /\ rest \in Seq(Requests) /\ Len(rest) <= Len(s)
        /\ \A i \in 1..Len(rest) : \E j \in 1..Len(s) : rest[i] = s[j]
        /\ \A j \in 1..Len(s) : reading[s[j]][g] > cutoff =>
               \E i \in 1..Len(rest) : rest[i] = s[j]
    BY <2>3, <2>5, <2>6, <2>7, <2>8
  <2> HIDE DEF rest
  <2>10. QED BY <2>9
<1>4. QED BY <1>2, <1>3

\* The limits that a handler passes on are settings.
LEMMA ArgsTypes ==
    ASSUME GateTypes, NEW t \in Threads
    PROVE  /\ ArgsOf(t) \in Settings /\ ArgsOf(t).rate \in Int
           /\ ArgsOf(t).capacity \in Int /\ ArgsOf(t).size \in Int
           /\ ArgsOf(t).max \in Int /\ ArgsOf(t).userSize \in Int
           /\ ArgsOf(t).userMax \in Int
<1>1. ArgsOf(t) \in Settings
  BY DEF ArgsOf, GateTypes
<1>2. QED BY <1>1, SettingsAssumption DEF SettingsType

\* What a file brings into Config are settings, whichever sections it stores, and
\* only the sections it stores change.
LEMMA LoadedTypes ==
    ASSUME GateTypes, NEW S \in SUBSET Sections
    PROVE  /\ Loaded(S) \subseteq Settings
           /\ \A new \in Loaded(S) : "user_window" \notin S =>
                  new.userSize = cfg.userSize /\ new.userMax = cfg.userMax
<1>1. Loaded(S) \subseteq Settings
  BY SectionsAssumption DEF Loaded, GateTypes
<1>2. ASSUME NEW new \in Loaded(S), "user_window" \notin S
      PROVE  new.userSize = cfg.userSize /\ new.userMax = cfg.userMax
  BY <1>2 DEF Loaded, Stored
<1>3. QED BY <1>1, <1>2

\* The sections that the steps of a reload store.
LEMMA LoadedSections ==
    /\ Limits \in SUBSET Sections /\ {"security"} \in SUBSET Sections
    /\ Limits \ {"user_window"} \in SUBSET Sections
    /\ "user_window" \notin Limits \ {"user_window"}
    /\ "user_window" \notin {"security"}
<1> QED BY DEF Limits, Sections

\* Steps that leave the limiter alone.
QuietStep ==
    \/ \E r \in Requests : \/ Arrive(r) \/ MissingParameters(r) \/ Bypass(r)
                           \/ CheckToken(r) \/ DeleteToken(r) \/ DeleteThrows(r)
    \/ \E u \in Users : IssueToken(u) \/ TokenExpires(u)
    \/ \E t \in Targets : Signal(t)
    \/ \E t \in Threads : \/ Reload(t) \/ ReloadFails(t) \/ ReloadNoLimits(t)
                          \/ Fetch(t)

\* Those steps leave the limiter alone.
LEMMA QuietIsQuiet == QuietStep => UNCHANGED limiter
<1> QED BY DEF QuietStep, Arrive, MissingParameters, Bypass, CheckToken, DeleteToken,
           DeleteThrows, IssueToken, TokenExpires, Signal, Reload, ReloadFails,
           ReloadNoLimits, Fetch

\* Every other step is one of nine.
LEMMA StepKinds ==
    Next <=> \/ QuietStep
             \/ \E r \in Requests : \/ EnterBucket(r) \/ LeaveBucket(r) \/ ReadClock(r)
                                    \/ EnterWindow(r) \/ RefuseAll(r) \/ LeaveWindow(r)
             \/ \E t \in Threads : \/ HotUpdateRate(t) \/ HotUpdateLimits(t)
                                   \/ HotUpdateUser(t)
             \/ Tick
<1> QED BY DEF Next, Serve, Handle, QuietStep

\* The limiter keeps its types, and never refills from the future.
LEMMA LimiterTypesKept ==
    ASSUME LimiterTypes, GateTypes, lastRefill <= now, Next
    PROVE  LimiterTypes' /\ lastRefill' <= now'
<1>1. CASE QuietStep
  BY <1>1, QuietIsQuiet DEF limiter, bucket, limits, windows, LimiterTypes
<1>2. ASSUME NEW r \in Requests, EnterBucket(r)
      PROVE  LimiterTypes' /\ lastRefill' <= now'
  BY <1>2 DEF EnterBucket, bucket, limits, windows, LimiterTypes
<1>3. ASSUME NEW r \in Requests, LeaveBucket(r)
      PROVE  LimiterTypes' /\ lastRefill' <= now'
  <2>1. /\ UNCHANGED <<now, limits, windows, rate, capacity>>
        /\ tokens' \in {Refilled, Refilled - 1} /\ lastRefill' = LastRefilled
        /\ spent' \in {spent, spent + 1} /\ lastTake' \in {lastTake, now}
    BY <1>3 DEF LeaveBucket, TakeToken, NoToken
  <2>2. Refilled \in Int /\ LastRefilled \in Nat /\ LastRefilled <= now
    BY RefillTypes
  <2> HIDE DEF LimiterTypes
  <2>3. tokens' \in Int /\ lastRefill' \in Nat /\ lastRefill' <= now'
    BY <2>1, <2>2
  <2>4. QED BY <2>1, <2>3 DEF limits, windows, LimiterTypes
<1>4. ASSUME NEW r \in Requests, ReadClock(r)
      PROVE  LimiterTypes' /\ lastRefill' <= now'
  <2>1. Ms \in Nat
    BY DEF Ms, TicksPerMs, LimiterTypes
  <2>2. reading' \in [Requests -> [Gates -> Nat]]
    BY <1>4, <2>1 DEF ReadClock, LimiterTypes, GateTypes
  <2>3. QED BY <1>4, <2>2 DEF ReadClock, bucket, limits, LimiterTypes
<1>5. ASSUME NEW r \in Requests, EnterWindow(r) \/ RefuseAll(r)
      PROVE  LimiterTypes' /\ lastRefill' <= now'
  <2> DEFINE g == gate[r]
             k == KeyOf(r, g)
  <2>1. g \in Gates /\ k \in Keys /\ reading[r][g] \in Nat
    BY KeyTypes DEF LimiterTypes, GateTypes
  <2>2. Cutoff(r, g) \in Int
    BY <2>1 DEF Cutoff, SizeAt, MsPerSecond, LimiterTypes
  <2>3. Behind(records[k], g, Cutoff(r, g)) \in Seq(Requests)
    BY <2>1, <2>2, BehindProperties DEF LimiterTypes
  <2> HIDE DEF g, k
  <2>4. Slide(r, g)
    BY <1>5 DEF EnterWindow, RefuseAll, g
  <2>5. records' = [records EXCEPT ![k] = Behind(records[k], g, Cutoff(r, g))]
    BY <2>4 DEF Slide, k
  <2>6. records' \in [Keys -> Seq(Requests)]
    BY <2>1, <2>3, <2>5 DEF LimiterTypes
  <2>7. newest' \in [Keys -> Nat] /\ ontime' \subseteq Requests \X Gates
    BY <2>1, <2>4 DEF Slide, LimiterTypes, k
  <2>8. QED
    BY <1>5, <2>6, <2>7 DEF EnterWindow, RefuseAll, bucket, limits, LimiterTypes
<1>6. ASSUME NEW r \in Requests, LeaveWindow(r)
      PROVE  LimiterTypes' /\ lastRefill' <= now'
  <2>1. gate[r] \in Gates /\ KeyOf(r, gate[r]) \in Keys
    BY KeyTypes DEF GateTypes
  <2>2. records' \in [Keys -> Seq(Requests)]
    <3> DEFINE k == KeyOf(r, gate[r])
    <3>1. Append(records[k], r) \in Seq(Requests)
      BY <2>1, AppendProperties DEF LimiterTypes
    <3>2. \/ records' = records
          \/ records' = [records EXCEPT ![k] = Append(records[k], r)]
      BY <1>6 DEF LeaveWindow, Record, Decline
    <3> HIDE DEF k
    <3>3. QED BY <3>1, <3>2 DEF LimiterTypes
  <2>3. UNCHANGED <<now, bucket, limits, reading, newest>> /\ ontime' \subseteq ontime
    BY <1>6 DEF LeaveWindow, Record, Decline
  <2>4. QED BY <2>2, <2>3 DEF bucket, limits, LimiterTypes
<1>7. ASSUME NEW t \in Threads,
             HotUpdateRate(t) \/ HotUpdateLimits(t) \/ HotUpdateUser(t)
      PROVE  LimiterTypes' /\ lastRefill' <= now'
  <2> DEFINE s == ArgsOf(t)
  <2>1. /\ s.rate \in Int /\ s.capacity \in Int /\ s.size \in Int /\ s.max \in Int
        /\ s.userSize \in Int /\ s.userMax \in Int
    BY ArgsTypes
  <2> HIDE DEF s
  <2>2. CASE StoreRate(s)
    BY <2>1, <2>2 DEF StoreRate, Positive, Clipped, Smaller, LimiterTypes, windows
  <2>3. CASE StoreLimits(s)
    BY <2>1, <2>3 DEF StoreLimits, LimiterTypes, windows
  <2>4. CASE StoreUserLimits(s)
    BY <2>1, <2>4 DEF StoreUserLimits, Positive, LimiterTypes, windows, bucket
  <2>5. QED
    BY <1>7, <2>2, <2>3, <2>4 DEF HotUpdateRate, HotUpdateLimits, HotUpdateUser, s
<1>8. CASE Tick
  BY <1>8, TimesAssumption DEF Tick, bucket, limits, windows, LimiterTypes
<1>9. QED BY <1>1, <1>2, <1>3, <1>4, <1>5, <1>6, <1>7, <1>8, StepKinds

\* A request that is about to delete a token has one.
Carries == \A r \in Requests : pc[r] = "delete" => held[r] \in Nat

\* Threads, settings and tokens keep their types.
LEMMA GateTypesKept ==
    ASSUME LimiterTypes, GateTypes, Carries, Next
    PROVE  GateTypes' /\ Carries'
<1> USE DEF GateTypes, Carries
<1>1. ASSUME NEW r \in Requests, Arrive(r) \/ MissingParameters(r) \/ Bypass(r)
      PROVE  GateTypes' /\ Carries'
  BY <1>1 DEF Arrive, MissingParameters, Bypass, Goto, PcStates, reloads, token, limiter
<1>2. ASSUME NEW r \in Requests, CheckToken(r) \/ DeleteToken(r) \/ DeleteThrows(r)
      PROVE  GateTypes' /\ Carries'
  <2>1. UserOf[r] \in Users /\ UNCHANGED <<limiter, reloads, given>>
    BY <1>2, OfAssumption DEF CheckToken, DeleteToken, DeleteThrows
  <2>2. pc' \in [Requests -> PcStates] /\ gate' \in [Requests -> Gates]
    BY <1>2 DEF CheckToken, DeleteToken, DeleteThrows, Goto, PcStates
  <2>3. tokenKey' \in [Users -> Nat \cup {NoKey}]
    BY <1>2, <2>1 DEF CheckToken, DeleteToken, DeleteThrows
  <2>4. used' \in [Users -> SUBSET Nat]
    BY <1>2, <2>1 DEF CheckToken, DeleteToken, DeleteThrows
  <2>5. held' \in [Requests -> Nat \cup {NoKey}] /\ Carries'
    <3>1. CASE CheckToken(r) /\ MatchToken(r) /\ Goto(r, "delete")
      BY <2>1, <3>1 DEF MatchToken, Goto
    <3>2. CASE UNCHANGED held /\ \E p \in {"refused", "passed"} : Goto(r, p)
      BY <3>2 DEF Goto
    <3>3. QED BY <1>2, <3>1, <3>2 DEF CheckToken, DeleteToken, DeleteThrows
  <2>6. QED BY <2>1, <2>2, <2>3, <2>4, <2>5 DEF limiter, reloads
<1>3. ASSUME NEW u \in Users, IssueToken(u) \/ TokenExpires(u)
      PROVE  GateTypes' /\ Carries'
  <2>1. Ms \in Nat
    BY DEF Ms, TicksPerMs, LimiterTypes
  <2>2. QED
    BY <1>3, <2>1 DEF IssueToken, TokenExpires, limiter, request, reloads
<1>4. ASSUME NEW t \in Targets, Signal(t)
      PROVE  GateTypes' /\ Carries'
  <2>1. t \in Threads
    BY TargetsAssumption
  <2>2. disturbed' \in BOOLEAN
    BY <1>4, Zenon DEF Signal
  <2>3. handler' \in [Threads -> HandlerStates] /\ signals' \in Nat
    BY <1>4, <2>1 DEF Signal, HandlerGoto, HandlerStates
  <2>4. UNCHANGED <<limiter, request, args, cfg, reloadLock, token>>
    BY <1>4 DEF Signal
  <2>5. QED BY <2>2, <2>3, <2>4 DEF limiter, request, token
<1>5. ASSUME NEW t \in Threads,
             Reload(t) \/ ReloadFails(t) \/ ReloadNoLimits(t) \/ Fetch(t)
      PROVE  GateTypes' /\ Carries'
  <2>1. UNCHANGED <<limiter, request, signals, token>>
    BY <1>5 DEF Reload, ReloadFails, ReloadNoLimits, Fetch
  <2>2. cfg' \in Settings
    BY <1>5, LoadedTypes, LoadedSections
       DEF Reload, ReloadFails, ReloadNoLimits, FinishLoad, Fetch
  <2>3. args' \in [Threads -> Settings] /\ reloadLock' \in Threads \cup {Free}
    BY <1>5 DEF Reload, ReloadFails, ReloadNoLimits, FinishLoad, Fetch
  <2>4. handler' \in [Threads -> HandlerStates]
    BY <1>5 DEF Reload, ReloadFails, ReloadNoLimits, FinishLoad, Fetch, HandlerGoto,
                HandlerStates
  <2>5. disturbed' \in BOOLEAN
    BY <1>5, Zenon DEF Reload, ReloadFails, ReloadNoLimits, Fetch
  <2>6. QED BY <2>1, <2>2, <2>3, <2>4, <2>5 DEF limiter, request, token
<1>6. ASSUME NEW r \in Requests, EnterBucket(r) \/ LeaveBucket(r) \/ ReadClock(r)
      PROVE  GateTypes' /\ Carries'
  BY <1>6 DEF EnterBucket, LeaveBucket, ReadClock, Goto, PcStates, Threads, reloads,
              token
<1>7. ASSUME NEW r \in Requests, EnterWindow(r) \/ RefuseAll(r) \/ LeaveWindow(r)
      PROVE  GateTypes' /\ Carries'
  <2>1. /\ UNCHANGED <<bucketLock, reloads, token>>
        /\ windowLock' \in {r, Free}
    BY <1>7 DEF EnterWindow, RefuseAll, LeaveWindow
  <2>2. /\ pc' \in [Requests -> PcStates] /\ gate' \in [Requests -> Gates]
        /\ \A q \in Requests : pc'[q] = "delete" => pc[q] = "delete"
    BY <1>7 DEF EnterWindow, RefuseAll, LeaveWindow, Goto, PcStates, Gates
  <2>3. QED BY <2>1, <2>2 DEF reloads, token, Threads
<1>8. ASSUME NEW t \in Threads,
             HotUpdateRate(t) \/ HotUpdateLimits(t) \/ HotUpdateUser(t)
      PROVE  GateTypes' /\ Carries'
  <2>1. UNCHANGED <<windowLock, request, disturbed, signals, token>>
    BY <1>8 DEF HotUpdateRate, HotUpdateLimits, HotUpdateUser
  <2>2. handler' \in [Threads -> HandlerStates]
    BY <1>8 DEF HotUpdateRate, HotUpdateLimits, HotUpdateUser, FinishLoad, HandlerGoto,
                HandlerStates
  <2>3. bucketLock' \in {bucketLock, t, Free} /\ reloadLock' \in {reloadLock, Free}
    BY <1>8 DEF HotUpdateRate, HotUpdateLimits, HotUpdateUser, FinishLoad
  <2>4. args' \in [Threads -> Settings]
    BY <1>8, DefaultAssumption DEF HotUpdateRate, HotUpdateLimits, HotUpdateUser
  <2>5. cfg' \in Settings
    BY <1>8, LoadedTypes, LoadedSections
       DEF HotUpdateRate, HotUpdateLimits, HotUpdateUser, FinishLoad
  <2>6. QED BY <2>1, <2>2, <2>3, <2>4, <2>5 DEF request, token
<1>9. CASE Tick
  BY <1>9 DEF Tick, request, reloads, token
<1>10. QED
  BY <1>1, <1>2, <1>3, <1>4, <1>5, <1>6, <1>7, <1>8, <1>9, StepKinds DEF QuietStep

\* Everything but the scalars of the limiter is a variable of vars.
LEMMA Stutter ==
    ASSUME UNCHANGED vars
    PROVE  UNCHANGED <<limiter, request, reloads, token>>
<1> QED BY DEF vars, limiter, bucket, limits, windows, request, reloads, token

TypeInv == LimiterTypes /\ GateTypes /\ Carries /\ lastRefill <= now

\* The types hold in every state, and the last refill is never in the future.
THEOREM TypeInvariant == Spec => []TypeInv
<1>1. Init => TypeInv
  <2> SUFFICES ASSUME Init PROVE TypeInv
    OBVIOUS
  <2>1. /\ Default \in Settings /\ Default.rate \in Nat /\ Default.capacity \in Nat
        /\ Default.size \in Int /\ Default.max \in Int
        /\ Default.userSize \in Int /\ Default.userMax \in Int
    BY SettingsAssumption, DefaultAssumption DEF SettingsType
  <2>2. LimiterTypes /\ lastRefill <= now
    BY <2>1, EmptySeq DEF Init, LimiterInit, LimiterTypes
  <2>3. GateTypes
    BY <2>1 DEF Init, LimiterInit, GateTypes, PcStates, HandlerStates, Gates
  <2>4. QED BY <2>2, <2>3 DEF Init, TypeInv, Carries
<1>2. TypeInv /\ [Next]_vars => TypeInv'
  <2> SUFFICES ASSUME TypeInv, [Next]_vars PROVE TypeInv'
    OBVIOUS
  <2>1. CASE Next
    BY <2>1, LimiterTypesKept, GateTypesKept DEF TypeInv
  <2>2. CASE UNCHANGED vars
    BY <2>2 DEF vars, TypeInv, LimiterTypes, GateTypes, Carries
  <2>3. QED BY <2>1, <2>2
<1>3. QED BY <1>1, <1>2, PTL DEF Spec

\* The variables of the gate keep their types.
THEOREM TypeCorrect == Spec => []TypeOK
<1>1. TypeInv => TypeOK
  BY Halves DEF TypeInv
<1>2. QED BY <1>1, TypeInvariant, PTL

--------------------------------------------------------------------------------
(* The mutexes. *)

\* A mutex is owned by the thread that is inside its critical section, and by
\* no other.  A handler in the bucket has not interrupted its own thread there.
InBucket(t) == t \in Requests /\ pc[t] = "bucket"

LockInv ==
    \A t \in Threads :
        /\ bucketLock = t <=> InBucket(t) \/ handler[t] \in {"limits", "limits2"}
        /\ handler[t] \in {"limits", "limits2"} => ~InBucket(t)
        /\ windowLock = t <=> t \in Requests /\ pc[t] = "slid"
        /\ reloadLock = t <=> handler[t] \in {"rate", "limits", "user"}

\* At the start nobody owns a mutex.
LEMMA LocksStart == Init => LockInv
<1> QED BY ThreadsAssumption DEF Init, LimiterInit, LockInv, InBucket

\* Every step hands the mutexes over as LockInv says.
LEMMA LocksKept ==
    ASSUME TypeInv, LockInv, Next
    PROVE  LockInv'
<1> USE DEF LockInv, InBucket, TypeInv, GateTypes
<1>1. ASSUME NEW r \in Requests, EnterBucket(r) \/ LeaveBucket(r)
      PROVE  LockInv'
  <2>1. r \in Threads /\ r # Free /\ handler[r] = "none"
    BY <1>1, ThreadsAssumption DEF EnterBucket, LeaveBucket, Runs, Threads
  <2>2. /\ UNCHANGED <<windowLock, handler, reloadLock>>
        /\ \A q \in Requests \ {r} : pc'[q] = pc[q]
        /\ pc[r] # "slid" /\ pc'[r] # "slid"
    BY <1>1 DEF EnterBucket, LeaveBucket, Goto, reloads
  <2>3. CASE bucketLock = Free /\ bucketLock' = r /\ pc'[r] = "bucket"
    BY <2>1, <2>2, <2>3, ThreadsAssumption
  <2>4. CASE pc[r] = "bucket" /\ bucketLock' = Free /\ pc'[r] # "bucket"
    BY <2>1, <2>2, <2>4, ThreadsAssumption
  <2>5. QED BY <1>1, <2>3, <2>4 DEF EnterBucket, LeaveBucket, Goto
<1>2. ASSUME NEW r \in Requests, EnterWindow(r) \/ LeaveWindow(r)
      PROVE  LockInv'
  <2>1. r \in Threads /\ r # Free
    BY ThreadsAssumption DEF Threads
  <2>2. /\ UNCHANGED <<bucketLock, handler, reloadLock>>
        /\ \A q \in Requests \ {r} : pc'[q] = pc[q]
        /\ pc[r] # "bucket" /\ pc'[r] # "bucket"
    BY <1>2 DEF EnterWindow, LeaveWindow, Goto, reloads
  <2>3. CASE windowLock = Free /\ windowLock' = r /\ pc'[r] = "slid"
    BY <2>1, <2>2, <2>3, ThreadsAssumption
  <2>4. CASE pc[r] = "slid" /\ windowLock' = Free /\ pc'[r] # "slid"
    BY <2>1, <2>2, <2>4, ThreadsAssumption
  <2>5. QED BY <1>2, <2>3, <2>4 DEF EnterWindow, LeaveWindow, Goto
<1>3. ASSUME NEW r \in Requests,
             \/ Arrive(r) \/ ReadClock(r) \/ MissingParameters(r) \/ RefuseAll(r)
             \/ Bypass(r) \/ CheckToken(r) \/ DeleteToken(r) \/ DeleteThrows(r)
      PROVE  LockInv'
  <2>1. /\ UNCHANGED <<bucketLock, windowLock, handler, reloadLock>>
        /\ \A q \in Requests \ {r} : pc'[q] = pc[q]
        /\ pc[r] \notin {"bucket", "slid"} /\ pc'[r] \notin {"bucket", "slid"}
    BY <1>3 DEF Arrive, ReadClock, MissingParameters, RefuseAll, Bypass, CheckToken,
                DeleteToken, DeleteThrows, Goto, reloads, limiter
  <2>2. QED BY <2>1
<1>4. CASE \/ Tick \/ \E u \in Users : IssueToken(u) \/ TokenExpires(u)
  BY <1>4 DEF Tick, IssueToken, TokenExpires, limiter, request, reloads
<1>5. ASSUME NEW t \in Targets, Signal(t)
      PROVE  LockInv'
  <2>1. /\ UNCHANGED <<bucketLock, windowLock, pc, reloadLock>>
        /\ t \in Threads /\ handler[t] = "none"
        /\ handler' = [handler EXCEPT ![t] = "reload"]
    BY <1>5, TargetsAssumption DEF Signal, HandlerGoto, limiter, request
  <2>2. QED BY <2>1
<1>6. ASSUME NEW t \in Threads,
             Reload(t) \/ ReloadFails(t) \/ ReloadNoLimits(t) \/ Fetch(t)
      PROVE  LockInv'
  <2>1. /\ UNCHANGED <<bucketLock, windowLock, pc>>
        /\ \A o \in Threads \ {t} : handler'[o] = handler[o]
        /\ {handler[t], handler'[t]} \cap {"limits", "limits2", "user"} = {}
        /\ \/ reloadLock = Free /\ reloadLock' = t /\ handler'[t] = "rate"
           \/ reloadLock' = reloadLock /\ {handler[t], handler'[t]} \cap {"rate"} = {}
    BY <1>6 DEF Reload, ReloadFails, ReloadNoLimits, FinishLoad, Fetch, HandlerGoto,
                limiter, request
  <2>2. QED BY <2>1, ThreadsAssumption
<1>7. ASSUME NEW t \in Threads,
             HotUpdateRate(t) \/ HotUpdateLimits(t) \/ HotUpdateUser(t)
      PROVE  LockInv'
  <2>1. /\ UNCHANGED <<windowLock, pc>> /\ t # Free
        /\ \A o \in Threads \ {t} : handler'[o] = handler[o]
    BY <1>7, ThreadsAssumption
       DEF HotUpdateRate, HotUpdateLimits, HotUpdateUser, FinishLoad, HandlerGoto,
           request
  <2>2. CASE HotUpdateRate(t)
    <3>1. /\ bucketLock = Free /\ bucketLock' = t /\ reloadLock' = reloadLock
          /\ \/ handler[t] = "rate" /\ handler'[t] = "limits"
             \/ handler[t] = "rate2" /\ handler'[t] = "limits2"
      BY <2>2 DEF HotUpdateRate, HandlerGoto
    <3>2. QED BY <2>1, <3>1, ThreadsAssumption
  <2>3. CASE HotUpdateLimits(t)
    <3>1. /\ bucketLock' = Free /\ reloadLock' = reloadLock
          /\ \/ handler[t] = "limits" /\ handler'[t] = "user"
             \/ handler[t] = "limits2" /\ handler'[t] = "none"
      BY <2>3 DEF HotUpdateLimits, HandlerGoto
    <3>2. QED BY <2>1, <3>1, ThreadsAssumption
  <2>4. CASE HotUpdateUser(t)
    <3>1. /\ bucketLock' = bucketLock /\ reloadLock' = Free
          /\ handler[t] = "user" /\ handler'[t] \in {"fetch", "none"}
      BY <2>4 DEF HotUpdateUser, FinishLoad, HandlerGoto
    <3>2. QED BY <2>1, <3>1, ThreadsAssumption
  <2>5. QED BY <1>7, <2>2, <2>3, <2>4
<1>8. QED
  BY <1>1, <1>2, <1>3, <1>4, <1>5, <1>6, <1>7, StepKinds DEF QuietStep

\* The owners of the mutexes are where LockInv says, in every state.
THEOREM LockInvariant == Spec => []LockInv
<1>1. TypeInv /\ LockInv /\ [Next]_vars => LockInv'
  <2> SUFFICES ASSUME TypeInv, LockInv, [Next]_vars PROVE LockInv'
    OBVIOUS
  <2>1. CASE UNCHANGED vars
    BY <2>1 DEF vars, LockInv, InBucket
  <2>2. QED BY <2>1, LocksKept
<1>2. QED BY <1>1, LocksStart, TypeInvariant, PTL DEF Spec

\* Some busy thread can go on: the owner of the first mutex in the order bucket,
\* window, reload that is held, or any thread when none is.
THEOREM NoDeadlocks == Spec => []NoDeadlock
<1>1. ASSUME TypeInv, LockInv, Busy # {}, ~Hit
      PROVE  \E t \in Busy : ~Blocked(t)
  <2>1. CASE bucketLock # Free
    <3>1. PICK t \in Threads : bucketLock = t
      BY <1>1, <2>1 DEF TypeInv, GateTypes
    <3>2. \/ t \in Requests /\ pc[t] = "bucket" /\ handler[t] = "none"
          \/ handler[t] \in {"limits", "limits2"}
      BY <1>1, <3>1 DEF LockInv, InBucket, Hit
    <3>3. QED BY <3>2 DEF Busy, Blocked, Decided
  <2>2. CASE windowLock # Free
    <3>1. PICK t \in Threads : windowLock = t
      BY <1>1, <2>2 DEF TypeInv, GateTypes
    <3>2. t \in Requests /\ pc[t] = "slid" /\ handler[t] = "none"
      BY <1>1, <3>1 DEF LockInv, Hit
    <3>3. QED BY <3>2 DEF Busy, Blocked, Decided
  <2>3. CASE bucketLock = Free /\ windowLock = Free /\ reloadLock # Free
    <3>1. PICK t \in Threads : reloadLock = t
      BY <1>1, <2>3 DEF TypeInv, GateTypes
    <3>2. handler[t] \in {"rate", "limits", "user"}
      BY <1>1, <3>1 DEF LockInv
    <3>3. QED BY <2>3, <3>2 DEF Busy, Blocked
  <2>4. CASE bucketLock = Free /\ windowLock = Free /\ reloadLock = Free
    BY <1>1, <2>4 DEF Blocked
  <2>5. QED BY <2>1, <2>2, <2>3, <2>4
<1>2. TypeInv /\ LockInv => NoDeadlock
  BY <1>1 DEF NoDeadlock
<1>3. QED BY <1>2, TypeInvariant, LockInvariant, PTL

--------------------------------------------------------------------------------
(* The bucket. *)

\* The highest rate is a setting's rate.
LEMMA TopRateIs ==
    /\ TopRate \in Nat /\ Default.rate <= TopRate
    /\ \A s \in Settings : s.rate <= TopRate
<1> DEFINE Rates == {s.rate : s \in Settings}
<1>1. PICK top \in Settings : \A s \in Settings : s.rate <= top.rate
  BY RatesAssumption
<1>2. top.rate \in Rates /\ \A s \in Settings : s.rate <= top.rate
  BY <1>1
<1>3. TopRate \in Rates /\ \A s \in Settings : s.rate <= TopRate
  BY <1>2 DEF TopRate
<1>4. \A s \in Settings : s.rate \in Int
  BY SettingsAssumption DEF SettingsType
<1>5. TopRate \in Int
  BY <1>3, <1>4
<1>6. Default \in Settings /\ Default.rate > 0
  BY DefaultAssumption
<1>7. Default.rate <= TopRate /\ Default.rate \in Int
  BY <1>3, <1>4, <1>6
<1> HIDE DEF Rates
<1>8. QED BY <1>3, <1>5, <1>6, <1>7

\* Products that Z3 is not to search for.
LEMMA Products ==
    ASSUME NEW a \in Nat, NEW b \in Nat, NEW c \in Nat, NEW e \in Nat
    PROVE  /\ a <= b => a * c <= b * c /\ c * a <= c * b
           /\ a * c \in Nat /\ c * (a + 2 * e) = c * a + 2 * (e * c)
<1> QED OBVIOUS

\* A sum that grows by a part that its bound grows by.
LEMMA Sums ==
    ASSUME NEW a \in Int, NEW b \in Int, NEW c \in Int, NEW d \in Int,
           NEW x \in Int, NEW y \in Int, NEW z \in Int, NEW w \in Int,
           b <= a + d, 1000 * d <= x, x <= y, w = z + 2 * y,
           2000 * a <= 2000 * c + z
    PROVE  2000 * b <= 2000 * c + w
<1> QED OBVIOUS

\* What was taken and what is left never exceed the first content and what the
\* highest rate has earned up to the last refill.
BucketInv ==
    /\ tokens >= 0 /\ rate <= TopRate
    /\ 2000 * (spent + tokens) <= 2000 * Default.capacity + TopRate * lastRefill

\* The steps that touch the bucket.
LEMMA BucketSteps ==
    ASSUME Next
    PROVE  \/ UNCHANGED bucket
           \/ UNCHANGED <<now, rate, capacity>> /\ (TakeToken \/ NoToken)
           \/ \E t \in Threads : \/ HotUpdateRate(t) /\ StoreRate(ArgsOf(t))
                                 \/ HotUpdateLimits(t) /\ StoreLimits(ArgsOf(t))
<1>1. CASE QuietStep
  BY <1>1, QuietIsQuiet DEF limiter
<1>2. CASE \E r \in Requests : \/ EnterBucket(r) \/ ReadClock(r) \/ EnterWindow(r)
                               \/ RefuseAll(r) \/ LeaveWindow(r)
  BY <1>2 DEF EnterBucket, ReadClock, EnterWindow, RefuseAll, LeaveWindow
<1>3. CASE \E r \in Requests : LeaveBucket(r)
  BY <1>3 DEF LeaveBucket, TakeToken, NoToken
<1>4. CASE \E t \in Threads : HotUpdateRate(t) \/ HotUpdateLimits(t)
  BY <1>4 DEF HotUpdateRate, HotUpdateLimits
<1>5. CASE \E t \in Threads : HotUpdateUser(t)
  BY <1>5 DEF HotUpdateUser, StoreUserLimits
<1>6. CASE Tick
  BY <1>6 DEF Tick
<1>7. QED BY <1>1, <1>2, <1>3, <1>4, <1>5, <1>6, StepKinds

\* Takes, refusals and hot updates keep what the bucket has let through bounded.
LEMMA BucketKept ==
    ASSUME TypeInv, BucketInv, Next
    PROVE  BucketInv'
<1> DEFINE Start == Default.capacity
<1>1. /\ now \in Nat /\ lastRefill \in Nat /\ rate \in Nat /\ capacity \in Nat
      /\ tokens \in Int /\ spent \in Nat /\ lastRefill <= now
  BY DEF TypeInv, LimiterTypes
<1>2. Start \in Int /\ TopRate \in Nat
  BY SettingsAssumption, DefaultAssumption, TopRateIs DEF SettingsType
<1>3. UNCHANGED <<TopRate, Start>>
  BY DEF TopRate
<1> HIDE DEF Start
<1>4. /\ tokens >= 0 /\ rate <= TopRate
      /\ 2000 * (spent + tokens) <= 2000 * Start + TopRate * lastRefill
  BY DEF BucketInv, Start
<1>5. SUFFICES /\ tokens' >= 0 /\ rate' <= TopRate
               /\ 2000 * (spent' + tokens') <= 2000 * Start + TopRate * lastRefill'
  BY <1>3 DEF BucketInv, Start
<1>6. CASE UNCHANGED bucket
  BY <1>4, <1>6 DEF bucket
<1>7. CASE UNCHANGED <<now, rate, capacity>> /\ (TakeToken \/ NoToken)
  <2> DEFINE e == Elapsed
             earned == Earned(Elapsed)
  <2>1. /\ e \in Nat /\ earned \in Nat /\ 1000 * earned <= e * rate
        /\ LastRefilled = lastRefill + e * 2 /\ Refilled \in Int
    BY RefillTypes DEF TypeInv
  <2>2. 0 <= Refilled /\ Refilled <= tokens + earned
    <3> HIDE DEF e
    <3>1. Refilled = IF e > 0 THEN Smaller(tokens + earned, capacity) ELSE tokens
      BY DEF Refilled, e
    <3> HIDE DEF earned
    <3>2. QED BY <1>1, <1>4, <2>1, <3>1 DEF Smaller
  <2> HIDE DEF e, earned
  <2>3. /\ tokens' >= 0 /\ UNCHANGED rate /\ lastRefill' = lastRefill + e * 2
        /\ spent' + tokens' <= spent + tokens + earned
        /\ spent' \in Nat /\ tokens' \in Int
    BY <1>1, <1>7, <2>1, <2>2 DEF TakeToken, NoToken
  <2>4. e * rate <= e * TopRate /\ e * rate \in Nat /\ e * TopRate \in Nat
    BY <1>1, <1>2, <1>4, <2>1, Products
  <2>5. TopRate * (lastRefill + 2 * e) = TopRate * lastRefill + 2 * (e * TopRate)
    BY <1>1, <1>2, <2>1, Products
  <2>6. TopRate * lastRefill \in Nat
    BY <1>1, <1>2, Products
  <2> DEFINE x == e * rate
             y == e * TopRate
             z == TopRate * lastRefill
             w == TopRate * lastRefill'
  <2>7. w = z + 2 * y
    <3>1. lastRefill + e * 2 = lastRefill + 2 * e
      BY <2>1
    <3>2. QED BY <2>3, <2>5, <3>1
  <2>8. /\ x \in Nat /\ y \in Nat /\ z \in Nat /\ x <= y /\ 1000 * earned <= x
        /\ 2000 * (spent + tokens) <= 2000 * Start + z
    BY <1>4, <2>1, <2>4, <2>6
  <2> HIDE DEF x, y, z, w
  <2>9. 2000 * (spent' + tokens') <= 2000 * Start + w
    <3> DEFINE a == spent + tokens
               b == spent' + tokens'
    <3>1. a \in Int /\ b \in Int /\ b <= a + earned
      BY <1>1, <2>3
    <3>2. 2000 * a <= 2000 * Start + z
      BY <2>8
    <3>3. w \in Int
      BY <2>7, <2>8
    <3> HIDE DEF a, b
    <3>4. 2000 * b <= 2000 * Start + w
      BY <1>2, <2>1, <2>7, <2>8, <3>1, <3>2, <3>3, Sums
    <3>5. QED BY <3>4 DEF b
  <2>10. QED BY <1>4, <2>3, <2>9 DEF w
<1>8. ASSUME NEW t \in Threads, StoreRate(ArgsOf(t))
      PROVE  /\ tokens' >= 0 /\ rate' <= TopRate
             /\ 2000 * (spent' + tokens') <= 2000 * Start + TopRate * lastRefill'
  <2> DEFINE s == ArgsOf(t)
  <2>1. s.rate \in Int /\ s.capacity \in Int /\ s.rate <= TopRate
    BY ArgsTypes, TopRateIs DEF TypeInv
  <2>2. /\ rate' = Positive(s.rate, rate) /\ tokens' = Clipped(s)
        /\ UNCHANGED <<lastRefill, spent>>
    BY <1>8 DEF StoreRate
  <2> HIDE DEF s
  <2>3. rate' <= TopRate /\ tokens' \in 0..tokens
    BY <1>1, <1>4, <2>1, <2>2 DEF Positive, Clipped, Smaller
  <2> DEFINE z == TopRate * lastRefill
  <2>4. z \in Nat /\ 2000 * (spent + tokens) <= 2000 * Start + z
    BY <1>1, <1>2, <1>4, Products
  <2> HIDE DEF z
  <2>5. 2000 * (spent + tokens') <= 2000 * Start + z
    <3> DEFINE a == spent + tokens
               b == spent + tokens'
    <3>1. a \in Int /\ b \in Int /\ b <= a
      <4>1. PICK left \in 0..tokens : tokens' = left
        BY <2>3
      <4>2. spent + left \in Int /\ spent + left <= spent + tokens
        BY <1>1
      <4>3. QED BY <1>1, <4>1, <4>2
    <3>2. 2000 * a <= 2000 * Start + z
      BY <2>4
    <3> HIDE DEF a, b
    <3>3. 2000 * b <= 2000 * Start + z
      BY <1>2, <2>4, <3>1, <3>2
    <3>4. QED BY <3>3 DEF b
  <2>6. QED BY <2>2, <2>3, <2>5 DEF z
<1>9. ASSUME NEW t \in Threads, StoreLimits(ArgsOf(t))
      PROVE  /\ tokens' >= 0 /\ rate' <= TopRate
             /\ 2000 * (spent' + tokens') <= 2000 * Start + TopRate * lastRefill'
  <2>1. UNCHANGED <<tokens, rate, spent>> /\ lastRefill' = now
    BY <1>9 DEF StoreLimits
  <2> DEFINE z == TopRate * lastRefill
             w == TopRate * now
  <2>2. z \in Nat /\ w \in Nat /\ z <= w
    BY <1>1, <1>2, Products
  <2>3. 2000 * (spent + tokens) <= 2000 * Start + z
    BY <1>4
  <2> HIDE DEF z, w
  <2>4. 2000 * (spent + tokens) <= 2000 * Start + w
    BY <1>1, <1>2, <2>2, <2>3
  <2>5. QED BY <1>4, <2>1, <2>4 DEF w
<1>10. QED BY <1>6, <1>7, <1>8, <1>9, BucketSteps

\* The bucket lets through no more than its first content and what the highest
\* rate has earned.
THEOREM BucketIsBounded == Spec => []BucketBound
<1>1. Init => BucketInv
  <2> SUFFICES ASSUME Init PROVE BucketInv
    OBVIOUS
  <2>1. /\ tokens = Default.capacity /\ spent = 0 /\ lastRefill = 0
        /\ rate = Default.rate
    BY DEF Init, LimiterInit
  <2>2. Default.capacity \in Nat /\ TopRate * 0 = 0
    BY SettingsAssumption, DefaultAssumption, TopRateIs DEF SettingsType
  <2>3. QED BY <2>1, <2>2, TopRateIs DEF BucketInv
<1>2. TypeInv /\ BucketInv /\ [Next]_vars => BucketInv'
  <2> SUFFICES ASSUME TypeInv, BucketInv, [Next]_vars PROVE BucketInv'
    OBVIOUS
  <2>1. CASE UNCHANGED vars
    BY <2>1 DEF vars, BucketInv, TopRate
  <2>2. QED BY <2>1, BucketKept
<1>3. TypeInv /\ BucketInv => BucketBound
  <2> SUFFICES ASSUME TypeInv, BucketInv PROVE BucketBound
    OBVIOUS
  <2>1. /\ now \in Nat /\ lastRefill \in Nat /\ lastRefill <= now
        /\ spent \in Nat /\ tokens \in Int /\ Default.capacity \in Int
    BY SettingsAssumption, DefaultAssumption DEF TypeInv, LimiterTypes, SettingsType
  <2> DEFINE z == TopRate * lastRefill
             w == TopRate * now
             c == Default.capacity
  <2>2. z \in Nat /\ w \in Nat /\ z <= w
    BY <2>1, TopRateIs, Products
  <2>3. 2000 * (spent + tokens) <= 2000 * c + z /\ tokens >= 0
    BY DEF BucketInv
  <2>4. c \in Int
    BY <2>1
  <2> HIDE DEF z, w, c
  <2>5. 2000 * spent <= 2000 * c + w
    BY <2>1, <2>2, <2>3, <2>4
  <2>6. QED BY <2>1, <2>5 DEF BucketBound, MsPerSecond, TicksPerMs, w, c
<1>4. QED BY <1>1, <1>2, <1>3, TypeInvariant, PTL DEF Spec

\* Before the first signal the settings are those of the start, and an empty
\* bucket was emptied after its last refill: a whole millisecond earns at least
\* one token.
EmptyInv ==
    signals = 0 =>
        /\ rate = Default.rate /\ capacity = Default.capacity
        /\ \A t \in Threads : handler[t] = "none"
        /\ (Default.rate >= 1000 /\ tokens <= 0) => lastTake >= lastRefill

\* Only Signal counts signals, and only a handler or a signal moves a handler.
LEMMA HandlerSteps ==
    ASSUME TypeInv, Next
    PROVE  \/ UNCHANGED <<signals, handler>>
           \/ signals' > 0
           \/ \E t \in Threads : handler[t] # "none" /\ UNCHANGED signals
<1>1. CASE \E r \in Requests : Arrive(r) \/ Serve(r)
  BY <1>1 DEF Arrive, Serve, EnterBucket, LeaveBucket, ReadClock, MissingParameters,
              EnterWindow, RefuseAll, LeaveWindow, Bypass, CheckToken, DeleteToken,
              DeleteThrows, reloads
<1>2. CASE Tick \/ \E u \in Users : IssueToken(u) \/ TokenExpires(u)
  BY <1>2 DEF Tick, IssueToken, TokenExpires, reloads
<1>3. CASE \E t \in Targets : Signal(t)
  BY <1>3 DEF Signal, TypeInv, GateTypes
<1>4. CASE \E t \in Threads : Handle(t)
  BY <1>4 DEF Handle, Reload, ReloadFails, ReloadNoLimits, HotUpdateRate,
              HotUpdateLimits, HotUpdateUser, Fetch
<1>5. QED BY <1>1, <1>2, <1>3, <1>4 DEF Next

\* No step before a signal leaves the bucket empty without having taken a token.
LEMMA EmptyKept ==
    ASSUME TypeInv, BucketInv, EmptyInv, Next
    PROVE  EmptyInv'
<1> SUFFICES ASSUME signals' = 0
             PROVE  /\ rate' = Default.rate /\ capacity' = Default.capacity
                    /\ \A t \in Threads : handler'[t] = "none"
                    /\ (Default.rate >= 1000 /\ tokens' <= 0) => lastTake' >= lastRefill'
  BY DEF EmptyInv
<1>1. UNCHANGED <<signals, handler>> /\ signals = 0 /\ \A t \in Threads : handler[t] = "none"
  <2>1. signals' > 0 => FALSE
    OBVIOUS
  <2>2. QED BY <2>1, HandlerSteps DEF EmptyInv
<1>2. /\ rate = Default.rate /\ capacity = Default.capacity
      /\ (Default.rate >= 1000 /\ tokens <= 0) => lastTake >= lastRefill
  BY <1>1 DEF EmptyInv
<1>3. CASE UNCHANGED bucket
  BY <1>1, <1>2, <1>3 DEF bucket
<1>4. CASE UNCHANGED <<now, rate, capacity>> /\ TakeToken
  <2>1. LastRefilled <= now /\ lastTake' = now /\ lastRefill' = LastRefilled
    BY <1>4, RefillTypes DEF TakeToken, TypeInv
  <2>2. now \in Int /\ LastRefilled \in Int
    BY RefillTypes DEF TypeInv, LimiterTypes
  <2>3. QED BY <1>1, <1>2, <1>4, <2>1, <2>2
<1>5. CASE UNCHANGED <<now, rate, capacity>> /\ NoToken
  <2>1. SUFFICES ASSUME Default.rate >= 1000 PROVE lastTake' >= lastRefill'
    BY <1>1, <1>2, <1>5
  <2>2. /\ rate \in Nat /\ capacity \in Nat /\ tokens \in Int /\ tokens >= 0
        /\ capacity > 0 /\ rate >= 1000
    BY <1>2, <2>1, DefaultAssumption DEF TypeInv, LimiterTypes, BucketInv
  <2>3. Elapsed \in Nat /\ Refilled \in Int /\ Refilled <= 0
    BY <1>5, RefillTypes DEF NoToken, TypeInv
  <2>4. ~ (Elapsed > 0)
    <3> SUFFICES ASSUME Elapsed > 0 PROVE FALSE
      OBVIOUS
    <3> DEFINE e == Elapsed
               x == e * rate
    <3>1. 1000 * e <= x /\ x \in Nat
      <4>1. e * 1000 <= e * rate /\ e * rate \in Nat
        BY <2>2, <2>3, Products
      <4>2. QED BY <2>3, <4>1
    <3>2. Earned(e) = x \div 1000
      BY DEF Earned, MsPerSecond
    <3>3. e \in Nat /\ e > 0 /\ Refilled = Smaller(tokens + Earned(e), capacity)
      BY <2>3 DEF Refilled
    <3> HIDE DEF e, x
    <3>4. Earned(e) >= 1 /\ Earned(e) \in Nat
      BY <3>1, <3>2, <3>3
    <3>5. Refilled >= 1
      BY <2>2, <3>3, <3>4 DEF Smaller
    <3>6. QED BY <2>3, <3>5
  <2>5. tokens' = tokens /\ UNCHANGED <<lastTake, lastRefill>> /\ tokens <= 0
    BY <1>5, <2>3, <2>4 DEF NoToken, Refilled, LastRefilled
  <2>6. QED BY <1>2, <2>1, <2>5
<1>6. CASE \E t \in Threads : HotUpdateRate(t) \/ HotUpdateLimits(t)
  BY <1>1, <1>6 DEF HotUpdateRate, HotUpdateLimits
<1>7. QED BY <1>3, <1>4, <1>5, <1>6, BucketSteps

\* At 1000 tokens a second or more, nobody is starved by the rounding.
THEOREM EmptyBucketIsBusy == Spec => []EmptyMeansBusy
<1>1. Init => BucketInv /\ EmptyInv
  <2> SUFFICES ASSUME Init PROVE BucketInv /\ EmptyInv
    OBVIOUS
  <2>1. /\ tokens = Default.capacity /\ spent = 0 /\ lastRefill = 0
        /\ rate = Default.rate /\ capacity = Default.capacity
        /\ \A t \in Threads : handler[t] = "none"
    BY DEF Init, LimiterInit
  <2>2. Default.capacity \in Nat /\ Default.capacity > 0 /\ TopRate * 0 = 0
    BY SettingsAssumption, DefaultAssumption, TopRateIs DEF SettingsType
  <2>3. BucketInv
    BY <2>1, <2>2, TopRateIs DEF BucketInv
  <2>4. EmptyInv
    BY <2>1, <2>2 DEF EmptyInv
  <2>5. QED BY <2>3, <2>4
<1>2. TypeInv /\ BucketInv /\ EmptyInv /\ [Next]_vars => BucketInv' /\ EmptyInv'
  <2> SUFFICES ASSUME TypeInv, BucketInv, EmptyInv, [Next]_vars
               PROVE  BucketInv' /\ EmptyInv'
    OBVIOUS
  <2>1. CASE UNCHANGED vars
    BY <2>1 DEF vars, BucketInv, EmptyInv, TopRate
  <2>2. QED BY <2>1, BucketKept, EmptyKept
<1>3. EmptyInv => EmptyMeansBusy
  BY DEF EmptyInv, EmptyMeansBusy, MsPerSecond
<1>4. QED BY <1>1, <1>2, <1>3, TypeInvariant, PTL DEF Spec

--------------------------------------------------------------------------------
(* Purchase tokens. *)

\* The token in Redis is not one that was used.
KeyIsFresh == \A u \in Users : tokenKey[u] \notin used[u]

\* A deleted token leaves Redis, and a token that is issued counts as not used.
LEMMA KeyStaysFresh ==
    ASSUME TypeInv, KeyIsFresh, Next
    PROVE  KeyIsFresh'
<1> USE DEF TypeInv, GateTypes, KeyIsFresh
<1>1. ASSUME NEW r \in Requests, DeleteToken(r) \/ DeleteThrows(r)
      PROVE  KeyIsFresh'
  <2>1. UserOf[r] \in Users
    BY OfAssumption
  <2>2. CASE DeleteToken(r)
    <3>1. held[r] # NoKey
      BY <2>2 DEF DeleteToken, Carries, NoKey
    <3>2. QED BY <2>1, <2>2, <3>1 DEF DeleteToken, NoKey
  <2>3. CASE DeleteThrows(r)
    BY <2>1, <2>3 DEF DeleteThrows, NoKey
  <2>4. QED BY <1>1, <2>2, <2>3
<1>2. ASSUME NEW u \in Users, IssueToken(u) \/ TokenExpires(u)
      PROVE  KeyIsFresh'
  BY <1>2 DEF IssueToken, TokenExpires, NoKey
<1>3. ASSUME NEW r \in Requests,
             \/ Arrive(r) \/ EnterBucket(r) \/ LeaveBucket(r) \/ ReadClock(r)
             \/ MissingParameters(r) \/ EnterWindow(r) \/ RefuseAll(r)
             \/ LeaveWindow(r) \/ Bypass(r) \/ CheckToken(r)
      PROVE  KeyIsFresh'
  BY <1>3 DEF Arrive, EnterBucket, LeaveBucket, ReadClock, MissingParameters,
              EnterWindow, RefuseAll, LeaveWindow, Bypass, CheckToken, token
<1>4. CASE \/ Tick \/ (\E t \in Targets : Signal(t)) \/ (\E t \in Threads : Handle(t))
  BY <1>4 DEF Tick, Signal, Handle, Reload, ReloadFails, ReloadNoLimits,
              HotUpdateRate, HotUpdateLimits, HotUpdateUser, Fetch, token
<1>5. QED BY <1>1, <1>2, <1>3, <1>4 DEF Next, Serve

\* Only CheckToken looks at a token: it takes the one in Redis.
LEMMA OnlyFreshTokens ==
    ASSUME TypeInv, KeyIsFresh, Next, NEW r \in Requests, held'[r] # held[r]
    PROVE  held'[r] \notin used[UserOf[r]]
<1>1. ASSUME NEW q \in Requests, CheckToken(q)
      PROVE  held'[r] \notin used[UserOf[r]]
  <2>1. MatchToken(q)
    BY <1>1 DEF CheckToken
  <2>2. q = r /\ held'[r] = tokenKey[UserOf[r]] /\ UserOf[r] \in Users
    BY <2>1, OfAssumption DEF MatchToken, TypeInv, GateTypes
  <2>3. QED BY <2>2 DEF KeyIsFresh
<1>2. CASE held' = held
  BY <1>2
<1>3. ASSUME NEW q \in Requests, Arrive(q) \/ Serve(q), ~CheckToken(q)
      PROVE  held' = held
  BY <1>3 DEF Arrive, Serve, EnterBucket, LeaveBucket, ReadClock,
              MissingParameters, EnterWindow, RefuseAll, LeaveWindow, Bypass,
              DeleteToken, DeleteThrows, token
<1>4. ASSUME \/ Tick \/ (\E u \in Users : IssueToken(u) \/ TokenExpires(u))
             \/ (\E t \in Targets : Signal(t)) \/ (\E t \in Threads : Handle(t))
      PROVE  held' = held
  BY <1>4 DEF Tick, IssueToken, TokenExpires, Signal, Handle, Reload, ReloadFails,
              ReloadNoLimits, HotUpdateRate, HotUpdateLimits, HotUpdateUser, Fetch,
              token
<1>5. QED BY <1>1, <1>2, <1>3, <1>4 DEF Next

\* A token that was deleted after a check is not accepted again.
THEOREM UsedTokensAreRefused == Spec => UsedTokenIsRefused
<1>1. Init => KeyIsFresh
  BY DEF Init, KeyIsFresh
<1>2. TypeInv /\ KeyIsFresh /\ [Next]_vars => KeyIsFresh'
  <2> SUFFICES ASSUME TypeInv, KeyIsFresh, [Next]_vars PROVE KeyIsFresh'
    OBVIOUS
  <2>1. CASE UNCHANGED vars
    BY <2>1 DEF vars, KeyIsFresh
  <2>2. QED BY <2>1, KeyStaysFresh
<1>3. TypeInv /\ KeyIsFresh /\ [Next]_vars =>
          [\A r \in Requests :
               held'[r] # held[r] => held'[r] \notin used[UserOf[r]]]_vars
  BY OnlyFreshTokens
<1>4. QED BY <1>1, <1>2, <1>3, TypeInvariant, PTL DEF Spec, UsedTokenIsRefused

--------------------------------------------------------------------------------
(* Settings. *)

\* The bucket never holds more than its capacity.
CapInv == tokens <= capacity

\* A refill and a hot update clip the bucket.
LEMMA CapKept ==
    ASSUME TypeInv, CapInv, Next
    PROVE  CapInv'
<1>1. tokens \in Int /\ capacity \in Nat /\ tokens <= capacity
  BY DEF TypeInv, LimiterTypes, CapInv
<1>2. CASE UNCHANGED bucket
  BY <1>1, <1>2 DEF bucket, CapInv
<1>3. CASE UNCHANGED <<now, rate, capacity>> /\ (TakeToken \/ NoToken)
  <2>1. Refilled <= capacity /\ Refilled \in Int
    <3>1. Earned(Elapsed) \in Nat /\ Refilled \in Int
      BY RefillTypes DEF TypeInv
    <3>2. QED BY <1>1, <3>1 DEF Refilled, Smaller
  <2>2. tokens' \in {Refilled, Refilled - 1} /\ capacity' = capacity
    BY <1>3 DEF TakeToken, NoToken
  <2>3. QED BY <1>1, <2>1, <2>2 DEF CapInv
<1>4. ASSUME NEW t \in Threads, StoreRate(ArgsOf(t))
      PROVE  CapInv'
  <2>1. ArgsOf(t).capacity \in Int
    BY ArgsTypes DEF TypeInv
  <2>2. QED BY <1>1, <1>4, <2>1 DEF StoreRate, Positive, Clipped, Smaller, CapInv
<1>5. ASSUME NEW t \in Threads, StoreLimits(ArgsOf(t))
      PROVE  CapInv'
  BY <1>1, <1>5 DEF StoreLimits, CapInv
<1>6. QED BY <1>2, <1>3, <1>4, <1>5, BucketSteps

\* What update_params and update_user_params have to bring about.
RateSettled ==
    /\ cfg.rate > 0 => rate = cfg.rate
    /\ cfg.capacity > 0 => capacity = cfg.capacity

WinSettled == winSize = cfg.size /\ winMax = cfg.max

UserSettled ==
    /\ cfg.userSize > 0 => userSize = cfg.userSize
    /\ cfg.userMax > 0 => userMax = cfg.userMax

\* The parts of the limiter that a reload running alone has been through agree
\* with Config, and its second pass repeats what the first has done.  What the
\* first pass leaves out, a file without limits, the second one makes up for:
\* from "fetch" on nothing is known until it has stored a part.
SettleInv ==
    ~disturbed =>
        /\ \A t, o \in Threads : handler[t] # "none" /\ handler[o] # "none" => t = o
        /\ \A t \in Threads : handler[t] \in {"rate2", "limits2"} => args[t] = cfg
        /\ (\A t \in Threads : handler[t] \notin {"rate", "fetch", "rate2"})
               => RateSettled
        /\ (\A t \in Threads :
                handler[t] \notin {"rate", "limits", "fetch", "rate2", "limits2"})
               => WinSettled

\* Whatever runs together or fails, the limits of the users are apart from Config
\* only inside Config::reload, whose mutex is held until they are stored.
UserInv == reloadLock = Free => UserSettled

\* The only handler, and where it goes.
LEMMA OneHandler ==
    ASSUME TypeInv, NEW t \in Threads, NEW p \in HandlerStates,
           handler' = [handler EXCEPT ![t] = p],
           \A o \in Threads \ {t} : handler[o] = "none"
    PROVE  /\ handler'[t] = p
           /\ \A o \in Threads \ {t} : handler'[o] = "none"
<1> QED BY DEF TypeInv, GateTypes

\* The steps that are not a handler's, nor a signal.
LEMMA OtherSteps ==
    ASSUME Next
    PROVE  \/ UNCHANGED reloads /\ UNCHANGED <<rate, capacity, limits>>
           \/ \E t \in Targets : Signal(t)
           \/ \E t \in Threads : Handle(t)
<1>1. CASE \E r \in Requests : Arrive(r) \/ Serve(r)
  BY <1>1 DEF Arrive, Serve, EnterBucket, LeaveBucket, ReadClock, MissingParameters,
              EnterWindow, RefuseAll, LeaveWindow, Bypass, CheckToken, DeleteToken,
              DeleteThrows, TakeToken, NoToken, limiter, bucket
<1>2. CASE Tick \/ \E u \in Users : IssueToken(u) \/ TokenExpires(u)
  BY <1>2 DEF Tick, IssueToken, TokenExpires, limiter, bucket
<1>3. QED BY <1>1, <1>2 DEF Next

\* The limits of the users are stored before reload_mutex_ is released.
LEMMA UserKept ==
    ASSUME TypeInv, UserInv, Next
    PROVE  UserInv'
<1> SUFFICES ASSUME reloadLock' = Free PROVE UserSettled'
  BY DEF UserInv
<1>1. CASE \E t \in Threads : HotUpdateUser(t)
  <2>1. PICK t \in Threads : HotUpdateUser(t)
    BY <1>1
  <2>2. ArgsOf(t) = cfg /\ StoreUserLimits(cfg)
    BY <2>1 DEF HotUpdateUser, ArgsOf
  <2>3. cfg'.userSize = cfg.userSize /\ cfg'.userMax = cfg.userMax
    BY <2>1, LoadedTypes, LoadedSections DEF HotUpdateUser, FinishLoad, TypeInv
  <2>4. QED BY <2>2, <2>3 DEF StoreUserLimits, Positive, UserSettled
<1>2. CASE ~ \E t \in Threads : HotUpdateUser(t)
  <2>1. /\ reloadLock = Free /\ UNCHANGED <<userSize, userMax>>
        /\ cfg'.userSize = cfg.userSize /\ cfg'.userMax = cfg.userMax
    <3>1. CASE UNCHANGED reloads /\ UNCHANGED <<rate, capacity, limits>>
      BY <3>1 DEF reloads, limits
    <3>2. CASE \E t \in Targets : Signal(t)
      BY <3>2 DEF Signal, limiter, limits
    <3>3. ASSUME NEW t \in Threads, ReloadFails(t) \/ ReloadNoLimits(t) \/ Fetch(t)
          PROVE  /\ reloadLock = Free /\ UNCHANGED <<userSize, userMax>>
                 /\ cfg'.userSize = cfg.userSize /\ cfg'.userMax = cfg.userMax
      BY <3>3, LoadedTypes, LoadedSections
         DEF ReloadFails, ReloadNoLimits, FinishLoad, Fetch, TypeInv, limiter, limits
    <3>4. ASSUME NEW t \in Threads, Reload(t)
          PROVE  FALSE
      BY <3>4, ThreadsAssumption DEF Reload
    <3>5. ASSUME NEW t \in Threads, HotUpdateRate(t) \/ HotUpdateLimits(t)
          PROVE  /\ reloadLock = Free /\ UNCHANGED <<userSize, userMax>>
                 /\ cfg'.userSize = cfg.userSize /\ cfg'.userMax = cfg.userMax
      BY <3>5 DEF HotUpdateRate, HotUpdateLimits, StoreRate, StoreLimits
    <3>6. QED BY <1>2, <3>1, <3>2, <3>3, <3>4, <3>5, OtherSteps DEF Handle
  <2>2. QED BY <2>1 DEF UserInv, UserSettled
<1>3. QED BY <1>1, <1>2

\* Each part of the two passes settles what it stores, and unsettles nothing.
LEMMA SettleKept ==
    ASSUME TypeInv, SettleInv, Next, ~disturbed'
    PROVE  SettleInv'
<1>1. CASE UNCHANGED reloads /\ UNCHANGED <<rate, capacity, limits>>
  BY <1>1 DEF SettleInv, reloads, limits, RateSettled, WinSettled
<1>2. ASSUME NEW t \in Targets, Signal(t)
      PROVE  SettleInv'
  <2>1. t \in Threads /\ ~disturbed /\ \A o \in Threads : handler[o] = "none"
    BY <1>2, TargetsAssumption DEF Signal
  <2>2. handler' = [handler EXCEPT ![t] = "reload"] /\ UNCHANGED <<args, cfg, limiter>>
    BY <1>2 DEF Signal, HandlerGoto
  <2>3. handler'[t] = "reload" /\ \A o \in Threads \ {t} : handler'[o] = "none"
    BY <2>1, <2>2, OneHandler DEF HandlerStates
  <2>4. RateSettled /\ WinSettled
    BY <2>1 DEF SettleInv
  <2>5. RateSettled' /\ WinSettled'
    BY <2>2, <2>4 DEF RateSettled, WinSettled, limiter, bucket, limits
  <2>6. QED BY <2>3, <2>5 DEF SettleInv
<1>3. ASSUME NEW t \in Threads, Reload(t) \/ ReloadNoLimits(t)
      PROVE  SettleInv'
  <2>1. handler[t] = "reload"
    BY <1>3 DEF Reload, ReloadNoLimits
  <2>2. \A o \in Threads \ {t} : handler[o] = "none"
    <3>1. CASE ~Joined(t)
      BY <3>1 DEF Joined
    <3>2. CASE ~disturbed
      BY <2>1, <3>2 DEF SettleInv
    <3>3. QED BY <1>3, <3>1, <3>2 DEF Reload, ReloadNoLimits
  <2>3. PICK p \in {"rate", "fetch"} : handler' = [handler EXCEPT ![t] = p]
    BY <1>3 DEF Reload, ReloadNoLimits, FinishLoad, HandlerGoto
  <2>4. handler'[t] = p /\ \A o \in Threads \ {t} : handler'[o] = "none"
    BY <2>2, <2>3, OneHandler DEF HandlerStates
  <2>5. QED BY <2>3, <2>4 DEF SettleInv
<1>4. ASSUME NEW t \in Threads, ReloadFails(t)
      PROVE  SettleInv'
  <2>1. /\ ~disturbed /\ handler[t] = "reload" /\ UNCHANGED <<cfg, limiter>>
        /\ handler' = [handler EXCEPT ![t] = "none"]
    BY <1>4 DEF ReloadFails, HandlerGoto
  <2>2. \A o \in Threads \ {t} : handler[o] = "none"
    BY <2>1 DEF SettleInv
  <2>3. \A o \in Threads : handler'[o] = "none"
    BY <2>1, <2>2, OneHandler DEF HandlerStates
  <2>4. RateSettled /\ WinSettled
    BY <2>1, <2>2 DEF SettleInv
  <2>5. RateSettled' /\ WinSettled'
    BY <2>1, <2>4 DEF RateSettled, WinSettled, limiter, bucket, limits
  <2>6. QED BY <2>3, <2>5 DEF SettleInv
<1>5. ASSUME NEW t \in Threads,
             HotUpdateRate(t) \/ HotUpdateLimits(t) \/ HotUpdateUser(t) \/ Fetch(t)
      PROVE  SettleInv'
  <2>1. ~disturbed /\ handler[t] # "none"
    BY <1>5 DEF HotUpdateRate, HotUpdateLimits, HotUpdateUser, Fetch
  <2>2. \A o \in Threads \ {t} : handler[o] = "none"
    BY <2>1 DEF SettleInv
  <2>3. CASE Fetch(t)
    <3>1. args'[t] = cfg'
      BY <2>3 DEF Fetch, TypeInv, GateTypes
    <3>2. handler'[t] = "rate2" /\ \A o \in Threads \ {t} : handler'[o] = "none"
      BY <2>2, <2>3, OneHandler DEF Fetch, HandlerGoto, HandlerStates
    <3>3. QED BY <3>1, <3>2 DEF SettleInv
  <2>4. CASE HotUpdateRate(t)
    <3>1. /\ handler[t] \in {"rate", "rate2"} /\ StoreRate(ArgsOf(t))
          /\ UNCHANGED <<cfg, args>>
      BY <2>4 DEF HotUpdateRate
    <3>2. ArgsOf(t) = cfg
      BY <2>1, <3>1 DEF ArgsOf, SettleInv
    <3>3. /\ handler'[t] = IF handler[t] = "rate" THEN "limits" ELSE "limits2"
          /\ \A o \in Threads \ {t} : handler'[o] = "none"
      BY <2>2, <2>4, OneHandler DEF HotUpdateRate, HandlerGoto, HandlerStates
    <3>4. RateSettled'
      BY <3>1, <3>2 DEF StoreRate, Positive, RateSettled
    <3>5. CASE handler[t] = "rate"
      <4>1. handler'[t] = "limits"
        BY <3>3, <3>5
      <4>2. QED BY <3>3, <3>4, <4>1 DEF SettleInv
    <3>6. CASE handler[t] = "rate2"
      <4>1. handler'[t] = "limits2" /\ args'[t] = cfg'
        BY <2>1, <3>1, <3>3, <3>6 DEF SettleInv
      <4>2. QED BY <3>3, <3>4, <4>1 DEF SettleInv
    <3>7. QED BY <3>1, <3>5, <3>6
  <2>5. CASE HotUpdateLimits(t)
    <3>1. /\ handler[t] \in {"limits", "limits2"} /\ StoreLimits(ArgsOf(t))
          /\ UNCHANGED <<cfg, rate, capacity>>
      BY <2>5 DEF HotUpdateLimits, StoreLimits
    <3>2. ArgsOf(t) = cfg
      BY <2>1, <3>1 DEF ArgsOf, SettleInv
    <3>3. PICK p \in {"user", "none"} : handler' = [handler EXCEPT ![t] = p]
      BY <2>5 DEF HotUpdateLimits, HandlerGoto
    <3>4. handler'[t] = p /\ \A o \in Threads \ {t} : handler'[o] = "none"
      BY <2>2, <3>3, OneHandler DEF HandlerStates
    <3>5. WinSettled'
      BY <3>1, <3>2 DEF StoreLimits, WinSettled
    <3>6. RateSettled
      BY <2>1, <2>2, <3>1 DEF SettleInv
    <3>7. RateSettled'
      BY <3>1, <3>6 DEF RateSettled
    <3>8. QED BY <3>3, <3>4, <3>5, <3>7 DEF SettleInv
  <2>6. CASE HotUpdateUser(t)
    <3>1. /\ handler[t] = "user" /\ UNCHANGED <<rate, capacity, winSize, winMax>>
      BY <2>6 DEF HotUpdateUser, StoreUserLimits, bucket
    <3>2. CASE FinishLoad(t)
      <4>1. handler'[t] = "fetch" /\ \A o \in Threads \ {t} : handler'[o] = "none"
        BY <2>2, <3>2, OneHandler DEF FinishLoad, HandlerGoto, HandlerStates
      <4>2. QED BY <4>1 DEF SettleInv
    <3>3. CASE HandlerGoto(t, "none") /\ UNCHANGED cfg
      <4>1. \A o \in Threads : handler'[o] = "none"
        BY <2>2, <3>3, OneHandler DEF HandlerGoto, HandlerStates
      <4>2. RateSettled /\ WinSettled
        BY <2>1, <2>2, <3>1 DEF SettleInv
      <4>3. RateSettled' /\ WinSettled'
        BY <3>1, <3>3, <4>2 DEF RateSettled, WinSettled
      <4>4. QED BY <4>1, <4>3 DEF SettleInv
    <3>4. QED BY <2>6, <3>2, <3>3 DEF HotUpdateUser
  <2>7. QED BY <1>5, <2>3, <2>4, <2>5, <2>6
<1>6. QED BY <1>1, <1>2, <1>3, <1>4, <1>5, OtherSteps DEF Handle

\* Settings settle, unless handlers have run together or a reload has failed
\* half-way since the last reload that ran alone.
THEOREM SettingsAreSettled == Spec => []SettingsSettle
<1>1. Init => CapInv /\ SettleInv /\ UserInv
  <2> SUFFICES ASSUME Init PROVE CapInv /\ SettleInv /\ UserInv
    OBVIOUS
  <2>1. Default.capacity \in Int
    BY SettingsAssumption, DefaultAssumption DEF SettingsType
  <2>2. QED
    BY <2>1 DEF Init, LimiterInit, CapInv, SettleInv, UserInv, RateSettled, WinSettled,
                UserSettled
<1>2. TypeInv /\ CapInv /\ SettleInv /\ UserInv /\ [Next]_vars
          => CapInv' /\ SettleInv' /\ UserInv'
  <2> SUFFICES ASSUME TypeInv, CapInv, SettleInv, UserInv, [Next]_vars
               PROVE  CapInv' /\ SettleInv' /\ UserInv'
    OBVIOUS
  <2>1. CASE UNCHANGED vars
    BY <2>1 DEF vars, CapInv, SettleInv, UserInv, RateSettled, WinSettled, UserSettled
  <2>2. ASSUME disturbed'
        PROVE  SettleInv'
    BY <2>2 DEF SettleInv
  <2>3. QED BY <2>1, <2>2, CapKept, SettleKept, UserKept
<1>3. TypeInv /\ LockInv /\ CapInv /\ SettleInv /\ UserInv => SettingsSettle
  <2> SUFFICES ASSUME TypeInv, LockInv, CapInv, SettleInv, UserInv, ~disturbed,
                      \A t \in Threads : handler[t] = "none"
               PROVE  CapInv /\ RateSettled /\ WinSettled /\ UserSettled
    BY DEF CapInv, RateSettled, WinSettled, UserSettled, SettingsSettle
  <2>1. reloadLock = Free
    BY DEF LockInv, TypeInv, GateTypes
  <2>2. QED BY <2>1 DEF SettleInv, UserInv
<1>4. QED BY <1>1, <1>2, <1>3, TypeInvariant, LockInvariant, PTL DEF Spec

--------------------------------------------------------------------------------
(* The windows. *)

KeysOf(g) == IF g = "ip" THEN Ips ELSE Users

Shortest(g, size) == size \in SizesOf[g] /\ \A other \in SizesOf[g] : size <= other

Highest(g, limit) ==
    limit \in LimitsOf[g] /\ \A other \in LimitsOf[g] : 0 <= other /\ other <= limit

InInterval(g, k, size, end) ==
    {r \in AdmittedOnTime(g, k) : reading[r][g] \in (end - size + 1)..end}

Listed(r, k) == \E i \in 1..Len(records[k]) : records[k][i] = r

\* The limits in force are limits that were configured.
LimitsInv ==
    /\ winSize \in SizesOf["ip"] /\ winMax \in LimitsOf["ip"]
    /\ userSize * MsPerSecond \in SizesOf["user"] /\ userMax \in LimitsOf["user"]

\* A request in ontime has read its clock at that gate for good.
PlacedInv ==
    \A r \in Requests, g \in Gates : <<r, g>> \in ontime =>
        \/ gate[r] = g /\ pc[r] \in {"slid", "token", "delete", "passed", "refused"}
        \/ g = "ip" /\ gate[r] = "user"

\* Inside the critical section newest is what Slide has made it.
SlidInv ==
    \A r \in Requests, g \in Gates : pc[r] = "slid" /\ gate[r] = g =>
        /\ reading[r][g] <= newest[KeyOf(r, g)]
        /\ <<r, g>> \in ontime => reading[r][g] = newest[KeyOf(r, g)]

\* What was admitted on time is not newer than newest, and if it is younger than
\* the shortest window it is still in records.
StillListed(g, k, size) ==
    \A r \in AdmittedOnTime(g, k) :
        /\ reading[r][g] <= newest[k]
        /\ reading[r][g] > newest[k] - size => Listed(r, k)

Bounded(g, k, size, limit) ==
    \A end \in Int : /\ IsFiniteSet(InInterval(g, k, size, end))
                     /\ Cardinality(InInterval(g, k, size, end)) <= limit

AllBounded ==
    \A g \in Gates : \A k \in KeysOf(g), size \in SizesOf[g], limit \in LimitsOf[g] :
        Shortest(g, size) /\ Highest(g, limit) =>
            StillListed(g, k, size) /\ Bounded(g, k, size, limit)

WinInv == LimitsInv /\ PlacedInv /\ SlidInv /\ AllBounded

\* The values of limits are numbers.
LEMMA LimitTypes ==
    ASSUME NEW g \in Gates
    PROVE  SizesOf[g] \subseteq Int /\ LimitsOf[g] \subseteq Int
<1>1. \A s \in Settings : /\ s.size \in Int /\ s.max \in Int
                          /\ s.userSize \in Int /\ s.userMax \in Int
  BY SettingsAssumption DEF SettingsType
<1>2. QED BY <1>1 DEF SizesOf, LimitsOf, MsPerSecond

\* A set whose members are all on a list is no larger than the list is long.
LEMMA ListBounds ==
    ASSUME NEW S, NEW s \in Seq(Requests),
           \A x \in S : \E i \in 1..Len(s) : s[i] = x
    PROVE  IsFiniteSet(S) /\ Cardinality(S) <= Len(s)
<1> DEFINE f == [x \in S |-> CHOOSE i \in 1..Len(s) : s[i] = x]
<1>1. \A x \in S : f[x] \in 1..Len(s) /\ s[f[x]] = x
  OBVIOUS
<1>2. f \in Injection(S, 1..Len(s))
  <2>1. f \in [S -> 1..Len(s)]
    BY <1>1
  <2>2. \A x, y \in S : f[x] = f[y] => x = y
    BY <1>1
  <2> HIDE DEF f
  <2>3. QED BY <2>1, <2>2 DEF Injection, IsInjective
<1>3. Len(s) \in Nat
  BY LenProperties
<1>4. IsFiniteSet(1..Len(s)) /\ Cardinality(1..Len(s)) <= Len(s)
  BY <1>3, FS_Interval
<1>5. IsFiniteSet(S) /\ Cardinality(S) <= Cardinality(1..Len(s))
  BY <1>2, <1>4, FS_Injection
<1>6. Cardinality(S) \in Nat /\ Cardinality(1..Len(s)) \in Nat
  BY <1>4, <1>5, FS_CardinalityType
<1>7. QED BY <1>3, <1>4, <1>5, <1>6

\* As long as the same requests count with the same readings, the bound holds.
LEMMA BoundedFrame ==
    ASSUME NEW g, NEW k, NEW size, NEW limit, Bounded(g, k, size, limit),
           AdmittedOnTime(g, k)' = AdmittedOnTime(g, k),
           \A r \in AdmittedOnTime(g, k) : reading'[r][g] = reading[r][g]
    PROVE  Bounded(g, k, size, limit)'
<1>1. ASSUME NEW end \in Int
      PROVE  InInterval(g, k, size, end)' = InInterval(g, k, size, end)
  BY DEF InInterval
<1>2. QED BY <1>1 DEF Bounded

\* Nor does what is kept change, with the same records.
LEMMA KeptFrame ==
    ASSUME NEW g, NEW k, NEW size, StillListed(g, k, size),
           AdmittedOnTime(g, k)' = AdmittedOnTime(g, k),
           \A r \in AdmittedOnTime(g, k) : reading'[r][g] = reading[r][g],
           records'[k] = records[k], newest'[k] = newest[k]
    PROVE  StillListed(g, k, size)'
<1> QED BY DEF StillListed, Listed

\* From here on the request cannot read the clock at its gate again.
Past == {"slid", "token", "delete", "passed", "refused"}

\* Every step but four leaves the windows alone.
LEMMA WindowSteps ==
    ASSUME TypeInv, Next
    PROVE  \/ /\ UNCHANGED <<windows, gate>>
              /\ \A r \in Requests : /\ pc'[r] = "slid" <=> pc[r] = "slid"
                                     /\ pc[r] \in Past => pc'[r] \in Past
           \/ \E r \in Requests : \/ ReadClock(r) \/ EnterWindow(r) \/ RefuseAll(r)
                                  \/ LeaveWindow(r)
<1> USE DEF TypeInv, GateTypes
<1>1. ASSUME NEW r \in Requests,
             \/ Arrive(r) \/ EnterBucket(r) \/ LeaveBucket(r) \/ MissingParameters(r)
             \/ Bypass(r) \/ CheckToken(r) \/ DeleteToken(r) \/ DeleteThrows(r)
      PROVE  /\ UNCHANGED <<windows, gate>>
             /\ \A q \in Requests : /\ pc'[q] = "slid" <=> pc[q] = "slid"
                                    /\ pc[q] \in Past => pc'[q] \in Past
  <2>1. UNCHANGED <<windows, gate>>
    BY <1>1 DEF Arrive, EnterBucket, LeaveBucket, MissingParameters, Bypass, CheckToken,
                DeleteToken, DeleteThrows, Goto, limiter
  <2>2. /\ \A q \in Requests \ {r} : pc'[q] = pc[q]
        /\ pc[r] # "slid" /\ pc'[r] # "slid"
        /\ pc[r] \in Past => pc'[r] \in Past
    BY <1>1 DEF Arrive, EnterBucket, LeaveBucket, MissingParameters, Bypass, CheckToken,
                DeleteToken, DeleteThrows, Goto, Past
  <2>3. QED BY <2>1, <2>2
<1>2. CASE \/ Tick \/ (\E u \in Users : IssueToken(u) \/ TokenExpires(u))
           \/ (\E t \in Targets : Signal(t)) \/ (\E t \in Threads : Handle(t))
  <2>1. UNCHANGED <<windows, request>>
    BY <1>2 DEF Tick, IssueToken, TokenExpires, Signal, Handle, Reload, ReloadFails,
                ReloadNoLimits, HotUpdateRate, HotUpdateLimits, HotUpdateUser, Fetch,
                StoreRate, StoreLimits, StoreUserLimits, limiter
  <2>2. QED BY <2>1 DEF request
<1>3. QED BY <1>1, <1>2 DEF Next, Serve

\* A hot update stores limits that were configured.
LEMMA LimitsKept ==
    ASSUME TypeInv, LimitsInv, Next
    PROVE  LimitsInv'
<1>1. CASE UNCHANGED limits
  BY <1>1 DEF LimitsInv, limits, SizesOf, LimitsOf
<1>2. ASSUME NEW t \in Threads, \/ StoreRate(ArgsOf(t)) \/ StoreLimits(ArgsOf(t))
                                \/ StoreUserLimits(ArgsOf(t))
      PROVE  LimitsInv'
  <2>1. ArgsOf(t) \in Settings
    BY ArgsTypes DEF TypeInv
  <2>2. /\ winSize' \in SizesOf["ip"] /\ winMax' \in LimitsOf["ip"]
        /\ userSize' * MsPerSecond \in SizesOf["user"] /\ userMax' \in LimitsOf["user"]
    <3>1. CASE StoreRate(ArgsOf(t)) \/ StoreLimits(ArgsOf(t))
      BY <2>1, <3>1 DEF StoreRate, StoreLimits, LimitsInv, SizesOf, LimitsOf, Gates
    <3>2. CASE StoreUserLimits(ArgsOf(t))
      BY <2>1, <3>2 DEF StoreUserLimits, Positive, LimitsInv, SizesOf, LimitsOf, Gates
    <3>3. QED BY <1>2, <3>1, <3>2
  <2>3. QED BY <2>2 DEF LimitsInv, SizesOf, LimitsOf
<1>3. CASE QuietStep \/ Tick
  BY <1>1, <1>3, QuietIsQuiet DEF limiter, Tick
<1>4. CASE \E r \in Requests : \/ EnterBucket(r) \/ LeaveBucket(r) \/ ReadClock(r)
                               \/ EnterWindow(r) \/ RefuseAll(r) \/ LeaveWindow(r)
  BY <1>1, <1>4 DEF EnterBucket, LeaveBucket, ReadClock, EnterWindow, RefuseAll,
                    LeaveWindow
<1>5. CASE \E t \in Threads : \/ HotUpdateRate(t) \/ HotUpdateLimits(t)
                              \/ HotUpdateUser(t)
  BY <1>2, <1>5 DEF HotUpdateRate, HotUpdateLimits, HotUpdateUser
<1>6. QED BY <1>3, <1>4, <1>5, StepKinds

\* No window is shorter than the shortest, nor wider open than the highest limit.
LEMMA InForce ==
    ASSUME TypeInv, LimitsInv, NEW g \in Gates, NEW size, NEW limit,
           Shortest(g, size), Highest(g, limit)
    PROVE  /\ size \in Int /\ SizeAt(g) \in Int /\ size <= SizeAt(g)
           /\ limit \in Int /\ MaxAt(g) \in Int /\ 0 <= MaxAt(g) /\ MaxAt(g) <= limit
<1>1. SizeAt(g) \in SizesOf[g] /\ MaxAt(g) \in LimitsOf[g]
  BY DEF LimitsInv, SizeAt, MaxAt, Gates
<1>2. QED BY <1>1, LimitTypes DEF Shortest, Highest

\* The keys of the gates are apart.
LEMMA KeysApart ==
    ASSUME NEW r \in Requests, NEW g \in Gates, NEW h \in Gates, NEW k \in KeysOf(h)
    PROVE  KeyOf(r, g) \in Keys /\ KeyOf(r, g) \in KeysOf(g) /\ (g # h => KeyOf(r, g) # k)
<1> QED BY OfAssumption, KeysAssumption DEF KeyOf, KeysOf, Keys, Gates

\* Steps that leave the windows alone.
LEMMA QuietWindows ==
    ASSUME TypeInv, PlacedInv, SlidInv, UNCHANGED <<windows, gate>>,
           \A r \in Requests : /\ pc'[r] = "slid" <=> pc[r] = "slid"
                               /\ pc[r] \in Past => pc'[r] \in Past
    PROVE  /\ PlacedInv' /\ SlidInv'
           /\ \A g, k : AdmittedOnTime(g, k)' = AdmittedOnTime(g, k)
<1>1. PlacedInv'
  BY DEF PlacedInv, windows, Past
<1>2. SlidInv'
  BY DEF SlidInv, windows, KeyOf
<1>3. \A g, k : AdmittedOnTime(g, k)' = AdmittedOnTime(g, k)
  BY DEF AdmittedOnTime, windows, KeyOf
<1>4. QED BY <1>1, <1>2, <1>3

\* The clock is read before the request is in ontime.
LEMMA ClockWindows ==
    ASSUME TypeInv, PlacedInv, SlidInv, NEW r \in Requests, ReadClock(r)
    PROVE  /\ PlacedInv' /\ SlidInv'
           /\ \A g, k : AdmittedOnTime(g, k)' = AdmittedOnTime(g, k)
           /\ \A g \in Gates : \A k : \A q \in AdmittedOnTime(g, k) :
                  reading'[q][g] = reading[q][g]
<1>1. /\ pc[r] = "clock" /\ gate[r] \in Gates
      /\ UNCHANGED <<gate, records, newest, ontime>>
      /\ pc' = [pc EXCEPT ![r] = "window"]
      /\ reading' = [reading EXCEPT ![r][gate[r]] = Ms]
  BY DEF ReadClock, Goto, TypeInv, GateTypes
<1>2. /\ pc'[r] = "window" /\ \A q \in Requests \ {r} : pc'[q] = pc[q]
      /\ \A q \in Requests, g \in Gates :
             q # r \/ g # gate[r] => reading'[q][g] = reading[q][g]
  BY <1>1 DEF TypeInv, GateTypes, LimiterTypes
<1>3. <<r, gate[r]>> \notin ontime
  BY <1>1 DEF PlacedInv
<1>4. PlacedInv'
  BY <1>1, <1>2 DEF PlacedInv
<1>5. SlidInv'
  BY <1>1, <1>2 DEF SlidInv, KeyOf
<1>6. \A g, k : AdmittedOnTime(g, k)' = AdmittedOnTime(g, k)
  BY <1>1, <1>2 DEF AdmittedOnTime, KeyOf
<1>7. \A g \in Gates : \A k : \A q \in AdmittedOnTime(g, k) : reading'[q][g] = reading[q][g]
  BY <1>2, <1>3 DEF AdmittedOnTime
<1>8. QED BY <1>4, <1>5, <1>6, <1>7

\* Slide keeps what is younger than the shortest window, for a request that goes
\* on as for one that is refused at once.
LEMMA EnterWindows ==
    ASSUME TypeInv, LockInv, LimitsInv, PlacedInv, SlidInv,
           NEW r \in Requests, EnterWindow(r) \/ RefuseAll(r)
    PROVE  /\ PlacedInv' /\ SlidInv'
           /\ \A g \in Gates : \A k : AdmittedOnTime(g, k)' = AdmittedOnTime(g, k)
           /\ UNCHANGED reading
           /\ \A g \in Gates : \A k \in KeysOf(g) : \A size, limit :
                  Shortest(g, size) /\ Highest(g, limit) /\ StillListed(g, k, size)
                      => StillListed(g, k, size)'
<1> DEFINE h == gate[r]
           c == KeyOf(r, h)
           v == reading[r][h]
<1>1. h \in Gates /\ c \in Keys /\ v \in Nat /\ newest[c] \in Nat
  BY KeyTypes DEF TypeInv, GateTypes, LimiterTypes
<1>2. PICK p \in {"slid", "refused"} :
         /\ pc[r] = "window" /\ windowLock = Free /\ UNCHANGED <<reading, gate>>
         /\ pc' = [pc EXCEPT ![r] = p]
         /\ records' = [records EXCEPT ![c] = Behind(records[c], h, Cutoff(r, h))]
         /\ newest' = [newest EXCEPT ![c] = IF v > newest[c] THEN v ELSE newest[c]]
         /\ \/ UNCHANGED ontime
            \/ p = "slid" /\ v >= newest[c] /\ ontime' = ontime \cup {<<r, h>>}
  <2>1. MaxAt(h) \in Int
    BY DEF MaxAt, TypeInv, LimiterTypes
  <2>2. MaxAt(h) > 0 => ~ (MaxAt(h) <= 0)
    BY <2>1
  <2>3. CASE EnterWindow(r)
    BY <2>3 DEF EnterWindow, Goto, Slide
  <2>4. CASE RefuseAll(r)
    BY <2>2, <2>4 DEF RefuseAll, Goto, Slide
  <2>5. QED BY <2>3, <2>4
<1> HIDE DEF c, v
<1>3. /\ pc'[r] = p /\ \A q \in Requests \ {r} : pc'[q] = pc[q]
      /\ newest'[c] \in Nat /\ newest'[c] >= newest[c] /\ newest'[c] >= v
      /\ v >= newest[c] => newest'[c] = v
      /\ \A k \in Keys \ {c} : newest'[k] = newest[k] /\ records'[k] = records[k]
      /\ records'[c] = Behind(records[c], h, Cutoff(r, h))
  BY <1>1, <1>2 DEF TypeInv, GateTypes, LimiterTypes
<1>4. \A q \in Requests : pc[q] # "slid"
  BY <1>2, ThreadsAssumption DEF LockInv, Threads
<1>5. <<r, h>> \notin ontime
  BY <1>1, <1>2 DEF PlacedInv
<1>6. PlacedInv'
  BY <1>2, <1>3 DEF PlacedInv
<1>7. SlidInv'
  <2> SUFFICES ASSUME NEW q \in Requests, NEW g \in Gates, pc'[q] = "slid", gate'[q] = g
               PROVE  /\ reading[q][g] <= newest'[KeyOf(q, g)]
                      /\ <<q, g>> \in ontime' => reading[q][g] = newest'[KeyOf(q, g)]
    BY <1>2 DEF SlidInv, KeyOf
  <2>1. q = r /\ g = h
    BY <1>2, <1>3, <1>4
  <2>2. v <= newest'[c]
    BY <1>1, <1>3
  <2>3. <<q, g>> \in ontime' => v >= newest[c]
    BY <1>2, <1>5, <2>1
  <2>4. QED BY <1>3, <2>1, <2>2, <2>3 DEF c, v
<1>8. \A g \in Gates : \A k : AdmittedOnTime(g, k)' = AdmittedOnTime(g, k)
  <2> SUFFICES ASSUME NEW g \in Gates, NEW k
               PROVE  AdmittedOnTime(g, k)' = AdmittedOnTime(g, k)
    OBVIOUS
  <2>1. \A q \in Requests : <<q, g>> # <<r, h>> => (<<q, g>> \in ontime' <=> <<q, g>> \in ontime)
    BY <1>2
  <2>2. \A q \in Requests : q # r =>
            (<<pc'[q], gate'[q]>> = <<"slid", g>> <=> <<pc[q], gate[q]>> = <<"slid", g>>)
    BY <1>2, <1>3
  <2>3. /\ <<pc'[r], gate'[r]>> = <<"slid", g>> => g = h
        /\ g = h => <<r, g>> \notin ontime' \/ <<pc'[r], gate'[r]>> = <<"slid", g>>
    BY <1>2, <1>3, <1>5
  <2>4. <<pc[r], gate[r]>> # <<"slid", g>>
    BY <1>2
  <2>5. QED BY <1>5, <2>1, <2>2, <2>3, <2>4 DEF AdmittedOnTime, KeyOf
<1>9. ASSUME NEW g \in Gates, NEW k \in KeysOf(g), NEW size, NEW limit,
             Shortest(g, size), Highest(g, limit), StillListed(g, k, size)
      PROVE  StillListed(g, k, size)'
  <2>1. CASE k # c
    <3>1. k \in Keys
      BY DEF KeysOf, Keys
    <3>2. QED BY <1>2, <1>3, <1>8, <1>9, <2>1, <3>1, KeptFrame
  <2>2. CASE k = c
    <3>1. g = h
      BY <1>1, <2>2, KeysApart DEF c
    <3>2. /\ size \in Int /\ SizeAt(h) \in Int /\ size <= SizeAt(h)
      BY <1>9, <3>1, InForce
    <3>3. Cutoff(r, h) = v - SizeAt(h)
      BY DEF Cutoff, v
    <3>4. Cutoff(r, h) \in Int /\ Cutoff(r, h) <= newest'[c] - size
      BY <1>1, <1>3, <3>2, <3>3
    <3> SUFFICES ASSUME NEW q \in AdmittedOnTime(h, c)
                 PROVE  /\ reading[q][h] <= newest'[c]
                        /\ reading[q][h] > newest'[c] - size =>
                               \E i \in 1..Len(records'[c]) : records'[c][i] = q
      BY <1>2, <1>8, <2>2, <3>1 DEF StillListed, Listed
    <3>5. q \in Requests /\ reading[q][h] \in Nat
      BY <1>1 DEF AdmittedOnTime, TypeInv, LimiterTypes
    <3>6. /\ reading[q][h] <= newest[c]
          /\ reading[q][h] > newest[c] - size => Listed(q, c)
      BY <1>9, <2>2, <3>1 DEF StillListed
    <3>7. reading[q][h] <= newest'[c]
      BY <1>1, <1>3, <3>5, <3>6
    <3>8. ASSUME reading[q][h] > newest'[c] - size
          PROVE  \E i \in 1..Len(records'[c]) : records'[c][i] = q
      <4>1. reading[q][h] > newest[c] - size /\ reading[q][h] > Cutoff(r, h)
        BY <1>1, <1>3, <3>2, <3>4, <3>5, <3>8
      <4>2. PICK j \in 1..Len(records[c]) : records[c][j] = q
        BY <3>6, <4>1 DEF Listed
      <4>3. records[c] \in Seq(Requests) /\ reading \in [Requests -> [Gates -> Nat]]
        BY <1>1 DEF TypeInv, LimiterTypes
      <4>4. \E i \in 1..Len(Behind(records[c], h, Cutoff(r, h))) :
                Behind(records[c], h, Cutoff(r, h))[i] = records[c][j]
        BY <1>1, <3>4, <4>1, <4>2, <4>3, BehindProperties
      <4>5. QED BY <1>3, <4>2, <4>4
    <3>9. QED BY <3>7, <3>8
  <2>3. QED BY <2>1, <2>2
<1>10. QED BY <1>2, <1>6, <1>7, <1>8, <1>9

\* What changes when a request leaves the critical section of its window.
LEMMA LeaveWindows ==
    ASSUME TypeInv, PlacedInv, NEW r \in Requests, LeaveWindow(r)
    PROVE  /\ pc[r] = "slid" /\ pc'[r] # "slid" /\ UNCHANGED <<reading, newest>>
           /\ \A q \in Requests \ {r} : pc'[q] = pc[q] /\ gate'[q] = gate[q]
           /\ \/ Decline(r, gate[r]) /\ pc'[r] = "refused" /\ gate'[r] = gate[r]
              \/ /\ Record(r, gate[r]) /\ gate'[r] = "user"
                 /\ pc'[r] = IF gate[r] = "ip" THEN "clock" ELSE "token"
           /\ PlacedInv'
<1>1. /\ pc[r] = "slid" /\ UNCHANGED <<reading, newest>>
      /\ \A q \in Requests \ {r} : pc'[q] = pc[q] /\ gate'[q] = gate[q]
      /\ \/ Decline(r, gate[r]) /\ pc'[r] = "refused" /\ gate'[r] = gate[r]
         \/ /\ Record(r, gate[r]) /\ gate'[r] = "user"
            /\ pc'[r] = IF gate[r] = "ip" THEN "clock" ELSE "token"
  BY DEF LeaveWindow, Goto, Decline, Record, TypeInv, GateTypes
<1>2. ontime' \subseteq ontime
  BY <1>1 DEF Decline, Record
<1>3. gate[r] \in Gates
  BY DEF TypeInv, GateTypes
<1>4. PlacedInv'
  BY <1>1, <1>2, <1>3 DEF PlacedInv, Gates
<1>5. QED BY <1>1, <1>4

\* A refused request was not counted, and is not counted.
LEMMA DeclineWindows ==
    ASSUME TypeInv, PlacedInv, SlidInv, NEW r \in Requests, LeaveWindow(r),
           Decline(r, gate[r]), gate'[r] = gate[r]
    PROVE  /\ UNCHANGED <<records, reading, newest>>
           /\ \A g, k : AdmittedOnTime(g, k)' = AdmittedOnTime(g, k)
<1>1. /\ pc[r] = "slid" /\ pc'[r] # "slid" /\ UNCHANGED <<records, reading, newest>>
      /\ \A q \in Requests \ {r} : pc'[q] = pc[q] /\ gate'[q] = gate[q]
      /\ ontime' = ontime \ {<<r, gate[r]>>}
  BY LeaveWindows DEF Decline
<1>2. QED BY <1>1 DEF AdmittedOnTime, KeyOf

\* What a step does to the keys that no request has just been recorded under.
LEMMA RecordElsewhere ==
    ASSUME TypeInv, PlacedInv, NEW r \in Requests, LeaveWindow(r), Record(r, gate[r]),
           NEW g \in Gates, NEW k \in KeysOf(g),
           k # KeyOf(r, gate[r]) \/ <<r, gate[r]>> \notin ontime
    PROVE  AdmittedOnTime(g, k)' = AdmittedOnTime(g, k)
<1>1. /\ pc[r] = "slid" /\ pc'[r] # "slid" /\ ontime' = ontime
      /\ \A q \in Requests \ {r} : pc'[q] = pc[q] /\ gate'[q] = gate[q]
  BY LeaveWindows DEF Record
<1>2. gate[r] \in Gates
  BY DEF TypeInv, GateTypes
<1>3. g = gate[r] => KeyOf(r, g) # k \/ <<r, g>> \notin ontime
  BY <1>2
<1>4. \A q \in Requests \ {r} :
          (<<pc'[q], gate'[q]>> # <<"slid", g>>) <=> (<<pc[q], gate[q]>> # <<"slid", g>>)
  BY <1>1
<1>5. <<pc'[r], gate'[r]>> # <<"slid", g>>
  BY <1>1
<1>6. g # gate[r] => <<pc[r], gate[r]>> # <<"slid", g>>
  OBVIOUS
<1>7. QED BY <1>1, <1>3, <1>4, <1>5, <1>6 DEF AdmittedOnTime, KeyOf

\* An entry that was there is still there, and the new one is at the back.
LEMMA RecordLists ==
    ASSUME TypeInv, NEW r \in Requests, NEW c, c = KeyOf(r, gate[r]),
           Record(r, gate[r])
    PROVE  /\ \A k \in Keys : \A q : Listed(q, k) => Listed(q, k)'
           /\ Listed(r, c)'
           /\ MaxAt(gate[r]) < 0 \/ Len(records[c]) < MaxAt(gate[r])
<1> DEFINE s == records[c]
<1>1. c \in Keys /\ s \in Seq(Requests)
  BY KeyTypes DEF TypeInv, GateTypes, LimiterTypes
<1>2. /\ records' = [records EXCEPT ![c] = Append(s, r)]
      /\ MaxAt(gate[r]) < 0 \/ Len(s) < MaxAt(gate[r])
  BY DEF Record, HasRoom
<1>3. /\ Len(s) \in Nat /\ Len(Append(s, r)) = Len(s) + 1
      /\ \A i \in 1..Len(s) : Append(s, r)[i] = s[i]
      /\ Append(s, r)[Len(s) + 1] = r
  BY <1>1, AppendProperties, LenProperties
<1>4. records'[c] = Append(s, r) /\ \A k \in Keys \ {c} : records'[k] = records[k]
  BY <1>1, <1>2 DEF TypeInv, LimiterTypes
<1>5. \A q : Listed(q, c) => Listed(q, c)'
  <2> SUFFICES ASSUME NEW q, NEW i \in 1..Len(s), s[i] = q
               PROVE  \E j \in 1..Len(records'[c]) : records'[c][j] = q
    BY DEF Listed
  <2>1. i \in 1..Len(Append(s, r)) /\ Append(s, r)[i] = q
    BY <1>3
  <2>2. QED BY <1>4, <2>1
<1>6. Listed(r, c)'
  <2>1. Len(s) + 1 \in 1..Len(Append(s, r)) /\ Append(s, r)[Len(s) + 1] = r
    BY <1>3
  <2>2. \E j \in 1..Len(records'[c]) : records'[c][j] = r
    BY <1>4, <2>1
  <2>3. QED BY <2>2 DEF Listed
<1>7. \A k \in Keys \ {c} : \A q : Listed(q, k) => Listed(q, k)'
  BY <1>4 DEF Listed
<1>8. QED BY <1>2, <1>5, <1>6, <1>7

\* A request that is recorded keeps the bound: what it shares an interval with
\* is still in records, and there was room.
LEMMA RecordWindows ==
    ASSUME TypeInv, LimitsInv, PlacedInv, SlidInv,
           NEW r \in Requests, LeaveWindow(r), Record(r, gate[r]),
           NEW g \in Gates, NEW k \in KeysOf(g), NEW size, NEW limit,
           Shortest(g, size), Highest(g, limit),
           StillListed(g, k, size), Bounded(g, k, size, limit)
    PROVE  StillListed(g, k, size)' /\ Bounded(g, k, size, limit)'
<1>1. UNCHANGED <<reading, newest, ontime>> /\ k \in Keys
  BY LeaveWindows DEF Record, KeysOf, Keys
<1>2. gate[r] \in Gates /\ \A q : Listed(q, k) => Listed(q, k)'
  BY <1>1, RecordLists DEF TypeInv, GateTypes
<1>3. CASE k # KeyOf(r, gate[r]) \/ <<r, gate[r]>> \notin ontime
  <2>1. AdmittedOnTime(g, k)' = AdmittedOnTime(g, k)
    BY <1>3, RecordElsewhere
  <2>2. StillListed(g, k, size)'
    BY <1>1, <1>2, <2>1 DEF StillListed
  <2>3. Bounded(g, k, size, limit)'
    BY <1>1, <2>1, BoundedFrame
  <2>4. QED BY <2>2, <2>3
<1>4. CASE k = KeyOf(r, gate[r]) /\ <<r, gate[r]>> \in ontime
  <2>1. g = gate[r]
    BY <1>2, <1>4, KeysApart
  <2>2. /\ pc[r] = "slid" /\ pc'[r] # "slid"
        /\ \A q \in Requests \ {r} : pc'[q] = pc[q] /\ gate'[q] = gate[q]
    BY LeaveWindows
  <2>3. reading[r][g] = newest[k]
    BY <1>4, <2>1, <2>2 DEF SlidInv
  <2>4. AdmittedOnTime(g, k)' = AdmittedOnTime(g, k) \cup {r}
    BY <1>1, <1>4, <2>1, <2>2 DEF AdmittedOnTime, KeyOf
  <2>5. Listed(r, k)' /\ (MaxAt(g) < 0 \/ Len(records[k]) < MaxAt(g))
    BY <1>4, <2>1, RecordLists
  <2>6. /\ size \in Int /\ limit \in Int /\ MaxAt(g) \in Int
        /\ 0 <= MaxAt(g) /\ MaxAt(g) <= limit
        /\ records[k] \in Seq(Requests) /\ newest[k] \in Nat
    BY <1>1, InForce DEF TypeInv, LimiterTypes
  <2>7. StillListed(g, k, size)'
    <3>1. newest[k] <= newest[k]
      BY <2>6
    <3>2. QED BY <1>1, <1>2, <2>3, <2>4, <2>5, <3>1 DEF StillListed
  <2>8. ASSUME NEW end \in Int
        PROVE  /\ IsFiniteSet(InInterval(g, k, size, end)')
               /\ Cardinality(InInterval(g, k, size, end)') <= limit
    <3> DEFINE Old == InInterval(g, k, size, end)
               New == InInterval(g, k, size, end)'
    <3>1. IsFiniteSet(Old) /\ Cardinality(Old) <= limit
      BY DEF Bounded
    <3>2. CASE reading[r][g] \in (end - size + 1)..end
      <4>1. New = Old \cup {r}
        BY <1>1, <2>4, <3>2 DEF InInterval
      <4>2. ASSUME NEW q \in Old
            PROVE  \E i \in 1..Len(records[k]) : records[k][i] = q
        <5>1. q \in AdmittedOnTime(g, k) /\ reading[q][g] \in (end - size + 1)..end
          BY DEF InInterval
        <5>2. reading[q][g] > newest[k] - size
          BY <2>3, <2>6, <3>2, <5>1
        <5>3. QED BY <5>1, <5>2 DEF StillListed, Listed
      <4> HIDE DEF Old, New
      <4>3. Cardinality(Old) <= Len(records[k])
        BY <2>6, <4>2, ListBounds
      <4>4. IsFiniteSet(New) /\ Cardinality(New) <= Cardinality(Old) + 1
        <5>1. Cardinality(Old) \in Nat
          BY <3>1, FS_CardinalityType
        <5>2. /\ IsFiniteSet(Old \cup {r})
              /\ Cardinality(Old \cup {r}) =
                     IF r \in Old THEN Cardinality(Old) ELSE Cardinality(Old) + 1
          BY <3>1, FS_AddElement
        <5>3. QED BY <4>1, <5>1, <5>2
      <4>5. Len(records[k]) \in Nat
        BY <2>6, LenProperties
      <4>6. Cardinality(Old) \in Nat /\ Cardinality(New) \in Nat
        BY <3>1, <4>4, FS_CardinalityType
      <4>7. Cardinality(New) <= limit
        BY <2>5, <2>6, <4>3, <4>4, <4>5, <4>6
      <4>8. QED BY <4>4, <4>7 DEF New
    <3>3. CASE reading[r][g] \notin (end - size + 1)..end
      <4>1. New = Old
        BY <1>1, <2>4, <3>3 DEF InInterval
      <4>2. QED BY <3>1, <4>1
    <3>4. QED BY <3>2, <3>3
  <2>9. Bounded(g, k, size, limit)'
    BY <2>8 DEF Bounded
  <2>10. QED BY <2>7, <2>9
<1>5. QED BY <1>3, <1>4

\* Every step keeps the windows bounded.
LEMMA WindowsKept ==
    ASSUME TypeInv, LockInv, WinInv, Next
    PROVE  WinInv'
<1>1. LimitsInv'
  BY LimitsKept DEF WinInv
<1>2. PlacedInv' /\ SlidInv' /\
          \A g \in Gates : \A k \in KeysOf(g) : \A size, limit :
              /\ Shortest(g, size) /\ Highest(g, limit)
              /\ StillListed(g, k, size) /\ Bounded(g, k, size, limit)
              => StillListed(g, k, size)' /\ Bounded(g, k, size, limit)'
  <2> USE DEF WinInv
  <2>1. CASE /\ UNCHANGED <<windows, gate>>
             /\ \A r \in Requests : /\ pc'[r] = "slid" <=> pc[r] = "slid"
                                    /\ pc[r] \in Past => pc'[r] \in Past
    <3>1. UNCHANGED <<records, reading, newest>>
      BY <2>1 DEF windows
    <3>2. QED BY <2>1, <3>1, QuietWindows, KeptFrame, BoundedFrame
  <2>2. ASSUME NEW r \in Requests, ReadClock(r)
        PROVE  /\ PlacedInv' /\ SlidInv'
               /\ \A g \in Gates : \A k \in KeysOf(g) : \A size, limit :
                     /\ Shortest(g, size) /\ Highest(g, limit)
                     /\ StillListed(g, k, size) /\ Bounded(g, k, size, limit)
                     => StillListed(g, k, size)' /\ Bounded(g, k, size, limit)'
    <3>1. UNCHANGED <<records, newest>>
      BY <2>2 DEF ReadClock
    <3>2. QED BY <2>2, <3>1, ClockWindows, KeptFrame, BoundedFrame
  <2>3. ASSUME NEW r \in Requests, EnterWindow(r) \/ RefuseAll(r)
        PROVE  /\ PlacedInv' /\ SlidInv'
               /\ \A g \in Gates : \A k \in KeysOf(g) : \A size, limit :
                     /\ Shortest(g, size) /\ Highest(g, limit)
                     /\ StillListed(g, k, size) /\ Bounded(g, k, size, limit)
                     => StillListed(g, k, size)' /\ Bounded(g, k, size, limit)'
    BY <2>3, EnterWindows, BoundedFrame
  <2>4. ASSUME NEW r \in Requests, LeaveWindow(r)
        PROVE  /\ PlacedInv' /\ SlidInv'
               /\ \A g \in Gates : \A k \in KeysOf(g) : \A size, limit :
                     /\ Shortest(g, size) /\ Highest(g, limit)
                     /\ StillListed(g, k, size) /\ Bounded(g, k, size, limit)
                     => StillListed(g, k, size)' /\ Bounded(g, k, size, limit)'
    <3>1. PlacedInv'
      BY <2>4, LeaveWindows
    <3>2. SlidInv'
      <4>1. /\ pc'[r] # "slid" /\ UNCHANGED <<reading, newest>> /\ ontime' \subseteq ontime
            /\ \A q \in Requests \ {r} : pc'[q] = pc[q] /\ gate'[q] = gate[q]
        BY <2>4, LeaveWindows DEF Record, Decline
      <4>2. QED BY <4>1 DEF SlidInv, KeyOf
    <3>3. CASE Record(r, gate[r])
      BY <2>4, <3>1, <3>2, <3>3, RecordWindows
    <3>4. CASE Decline(r, gate[r]) /\ gate'[r] = gate[r]
      BY <2>4, <3>1, <3>2, <3>4, DeclineWindows, KeptFrame, BoundedFrame
    <3>5. QED BY <2>4, <3>3, <3>4, LeaveWindows
  <2>5. QED BY <2>1, <2>2, <2>3, <2>4, WindowSteps
<1>3. AllBounded'
  <2> SUFFICES ASSUME NEW g \in Gates, NEW k \in KeysOf(g), NEW size \in SizesOf[g],
                      NEW limit \in LimitsOf[g], Shortest(g, size), Highest(g, limit)
               PROVE  StillListed(g, k, size)' /\ Bounded(g, k, size, limit)'
    BY DEF AllBounded, Shortest, Highest, SizesOf, LimitsOf, KeysOf, Gates
  <2>1. StillListed(g, k, size) /\ Bounded(g, k, size, limit)
    BY DEF WinInv, AllBounded
  <2>2. QED BY <1>2, <2>1
<1>4. QED BY <1>1, <1>2, <1>3 DEF WinInv

\* At the start nothing was admitted.
LEMMA WindowsStart == Init => WinInv
<1> SUFFICES ASSUME Init PROVE WinInv
  OBVIOUS
<1>1. /\ ontime = {} /\ \A r \in Requests : pc[r] = "idle"
      /\ winSize = Default.size /\ winMax = Default.max
      /\ userSize = Default.userSize /\ userMax = Default.userMax
  BY DEF Init, LimiterInit
<1>2. /\ Default \in Settings /\ Default.userSize > 0 /\ Default.userMax > 0
      /\ Default.userMax \in Int
  BY SettingsAssumption, DefaultAssumption DEF SettingsType
<1>3. LimitsInv
  BY <1>1, <1>2 DEF LimitsInv, SizesOf, LimitsOf, Gates
<1>4. PlacedInv /\ SlidInv
  BY <1>1 DEF PlacedInv, SlidInv
<1>5. AllBounded
  <2> SUFFICES ASSUME NEW g \in Gates, NEW k \in KeysOf(g), NEW size \in SizesOf[g],
                      NEW limit \in LimitsOf[g], Highest(g, limit)
               PROVE  StillListed(g, k, size) /\ Bounded(g, k, size, limit)
    BY DEF AllBounded
  <2>1. AdmittedOnTime(g, k) = {}
    BY <1>1 DEF AdmittedOnTime
  <2>2. limit \in Int /\ 0 <= limit
    <3>1. LimitsOf[g] \subseteq Int
      BY LimitTypes
    <3>2. QED BY <3>1 DEF Highest
  <2>3. ASSUME NEW end \in Int
        PROVE  InInterval(g, k, size, end) = {}
    BY <2>1 DEF InInterval
  <2>4. QED BY <2>1, <2>2, <2>3, FS_EmptySet DEF StillListed, Bounded
<1>6. QED BY <1>3, <1>4, <1>5 DEF WinInv

\* No interval as long as the shortest window holds more admissions on time than
\* the highest limit.
THEOREM WindowsAreBounded == Spec => []WindowBound
<1>1. TypeInv /\ LockInv /\ WinInv /\ [Next]_vars => WinInv'
  <2> SUFFICES ASSUME TypeInv, LockInv, WinInv, [Next]_vars PROVE WinInv'
    OBVIOUS
  <2>1. CASE UNCHANGED vars
    <3>1. /\ UNCHANGED <<winSize, winMax, userSize, userMax, records, reading, newest,
                         ontime, pc, gate>>
      BY <2>1 DEF vars
    <3>2. LimitsInv' /\ PlacedInv' /\ SlidInv'
      BY <3>1 DEF WinInv, LimitsInv, PlacedInv, SlidInv, SizesOf, LimitsOf, KeyOf
    <3>3. \A g, k : AdmittedOnTime(g, k)' = AdmittedOnTime(g, k)
      BY <3>1 DEF AdmittedOnTime, KeyOf
    <3>4. AllBounded'
      <4> SUFFICES ASSUME NEW g \in Gates, NEW k \in KeysOf(g), NEW size \in SizesOf[g],
                          NEW limit \in LimitsOf[g], Shortest(g, size), Highest(g, limit)
                   PROVE  StillListed(g, k, size)' /\ Bounded(g, k, size, limit)'
        BY DEF AllBounded, Shortest, Highest, SizesOf, LimitsOf, KeysOf, Gates
      <4>1. StillListed(g, k, size) /\ Bounded(g, k, size, limit)
        BY DEF WinInv, AllBounded
      <4>2. QED BY <3>1, <3>3, <4>1, KeptFrame, BoundedFrame
    <3>5. QED BY <3>2, <3>4 DEF WinInv
  <2>2. QED BY <2>1, WindowsKept
<1>2. TypeInv /\ WinInv => WindowBound
  <2> SUFFICES ASSUME TypeInv, WinInv, NEW g \in Gates, NEW size \in SizesOf[g],
                      NEW limit \in LimitsOf[g], Shortest(g, size), Highest(g, limit),
                      NEW last \in ontime
               PROVE  LET k == KeyOf(last[1], g)
                          end == reading[last[1]][g]
                      IN  Cardinality({r \in AdmittedOnTime(g, k) :
                              reading[r][g] \in (end - size + 1)..end}) <= limit
    BY DEF WindowBound, Shortest, Highest
  <2> DEFINE k == KeyOf(last[1], g)
             end == reading[last[1]][g]
  <2>1. last[1] \in Requests
    BY DEF TypeInv, LimiterTypes
  <2>2. k \in KeysOf(g) /\ end \in Int
    <3>1. k \in KeysOf(g)
      BY <2>1, OfAssumption DEF KeyOf, KeysOf
    <3>2. end \in Nat
      BY <2>1 DEF TypeInv, LimiterTypes
    <3>3. QED BY <3>1, <3>2
  <2> HIDE DEF k, end
  <2>3. Cardinality(InInterval(g, k, size, end)) <= limit
    BY <2>2 DEF WinInv, AllBounded, Bounded
  <2>4. InInterval(g, k, size, end) =
            {r \in AdmittedOnTime(g, k) : reading[r][g] \in (end - size + 1)..end}
    BY DEF InInterval
  <2>5. Cardinality({r \in AdmittedOnTime(g, k) :
            reading[r][g] \in (end - size + 1)..end}) <= limit
    BY <2>3, <2>4
  <2>6. QED BY <2>5 DEF k, end
<1>3. QED BY <1>1, <1>2, WindowsStart, TypeInvariant, LockInvariant, PTL DEF Spec

--------------------------------------------------------------------------------
(* Requests and handlers end.                                               *)

\* The steps of handle_seckill that request r still has before it is decided,
\* at most: three of them at each of the two windows.
StepsOf(r) ==
    LET windowsLeft == IF gate[r] = "ip" THEN 3 ELSE 0 IN
    CASE pc[r] = "idle"   -> 11
      [] pc[r] = "allow"  -> 10
      [] pc[r] = "bucket" -> 9
      [] pc[r] = "clock"  -> 5 + windowsLeft
      [] pc[r] = "window" -> 4 + windowsLeft
      [] pc[r] = "slid"   -> 3 + windowsLeft
      [] pc[r] = "token"  -> 2
      [] pc[r] = "delete" -> 1
      [] OTHER            -> 0

\* The steps of the SIGHUP handler in thread t.
HandlerStepsOf(t) ==
    CASE handler[t] = "reload"  -> 7
      [] handler[t] = "rate"    -> 6
      [] handler[t] = "limits"  -> 5
      [] handler[t] = "user"    -> 4
      [] handler[t] = "fetch"   -> 3
      [] handler[t] = "rate2"   -> 2
      [] handler[t] = "limits2" -> 1
      [] OTHER                  -> 0

\* Each step of a request or of a handler leaves it fewer, and nothing that
\* others do gives it any; only a signal starts a handler.
GatesGetOn ==
    /\ \A r \in Requests :
          /\ StepsOf(r) \in 0..11
          /\ StepsOf(r) = 0 <=> pc[r] \in Decided
          /\ StepsOf(r)' <= StepsOf(r)
          /\ Arrive(r) \/ Serve(r) => StepsOf(r)' < StepsOf(r)
    /\ \A t \in Threads :
          /\ HandlerStepsOf(t) \in 0..7
          /\ HandlerStepsOf(t) = 0 <=> handler[t] = "none"
          /\ Handle(t) => HandlerStepsOf(t)' < HandlerStepsOf(t)
          /\ ~Signal(t) => HandlerStepsOf(t)' <= HandlerStepsOf(t)

\* What a step of request r does to its own steps, and to those of the others.
LEMMA OwnSteps ==
    ASSUME GateTypes, NEW r \in Requests, Arrive(r) \/ Serve(r)
    PROVE  /\ StepsOf(r)' < StepsOf(r)
           /\ \A q \in Requests \ {r} : pc'[q] = pc[q] /\ gate'[q] = gate[q]
           /\ UNCHANGED handler
<1> USE DEF GateTypes, Goto, reloads, Gates
<1>1. CASE Arrive(r)
  BY <1>1 DEF Arrive, StepsOf
<1>2. CASE EnterBucket(r)
  BY <1>2 DEF EnterBucket, StepsOf
<1>3. CASE LeaveBucket(r)
  BY <1>3 DEF LeaveBucket, StepsOf
<1>4. CASE ReadClock(r)
  BY <1>4 DEF ReadClock, StepsOf
<1>5. CASE MissingParameters(r)
  BY <1>5 DEF MissingParameters, StepsOf
<1>6. CASE EnterWindow(r) \/ RefuseAll(r)
  BY <1>6 DEF EnterWindow, RefuseAll, StepsOf
<1>7. CASE LeaveWindow(r)
  BY <1>7 DEF LeaveWindow, StepsOf
<1>8. CASE Bypass(r) \/ CheckToken(r)
  BY <1>8 DEF Bypass, CheckToken, StepsOf
<1>9. CASE DeleteToken(r) \/ DeleteThrows(r)
  BY <1>9 DEF DeleteToken, DeleteThrows, StepsOf
<1>10. QED
  BY <1>1, <1>2, <1>3, <1>4, <1>5, <1>6, <1>7, <1>8, <1>9 DEF Serve

\* The same for a handler.
LEMMA OwnHandlerSteps ==
    ASSUME GateTypes, NEW t \in Threads, Handle(t)
    PROVE  /\ HandlerStepsOf(t)' < HandlerStepsOf(t)
           /\ \A u \in Threads \ {t} : handler'[u] = handler[u]
           /\ UNCHANGED request
<1> USE DEF GateTypes, HandlerGoto, HandlerStepsOf
<1>1. CASE Reload(t) \/ ReloadFails(t) \/ ReloadNoLimits(t)
  BY <1>1 DEF Reload, ReloadFails, ReloadNoLimits, FinishLoad
<1>2. CASE HotUpdateRate(t) \/ HotUpdateLimits(t)
  BY <1>2 DEF HotUpdateRate, HotUpdateLimits
<1>3. CASE HotUpdateUser(t)
  BY <1>3 DEF HotUpdateUser, FinishLoad
<1>4. CASE Fetch(t)
  BY <1>4 DEF Fetch
<1>5. QED BY <1>1, <1>2, <1>3, <1>4 DEF Handle

\* A request is decided after eleven steps of its own, and a handler is over
\* after seven, whatever the schedule, the clock, the signals and the settings:
\* together with NoDeadlocks, threads that are scheduled get through the gate.
THEOREM RequestsAreDecided == Spec => [][GatesGetOn]_vars
<1>1. TypeInv /\ [Next]_vars => [GatesGetOn]_vars
  <2> SUFFICES ASSUME TypeInv, Next PROVE GatesGetOn
    OBVIOUS
  <2>1. GateTypes
    BY DEF TypeInv
  <2>2. \A r \in Requests : /\ StepsOf(r) \in 0..11
                            /\ StepsOf(r) = 0 <=> pc[r] \in Decided
    BY <2>1 DEF GateTypes, PcStates, Gates, StepsOf, Decided
  <2>3. \A t \in Threads : /\ HandlerStepsOf(t) \in 0..7
                           /\ HandlerStepsOf(t) = 0 <=> handler[t] = "none"
    BY <2>1 DEF GateTypes, HandlerStates, HandlerStepsOf
  <2>4. ASSUME NEW r \in Requests, pc'[r] = pc[r], gate'[r] = gate[r]
        PROVE  StepsOf(r)' = StepsOf(r)
    BY <2>4 DEF StepsOf
  <2>5. ASSUME NEW t \in Threads, handler'[t] = handler[t]
        PROVE  HandlerStepsOf(t)' = HandlerStepsOf(t)
    BY <2>5 DEF HandlerStepsOf
  <2>6. ASSUME NEW r \in Requests
        PROVE  /\ StepsOf(r)' <= StepsOf(r)
               /\ Arrive(r) \/ Serve(r) => StepsOf(r)' < StepsOf(r)
    <3>1. CASE \E q \in Requests : Arrive(q) \/ Serve(q)
      <4>1. PICK q \in Requests : Arrive(q) \/ Serve(q)
        BY <3>1
      <4>2. StepsOf(q)' < StepsOf(q)
        BY <2>1, <4>1, OwnSteps
      <4>3. q # r => StepsOf(r)' = StepsOf(r)
        BY <2>1, <2>4, <4>1, OwnSteps
      <4>4. StepsOf(r)' \in Int
        BY DEF StepsOf
      <4>5. StepsOf(r)' <= StepsOf(r)
        BY <2>2, <4>2, <4>3, <4>4
      <4>6. QED BY <2>1, <4>5, OwnSteps
    <3>2. CASE ~ \E q \in Requests : Arrive(q) \/ Serve(q)
      <4>1. UNCHANGED request
        BY <2>1, <3>2, OwnHandlerSteps
           DEF Next, IssueToken, TokenExpires, Signal, Tick
      <4>2. StepsOf(r)' = StepsOf(r)
        BY <2>4, <4>1 DEF request
      <4>3. QED BY <2>2, <3>2, <4>2
    <3>3. QED BY <3>1, <3>2
  <2>7. ASSUME NEW t \in Threads
        PROVE  /\ Handle(t) => HandlerStepsOf(t)' < HandlerStepsOf(t)
               /\ ~Signal(t) => HandlerStepsOf(t)' <= HandlerStepsOf(t)
    <3>1. HandlerStepsOf(t)' \in Int
      BY DEF HandlerStepsOf
    <3>2. ASSUME NEW u \in Threads, Handle(u)
          PROVE  HandlerStepsOf(t)' <= HandlerStepsOf(t)
      <4>1. HandlerStepsOf(u)' < HandlerStepsOf(u)
        BY <2>1, <3>2, OwnHandlerSteps
      <4>2. u # t => HandlerStepsOf(t)' = HandlerStepsOf(t)
        BY <2>1, <2>5, <3>2, OwnHandlerSteps
      <4>3. QED BY <2>3, <3>1, <4>1, <4>2
    <3>3. ASSUME ~Signal(t), ~ \E u \in Threads : Handle(u)
          PROVE  HandlerStepsOf(t)' <= HandlerStepsOf(t)
      <4>1. handler'[t] = handler[t]
        <5>1. CASE \E q \in Requests : Arrive(q) \/ Serve(q)
          BY <2>1, <5>1, OwnSteps
        <5>2. CASE \E u \in Targets : Signal(u)
          BY <2>1, <3>3, <5>2, TargetsAssumption DEF Signal, HandlerGoto, GateTypes
        <5>3. CASE Tick \/ \E u \in Users : IssueToken(u) \/ TokenExpires(u)
          BY <5>3 DEF Tick, IssueToken, TokenExpires, reloads
        <5>4. QED BY <3>3, <5>1, <5>2, <5>3 DEF Next
      <4>2. QED BY <2>3, <2>5, <4>1
    <3>4. QED BY <2>1, <3>2, <3>3, OwnHandlerSteps
  <2>8. QED BY <2>2, <2>3, <2>6, <2>7 DEF GatesGetOn
<1>2. QED BY <1>1, TypeInvariant, PTL DEF Spec
================================================================================
