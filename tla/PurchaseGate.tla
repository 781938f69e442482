------------------------------ MODULE PurchaseGate ------------------------------
(***************************************************************************)
(* What a purchase request passes before it reaches the stock counter:     *)
(* the rate limiter, the parameter check and the purchase token, with the  *)
(* SIGHUP handler that reloads the settings in whatever thread it finds.   *)
(* SeckillBuy has all of this as the outcome of its action Receive.        *)
(*                                                                         *)
(* pc[r] is where a request is, gate[r] which window it is at:             *)
(*   "idle"    not yet received                                            *)
(*   "allow"   about to lock token_mutex_                                  *)
(*   "bucket"  holds token_mutex_                                          *)
(*   "clock"   about to read now_ms (for the user: parameters parsed)      *)
(*   "window"  has now_ms, about to lock window_mutex_                     *)
(*   "slid"    holds window_mutex_, expired entries are gone               *)
(*   "token"   about to GET the token                                      *)
(*   "delete"  the token matched, DEL is still to come                     *)
(*   "passed", "refused"                                                   *)
(*                                                                         *)
(* handler[t] is where the signal handler is in thread t, "none" when it   *)
(* is not running there:                                                   *)
(*   "reload"  about to lock reload_mutex_ and parse the file              *)
(*   "rate", "limits", "user"     inside Config::load                      *)
(*   "fetch", "rate2", "limits2"  main's own call of update_params         *)
(***************************************************************************)
EXTENDS RateLimiter, FiniteSets

CONSTANTS
    Times,        \* bound: the readings of the clock
    Targets,      \* bound: the threads that a SIGHUP may be delivered to
    MaxSignals,   \* bound: SIGHUPs
    MaxTokens     \* bound: tokens issued to a user

Limits == {"token_bucket", "sliding_window", "user_window"}
Sections == Limits \cup {"security"}

\* Config once the sections in S of a file have been stored over old.
Stored(old, file, S) ==
    LET At(section) == IF section \in S THEN file ELSE old IN
    [rate |-> At("token_bucket").rate, capacity |-> At("token_bucket").capacity,
     size |-> At("sliding_window").size, max |-> At("sliding_window").max,
     userSize |-> At("user_window").userSize, userMax |-> At("user_window").userMax,
     tokenRequired |-> At("security").tokenRequired]

ASSUME TimesAssumption == Times \subseteq Nat
ASSUME TargetsAssumption == Targets \subseteq Threads
ASSUME RatesAssumption ==   \* an int has a largest value
    \E top \in Settings : \A s \in Settings : s.rate <= top.rate
ASSUME SectionsAssumption ==   \* a file may hold any of the sections
    \A old, file \in Settings : \A S \in SUBSET Sections :
        Stored(old, file, S) \in Settings
ASSUME GateBoundsAssumption == MaxSignals \in Nat /\ MaxTokens \in Nat

VARIABLES
    pc, gate,
    handler,
    args,         \* what the handler in a thread has read to pass to update_params
    cfg,          \* Config's values
    reloadLock,   \* owner of reload_mutex_
    tokenKey,     \* seckill:token:<user>:<product> in Redis, or NoKey
    held,         \* the token a request was found to carry, or NoKey
    \* history
    given,        \* tokens issued to a user
    used,         \* tokens deleted after a check, and not issued again
    disturbed,    \* since the last reload that ran alone, another has joined
                  \* it or one has failed half-way
    signals

request == <<pc, gate>>
reloads == <<handler, args, cfg, reloadLock, disturbed, signals>>
token == <<tokenKey, held, given, used>>
vars == <<now, tokens, lastRefill, rate, capacity, winSize, winMax, userSize,
          userMax, records, reading, bucketLock, windowLock, spent, lastTake,
          newest, ontime, pc, gate, handler, args, cfg, reloadLock, tokenKey,
          held, given, used, disturbed, signals>>

NoKey == -1

PcStates == {"idle", "allow", "bucket", "clock", "window", "slid", "token",
             "delete", "passed", "refused"}
HandlerStates == {"none", "reload", "rate", "limits", "user", "fetch", "rate2",
                  "limits2"}
Decided == {"passed", "refused"}

\* The handler suspends the thread it interrupted.
Runs(r) == handler[r] = "none"

Goto(r, p) == pc' = [pc EXCEPT ![r] = p] /\ UNCHANGED gate

HandlerGoto(t, p) == handler' = [handler EXCEPT ![t] = p]

--------------------------------------------------------------------------------
(* handle_seckill up to the stock counter. *)

Arrive(r) ==
    /\ pc[r] = "idle"
    /\ Goto(r, "allow")
    /\ UNCHANGED <<limiter, reloads, token>>

EnterBucket(r) ==
    /\ pc[r] = "allow" /\ Runs(r)
    /\ bucketLock = Free
    /\ bucketLock' = r
    /\ Goto(r, "bucket")
    /\ UNCHANGED <<now, bucket, limits, windows, windowLock, reloads, token>>

LeaveBucket_KeepsLock(r) ==
    /\ pc[r] = "bucket" /\ Runs(r)
    /\ \/ TakeToken /\ Goto(r, "clock") /\ bucketLock' = Free
       \/ NoToken /\ Goto(r, "refused") /\ UNCHANGED bucketLock
    /\ UNCHANGED <<now, limits, windows, windowLock, reloads, token>>

\* refill_tokens, and a token if there is one.
LeaveBucket(r) ==
    /\ pc[r] = "bucket" /\ Runs(r)
    /\ \/ TakeToken /\ Goto(r, "clock")
       \/ NoToken /\ Goto(r, "refused")
    /\ bucketLock' = Free
    /\ UNCHANGED <<now, limits, windows, windowLock, reloads, token>>

\* now_ms is read before window_mutex_ is locked.
ReadClock(r) ==
    /\ pc[r] = "clock" /\ Runs(r)
    /\ reading' = [reading EXCEPT ![r][gate[r]] = Ms]
    /\ Goto(r, "window")
    /\ UNCHANGED <<now, bucket, limits, records, newest, ontime, bucketLock,
                   windowLock, reloads, token>>

\* "Missing parameters".
MissingParameters(r) ==
    /\ pc[r] = "clock" /\ gate[r] = "user" /\ Runs(r)
    /\ Goto(r, "refused")
    /\ UNCHANGED <<limiter, reloads, token>>

\* The first half of the critical section, with the first read of the limit.
EnterWindow(r) ==
    /\ pc[r] = "window" /\ Runs(r)
    /\ windowLock = Free
    /\ MaxAt(gate[r]) > 0
    /\ windowLock' = r
    /\ Slide(r, gate[r])
    /\ Goto(r, "slid")
    /\ UNCHANGED <<now, bucket, limits, reading, bucketLock, reloads, token>>

\* "window_max_ <= 0": refused by the first half.
RefuseAll(r) ==
    /\ pc[r] = "window" /\ Runs(r)
    /\ windowLock = Free
    /\ MaxAt(gate[r]) <= 0
    /\ Slide(r, gate[r])
    /\ Goto(r, "refused")
    /\ UNCHANGED <<now, bucket, limits, reading, bucketLock, windowLock, reloads, token>>

\* An admitted request goes from the window of its address to that of its user,
\* and from there to the token.
LeaveWindow(r) ==
    /\ pc[r] = "slid" /\ Runs(r)
    /\ windowLock' = Free
    /\ \/ Decline(r, gate[r]) /\ Goto(r, "refused")
       \/ /\ Record(r, gate[r])
          /\ gate' = [gate EXCEPT ![r] = "user"]
          /\ pc' = [pc EXCEPT ![r] = IF gate[r] = "ip" THEN "clock" ELSE "token"]
    /\ UNCHANGED <<now, bucket, limits, bucketLock, reloads, token>>

\* The token check is switched off.
Bypass(r) ==
    /\ pc[r] = "token" /\ Runs(r)
    /\ ~cfg.tokenRequired
    /\ Goto(r, "passed")
    /\ UNCHANGED <<limiter, reloads, token>>

MatchToken_Any(r) == \E t \in given[UserOf[r]] : held' = [held EXCEPT ![r] = t]

\* GET returns the token that the request carries.
MatchToken(r) ==
    \E t \in given[UserOf[r]] :
        /\ tokenKey[UserOf[r]] = t
        /\ held' = [held EXCEPT ![r] = t]

\* verifySeckillToken, up to the comparison.  No token, another token, an
\* expired key and an exception are refused (401, 500).
CheckToken(r) ==
    /\ pc[r] = "token" /\ Runs(r)
    /\ cfg.tokenRequired
    /\ \/ MatchToken(r) /\ Goto(r, "delete")
       \/ Goto(r, "refused") /\ UNCHANGED held
    /\ UNCHANGED <<limiter, reloads, tokenKey, given, used>>

\* DEL of the key, whatever it holds by now.
DeleteToken(r) ==
    /\ pc[r] = "delete" /\ Runs(r)
    /\ tokenKey' = [tokenKey EXCEPT ![UserOf[r]] = NoKey]
    /\ used' = [used EXCEPT ![UserOf[r]] = @ \cup {held[r]}]
    /\ Goto(r, "passed")
    /\ UNCHANGED <<limiter, reloads, held, given>>

\* DEL throws: the key may be gone or not, the request is answered 500.
DeleteThrows(r) ==
    /\ pc[r] = "delete" /\ Runs(r)
    /\ \/ UNCHANGED tokenKey
       \/ tokenKey' = [tokenKey EXCEPT ![UserOf[r]] = NoKey]
    /\ Goto(r, "refused")
    /\ UNCHANGED <<limiter, reloads, held, given, used>>

--------------------------------------------------------------------------------
(* Tokens. *)

\* handle_get_token: SETEX replaces a token of the user that is not used yet.
\* A token is a digest of the user, the product, a salt and the millisecond, so
\* two tokens of a millisecond are the same.
IssueToken(u) ==
    /\ cfg.tokenRequired
    /\ Cardinality(given[u]) < MaxTokens
    /\ tokenKey' = [tokenKey EXCEPT ![u] = Ms]
    /\ given' = [given EXCEPT ![u] = @ \cup {Ms}]
    /\ used' = [used EXCEPT ![u] = @ \ {Ms}]
    /\ UNCHANGED <<limiter, request, reloads, held>>

TokenExpires(u) ==
    /\ tokenKey[u] # NoKey
    /\ tokenKey' = [tokenKey EXCEPT ![u] = NoKey]
    /\ UNCHANGED <<limiter, request, reloads, held, given, used>>

--------------------------------------------------------------------------------
(* SIGHUP. *)

\* The signal is delivered to any thread that is not in the handler already.
Signal(t) ==
    /\ signals < MaxSignals
    /\ handler[t] = "none"
    /\ t \in Requests => pc[t] \notin {"idle"} \cup Decided
    /\ signals' = signals + 1
    /\ disturbed' = (disturbed \/ \E o \in Threads : handler[o] # "none")
    /\ HandlerGoto(t, "reload")
    /\ UNCHANGED <<limiter, request, args, cfg, reloadLock, token>>

\* What Config can hold once a file has been read up to one of its sections: a
\* section that the file leaves out is one that has the values of before.
Loaded(read) == {Stored(cfg, file, read) : file \in Settings}

\* Another handler is running.
Joined(t) == \E o \in Threads \ {t} : handler[o] # "none"

\* Config::reload, under reload_mutex_, up to the first update of the limiter.
Reload(t) ==
    /\ handler[t] = "reload"
    /\ reloadLock = Free
    /\ cfg' \in Loaded(Limits)
    /\ reloadLock' = t
    /\ disturbed' = (disturbed /\ Joined(t))
    /\ HandlerGoto(t, "rate")
    /\ UNCHANGED <<limiter, request, args, signals, token>>

\* A section that is no map throws when it is read: what was stored before it
\* stays in Config, and the limiter is not told.  A file that cannot be read has
\* stored nothing.
ReloadFails(t) ==
    /\ handler[t] = "reload"
    /\ reloadLock = Free
    /\ cfg' \in Loaded(Limits \ {"user_window"})
    /\ disturbed' = (disturbed \/ cfg' # cfg)
    /\ HandlerGoto(t, "none")
    /\ UNCHANGED <<limiter, request, args, reloadLock, signals, token>>

\* Config::load returns true; the last section it stores is security.
FinishLoad(t) ==
    /\ cfg' \in Loaded({"security"})
    /\ reloadLock' = Free
    /\ HandlerGoto(t, "fetch")

\* The file has no rate_limit at all: Config::load does not tell the limiter.
ReloadNoLimits(t) ==
    /\ handler[t] = "reload"
    /\ reloadLock = Free
    /\ FinishLoad(t)
    /\ disturbed' = (disturbed /\ Joined(t))
    /\ UNCHANGED <<limiter, request, args, signals, token>>

\* Config::load passes what it has just stored, handle_sighup what it read.
ArgsOf(t) == IF handler[t] \in {"rate", "limits", "user"} THEN cfg ELSE args[t]

\* update_params, called by Config::load and then by the handler of main.
HotUpdateRate(t) ==
    /\ handler[t] \in {"rate", "rate2"}
    /\ bucketLock = Free
    /\ bucketLock' = t
    /\ StoreRate(ArgsOf(t))
    /\ HandlerGoto(t, IF handler[t] = "rate" THEN "limits" ELSE "limits2")
    /\ UNCHANGED <<windowLock, request, args, cfg, reloadLock, disturbed, signals,
                   token>>

HotUpdateLimits(t) ==
    /\ handler[t] \in {"limits", "limits2"}
    /\ bucketLock' = Free
    /\ StoreLimits(ArgsOf(t))
    /\ \/ /\ handler[t] = "limits"
          /\ HandlerGoto(t, "user") /\ UNCHANGED args
       \/ /\ handler[t] = "limits2"
          /\ HandlerGoto(t, "none") /\ args' = [args EXCEPT ![t] = Default]
    /\ UNCHANGED <<windowLock, request, cfg, reloadLock, disturbed, signals,
                   token>>

\* update_user_params, and the end of Config::reload: true, or false when a
\* later section of the file is bad.
HotUpdateUser(t) ==
    /\ handler[t] = "user"
    /\ windowLock = Free
    /\ StoreUserLimits(ArgsOf(t))
    /\ \/ FinishLoad(t)
       \/ HandlerGoto(t, "none") /\ reloadLock' = Free /\ UNCHANGED cfg
    /\ UNCHANGED <<bucketLock, windowLock, request, args, disturbed, signals, token>>

\* handle_sighup reads the settings again, outside reload_mutex_.
Fetch(t) ==
    /\ handler[t] = "fetch"
    /\ args' = [args EXCEPT ![t] = cfg]
    /\ HandlerGoto(t, "rate2")
    /\ UNCHANGED <<limiter, request, cfg, reloadLock, disturbed, signals, token>>

Tick ==
    /\ now' \in {t \in Times : t > now}
    /\ UNCHANGED <<bucket, limits, windows, bucketLock, windowLock, request,
                   reloads, token>>

--------------------------------------------------------------------------------
Init ==
    /\ LimiterInit
    /\ pc = [r \in Requests |-> "idle"]
    /\ gate = [r \in Requests |-> "ip"]
    /\ handler = [t \in Threads |-> "none"]
    /\ args = [t \in Threads |-> Default]
    /\ cfg = Default
    /\ reloadLock = Free
    /\ tokenKey = [u \in Users |-> NoKey]
    /\ held = [r \in Requests |-> NoKey]
    /\ given = [u \in Users |-> {}]
    /\ used = [u \in Users |-> {}]
    /\ disturbed = FALSE
    /\ signals = 0

Serve(r) ==
    \/ EnterBucket(r) \/ LeaveBucket(r)
    \/ ReadClock(r) \/ MissingParameters(r)
    \/ EnterWindow(r) \/ RefuseAll(r) \/ LeaveWindow(r)
    \/ Bypass(r) \/ CheckToken(r) \/ DeleteToken(r) \/ DeleteThrows(r)

Handle(t) ==
    \/ Reload(t) \/ ReloadFails(t) \/ ReloadNoLimits(t)
    \/ HotUpdateRate(t) \/ HotUpdateLimits(t) \/ HotUpdateUser(t) \/ Fetch(t)

Next ==
    \/ \E r \in Requests : Arrive(r) \/ Serve(r)
    \/ \E u \in Users : IssueToken(u) \/ TokenExpires(u)
    \/ \E t \in Targets : Signal(t)
    \/ \E t \in Threads : Handle(t)
    \/ Tick

Spec == Init /\ [][Next]_vars

--------------------------------------------------------------------------------
(* Properties. *)

\* The values the variables take.
TypeOK ==
    /\ now \in Nat
    /\ tokens \in Int /\ lastRefill \in Nat
    /\ rate \in Nat /\ capacity \in Nat
    /\ winSize \in Int /\ winMax \in Int /\ userSize \in Int /\ userMax \in Int
    /\ records \in [Keys -> Seq(Requests)]
    /\ reading \in [Requests -> [Gates -> Nat]]
    /\ bucketLock \in Threads \cup {Free} /\ windowLock \in Threads \cup {Free}
    /\ spent \in Nat /\ lastTake \in Nat \cup {-1}
    /\ newest \in [Keys -> Nat]
    /\ ontime \subseteq Requests \X Gates
    /\ pc \in [Requests -> PcStates] /\ gate \in [Requests -> Gates]
    /\ handler \in [Threads -> HandlerStates]
    /\ args \in [Threads -> Settings] /\ cfg \in Settings
    /\ reloadLock \in Threads \cup {Free}
    /\ tokenKey \in [Users -> Nat \cup {NoKey}]
    /\ held \in [Requests -> Nat \cup {NoKey}]
    /\ given \in [Users -> SUBSET Nat] /\ used \in [Users -> SUBSET Nat]
    /\ disturbed \in BOOLEAN
    /\ signals \in Nat

TopRate ==
    CHOOSE m \in {s.rate : s \in Settings} : \A s \in Settings : s.rate <= m

\* The bucket lets through no more than its first content and what the highest
\* rate earns since the start, whatever the schedule of requests, refills and
\* hot updates.
BucketBound ==
    MsPerSecond * TicksPerMs * spent
        <= MsPerSecond * TicksPerMs * Default.capacity + TopRate * now

\* A caller that asks often is not starved by the rounding of the refill: at
\* 1000 tokens a second or more, an empty bucket means that somebody took a
\* token within the last millisecond that was counted.  A hot update does lose
\* the time since the last refill.
EmptyMeansBusy ==
    (Default.rate >= MsPerSecond /\ signals = 0 /\ tokens <= 0)
        => lastTake >= lastRefill

\* What a window can have been configured to.
SizesOf ==
    [g \in Gates |->
        IF g = "ip" THEN {s.size : s \in Settings}
        ELSE {s.userSize * MsPerSecond : s \in {s \in Settings : s.userSize > 0}}]

LimitsOf ==
    [g \in Gates |->
        IF g = "ip" THEN {0} \cup {s.max : s \in Settings}
        ELSE {s.userMax : s \in {s \in Settings : s.userMax > 0}}]

\* What the window of g has admitted under key k with a now_ms no older than
\* one that had entered before it.
AdmittedOnTime(g, k) ==
    {r \in Requests :
        /\ KeyOf(r, g) = k
        /\ <<r, g>> \in ontime
        /\ <<pc[r], gate[r]>> # <<"slid", g>>}

\* No interval as long as the shortest window ever configured holds more
\* admissions than the highest limit ever configured, for an address or for a
\* user.  Requests that were overtaken between reading the clock and locking
\* the window are not counted: what they need may have been expired already; and
\* nothing is said once a limit below zero may be configured, which admits
\* whoever has passed the check of the limit before.
WindowBound ==
    \A g \in Gates : \A size \in SizesOf[g], limit \in LimitsOf[g] :
        (/\ \A other \in SizesOf[g] : size <= other
         /\ \A other \in LimitsOf[g] : 0 <= other /\ other <= limit) =>
            \A last \in ontime :
                LET k == KeyOf(last[1], g)
                    end == reading[last[1]][g]
                IN  Cardinality({r \in AdmittedOnTime(g, k) :
                        reading[r][g] \in (end - size + 1)..end}) <= limit

\* A token that was checked and deleted is not accepted again.  Only requests
\* that check it at the same time, each GET before the other's DEL, can share
\* a token.
UsedTokenIsRefused ==
    [][\A r \in Requests :
           held'[r] # held[r] => held'[r] \notin used[UserOf[r]]]_vars

\* Once no handler runs, the limiter works with the settings that Config holds,
\* unless two handlers ran at the same time (the second call of update_params
\* is outside reload_mutex_, and can bring back older settings) or a reload
\* stored some sections and failed at another.  However far that has driven the
\* two apart, one reload that has run alone and has not failed brings them
\* together again, even one of a file that leaves sections out.
SettingsSettle ==
    (~disturbed /\ \A t \in Threads : handler[t] = "none") =>
        /\ winSize = cfg.size /\ winMax = cfg.max
        /\ cfg.rate > 0 => rate = cfg.rate
        /\ cfg.capacity > 0 => capacity = cfg.capacity /\ tokens <= capacity
        /\ cfg.userSize > 0 => userSize = cfg.userSize
        /\ cfg.userMax > 0 => userMax = cfg.userMax

Busy ==
    {t \in Threads :
        \/ handler[t] # "none"
        \/ t \in Requests /\ pc[t] \notin {"idle"} \cup Decided}

\* Waits for a mutex.
Blocked(t) ==
    IF handler[t] = "none"
    THEN \/ pc[t] = "allow" /\ bucketLock # Free
         \/ pc[t] = "window" /\ windowLock # Free
    ELSE \/ handler[t] = "reload" /\ reloadLock # Free
         \/ handler[t] \in {"rate", "rate2"} /\ bucketLock # Free
         \/ handler[t] = "user" /\ windowLock # Free

\* A SIGHUP has found a thread inside a critical section of the limiter.
Hit == \E r \in Requests : handler[r] # "none" /\ pc[r] \in {"bucket", "slid"}

\* The three mutexes leave no cycle of waiting threads, with any number of
\* requests and of handlers, two handlers at a time included, unless a SIGHUP
\* finds a thread that holds one: then its handler may wait for that thread,
\* by itself or through the handler of another.
NoDeadlock == Busy # {} => Hit \/ \E t \in Busy : ~Blocked(t)
================================================================================
