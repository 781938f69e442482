---------------------------- MODULE SeckillBuyProofs ----------------------------
(***************************************************************************)
(* Proofs about SeckillBuy, for every set of requests and users and every  *)
(* value of the bounds: who has an order, what an answer means, what the   *)
(* counter hides, that the server implements FlashSale, and that a request *)
(* comes to its end.                                                       *)
(***************************************************************************)
EXTENDS SeckillBuy, FiniteSetTheorems, TLAPS

\* What the stock key is worth is a natural number.
LEMMA LevelType == \A s \in Nat \cup {Absent} : Level(s) \in Nat
BY AbsentAssumption DEF Level

LEMMA RaiseType == \A m, n \in Nat : Raise(m, n) \in Nat
BY DEF Raise

LEMMA TypeInit == Init => TypeOK
<1> SUFFICES ASSUME Init PROVE TypeOK
  OBVIOUS
<1>1. stock \in Nat \cup {Absent}
  BY BoundsAssumption DEF Init
<1>2. Level(stock) \in Nat
  BY <1>1, LevelType
<1> QED
  BY <1>1, <1>2 DEF Init, TypeOK, PcStates, Results, Replies

\* Every action of the purchase path keeps the variables in their types.
LEMMA TypeNext == TypeOK /\ [Next]_vars => TypeOK'
<1> SUFFICES ASSUME TypeOK, [Next]_vars PROVE TypeOK'
  OBVIOUS
<1> USE DEF TypeOK, redis, process, bounds
<1>1. ASSUME NEW r \in Requests, Receive(r) PROVE TypeOK'
  BY <1>1 DEF Receive, Goto, Finish, PcStates, Replies, Refusals
<1>2. ASSUME NEW r \in Requests, PreDeduct(r) PROVE TypeOK'
  BY <1>2, AbsentAssumption DEF PreDeduct, TakeLocal, Goto, PcStates
<1>3. ASSUME NEW r \in Requests, UndoPreDeduct(r) PROVE TypeOK'
  BY <1>3 DEF UndoPreDeduct, Goto, Finish, PcStates, Replies, Refusals
<1>4. ASSUME NEW r \in Requests, InitRead(r) PROVE TypeOK'
  BY <1>4, LevelType DEF InitRead, Goto, PcStates
<1>5. ASSUME NEW r \in Requests, InitWrite(r) PROVE TypeOK'
  BY <1>5 DEF InitWrite, Goto, PcStates
<1>6. ASSUME NEW r \in Requests, RetryPreDeduct(r) PROVE TypeOK'
  BY <1>6, AbsentAssumption DEF RetryPreDeduct, TakeLocal, Goto, PcStates
<1>7. ASSUME NEW r \in Requests, Send(r) PROVE TypeOK'
  BY <1>7 DEF Send, Goto, PcStates
<1>8. ASSUME NEW r \in Requests, SendThrows(r) PROVE TypeOK'
  BY <1>8 DEF SendThrows, Goto, Finish, PcStates, Replies, Refusals
<1>9. ASSUME NEW r \in Requests, Execute(r) PROVE TypeOK'
  BY <1>9, UserOfAssumption, AbsentAssumption
     DEF Execute, LuaVerdict, LuaSell, Level, Results
<1>10. ASSUME NEW r \in Requests, ReplyLost(r) PROVE TypeOK'
  BY <1>10 DEF ReplyLost, Results
<1>11. ASSUME NEW r \in Requests, Callback(r) PROVE TypeOK'
  BY <1>11 DEF Callback, GivesBack, CodeOf, Goto, Finish, PcStates, Results,
               Replies, Refusals
<1>12. ASSUME NEW u \in Users, CooldownExpires(u) PROVE TypeOK'
  BY <1>12 DEF CooldownExpires
<1>13. ASSUME NEW n \in 0..MaxStock, SetStock(n) PROVE TypeOK'
  <2>1. n \in Nat
    BY BoundsAssumption
  <2>2. Level(stock) \in Nat
    BY LevelType
  <2>3. Raise(Level(stock), n) \in Nat
    BY <2>1, <2>2, RaiseType
  <2> QED
    BY <1>13, <2>1, <2>3 DEF SetStock
<1>14. CASE StopSale
  BY <1>14 DEF StopSale
<1>15. CASE Crash
  <2>1. pc' \in [Requests -> PcStates]
    BY <1>15 DEF Crash, PcStates
  <2>2. seen' \in [Requests -> Nat] /\ result' \in [Requests -> Results]
    BY <1>15 DEF Crash, Results
  <2>3. up' \in BOOLEAN
    BY <1>15 DEF Crash
  <2>4. /\ stock' = stock /\ buyers' = buyers /\ cooling' = cooling
        /\ stream' = stream /\ wire' = wire /\ reply' = reply
        /\ issued' = issued /\ starts' = starts
        /\ local' = Absent /\ drift' = 0 /\ crashes' = crashes + 1
    BY <1>15 DEF Crash
  <2> QED
    BY <2>1, <2>2, <2>3, <2>4
<1>16. CASE Restart
  BY <1>16, LevelType DEF Restart
<1>17. CASE UNCHANGED vars
  BY <1>17 DEF vars
<1> QED
  BY <1>1, <1>2, <1>3, <1>4, <1>5, <1>6, <1>7, <1>8, <1>9, <1>10, <1>11, <1>12,
     <1>13, <1>14, <1>15, <1>16, <1>17 DEF Next, Handle, Await

\* The variables of the purchase path keep their types in every behaviour.
THEOREM TypeCorrect == Spec => []TypeOK
BY TypeInit, TypeNext, PTL DEF Spec

--------------------------------------------------------------------------------
(* One order per user, and truthful answers. *)

\* The set of buyers is the set of owners of the orders.
BuyersMatch == \A u \in Users : u \in buyers <=> \E q \in stream : UserOf[q] = u

\* A request that has not been sent has no command, no result and no order.
NothingEarly ==
    \A r \in Requests :
        pc[r] \notin {"sent", "lost", "done"} =>
            r \notin stream \cup wire /\ result[r] = "none"

\* A command still on the wire has not been executed, and whoever sent it does
\* not know more than that.
WireTruth ==
    \A r \in wire :
        /\ r \notin stream
        /\ \/ pc[r] = "sent" /\ result[r] \in {"none", "error"}
           \/ pc[r] = "lost"
           \/ pc[r] = "done" /\ reply[r] = 503

\* What the callback is about to be given is what the script did.
ResultTruth ==
    \A r \in Requests : pc[r] = "sent" =>
        /\ result[r] = "sold" => r \in stream
        /\ result[r] \in {"soldout", "duplicate", "cooldown"} => r \notin stream \cup wire
        /\ result[r] = "duplicate" => \E q \in stream \ {r} : UserOf[q] = UserOf[r]

\* Only an answered request has a reply.
Unanswered == \A r \in Requests : pc[r] # "done" => reply[r] = 0

BuyTruth ==
    /\ BuyersMatch
    /\ NothingEarly
    /\ WireTruth
    /\ ResultTruth
    /\ Unanswered
    /\ OneOrderPerUser
    /\ AnswersAreTrue

BuyInv == TypeOK /\ BuyTruth

Early == {"idle", "check", "undo", "initread", "initwrite", "retry", "admitted"}

LEMMA BuyInit == Init => BuyTruth
BY DEF Init, BuyTruth, BuyersMatch, NothingEarly, WireTruth, ResultTruth, Unanswered,
       OneOrderPerUser, AnswersAreTrue, Refusals

\* A step that touches nothing the invariant reads.
LEMMA BuyFrame ==
    ASSUME BuyTruth, UNCHANGED <<buyers, stream, wire, pc, result, reply>>
    PROVE  BuyTruth'
BY DEF BuyTruth, BuyersMatch, NothingEarly, WireTruth, ResultTruth, Unanswered,
       OneOrderPerUser, AnswersAreTrue

\* A step of a request that has not been sent, to another such place.
LEMMA BuyEarly ==
    ASSUME BuyInv, NEW r \in Requests, NEW p \in Early, pc[r] \in Early, Goto(r, p),
           UNCHANGED <<buyers, stream, wire, result, reply>>
    PROVE  BuyTruth'
<1> USE DEF BuyInv, BuyTruth, TypeOK, Goto, Early
<1>1. BuyersMatch' /\ OneOrderPerUser' /\ AnswersAreTrue'
  BY DEF BuyersMatch, OneOrderPerUser, AnswersAreTrue
<1>2. NothingEarly' /\ Unanswered'
  BY DEF NothingEarly, Unanswered
<1>3. WireTruth'
  BY DEF NothingEarly, WireTruth
<1>4. ResultTruth'
  BY DEF ResultTruth
<1> QED
  BY <1>1, <1>2, <1>3, <1>4

\* A request that has not been sent is refused.
LEMMA BuyRefuse ==
    ASSUME BuyInv, NEW r \in Requests, NEW code \in {400, 410, 500}, pc[r] \in Early,
           Finish(r, code), UNCHANGED <<buyers, stream, wire, result>>
    PROVE  BuyTruth'
<1> USE DEF BuyInv, BuyTruth, TypeOK, Finish, Goto, Early
<1>1. BuyersMatch' /\ OneOrderPerUser'
  BY DEF BuyersMatch, OneOrderPerUser
<1>2. NothingEarly' /\ Unanswered'
  BY DEF NothingEarly, Unanswered
<1>3. WireTruth'
  BY DEF NothingEarly, WireTruth
<1>4. ResultTruth'
  BY DEF ResultTruth
<1>5. AnswersAreTrue'
  BY DEF NothingEarly, AnswersAreTrue, Refusals
<1> QED
  BY <1>1, <1>2, <1>3, <1>4, <1>5

LEMMA BuySend ==
    ASSUME BuyInv, NEW r \in Requests, Send(r) PROVE BuyTruth'
<1> USE DEF BuyInv, BuyTruth, TypeOK, Send, Goto, redis
<1>1. BuyersMatch' /\ OneOrderPerUser' /\ Unanswered' /\ NothingEarly'
  BY DEF BuyersMatch, OneOrderPerUser, Unanswered, NothingEarly
<1>2. r \notin stream /\ r \notin wire /\ reply[r] = 0 /\ result[r] = "none"
  BY DEF NothingEarly, Unanswered
<1>3. AnswersAreTrue'
  BY <1>2 DEF AnswersAreTrue, Refusals
<1>4. WireTruth'
  BY <1>2 DEF WireTruth
<1>5. ResultTruth'
  BY <1>2 DEF ResultTruth
<1> QED
  BY <1>1, <1>3, <1>4, <1>5

LEMMA BuyExecute ==
    ASSUME BuyInv, NEW r \in Requests, Execute(r) PROVE BuyTruth'
<1> USE DEF BuyInv, BuyTruth, TypeOK, bounds
<1> DEFINE verdict == LuaVerdict(UserOf[r])
           waiting == pc[r] = "sent" /\ result[r] = "none"
<1>1. /\ r \in wire /\ r \notin stream
      /\ wire' = wire \ {r}
      /\ pc' = pc /\ reply' = reply
      /\ result' = IF waiting THEN [result EXCEPT ![r] = verdict] ELSE result
      /\ UserOf[r] \in Users
  BY UserOfAssumption DEF Execute, WireTruth
<1>2. \/ pc[r] = "sent" /\ result[r] \in {"none", "error"}
      \/ pc[r] = "lost"
      \/ pc[r] = "done" /\ reply[r] = 503
  BY <1>1 DEF WireTruth
<1>3. CASE verdict = "sold"
  <2>1. stream' = stream \cup {r} /\ buyers' = buyers \cup {UserOf[r]}
    BY <1>3 DEF Execute, LuaSell
  <2>2. UserOf[r] \notin buyers
    BY <1>3 DEF LuaVerdict
  <2>3. BuyersMatch'
    BY <1>1, <2>1, UserOfAssumption DEF BuyersMatch
  <2>4. OneOrderPerUser'
    BY <1>1, <2>1, <2>2, UserOfAssumption DEF BuyersMatch, OneOrderPerUser
  <2>5. NothingEarly'
    BY <1>1, <1>2, <2>1 DEF NothingEarly
  <2>6. WireTruth'
    BY <1>1, <2>1 DEF WireTruth
  <2>7. ResultTruth'
    BY <1>1, <1>2, <1>3, <2>1 DEF ResultTruth
  <2>8. AnswersAreTrue' /\ Unanswered'
    BY <1>1, <1>2, <2>1 DEF AnswersAreTrue, Unanswered, Refusals
  <2> QED
    BY <2>3, <2>4, <2>5, <2>6, <2>7, <2>8
<1>4. CASE verdict # "sold"
  <2>1. stream' = stream /\ buyers' = buyers
    BY <1>4 DEF Execute
  <2>2. verdict \in {"soldout", "duplicate", "cooldown"}
    BY <1>4 DEF LuaVerdict
  <2>3. verdict = "duplicate" => \E q \in stream \ {r} : UserOf[q] = UserOf[r]
    BY <1>1 DEF LuaVerdict, BuyersMatch
  <2>4. BuyersMatch' /\ OneOrderPerUser' /\ Unanswered'
    BY <1>1, <2>1 DEF BuyersMatch, OneOrderPerUser, Unanswered
  <2>5. NothingEarly'
    BY <1>1, <2>1 DEF NothingEarly
  <2>6. WireTruth'
    BY <1>1, <2>1 DEF WireTruth
  <2>7. ResultTruth'
    BY <1>1, <1>2, <2>1, <2>2, <2>3 DEF ResultTruth
  <2>8. AnswersAreTrue'
    BY <1>1, <2>1 DEF AnswersAreTrue
  <2> QED
    BY <2>4, <2>5, <2>6, <2>7, <2>8
<1> QED
  BY <1>3, <1>4

LEMMA BuyReplyLost ==
    ASSUME BuyInv, NEW r \in Requests, ReplyLost(r) PROVE BuyTruth'
<1> USE DEF BuyInv, BuyTruth, TypeOK, ReplyLost, redis
<1>1. BuyersMatch' /\ OneOrderPerUser' /\ Unanswered' /\ NothingEarly' /\ AnswersAreTrue'
  BY DEF BuyersMatch, OneOrderPerUser, Unanswered, NothingEarly, AnswersAreTrue
<1>2. WireTruth'
  BY DEF WireTruth
<1>3. ResultTruth'
  BY DEF ResultTruth
<1> QED
  BY <1>1, <1>2, <1>3

LEMMA BuyCallback ==
    ASSUME BuyInv, NEW r \in Requests, Callback(r) PROVE BuyTruth'
<1> USE DEF BuyInv, BuyTruth, TypeOK, redis
<1> DEFINE code == CodeOf(result[r])
<1>1. /\ pc[r] = "sent" /\ result[r] # "none"
      /\ pc' = [pc EXCEPT ![r] = "done"]
      /\ reply' = [reply EXCEPT ![r] = code]
      /\ result' = [result EXCEPT ![r] = "none"]
      /\ stream' = stream /\ buyers' = buyers /\ wire' = wire
  BY DEF Callback, Finish, Goto
<1>2. /\ code = 200 => result[r] = "sold"
      /\ code \in Refusals => result[r] \in {"soldout", "duplicate", "cooldown"}
      /\ code = 409 => result[r] = "duplicate"
      /\ result[r] = "error" => code = 503
      /\ code # 0
  BY <1>1 DEF CodeOf, Results, Refusals
<1>3. BuyersMatch' /\ OneOrderPerUser' /\ Unanswered' /\ NothingEarly'
  BY <1>1 DEF BuyersMatch, OneOrderPerUser, Unanswered, NothingEarly
<1>4. WireTruth'
  BY <1>1, <1>2 DEF WireTruth
<1>5. ResultTruth'
  BY <1>1 DEF ResultTruth
<1>6. AnswersAreTrue'
  BY <1>1, <1>2 DEF AnswersAreTrue, ResultTruth
<1> QED
  BY <1>3, <1>4, <1>5, <1>6

LEMMA BuyCrash == ASSUME BuyInv, Crash PROVE BuyTruth'
<1> USE DEF BuyInv, BuyTruth, TypeOK, redis
<1>1. /\ \A r \in Requests : pc'[r] = IF pc[r] \in {"idle", "done"} THEN pc[r] ELSE "lost"
      /\ \A r \in Requests : result'[r] = "none"
      /\ stream' = stream /\ buyers' = buyers /\ wire' = wire /\ reply' = reply
  BY DEF Crash
<1>2. BuyersMatch' /\ OneOrderPerUser' /\ AnswersAreTrue'
  BY <1>1 DEF BuyersMatch, OneOrderPerUser, AnswersAreTrue
<1>3. Unanswered' /\ NothingEarly'
  BY <1>1 DEF Unanswered, NothingEarly
<1>4. WireTruth'
  BY <1>1 DEF WireTruth, NothingEarly
<1>5. ResultTruth'
  BY <1>1 DEF ResultTruth
<1> QED
  BY <1>2, <1>3, <1>4, <1>5

LEMMA BuyNext == BuyInv /\ [Next]_vars => BuyTruth'
<1> SUFFICES ASSUME BuyInv, [Next]_vars PROVE BuyTruth'
  OBVIOUS
<1>0. BuyTruth /\ TypeOK
  BY DEF BuyInv
<1>1. ASSUME NEW r \in Requests, Receive(r) PROVE BuyTruth'
  <2>1. pc[r] \in Early /\ UNCHANGED <<buyers, stream, wire, result>>
    BY <1>1 DEF Receive, Early, redis
  <2>2. CASE Goto(r, "check") /\ UNCHANGED reply
    BY <2>1, <2>2, BuyEarly DEF Early
  <2>3. CASE Finish(r, 400)
    BY <2>1, <2>3, BuyRefuse
  <2> QED
    BY <1>1, <2>2, <2>3 DEF Receive
<1>2. ASSUME NEW r \in Requests, PreDeduct(r) \/ RetryPreDeduct(r) PROVE BuyTruth'
  <2>1. pc[r] \in Early /\ UNCHANGED <<buyers, stream, wire, result, reply>>
    BY <1>2 DEF PreDeduct, RetryPreDeduct, Early, redis
  <2>2. \E p \in Early : Goto(r, p)
    BY <1>2 DEF PreDeduct, RetryPreDeduct, TakeLocal, Early
  <2> QED
    BY <2>1, <2>2, BuyEarly
<1>3. ASSUME NEW r \in Requests, UndoPreDeduct(r) PROVE BuyTruth'
  <2>1. pc[r] \in Early /\ Finish(r, 410) /\ UNCHANGED <<buyers, stream, wire, result>>
    BY <1>3 DEF UndoPreDeduct, Early, redis
  <2> QED
    BY <2>1, BuyRefuse
<1>4. ASSUME NEW r \in Requests, InitRead(r) \/ InitWrite(r) PROVE BuyTruth'
  <2>1. pc[r] \in Early /\ UNCHANGED <<buyers, stream, wire, result, reply>>
    BY <1>4 DEF InitRead, InitWrite, Early, redis
  <2>2. \E p \in Early : Goto(r, p)
    BY <1>4 DEF InitRead, InitWrite, Early
  <2> QED
    BY <2>1, <2>2, BuyEarly
<1>5. ASSUME NEW r \in Requests, SendThrows(r) PROVE BuyTruth'
  <2>1. pc[r] \in Early /\ Finish(r, 500) /\ UNCHANGED <<buyers, stream, wire, result>>
    BY <1>5 DEF SendThrows, Early, redis
  <2> QED
    BY <2>1, BuyRefuse
<1>6. ASSUME NEW r \in Requests, Send(r) \/ Execute(r) \/ ReplyLost(r) \/ Callback(r)
      PROVE  BuyTruth'
  BY <1>6, BuySend, BuyExecute, BuyReplyLost, BuyCallback
<1>7. CASE \/ \E u \in Users : CooldownExpires(u)
           \/ \E n \in 0..MaxStock : SetStock(n)
           \/ StopSale \/ Restart \/ UNCHANGED vars
  <2>1. UNCHANGED <<buyers, stream, wire, pc, result, reply>>
    BY <1>7 DEF CooldownExpires, SetStock, StopSale, Restart, vars, redis, process
  <2> QED
    BY <1>0, <2>1, BuyFrame
<1>8. CASE Crash
  BY <1>8, BuyCrash
<1> QED
  BY <1>1, <1>2, <1>3, <1>4, <1>5, <1>6, <1>7, <1>8 DEF Next, Handle, Await

\* The inductive invariant behind the three theorems that follow.
THEOREM BuyInvariant == Spec => []BuyInv
<1>1. Init => BuyInv
  BY TypeInit, BuyInit DEF BuyInv
<1>2. BuyInv /\ [Next]_vars => BuyInv'
  BY TypeNext, BuyNext DEF BuyInv
<1> QED
  BY <1>1, <1>2, PTL DEF Spec

\* No user ever has two orders, whatever races, lost replies, crashes and
\* restarts of the sale happen.
THEOREM OneOrder == Spec => []OneOrderPerUser
<1>1. BuyInv => OneOrderPerUser
  BY DEF BuyInv, BuyTruth
<1> QED
  BY <1>1, BuyInvariant, PTL

\* No buyer is ever told something false by an HTTP status other than 503.
THEOREM TrueAnswers == Spec => []AnswersAreTrue
<1>1. BuyInv => AnswersAreTrue
  BY DEF BuyInv, BuyTruth
<1> QED
  BY <1>1, BuyInvariant, PTL

--------------------------------------------------------------------------------
(* Counting: no oversell, and what the in-process counter covers. *)

\* A set of requests is finite, and its size is a natural number.
LEMMA SizeType ==
    ASSUME NEW S \in SUBSET Requests
    PROVE  IsFiniteSet(S) /\ Cardinality(S) \in Nat
BY RequestsAssumption, FS_Subset, FS_CardinalityType

\* Adding a new request makes a set one larger.
LEMMA SizeGrows ==
    ASSUME NEW S \in SUBSET Requests, NEW r \in Requests, r \notin S
    PROVE  Cardinality(S \cup {r}) = Cardinality(S) + 1
BY SizeType, FS_AddElement

\* Removing a member makes a set one smaller.
LEMMA SizeShrinks ==
    ASSUME NEW S \in SUBSET Requests, NEW r \in S
    PROVE  Cardinality(S \ {r}) = Cardinality(S) - 1
BY SizeType, FS_RemoveElement

LEMMA EmptySize == Cardinality({}) = 0
BY FS_EmptySet

StockInv == BuyInv /\ NoOversell

LEMMA StockNext == StockInv /\ [Next]_vars => NoOversell'
<1> SUFFICES ASSUME StockInv, [Next]_vars PROVE NoOversell'
  OBVIOUS
<1> USE DEF StockInv, BuyInv, TypeOK
<1>0. Level(stock) \in Nat /\ Cardinality(stream) \in Nat
  BY LevelType, SizeType
<1>1. ASSUME NEW r \in Requests, Execute(r) PROVE NoOversell'
  <2>1. CASE LuaVerdict(UserOf[r]) = "sold"
    <3>1. /\ stream' = stream \cup {r} /\ stock' = stock - 1 /\ issued' = issued
          /\ stock \in Nat /\ stock > 0
      BY <1>1, <2>1 DEF Execute, LuaSell, LuaVerdict, Level
    <3>2. r \notin stream
      BY <1>1 DEF Execute, BuyTruth, WireTruth
    <3>3. Cardinality(stream') = Cardinality(stream) + 1
      BY <3>1, <3>2, SizeGrows
    <3>4. Level(stock) = stock /\ Level(stock') = stock - 1
      BY <3>1, AbsentAssumption DEF Level
    <3> QED
      BY <1>0, <3>1, <3>3, <3>4 DEF NoOversell
  <2>2. CASE LuaVerdict(UserOf[r]) # "sold"
    BY <1>1, <2>2 DEF Execute, NoOversell
  <2> QED
    BY <2>1, <2>2
<1>2. ASSUME NEW n \in 0..MaxStock, SetStock(n) PROVE NoOversell'
  <2>1. n \in Nat
    BY BoundsAssumption
  <2>2. /\ stream' = stream
        /\ Level(stock') = n
        /\ issued' = issued + Raise(Level(stock), n)
    BY <1>2, <2>1, AbsentAssumption DEF SetStock, Level
  <2> QED
    BY <1>0, <2>1, <2>2 DEF NoOversell, Raise
<1>3. CASE StopSale
  <2>1. stream' = stream /\ issued' = issued /\ Level(stock') = 0
    BY <1>3 DEF StopSale, Level
  <2> QED
    BY <1>0, <2>1 DEF NoOversell
<1>4. CASE UNCHANGED <<stream, stock, issued>>
  BY <1>4 DEF NoOversell
<1> QED
  BY <1>1, <1>2, <1>3, <1>4
  DEF Next, Handle, Await, Receive, PreDeduct, UndoPreDeduct, InitRead, InitWrite,
      RetryPreDeduct, Send, SendThrows, ReplyLost, Callback, CooldownExpires, Crash,
      Restart, vars, redis

\* The orders and the units still on sale never exceed the units put on sale.
THEOREM NeverOversold == Spec => []NoOversell
<1>1. Init => StockInv
  <2>1. Init => NoOversell
    BY LevelType, TypeInit, EmptySize DEF Init, NoOversell, TypeOK
  <2> QED
    BY <2>1, TypeInit, BuyInit DEF StockInv, BuyInv
<1>2. StockInv /\ [Next]_vars => StockInv'
  BY StockNext, TypeNext, BuyNext DEF StockInv, BuyInv
<1>3. StockInv => NoOversell
  BY DEF StockInv
<1> QED
  BY <1>1, <1>2, <1>3, PTL DEF Spec

\* A value that was read for the counter and is still to be written covers the
\* stock, up to what was put on sale since.
SeenCovers ==
    \A r \in Requests : pc[r] = "initwrite" => seen[r] + drift >= Level(stock)

\* A thread between fetch_sub and fetch_add has a counter to put back into.
UndoHasCounter == Undoing # {} => local # Absent

CounterTruth == SeenCovers /\ UndoHasCounter /\ CounterCoversStock /\ CounterSettles

\* While the process is down no request is in it.
DownIsQuiet == ~up => \A r \in Requests : pc[r] \in {"idle", "done", "lost"}

CounterInv == TypeOK /\ NothingEarly /\ DownIsQuiet /\ CounterTruth

LEMMA QuietNext == TypeOK /\ DownIsQuiet /\ [Next]_vars => DownIsQuiet'
<1> SUFFICES ASSUME TypeOK, DownIsQuiet, [Next]_vars PROVE DownIsQuiet'
  OBVIOUS
<1> USE DEF TypeOK, DownIsQuiet
<1>1. ASSUME NEW r \in Requests, Receive(r) \/ Handle(r) \/ Await(r) PROVE DownIsQuiet'
  <2>1. up' = up
    BY <1>1 DEF Receive, Handle, Await, PreDeduct, UndoPreDeduct, InitRead, InitWrite,
                RetryPreDeduct, Send, SendThrows, ReplyLost, Callback
  <2>2. up
    BY <1>1 DEF Receive, Handle, Await, PreDeduct, UndoPreDeduct, InitRead, InitWrite,
                RetryPreDeduct, Send, SendThrows, ReplyLost, Callback
  <2> QED
    BY <2>1, <2>2
<1>2. CASE Crash
  BY <1>2 DEF Crash
<1>3. CASE Restart
  BY <1>3 DEF Restart
<1>4. CASE UNCHANGED <<up, pc>>
  BY <1>4
<1> QED
  BY <1>1, <1>2, <1>3, <1>4
  DEF Next, Execute, CooldownExpires, SetStock, StopSale, vars, redis, process

\* The facts about sizes and levels that every step needs.
LEMMA CounterTypes ==
    ASSUME TypeOK
    PROVE  /\ Level(stock) \in Nat
           /\ Cardinality(Undoing) \in Nat /\ Cardinality(Holders) \in Nat
           /\ Undoing \in SUBSET Requests /\ Holders \in SUBSET Requests
<1>1. Undoing \in SUBSET Requests /\ Holders \in SUBSET Requests
  BY DEF Undoing, Holders
<1> QED
  BY <1>1, LevelType, SizeType DEF TypeOK

\* A step that changes nothing the invariant reads.
LEMMA CounterFrame ==
    ASSUME CounterTruth, UNCHANGED <<stock, local, seen, drift>>,
           UNCHANGED <<Undoing, Holders>>,
           \A r \in Requests : pc'[r] = "initwrite" => pc[r] = "initwrite"
    PROVE  CounterTruth'
BY DEF CounterTruth, SeenCovers, UndoHasCounter, CounterCoversStock, CounterSettles

\* fetch_sub: a unit moves from the counter to a holder, or below zero to a
\* thread that is about to put it back.
LEMMA CounterTake ==
    ASSUME CounterInv, NEW r \in Requests, pc[r] \in {"check", "retry"}, TakeLocal(r),
           UNCHANGED <<stock, seen, drift, result>>
    PROVE  CounterTruth'
<1> USE DEF CounterInv, CounterTruth, TypeOK
<1>1. /\ local \in Int /\ local # Absent /\ local' = local - 1
      /\ local' \in Int /\ local' # Absent
      /\ r \notin Undoing /\ r \notin Holders
  BY AbsentAssumption DEF TakeLocal, Undoing, Holders
<1>2. SeenCovers' /\ UndoHasCounter'
  BY <1>1 DEF SeenCovers, UndoHasCounter, TakeLocal, Goto
<1>3. CASE local > 0
  <2>1. Undoing' = Undoing /\ Holders' = Holders \cup {r}
    BY <1>3 DEF TakeLocal, Goto, Undoing, Holders
  <2>2. Cardinality(Holders') = Cardinality(Holders) + 1
    BY <1>1, <2>1, SizeGrows, CounterTypes
  <2>3. CounterCoversStock' /\ CounterSettles'
    BY <1>1, <1>3, <2>1, <2>2, CounterTypes DEF CounterCoversStock, CounterSettles
  <2> QED
    BY <1>2, <2>3
<1>4. CASE ~(local > 0)
  <2>1. Undoing' = Undoing \cup {r} /\ Holders' = Holders
    BY <1>4 DEF TakeLocal, Goto, Undoing, Holders
  <2>2. Cardinality(Undoing') = Cardinality(Undoing) + 1
    BY <1>1, <2>1, SizeGrows, CounterTypes
  <2>3. CounterCoversStock' /\ CounterSettles'
    BY <1>1, <2>1, <2>2, CounterTypes DEF CounterCoversStock, CounterSettles
  <2> QED
    BY <1>2, <2>3
<1> QED
  BY <1>3, <1>4

LEMMA CounterUndo ==
    ASSUME CounterInv, NEW r \in Requests, UndoPreDeduct(r) PROVE CounterTruth'
<1> USE DEF CounterInv, CounterTruth, TypeOK, redis
<1>1. /\ Undoing' = Undoing \ {r} /\ Holders' = Holders /\ r \in Undoing
      /\ stock' = stock /\ drift' = drift
  BY DEF UndoPreDeduct, Finish, Goto, Undoing, Holders
<1>2. SeenCovers'
  BY DEF SeenCovers, UndoPreDeduct, Finish, Goto
<1>3. Cardinality(Undoing') = Cardinality(Undoing) - 1
  BY <1>1, SizeShrinks, CounterTypes
<1>4. local \in Int /\ local' = local + 1 /\ local # Absent /\ local' # Absent
  BY <1>1, AbsentAssumption DEF UndoPreDeduct, UndoHasCounter
<1> QED
  BY <1>1, <1>2, <1>3, <1>4, CounterTypes
  DEF UndoHasCounter, CounterCoversStock, CounterSettles

LEMMA CounterInitRead ==
    ASSUME CounterInv, NEW r \in Requests, InitRead(r) PROVE CounterTruth'
<1> USE DEF CounterInv, CounterTruth, TypeOK, redis
<1>1. /\ Undoing' = Undoing /\ Holders' = Holders
      /\ stock' = stock /\ drift' = drift /\ local' = local
  BY DEF InitRead, Goto, Undoing, Holders
<1>2. SeenCovers'
  BY CounterTypes DEF SeenCovers, InitRead, Goto
<1> QED
  BY <1>1, <1>2 DEF UndoHasCounter, CounterCoversStock, CounterSettles

\* The entry is replaced by what was read; no thread is undoing, because that
\* would hold the lock.
LEMMA CounterInitWrite ==
    ASSUME CounterInv, NEW r \in Requests, InitWrite(r) PROVE CounterTruth'
<1> USE DEF CounterInv, CounterTruth, TypeOK, redis
<1>1. /\ Undoing' = {} /\ Holders' = Holders
      /\ stock' = stock /\ drift' = drift /\ local' = seen[r]
      /\ seen[r] \in Nat /\ seen[r] + drift >= Level(stock)
  BY DEF InitWrite, Goto, Undoing, Holders, SeenCovers
<1>2. SeenCovers'
  BY DEF SeenCovers, InitWrite, Goto
<1> QED
  BY <1>1, <1>2, EmptySize, CounterTypes DEF UndoHasCounter, CounterCoversStock, CounterSettles

LEMMA CounterSendThrows ==
    ASSUME CounterInv, NEW r \in Requests, SendThrows(r) PROVE CounterTruth'
<1> USE DEF CounterInv, CounterTruth, TypeOK, redis
<1>1. /\ Undoing' = Undoing /\ Holders' = Holders \ {r} /\ r \in Holders
      /\ stock' = stock /\ local' = local
      /\ drift' = IF local = Absent THEN drift ELSE drift + 1
  BY DEF SendThrows, Finish, Goto, Undoing, Holders
<1>2. SeenCovers'
  BY CounterTypes DEF SeenCovers, SendThrows, Finish, Goto
<1>3. Cardinality(Holders') = Cardinality(Holders) - 1
  BY <1>1, SizeShrinks, CounterTypes
<1> QED
  BY <1>1, <1>2, <1>3, CounterTypes DEF UndoHasCounter, CounterCoversStock, CounterSettles

\* A sale takes a unit from the stock, and at most one holder with it.
LEMMA CounterExecute ==
    ASSUME CounterInv, NEW r \in Requests, Execute(r) PROVE CounterTruth'
<1> USE DEF CounterInv, CounterTruth, TypeOK, bounds
<1>1. /\ Undoing' = Undoing /\ local' = local /\ drift' = drift
      /\ pc' = pc /\ seen' = seen
  BY DEF Execute, Undoing
<1>2. CASE LuaVerdict(UserOf[r]) = "sold"
  <2>1. stock \in Nat /\ stock > 0 /\ stock' = stock - 1
    BY <1>2 DEF Execute, LuaSell, LuaVerdict, Level
  <2>2. Level(stock') = Level(stock) - 1
    BY <2>1, AbsentAssumption DEF Level
  <2>3. SeenCovers'
    BY <1>1, <2>2, CounterTypes DEF SeenCovers
  <2>4. Holders' = Holders \ {r} \/ Holders' = Holders
    BY <1>2 DEF Execute, Holders
  <2>5. Cardinality(Holders') >= Cardinality(Holders) - 1
    <3>1. CASE r \in Holders
      BY <2>4, <3>1, SizeShrinks, CounterTypes
    <3>2. CASE r \notin Holders
      <4>1. Holders' = Holders
        BY <2>4, <3>2
      <4> QED
        BY <4>1, CounterTypes
    <3> QED
      BY <3>1, <3>2
  <2>6. Cardinality(Holders') \in Nat
    <3>1. Holders' \in SUBSET Requests
      BY <2>4, CounterTypes
    <3> QED
      BY <3>1, SizeType
  <2> QED
    BY <1>1, <2>2, <2>3, <2>5, <2>6, CounterTypes
    DEF UndoHasCounter, CounterCoversStock, CounterSettles
<1>3. CASE LuaVerdict(UserOf[r]) # "sold"
  <2>1. stock' = stock /\ Holders' = Holders
    BY <1>3 DEF Execute, Holders
  <2> QED
    BY <1>1, <2>1 DEF SeenCovers, UndoHasCounter, CounterCoversStock, CounterSettles
<1> QED
  BY <1>2, <1>3

\* A lost reply makes a holder of a request that had been sold a unit.
LEMMA CounterReplyLost ==
    ASSUME CounterInv, NEW r \in Requests, ReplyLost(r) PROVE CounterTruth'
<1> USE DEF CounterInv, CounterTruth, TypeOK, redis
<1>1. /\ Undoing' = Undoing /\ Holders' = Holders \cup {r}
      /\ stock' = stock /\ local' = local /\ drift' = drift /\ pc' = pc /\ seen' = seen
  BY DEF ReplyLost, Undoing, Holders
<1>2. Cardinality(Holders') >= Cardinality(Holders) /\ Cardinality(Holders') \in Nat
  <2>1. CASE r \in Holders
    <3>1. Holders' = Holders
      BY <1>1, <2>1
    <3> QED
      BY <3>1, CounterTypes
  <2>2. CASE r \notin Holders
    BY <1>1, <2>2, SizeGrows, CounterTypes
  <2> QED
    BY <2>1, <2>2
<1> QED
  BY <1>1, <1>2, CounterTypes
  DEF SeenCovers, UndoHasCounter, CounterCoversStock, CounterSettles

\* The callback gives back exactly the units of the holders.
LEMMA CounterCallback ==
    ASSUME CounterInv, NEW r \in Requests, Callback(r) PROVE CounterTruth'
<1> USE DEF CounterInv, CounterTruth, TypeOK, redis
<1>1. /\ Undoing' = Undoing /\ Holders' = Holders \ {r}
      /\ r \in Holders <=> GivesBack(result[r])
      /\ stock' = stock /\ drift' = drift /\ seen' = seen
  BY DEF Callback, Finish, Goto, Undoing, Holders, GivesBack
<1>2. SeenCovers'
  BY <1>1 DEF SeenCovers, Callback, Finish, Goto
<1>3. CASE local = Absent
  BY <1>1, <1>2, <1>3 DEF Callback, UndoHasCounter, CounterCoversStock, CounterSettles
<1>4. CASE local # Absent /\ r \in Holders
  <2>1. local \in Int /\ local' = local + 1 /\ local' # Absent
    BY <1>1, <1>4, AbsentAssumption DEF Callback
  <2>2. Cardinality(Holders') = Cardinality(Holders) - 1
    BY <1>1, <1>4, SizeShrinks, CounterTypes
  <2> QED
    BY <1>1, <1>2, <1>4, <2>1, <2>2, CounterTypes
    DEF UndoHasCounter, CounterCoversStock, CounterSettles
<1>5. CASE local # Absent /\ r \notin Holders
  <2>1. local' = local /\ Holders' = Holders
    BY <1>1, <1>5 DEF Callback
  <2> QED
    BY <1>1, <1>2, <1>5, <2>1 DEF UndoHasCounter, CounterCoversStock, CounterSettles
<1> QED
  BY <1>3, <1>4, <1>5

LEMMA CounterStart ==
    ASSUME CounterInv, NEW n \in 0..MaxStock, SetStock(n) PROVE CounterTruth'
<1> USE DEF CounterInv, CounterTruth, TypeOK, process
<1>1. /\ n \in Nat /\ Level(stock') = n
      /\ Undoing' = Undoing /\ Holders' = Holders
      /\ local' = local /\ pc' = pc /\ seen' = seen
      /\ Watched => drift' = drift + Raise(Level(stock), n)
  BY BoundsAssumption, AbsentAssumption DEF SetStock, Level, Undoing, Holders
<1>2. SeenCovers'
  BY <1>1, CounterTypes DEF SeenCovers, Watched, Raise
<1>3. UndoHasCounter' /\ CounterSettles'
  BY <1>1 DEF UndoHasCounter, CounterSettles
<1>4. CounterCoversStock'
  BY <1>1, CounterTypes DEF CounterCoversStock, Watched, Raise
<1> QED
  BY <1>2, <1>3, <1>4

LEMMA CounterStop ==
    ASSUME CounterInv, StopSale PROVE CounterTruth'
<1> USE DEF CounterInv, CounterTruth, TypeOK, process
<1>1. /\ Level(stock') = 0
      /\ Undoing' = Undoing /\ Holders' = Holders
      /\ local' = local /\ pc' = pc /\ seen' = seen /\ drift' = drift
  BY DEF StopSale, Level, Undoing, Holders
<1> QED
  BY <1>1, CounterTypes DEF SeenCovers, UndoHasCounter, CounterCoversStock, CounterSettles

LEMMA CounterCrash == ASSUME CounterInv, Crash PROVE CounterTruth'
<1>1. local' = Absent /\ \A r \in Requests : pc'[r] \notin {"undo", "initwrite"}
  BY DEF Crash
<1> QED
  BY <1>1 DEF CounterTruth, SeenCovers, UndoHasCounter, CounterCoversStock, CounterSettles,
              Undoing

LEMMA CounterRestart == ASSUME CounterInv, Restart PROVE CounterTruth'
<1> USE DEF CounterInv, CounterTruth, TypeOK, redis
<1>1. /\ Undoing' = Undoing /\ Holders' = Holders
      /\ pc' = pc /\ seen' = seen /\ drift' = drift /\ stock' = stock
      /\ local' \in {Level(stock), Absent}
  BY DEF Restart, Undoing, Holders
<1>2. SeenCovers'
  BY <1>1 DEF SeenCovers
<1>3. CASE local' = Absent
  <2>1. Undoing = {}
    BY DEF Restart, DownIsQuiet, Undoing
  <2> QED
    BY <1>1, <1>2, <1>3, <2>1 DEF UndoHasCounter, CounterCoversStock, CounterSettles
<1>4. CASE local' = Level(stock)
  BY <1>1, <1>2, <1>4, CounterTypes, AbsentAssumption
  DEF UndoHasCounter, CounterCoversStock, CounterSettles
<1> QED
  BY <1>1, <1>3, <1>4

LEMMA CounterNext == CounterInv /\ [Next]_vars => CounterTruth'
<1> SUFFICES ASSUME CounterInv, [Next]_vars PROVE CounterTruth'
  OBVIOUS
<1>0. CounterTruth /\ TypeOK
  BY DEF CounterInv
<1>1. ASSUME NEW r \in Requests, Receive(r) PROVE CounterTruth'
  <2>1. /\ UNCHANGED <<Undoing, Holders>> /\ UNCHANGED <<stock, local, seen, drift>>
        /\ \A q \in Requests : pc'[q] = "initwrite" => pc[q] = "initwrite"
    BY <1>0, <1>1 DEF TypeOK, Receive, Finish, Goto, Undoing, Holders, redis
  <2> QED
    BY <1>0, <2>1, CounterFrame
<1>2. ASSUME NEW r \in Requests, Send(r) PROVE CounterTruth'
  <2>1. /\ \A q \in Requests : pc'[q] = "initwrite" => pc[q] = "initwrite"
        /\ UNCHANGED <<stock, local, seen, drift>> /\ Undoing' = Undoing
    BY <1>0, <1>2 DEF TypeOK, Send, Goto, Undoing, redis
  <2>2. result[r] = "none"
    BY <1>2 DEF CounterInv, NothingEarly, Send
  <2>3. Holders' = Holders
    BY <1>0, <1>2, <2>2 DEF TypeOK, Send, Goto, Holders, redis
  <2> QED
    BY <1>0, <2>1, <2>3, CounterFrame
<1>3. ASSUME NEW r \in Requests, PreDeduct(r) PROVE CounterTruth'
  <2>1. CASE TakeLocal(r)
    BY <1>3, <2>1, CounterTake DEF PreDeduct, redis
  <2>2. CASE Goto(r, "initread") /\ UNCHANGED local
    <3>1. /\ UNCHANGED <<Undoing, Holders>> /\ UNCHANGED <<stock, local, seen, drift>>
          /\ \A q \in Requests : pc'[q] = "initwrite" => pc[q] = "initwrite"
      BY <1>0, <1>3, <2>2 DEF TypeOK, PreDeduct, Goto, Undoing, Holders, redis
    <3> QED
      BY <1>0, <3>1, CounterFrame
  <2> QED
    BY <1>3, <2>1, <2>2 DEF PreDeduct
<1>4. ASSUME NEW r \in Requests, RetryPreDeduct(r) PROVE CounterTruth'
  <2>1. CASE TakeLocal(r)
    BY <1>4, <2>1, CounterTake DEF RetryPreDeduct, redis
  <2>2. CASE local = Absent /\ Goto(r, "admitted") /\ UNCHANGED local
    <3>1. /\ Undoing' = Undoing /\ UNCHANGED <<stock, local, seen, drift>>
          /\ \A q \in Requests : pc'[q] = "initwrite" => pc[q] = "initwrite"
      BY <1>0, <1>4, <2>2 DEF TypeOK, RetryPreDeduct, Goto, Undoing, redis
    <3> QED
      BY <1>0, <2>2, <3>1
      DEF CounterTruth, SeenCovers, UndoHasCounter, CounterCoversStock, CounterSettles
  <2> QED
    BY <1>4, <2>1, <2>2 DEF RetryPreDeduct
<1>5. ASSUME NEW u \in Users, CooldownExpires(u) PROVE CounterTruth'
  <2>1. UNCHANGED <<stock, local, seen, drift, pc, Undoing, Holders>>
    BY <1>5 DEF CooldownExpires, process, Undoing, Holders
  <2> QED
    BY <1>0, <2>1, CounterFrame
<1>6. CASE UNCHANGED vars
  <2>1. UNCHANGED <<stock, local, seen, drift, pc, Undoing, Holders>>
    BY <1>6 DEF vars, Undoing, Holders
  <2> QED
    BY <1>0, <2>1, CounterFrame
<1> QED
  BY <1>1, <1>2, <1>3, <1>4, <1>5, <1>6, CounterUndo, CounterInitRead, CounterInitWrite,
     CounterSendThrows, CounterExecute, CounterReplyLost, CounterCallback, CounterStart,
     CounterStop, CounterCrash, CounterRestart
  DEF Next, Handle, Await

LEMMA CounterInit == Init => CounterTruth
<1> SUFFICES ASSUME Init PROVE CounterTruth
  OBVIOUS
<1>1. TypeOK /\ Undoing = {} /\ Holders = {} /\ drift = 0
  BY TypeInit DEF Init, Undoing, Holders
<1>2. SeenCovers /\ UndoHasCounter
  BY <1>1 DEF Init, SeenCovers, UndoHasCounter
<1>3. local # Absent => local = Level(stock)
  BY DEF Init
<1>4. CounterCoversStock /\ CounterSettles
  BY <1>1, <1>3, CounterTypes, EmptySize DEF CounterCoversStock, CounterSettles
<1> QED
  BY <1>2, <1>4 DEF CounterTruth

\* The inductive invariant behind the two theorems that follow.
THEOREM CounterInvariant == Spec => []CounterInv
<1>1. Init => CounterInv
  <2>1. Init => DownIsQuiet
    BY DEF Init, DownIsQuiet
  <2> QED
    BY <2>1, TypeInit, BuyInit, CounterInit DEF CounterInv, BuyTruth
<1>2. BuyInv /\ BuyInv' /\ CounterInv /\ [Next]_vars => CounterInv'
  BY QuietNext, CounterNext DEF CounterInv, BuyInv, BuyTruth
<1> QED
  BY <1>1, <1>2, BuyInvariant, PTL DEF Spec

\* The in-process counter never hides a unit that is on sale, beyond what the
\* requests in flight hold and what it was not told of.
THEOREM CounterNeverHides == Spec => []CounterCoversStock
<1>1. CounterInv => CounterCoversStock
  BY DEF CounterInv, CounterTruth
<1> QED
  BY <1>1, CounterInvariant, PTL

\* The counter is below zero only while a thread is between fetch_sub and
\* fetch_add.
THEOREM CounterRecovers == Spec => []CounterSettles
<1>1. CounterInv => CounterSettles
  BY DEF CounterInv, CounterTruth
<1> QED
  BY <1>1, CounterInvariant, PTL

--------------------------------------------------------------------------------
(* The server implements FlashSale. *)

answerBar == [r \in Requests |-> AnswerOf(reply[r])]

\* A step that sends an HTTP status is the sale telling the buyer.
LEMMA TellStep ==
    ASSUME BuyInv, NEW r \in Requests, NEW code \in Replies \ {0}, reply[r] = 0,
           reply' = [reply EXCEPT ![r] = code],
           code = 200 => r \in stream,
           code \in Refusals => r \notin stream,
           UNCHANGED <<stock, issued, stream>>
    PROVE  Sale!Tell(r)
<1>1. answerBar[r] = "none"
  BY DEF answerBar, AnswerOf
<1>2. AnswerOf(code) \in {"ok", "refused", "unknown"}
  BY DEF AnswerOf
<1>3. answerBar' = [answerBar EXCEPT ![r] = AnswerOf(code)]
  BY DEF answerBar, BuyInv, TypeOK
<1>4. AnswerOf(code) = "ok" => r \in stream
  BY DEF AnswerOf
<1>5. AnswerOf(code) = "refused" => r \notin stream
  BY DEF AnswerOf, Replies
<1>6. Level(stock)' = Level(stock) /\ issued' = issued /\ stream' = stream
  OBVIOUS
<1> QED
  BY <1>1, <1>2, <1>3, <1>4, <1>5, <1>6 DEF Sale!Tell, answerBar

\* A purchase by the script is a sale.
LEMMA SellStep ==
    ASSUME BuyInv, NEW r \in Requests, Execute(r)
    PROVE  Sale!Sell(r) \/ UNCHANGED Sale!saleVars
<1> USE DEF BuyInv, BuyTruth, TypeOK
<1>1. r \in wire /\ r \notin stream /\ reply' = reply /\ issued' = issued
  BY DEF Execute, WireTruth
<1>2. CASE LuaVerdict(UserOf[r]) = "sold"
  <2>1. /\ stock \in Nat /\ stock > 0 /\ stock' = stock - 1
        /\ stream' = stream \cup {r} /\ UserOf[r] \notin buyers
    BY <1>2 DEF Execute, LuaSell, LuaVerdict, Level
  <2>2. Level(stock) > 0 /\ Level(stock)' = Level(stock) - 1
    BY <2>1, AbsentAssumption DEF Level
  <2>3. ~Sale!HasOrder(UserOf[r])
    BY <2>1, UserOfAssumption DEF Sale!HasOrder, BuyersMatch
  <2>4. reply[r] \in {0, 503}
    BY <1>1 DEF WireTruth, Unanswered
  <2>5. answerBar[r] \in {"none", "unknown"} /\ answerBar' = answerBar
    BY <1>1, <2>4 DEF answerBar, AnswerOf
  <2> QED
    BY <1>1, <2>1, <2>2, <2>3, <2>5 DEF Sale!Sell, answerBar
<1>3. CASE LuaVerdict(UserOf[r]) # "sold"
  BY <1>1, <1>3 DEF Execute, Sale!saleVars
<1> QED
  BY <1>2, <1>3

LEMMA SaleStep == BuyInv /\ [Next]_vars => [Sale!SaleNext]_(Sale!saleVars)
<1> SUFFICES ASSUME BuyInv, [Next]_vars PROVE Sale!SaleNext \/ UNCHANGED Sale!saleVars
  OBVIOUS
<1>0. TypeOK /\ NothingEarly /\ Unanswered /\ ResultTruth
  BY DEF BuyInv, BuyTruth
<1>1. ASSUME NEW r \in Requests, NEW code \in Refusals, pc[r] \in Early,
             Finish(r, code), UNCHANGED <<stock, issued, stream>>
      PROVE  Sale!Tell(r)
  <2>1. reply[r] = 0 /\ r \notin stream
    BY <1>0, <1>1 DEF NothingEarly, Unanswered, Early
  <2>2. code \in Replies \ {0}
    BY DEF Replies, Refusals
  <2>3. (code = 200 => r \in stream) /\ (code \in Refusals => r \notin stream)
    BY <2>1 DEF Refusals
  <2>4. reply' = [reply EXCEPT ![r] = code] /\ UNCHANGED <<stock, issued, stream>>
    BY <1>1 DEF Finish
  <2> QED
    BY <2>1, <2>2, <2>3, <2>4, TellStep
<1>2. ASSUME NEW r \in Requests, Receive(r) PROVE Sale!Tell(r) \/ UNCHANGED Sale!saleVars
  <2>1. pc[r] \in Early /\ UNCHANGED <<stock, issued, stream>>
    BY <1>2 DEF Receive, Early, redis
  <2>2. CASE Finish(r, 400)
    BY <1>1, <2>1, <2>2 DEF Refusals
  <2>3. CASE UNCHANGED reply
    BY <2>1, <2>3 DEF Sale!saleVars
  <2> QED
    BY <1>2, <2>2, <2>3 DEF Receive
<1>3. ASSUME NEW r \in Requests, UndoPreDeduct(r) PROVE Sale!Tell(r)
  <2>1. pc[r] \in Early /\ Finish(r, 410) /\ UNCHANGED <<stock, issued, stream>>
    BY <1>3 DEF UndoPreDeduct, Early, redis
  <2> QED
    BY <1>1, <2>1 DEF Refusals
<1>4. ASSUME NEW r \in Requests, SendThrows(r) PROVE Sale!Tell(r)
  <2>1. pc[r] \in Early /\ Finish(r, 500) /\ UNCHANGED <<stock, issued, stream>>
    BY <1>4 DEF SendThrows, Early, redis
  <2> QED
    BY <1>1, <2>1 DEF Refusals
<1>5. ASSUME NEW r \in Requests, Callback(r) PROVE Sale!Tell(r)
  <2> DEFINE code == CodeOf(result[r])
  <2>1. /\ pc[r] = "sent" /\ reply' = [reply EXCEPT ![r] = code]
        /\ UNCHANGED <<stock, issued, stream>>
    BY <1>5 DEF Callback, Finish, redis
  <2>2. /\ code = 200 => result[r] = "sold"
        /\ code \in Refusals => result[r] \in {"soldout", "duplicate", "cooldown"}
        /\ code \in Replies \ {0}
    BY <1>0, <1>5 DEF CodeOf, Results, Refusals, Replies, TypeOK, Callback
  <2>3. reply[r] = 0
    BY <1>0, <2>1 DEF Unanswered
  <2>4. (code = 200 => r \in stream) /\ (code \in Refusals => r \notin stream)
    BY <1>0, <2>1, <2>2 DEF ResultTruth
  <2> HIDE DEF code
  <2> QED
    BY <2>1, <2>2, <2>3, <2>4, TellStep
<1>6. ASSUME NEW n \in 0..MaxStock, SetStock(n) PROVE Sale!Offer
  <2>1. n \in Nat /\ Level(stock') = n
    BY <1>6, BoundsAssumption, AbsentAssumption DEF SetStock, Level
  <2>2. issued' = issued + Raise(Level(stock), n) /\ stream' = stream /\ reply' = reply
    BY <1>6 DEF SetStock, process
  <2>3. Sale!Raise(Level(stock), n) = Raise(Level(stock), n)
    BY DEF Sale!Raise, Raise
  <2> QED
    BY <2>1, <2>2, <2>3 DEF Sale!Offer
<1>7. CASE StopSale
  <2>1. Level(stock') = 0 /\ Level(stock) \in Nat /\ issued \in Nat
    BY <1>0, <1>7, LevelType DEF StopSale, Level, TypeOK
  <2>2. issued' = issued /\ stream' = stream /\ reply' = reply
    BY <1>7 DEF StopSale, process
  <2>3. Sale!Raise(Level(stock), 0) = 0
    BY <2>1 DEF Sale!Raise
  <2> QED
    BY <2>1, <2>2, <2>3 DEF Sale!SaleNext, Sale!Offer
<1>8. CASE UNCHANGED <<stock, issued, stream, reply>>
  BY <1>8 DEF Sale!saleVars
<1>9. ASSUME NEW r \in Requests,
             PreDeduct(r) \/ InitRead(r) \/ InitWrite(r) \/ RetryPreDeduct(r) \/ Send(r)
             \/ ReplyLost(r)
      PROVE  UNCHANGED <<stock, issued, stream, reply>>
  BY <1>9 DEF PreDeduct, InitRead, InitWrite, RetryPreDeduct, Send, ReplyLost, redis
<1>10. (\E u \in Users : CooldownExpires(u)) \/ Crash \/ Restart \/ UNCHANGED vars
       => UNCHANGED <<stock, issued, stream, reply>>
  BY DEF CooldownExpires, Crash, Restart, vars, redis, process
<1> QED
  BY <1>2, <1>3, <1>4, <1>5, <1>6, <1>7, <1>8, <1>9, <1>10, SellStep
  DEF Next, Handle, Await, Sale!SaleNext

LEMMA SaleInitially == Init => Sale!SaleInit
<1> SUFFICES ASSUME Init PROVE Sale!SaleInit
  OBVIOUS
<1>1. Level(stock) \in Nat /\ issued = Level(stock) /\ stream = {}
  <2>1. stock \in Nat \cup {Absent}
    BY TypeInit DEF TypeOK
  <2> QED
    BY <2>1, LevelType DEF Init
<1>2. answerBar = [r \in Requests |-> "none"]
  BY DEF answerBar, AnswerOf, Init
<1> QED
  BY <1>1, <1>2 DEF Sale!SaleInit, answerBar

\* The server keeps the promises of a flash sale: it sells only units that are
\* on sale, once to each user, and what it tells a buyer is true and final.
THEOREM Implementation == Spec => SellsAsPromised
BY SaleInitially, SaleStep, BuyInvariant, PTL DEF Spec, SellsAsPromised, Sale!SaleSpec

--------------------------------------------------------------------------------
(* No request goes on for ever: the part of EveryRequestAnswered that needs *)
(* no fairness.                                                             *)

\* The steps that request r can still take, of its own or of Redis for it.
StepsOf(r) ==
    CASE pc[r] = "idle"      -> 9
      [] pc[r] = "check"     -> 8
      [] pc[r] = "initread"  -> 7
      [] pc[r] = "initwrite" -> 6
      [] pc[r] = "retry"     -> 5
      [] pc[r] = "admitted"  -> 4
      [] pc[r] = "sent"      -> IF result[r] = "none" THEN 3
                                ELSE IF result[r] = "error" THEN 1 ELSE 2
      [] pc[r] = "undo"      -> 1
      [] OTHER               -> 0

\* Each step of a request leaves it fewer, nothing that others do gives it any,
\* and one that has none left is answered or died with the process.
RequestsGetOn ==
    \A r \in Requests :
        /\ StepsOf(r) \in 0..9
        /\ StepsOf(r) = 0 <=> pc[r] \in {"done", "lost"}
        /\ StepsOf(r)' <= StepsOf(r)
        /\ Receive(r) \/ Handle(r) \/ Await(r) => StepsOf(r)' < StepsOf(r)

\* The steps of the other requests are as many as before.
LEMMA OthersSteps ==
    ASSUME NEW r, pc'[r] = pc[r], result'[r] = result[r]
    PROVE  StepsOf(r)' = StepsOf(r)
<1> QED BY DEF StepsOf

\* What a step of request r does to the number of its steps.
LEMMA OwnSteps ==
    ASSUME TypeOK, NEW r \in Requests, Receive(r) \/ Handle(r) \/ Await(r)
    PROVE  StepsOf(r)' < StepsOf(r)
<1> USE DEF TypeOK, StepsOf, Goto, Finish
<1>1. CASE Receive(r)
  BY <1>1 DEF Receive
<1>2. CASE PreDeduct(r) \/ RetryPreDeduct(r)
  BY <1>2 DEF PreDeduct, RetryPreDeduct, TakeLocal
<1>3. CASE UndoPreDeduct(r)
  BY <1>3 DEF UndoPreDeduct
<1>4. CASE InitRead(r) \/ InitWrite(r)
  BY <1>4 DEF InitRead, InitWrite
<1>5. CASE Send(r) \/ SendThrows(r)
  BY <1>5 DEF Send, SendThrows
<1>6. CASE ReplyLost(r)
  BY <1>6 DEF ReplyLost, Results
<1>7. CASE Callback(r)
  BY <1>7 DEF Callback
<1>8. QED BY <1>1, <1>2, <1>3, <1>4, <1>5, <1>6, <1>7 DEF Handle, Await

\* A step of request r touches neither pc nor result of another.
LEMMA OwnStepsOnly ==
    ASSUME TypeOK, NEW r \in Requests, Receive(r) \/ Handle(r) \/ Await(r),
           NEW q \in Requests \ {r}
    PROVE  pc'[q] = pc[q] /\ result'[q] = result[q]
<1> USE DEF TypeOK, Goto, Finish
<1>1. CASE Receive(r)
  BY <1>1 DEF Receive
<1>2. CASE PreDeduct(r) \/ RetryPreDeduct(r)
  BY <1>2 DEF PreDeduct, RetryPreDeduct, TakeLocal
<1>3. CASE UndoPreDeduct(r) \/ InitRead(r) \/ InitWrite(r)
  BY <1>3 DEF UndoPreDeduct, InitRead, InitWrite
<1>4. CASE Send(r) \/ SendThrows(r)
  BY <1>4 DEF Send, SendThrows
<1>5. CASE ReplyLost(r) \/ Callback(r)
  BY <1>5 DEF ReplyLost, Callback
<1>6. QED BY <1>1, <1>2, <1>3, <1>4, <1>5 DEF Handle, Await

\* handle_seckill comes back to no line of its own: whatever other requests,
\* Redis, administrators and crashes do, a request is over after nine steps.
THEOREM RequestsEnd == Spec => [][RequestsGetOn]_vars
<1>1. TypeOK /\ [Next]_vars => [RequestsGetOn]_vars
  <2> SUFFICES ASSUME TypeOK, Next, NEW r \in Requests
               PROVE  /\ StepsOf(r) \in 0..9
                      /\ StepsOf(r) = 0 <=> pc[r] \in {"done", "lost"}
                      /\ StepsOf(r)' <= StepsOf(r)
                      /\ Receive(r) \/ Handle(r) \/ Await(r) => StepsOf(r)' < StepsOf(r)
    BY DEF RequestsGetOn
  <2>1. StepsOf(r) \in 0..9 /\ (StepsOf(r) = 0 <=> pc[r] \in {"done", "lost"})
    BY DEF StepsOf, TypeOK, PcStates
  <2>2. TypeOK'
    BY TypeNext
  <2>3. StepsOf(r)' \in 0..9
    BY <2>2 DEF StepsOf, TypeOK, PcStates
  <2>4. ASSUME NEW q \in Requests, Receive(q) \/ Handle(q) \/ Await(q)
        PROVE  StepsOf(r)' <= StepsOf(r)
    <3>1. CASE q = r
      <4>1. StepsOf(r)' < StepsOf(r)
        BY <2>4, <3>1, OwnSteps
      <4>2. QED BY <2>1, <2>3, <4>1
    <3>2. CASE q # r
      <4>1. StepsOf(r)' = StepsOf(r)
        BY <2>4, <3>2, OwnStepsOnly, OthersSteps
      <4>2. QED BY <2>1, <4>1
    <3>3. QED BY <3>1, <3>2
  <2>5. ASSUME NEW q \in Requests, Execute(q)
        PROVE  StepsOf(r)' <= StepsOf(r)
    <3>1. /\ pc' = pc
          /\ \/ result'[r] = result[r]
             \/ result[r] = "none"
      BY <2>5 DEF Execute, TypeOK
    <3>2. QED BY <3>1 DEF StepsOf
  <2>6. ASSUME Crash
        PROVE  StepsOf(r)' <= StepsOf(r)
    <3>1. pc'[r] \in {pc[r], "lost"} /\ (pc'[r] = pc[r] => pc[r] \in {"idle", "done", "lost"})
      BY <2>6 DEF Crash, TypeOK
    <3>2. QED BY <3>1 DEF StepsOf
  <2>7. ASSUME \/ \E u \in Users : CooldownExpires(u)
               \/ \E n \in 0..MaxStock : SetStock(n)
               \/ StopSale \/ Restart
        PROVE  StepsOf(r)' <= StepsOf(r)
    <3>1. UNCHANGED <<pc, result>>
      BY <2>7 DEF CooldownExpires, SetStock, StopSale, Restart, process
    <3>2. StepsOf(r)' = StepsOf(r)
      BY <3>1, OthersSteps
    <3>3. QED BY <2>1, <3>2
  <2>8. StepsOf(r)' <= StepsOf(r)
    BY <2>4, <2>5, <2>6, <2>7 DEF Next
  <2>9. QED BY <2>1, <2>8, OwnSteps
<1>2. QED BY <1>1, TypeCorrect, PTL DEF Spec
================================================================================
