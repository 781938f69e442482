---------------------------- MODULE SSEServerProofs -----------------------------
(***************************************************************************)
(* The event server for every number of clients and of descriptors: what   *)
(* is filed under a user is that user's, nothing accepted is forgotten,    *)
(* and broadcasts keep their order.                                        *)
(***************************************************************************)
EXTENDS SSEServer, SequenceTheorems, TLAPS

\* The thread has a descriptor in hand exactly while it greets a client, and
\* that descriptor is open and not registered yet.
HandIsFresh ==
    /\ hand # Nothing <=> loop \in {"recv", "greet", "add"}
    /\ hand # Nothing => peer[hand] \in Clients /\ fd_to_user[hand] = Nothing

Registry == OwnConnectionsOnly /\ Held /\ HandIsFresh

\* The events sent, taken and queued are all that were broadcast, in order.
InOrder ==
    /\ \A i \in 1..Len(sent) : sent[i] = i
    /\ \A i \in 1..Len(taken) : taken[i] = Len(sent) + i
    /\ \A i \in 1..Len(queue) : queue[i] = Len(sent) + Len(taken) + i
    /\ Len(sent) + Len(taken) + Len(queue) = broadcasts
    /\ loop # "deliver" => taken = <<>>

\* Once stop has closed the listening socket, nothing is accepted any more.
LeftInv == OneLeft /\ (stop \in {"close", "join", "stopped"} => ~listening)

SSEInv == SSETypeOK /\ Registry /\ LeftInv /\ InOrder

--------------------------------------------------------------------------------
\* The server starts with no connection and no event.
LEMMA ServerStarts == SSEInit => SSEInv
<1> SUFFICES ASSUME SSEInit PROVE SSEInv
  OBVIOUS
<1>1. SSETypeOK
  BY EmptySeq DEF SSEInit, SSETypeOK, LoopStates, StopStates
<1>2. Registry
  BY SSEConstantsAssumption DEF SSEInit, Registry, OwnConnectionsOnly,
     Held, HandIsFresh
<1>3. InOrder
  BY EmptySeq DEF SSEInit, InOrder
<1>4. LeftInv
  BY DEF SSEInit, LeftInv, OneLeft
<1>5. QED BY <1>1, <1>2, <1>3, <1>4 DEF SSEInv

--------------------------------------------------------------------------------
(* The registry. *)

\* Closing dead connections in both maps keeps the registry, whatever the
\* thread does next with a descriptor it has in hand.
LEMMA CloseDeadKeeps ==
    ASSUME SSETypeOK, Registry, NEW dead \in SUBSET Registered, CloseDead(dead),
           hand' = hand, loop' = loop \/ {loop, loop'} \cap {"recv", "greet", "add"} = {}
    PROVE  /\ Registry'
           /\ peer' \in [Descriptors -> Clients \cup {Foreign, Nothing}]
           /\ gone' \subseteq Descriptors
           /\ user_fds' \in [Clients -> SUBSET Descriptors]
           /\ fd_to_user' \in [Descriptors -> Clients \cup {Nothing}]
<1> USE DEF Registry
<1>1. \A fd \in Descriptors :
          /\ peer'[fd] = IF fd \in dead THEN Nothing ELSE peer[fd]
          /\ fd_to_user'[fd] = IF fd \in dead THEN Nothing ELSE fd_to_user[fd]
  BY DEF CloseDead, Closed
<1>2. \A u \in Clients : user_fds'[u] = user_fds[u] \ dead
  BY DEF CloseDead
<1>3. dead \subseteq Descriptors /\ \A fd \in dead : fd_to_user[fd] # Nothing
  BY DEF Registered
<1>4. /\ peer' \in [Descriptors -> Clients \cup {Foreign, Nothing}]
      /\ gone' \subseteq Descriptors
      /\ user_fds' \in [Clients -> SUBSET Descriptors]
      /\ fd_to_user' \in [Descriptors -> Clients \cup {Nothing}]
  BY DEF CloseDead, Closed, SSETypeOK
<1>5. OwnConnectionsOnly'
  BY <1>1, <1>2, SSEConstantsAssumption DEF OwnConnectionsOnly
<1>6. Held'
  BY <1>1, SSEConstantsAssumption DEF Held, Registered
<1>7. HandIsFresh'
  BY <1>1, <1>3, SSEConstantsAssumption DEF HandIsFresh, SSETypeOK
<1>8. QED BY <1>4, <1>5, <1>6, <1>7

\* A send closes some of the registered connections it was tried on.
LEMMA SendKeeps ==
    ASSUME SSETypeOK, Registry, NEW fds \in SUBSET Registered, Send(fds),
           hand' = hand, loop' = loop \/ {loop, loop'} \cap {"recv", "greet", "add"} = {}
    PROVE  /\ Registry'
           /\ peer' \in [Descriptors -> Clients \cup {Foreign, Nothing}]
           /\ gone' \subseteq Descriptors
           /\ user_fds' \in [Clients -> SUBSET Descriptors]
           /\ fd_to_user' \in [Descriptors -> Clients \cup {Nothing}]
<1>1. PICK dead \in SUBSET Registered : CloseDead(dead)
  BY DEF Send
<1>2. QED BY <1>1, CloseDeadKeeps

\* What is filed under a user is registered.
LEMMA FiledIsRegistered ==
    ASSUME SSETypeOK, Registry, NEW u \in Clients
    PROVE  user_fds[u] \subseteq Registered
<1> QED
  BY SSEConstantsAssumption DEF Registry, OwnConnectionsOnly, Registered, SSETypeOK

\* Steps that leave the descriptors, the maps and the hand alone.
LEMMA OtherStepsKeep ==
    ASSUME SSETypeOK, Registry,
           UNCHANGED <<peer, user_fds, fd_to_user, hand>>,
           loop' = loop \/ {loop, loop'} \subseteq {"recv", "greet", "add"}
               \/ {loop, loop'} \cap {"recv", "greet", "add"} = {}
    PROVE  Registry'
<1>1. OwnConnectionsOnly' /\ Held'
  BY DEF Registry, OwnConnectionsOnly, Held, Registered
<1>2. HandIsFresh'
  BY DEF Registry, HandIsFresh
<1>3. QED BY <1>1, <1>2 DEF Registry

\* A number that is free is neither registered nor in hand.
LEMMA FreeNumber ==
    ASSUME SSETypeOK, Registry, NEW fd \in Descriptors, peer[fd] \notin Clients
    PROVE  fd_to_user[fd] = Nothing /\ fd # hand
<1> QED
  BY SSEConstantsAssumption DEF Registry, OwnConnectionsOnly, HandIsFresh, SSETypeOK

\* accept.
LEMMA AcceptKeeps ==
    ASSUME SSETypeOK, Registry, NEW u \in Clients, NEW fd \in Descriptors, Accept(u, fd)
    PROVE  SSETypeOK' /\ Registry'
<1>1. /\ fd_to_user[fd] = Nothing /\ hand = Nothing /\ hand' = fd /\ fd # Nothing
      /\ \A d \in Descriptors : peer'[d] = IF d = fd THEN u ELSE peer[d]
      /\ UNCHANGED <<user_fds, fd_to_user>> /\ loop' = "recv"
  BY FreeNumber, SSEConstantsAssumption
     DEF Accept, registry, Registry, HandIsFresh, SSETypeOK
<1>2. SSETypeOK'
  BY DEF Accept, SSETypeOK, life, registry, events, LoopStates
<1>3. OwnConnectionsOnly'
  BY <1>1, SSEConstantsAssumption DEF Registry, OwnConnectionsOnly
<1>4. Held'
  BY <1>1, SSEConstantsAssumption DEF Registry, Held, Registered
<1>5. HandIsFresh'
  BY <1>1 DEF HandIsFresh
<1>6. QED BY <1>2, <1>3, <1>4, <1>5 DEF Registry

\* A connection that is not accepted after all, and one that is registered.
LEMMA GreetingKeeps ==
    ASSUME SSETypeOK, Registry, CloseHand \/ AddClient
    PROVE  SSETypeOK' /\ Registry'
<1>1. /\ hand \in Descriptors /\ hand # Nothing
      /\ peer[hand] \in Clients /\ fd_to_user[hand] = Nothing
      /\ hand' = Nothing /\ loop' = "drain"
  BY DEF CloseHand, AddClient, Registry, HandIsFresh, SSETypeOK
<1>2. CASE CloseHand
  <2>1. /\ \A fd \in Descriptors :
               peer'[fd] = IF fd = hand THEN Nothing ELSE peer[fd]
        /\ UNCHANGED <<user_fds, fd_to_user>>
    BY <1>2 DEF CloseHand, Closed, registry
  <2>2. SSETypeOK'
    BY <1>2 DEF CloseHand, Closed, SSETypeOK, life, registry, events, LoopStates
  <2>3. OwnConnectionsOnly'
    BY <1>1, <2>1, SSEConstantsAssumption DEF Registry, OwnConnectionsOnly
  <2>4. Held'
    BY <1>1, <2>1, SSEConstantsAssumption DEF Registry, Held, Registered
  <2>5. HandIsFresh'
    BY <1>1 DEF HandIsFresh
  <2>6. QED BY <2>2, <2>3, <2>4, <2>5 DEF Registry
<1>3. CASE AddClient
  <2>1. /\ \A fd \in Descriptors :
               fd_to_user'[fd] = IF fd = hand THEN peer[hand] ELSE fd_to_user[fd]
        /\ \A u \in Clients :
               user_fds'[u] = IF u = peer[hand] THEN user_fds[u] \cup {hand}
                              ELSE user_fds[u]
        /\ peer' = peer
    BY <1>3 DEF AddClient, sockets, SSETypeOK
  <2>2. SSETypeOK'
    BY <1>1, <1>3 DEF AddClient, SSETypeOK, life, sockets, events, LoopStates
  <2>3. OwnConnectionsOnly'
    <3> SUFFICES ASSUME NEW u \in Clients, NEW fd \in Descriptors
                 PROVE  /\ fd \in user_fds'[u] <=> fd_to_user'[fd] = u
                        /\ fd \in user_fds'[u] => peer'[fd] = u
      BY DEF OwnConnectionsOnly
    <3>1. /\ fd \in user_fds[u] <=> fd_to_user[fd] = u
          /\ fd \in user_fds[u] => peer[fd] = u
          /\ u # Nothing
      BY SSEConstantsAssumption DEF Registry, OwnConnectionsOnly
    <3>2. CASE fd = hand
      BY <1>1, <2>1, <3>1, <3>2
    <3>3. CASE fd # hand
      BY <2>1, <3>1, <3>3
    <3>4. QED BY <3>2, <3>3
  <2>4. Held'
    BY <1>1, <2>1, SSEConstantsAssumption DEF Registry, Held, Registered
  <2>5. HandIsFresh'
    BY <1>1 DEF HandIsFresh
  <2>6. QED BY <2>2, <2>3, <2>4, <2>5 DEF Registry
<1>4. QED BY <1>2, <1>3

\* Steps that send, and may find connections dead.
LEMMA SendingKeeps ==
    ASSUME SSETypeOK, Registry,
           (\E u \in Clients : SendToUser(u)) \/ Deliver \/ Pause
    PROVE  SSETypeOK' /\ Registry'
<1>1. ASSUME NEW u \in Clients, SendToUser(u)
      PROVE  SSETypeOK' /\ Registry'
  <2>1. /\ Registry'
        /\ peer' \in [Descriptors -> Clients \cup {Foreign, Nothing}]
        /\ gone' \subseteq Descriptors
        /\ user_fds' \in [Clients -> SUBSET Descriptors]
        /\ fd_to_user' \in [Descriptors -> Clients \cup {Nothing}]
    BY <1>1, FiledIsRegistered, SendKeeps DEF SendToUser
  <2>2. QED BY <1>1, <2>1 DEF SendToUser, SSETypeOK, life, events
<1>2. CASE Deliver
  <2>1. /\ Registry'
        /\ peer' \in [Descriptors -> Clients \cup {Foreign, Nothing}]
        /\ gone' \subseteq Descriptors
        /\ user_fds' \in [Clients -> SUBSET Descriptors]
        /\ fd_to_user' \in [Descriptors -> Clients \cup {Nothing}]
    BY <1>2, SendKeeps DEF Deliver
  <2>2. sent' \in Seq(Nat) /\ taken' \in Seq(Nat)
    BY <1>2, HeadTailProperties, AppendProperties DEF Deliver, SSETypeOK
  <2>3. QED BY <1>2, <2>1, <2>2 DEF Deliver, SSETypeOK, life
<1>3. CASE Pause
  <2>1. loop = "pause" /\ loop' \in {"accept", "exit"} /\ hand' = hand
    BY <1>3 DEF Pause, NextRound
  <2>2. CASE Send(Registered)
    <3>1. /\ Registry'
          /\ peer' \in [Descriptors -> Clients \cup {Foreign, Nothing}]
          /\ gone' \subseteq Descriptors
          /\ user_fds' \in [Clients -> SUBSET Descriptors]
          /\ fd_to_user' \in [Descriptors -> Clients \cup {Nothing}]
      BY <2>1, <2>2, SendKeeps
    <3>2. QED BY <1>3, <2>1, <3>1 DEF Pause, SSETypeOK, life, events, LoopStates
  <2>3. CASE UNCHANGED <<sockets, registry>>
    <3>1. Registry'
      BY <2>1, <2>3, OtherStepsKeep DEF sockets, registry
    <3>2. QED
      BY <1>3, <2>1, <2>3, <3>1
         DEF Pause, SSETypeOK, life, events, sockets, registry, LoopStates
  <2>4. QED BY <1>3, <2>2, <2>3 DEF Pause
<1>4. QED BY <1>1, <1>2, <1>3

\* stop.
LEMMA StoppingKeeps ==
    ASSUME SSETypeOK, Registry, StopRunning \/ StopStep
    PROVE  SSETypeOK' /\ Registry'
<1>1. CASE StopRunning \/ CloseListener \/ Join
  <2>1. SSETypeOK'
    BY <1>1 DEF StopRunning, CloseListener, Join, SSETypeOK, StopStates, sockets,
                registry, events
  <2>2. Registry'
    BY <1>1, OtherStepsKeep DEF StopRunning, CloseListener, Join, sockets, registry
  <2>3. QED BY <2>1, <2>2
<1>2. CASE CloseClients
  <2>1. /\ \A fd \in Descriptors :
               /\ peer'[fd] = IF fd \in Registered THEN Nothing ELSE peer[fd]
               /\ fd_to_user'[fd] = Nothing
        /\ \A u \in Clients : user_fds'[u] = {}
        /\ UNCHANGED <<hand, loop>>
    BY <1>2 DEF CloseClients, Closed
  <2>2. SSETypeOK'
    BY <1>2 DEF CloseClients, Closed, SSETypeOK, StopStates, events
  <2>3. OwnConnectionsOnly'
    BY <2>1, SSEConstantsAssumption DEF OwnConnectionsOnly
  <2>4. Held'
    BY <2>1, SSEConstantsAssumption DEF Registry, Held, Registered
  <2>5. HandIsFresh'
    BY <2>1 DEF Registry, HandIsFresh, Registered, SSETypeOK
  <2>6. QED BY <2>2, <2>3, <2>4, <2>5 DEF Registry
<1>3. QED BY <1>1, <1>2 DEF StopStep

\* The outside.
LEMMA OutsideKeeps ==
    ASSUME SSETypeOK, Registry, NEW fd \in Descriptors,
           HangUp(fd) \/ OpenForeign(fd) \/ CloseForeign(fd)
    PROVE  SSETypeOK' /\ Registry'
<1>1. SSETypeOK'
  BY DEF HangUp, OpenForeign, CloseForeign, SSETypeOK, life, registry, events
<1>2. CASE HangUp(fd)
  BY <1>1, <1>2, OtherStepsKeep DEF HangUp, registry
<1>3. CASE OpenForeign(fd) \/ CloseForeign(fd)
  <2>1. /\ fd_to_user[fd] = Nothing /\ fd # hand
        /\ UNCHANGED <<user_fds, fd_to_user, hand, loop>>
        /\ peer'[fd] \notin Clients
        /\ \A d \in Descriptors : d # fd => peer'[d] = peer[d]
    BY <1>3, FreeNumber, SSEConstantsAssumption
       DEF OpenForeign, CloseForeign, registry, SSETypeOK
  <2>2. OwnConnectionsOnly'
    BY <2>1, SSEConstantsAssumption DEF Registry, OwnConnectionsOnly
  <2>3. Held'
    BY <2>1 DEF Registry, Held, Registered
  <2>4. HandIsFresh'
    BY <2>1 DEF Registry, HandIsFresh, SSETypeOK
  <2>5. QED BY <1>1, <2>2, <2>3, <2>4 DEF Registry
<1>4. QED BY <1>2, <1>3

\* The steps of the loop that touch no connection.
LEMMA QuietStepsKeep ==
    ASSUME SSETypeOK, Registry,
           NoConnection \/ Receive \/ Greet \/ TakeQueue \/ Delivered \/ Broadcast
    PROVE  SSETypeOK' /\ Registry'
<1>1. CASE NoConnection \/ Receive \/ Greet \/ Delivered
  <2>1. /\ UNCHANGED <<sockets, life, registry, events, hand, connects, opened>>
        /\ loop' \in LoopStates
    BY <1>1 DEF NoConnection, Receive, Greet, Delivered, LoopStates
  <2>2. SSETypeOK'
    BY <2>1 DEF SSETypeOK, sockets, life, registry, events
  <2>3. Registry'
    BY <1>1, OtherStepsKeep
       DEF NoConnection, Receive, Greet, Delivered, registry, sockets
  <2>4. QED BY <2>2, <2>3
<1>2. CASE TakeQueue
  BY <1>2, EmptySeq, OtherStepsKeep
     DEF TakeQueue, SSETypeOK, LoopStates, life, registry, sockets
<1>3. CASE Broadcast
  <2>1. queue' \in Seq(Nat) /\ broadcasts' \in Nat
    BY <1>3, AppendProperties DEF Broadcast, SSETypeOK
  <2>2. QED
    BY <1>3, <2>1, OtherStepsKeep DEF Broadcast, SSETypeOK, life, registry, sockets
<1>4. QED BY <1>1, <1>2, <1>3

\* Only accept opens a connection, and what stop has not closed is in hand.
LEMMA LeftKeeps ==
    ASSUME SSETypeOK, Registry, LeftInv, SSENext
    PROVE  LeftInv'
<1> USE DEF LeftInv, OneLeft
<1>1. CASE \E u \in Clients, fd \in Descriptors : Accept(u, fd)
  BY <1>1 DEF Accept, life, SSETypeOK, StopStates
<1>2. CASE CloseClients
  <2>1. \A fd \in Descriptors : peer'[fd] \in Clients => fd = hand
    BY <1>2, SSEConstantsAssumption DEF CloseClients, Closed, Registry, Held
  <2>2. QED BY <1>2, <2>1 DEF CloseClients
<1>3. ASSUME \A fd \in Descriptors : peer'[fd] \in Clients => peer[fd] \in Clients,
             stop' \in {"join", "stopped"} => stop \in {"join", "stopped"},
             stop' \in {"close", "join", "stopped"} =>
                 \/ ~listening'
                 \/ stop \in {"close", "join", "stopped"} /\ UNCHANGED listening
      PROVE  LeftInv'
  BY <1>3
<1>4. CASE StopRunning \/ CloseListener \/ Join
  BY <1>3, <1>4 DEF StopRunning, CloseListener, Join, sockets
<1>5. ASSUME UNCHANGED life,
             \A fd \in Descriptors : peer'[fd] \in Clients => peer[fd] \in Clients
      PROVE  LeftInv'
  BY <1>3, <1>5 DEF life
<1>6. ASSUME NEW fds, CloseDead(fds)
      PROVE  \A fd \in Descriptors : peer'[fd] \in Clients => peer[fd] \in Clients
  BY <1>6, SSEConstantsAssumption DEF CloseDead, Closed
<1>7. CASE (\E u \in Clients : SendToUser(u)) \/ Deliver \/ Pause
  <2>1. UNCHANGED life /\ ((\E fds : CloseDead(fds)) \/ UNCHANGED peer)
    BY <1>7 DEF SendToUser, Deliver, Pause, Send, sockets
  <2>2. QED BY <1>5, <1>6, <2>1
<1>8. CASE \/ NoConnection \/ CloseHand \/ Greet \/ AddClient \/ TakeQueue
           \/ Delivered \/ Receive \/ Broadcast
  BY <1>5, <1>8, SSEConstantsAssumption
     DEF NoConnection, CloseHand, Closed, Greet, AddClient, TakeQueue, Delivered,
         Receive, Broadcast, sockets
<1>9. CASE \E fd \in Descriptors : HangUp(fd) \/ OpenForeign(fd) \/ CloseForeign(fd)
  BY <1>5, <1>9, SSEConstantsAssumption
     DEF HangUp, OpenForeign, CloseForeign, SSETypeOK
<1>10. QED
  BY <1>1, <1>2, <1>4, <1>7, <1>8, <1>9 DEF SSENext, LoopStep, StopStep

--------------------------------------------------------------------------------
(* The order of the broadcasts. *)

\* Queuing, taking and sending pass the events on from the end of one sequence
\* to the next.
LEMMA OrderKeeps ==
    ASSUME SSETypeOK, InOrder, SSENext
    PROVE  InOrder'
<1>1. /\ Len(sent) \in Nat /\ Len(taken) \in Nat /\ Len(queue) \in Nat
      /\ DOMAIN taken = 1..Len(taken) /\ DOMAIN queue = 1..Len(queue)
      /\ broadcasts \in Nat
  BY LenProperties DEF SSETypeOK
<1>2. CASE Broadcast
  <2>1. /\ Len(queue') = Len(queue) + 1
        /\ \A i \in 1..Len(queue) : queue'[i] = queue[i]
        /\ queue'[Len(queue) + 1] = broadcasts + 1
        /\ UNCHANGED <<sent, taken, loop>> /\ broadcasts' = broadcasts + 1
    BY <1>1, <1>2, AppendProperties DEF Broadcast, SSETypeOK
  <2>2. QED BY <1>1, <2>1 DEF InOrder
<1>3. CASE TakeQueue
  <2>1. /\ taken' = queue /\ Len(queue') = 0 /\ Len(taken) = 0
        /\ UNCHANGED <<sent, broadcasts>> /\ loop' = "deliver"
    BY <1>3, EmptySeq DEF TakeQueue, InOrder
  <2>2. QED BY <1>1, <2>1 DEF InOrder
<1>4. CASE Deliver
  <2>1. /\ Len(taken') = Len(taken) - 1 /\ Len(taken) > 0 /\ Head(taken) = taken[1]
        /\ \A i \in 1..Len(taken') : taken'[i] = taken[i + 1]
        /\ Head(taken) \in Nat
    BY <1>1, <1>4, HeadTailProperties, EmptySeq DEF Deliver, SSETypeOK
  <2>2. /\ Len(sent') = Len(sent) + 1
        /\ \A i \in 1..Len(sent) : sent'[i] = sent[i]
        /\ sent'[Len(sent) + 1] = Head(taken)
        /\ UNCHANGED <<queue, broadcasts, loop>> /\ loop = "deliver"
    BY <1>1, <1>4, <2>1, AppendProperties DEF Deliver, SSETypeOK
  <2>3. Head(taken) = Len(sent) + 1
    BY <1>1, <2>1 DEF InOrder
  <2>4. \A i \in 1..Len(sent') : sent'[i] = i
    BY <1>1, <2>2, <2>3 DEF InOrder
  <2>5. \A i \in 1..Len(taken') : taken'[i] = Len(sent') + i
    BY <1>1, <2>1, <2>2 DEF InOrder
  <2>6. \A i \in 1..Len(queue') : queue'[i] = Len(sent') + Len(taken') + i
    BY <1>1, <2>1, <2>2 DEF InOrder
  <2>7. QED BY <1>1, <2>1, <2>2, <2>4, <2>5, <2>6 DEF InOrder
<1>5. CASE Delivered
  BY <1>5 DEF Delivered, InOrder, events
<1>6. CASE UNCHANGED events /\ (loop' = loop \/ "deliver" \notin {loop, loop'})
  BY <1>6 DEF InOrder, events
<1>7. CASE \/ \E u \in Clients, fd \in Descriptors : Accept(u, fd)
           \/ Receive \/ NoConnection \/ CloseHand \/ Greet \/ AddClient \/ Pause
  BY <1>6, <1>7 DEF Accept, Receive, NoConnection, CloseHand, Greet, AddClient, Pause,
                    NextRound
<1>8. CASE \/ \E u \in Clients : SendToUser(u)
           \/ StopRunning \/ StopStep
           \/ \E fd \in Descriptors : HangUp(fd) \/ OpenForeign(fd) \/ CloseForeign(fd)
  <2>1. UNCHANGED <<events, loop>>
    BY <1>8 DEF SendToUser, StopRunning, StopStep, CloseListener, CloseClients, Join,
                HangUp, OpenForeign, CloseForeign
  <2>2. QED BY <1>6, <2>1
<1>9. QED BY <1>2, <1>3, <1>4, <1>5, <1>7, <1>8 DEF SSENext, LoopStep

--------------------------------------------------------------------------------
(* Theorems. *)

\* The inductive invariant: types, the two maps with the descriptor in hand,
\* and the order of the events.
THEOREM ServerInvariant == SSESpec => []SSEInv
<1>1. SSEInit => SSEInv
  BY ServerStarts
<1>2. SSEInv /\ [SSENext]_sseVars => SSEInv'
  <2> SUFFICES ASSUME SSEInv, [SSENext]_sseVars PROVE SSEInv'
    OBVIOUS
  <2>1. CASE SSENext
    <3>1. SSETypeOK' /\ Registry'
      BY <2>1, AcceptKeeps, GreetingKeeps, SendingKeeps, StoppingKeeps, OutsideKeeps,
         QuietStepsKeep DEF SSENext, LoopStep, SSEInv
    <3>2. QED BY <2>1, <3>1, OrderKeeps, LeftKeeps DEF SSEInv
  <2>2. CASE UNCHANGED sseVars
    BY <2>2 DEF sseVars, SSEInv, SSETypeOK, Registry, OwnConnectionsOnly,
                Held, HandIsFresh, InOrder, Registered, LeftInv, OneLeft
  <2>3. QED BY <2>1, <2>2
<1>3. QED BY <1>1, <1>2, PTL DEF SSESpec

\* The variables of the server keep their types.
THEOREM ServerTypes == SSESpec => []SSETypeOK
<1>1. SSEInv => SSETypeOK
  BY DEF SSEInv
<1>2. QED BY <1>1, ServerInvariant, PTL

\* An event for a user reaches nobody else.
THEOREM OnlyOwnConnections == SSESpec => []OwnConnectionsOnly
<1>1. SSEInv => OwnConnectionsOnly
  BY DEF SSEInv, Registry
<1>2. QED BY <1>1, ServerInvariant, PTL

\* Every accepted connection is registered, in hand, or closed, and stop leaves
\* no more than one open.
THEOREM DescriptorsAreKept == SSESpec => []NoDescriptorLeaks
<1>1. SSEInv => NoDescriptorLeaks
  BY DEF SSEInv, Registry, LeftInv, NoDescriptorLeaks
<1>2. QED BY <1>1, ServerInvariant, PTL

\* Broadcasts leave in the order they came, each once.
THEOREM OrderedBroadcasts == SSESpec => []BroadcastsInOrder
<1>1. SSEInv => BroadcastsInOrder
  BY LenProperties DEF SSEInv, InOrder, SSETypeOK, BroadcastsInOrder
<1>2. QED BY <1>1, ServerInvariant, PTL
================================================================================
