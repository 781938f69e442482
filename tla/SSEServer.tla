------------------------------- MODULE SSEServer -------------------------------
(***************************************************************************)
(* SSEHandler: pushes events to browsers over connections of its own.      *)
(*                                                                         *)
(* One thread accepts connections, reads the request of each, empties the  *)
(* queue of broadcasts and sends keepalives; any thread may queue a        *)
(* broadcast or send an event to the connections of a user; main stops the *)
(* server.  Descriptor numbers are the kernel's: a number that was closed  *)
(* goes to whatever socket the process opens next, one of MySQL, Redis or  *)
(* HTTP included.                                                          *)
(*                                                                         *)
(* loop is where the server thread is, stop where main is:                 *)
(*   "accept"   about to accept                                            *)
(*   "recv"     in recv, which blocks until the client says something      *)
(*   "greet"    has the request, about to send the header                  *)
(*   "add"      header sent, about to register the connection              *)
(*   "drain"    about to take the queue                                    *)
(*   "deliver"  sending the events it has taken                            *)
(*   "pause"    about to send a keepalive if it is time, and to sleep      *)
(*   "exit"     left the loop                                              *)
(*   "run" -> "unlisten" -> "close" -> "join" -> "stopped"                 *)
(***************************************************************************)
EXTENDS Integers, Sequences, FiniteSets

CONSTANTS
    Clients,        \* the user_id of a connection, "anon_<fd>" included
    Descriptors,
    Nothing,        \* no descriptor, no client
    Foreign,        \* a socket of another part of the process
    MaxConnects,    \* bound: connections made
    MaxForeign,     \* bound: descriptors the rest of the process opens
    MaxBroadcasts   \* bound: events broadcast

ASSUME SSEConstantsAssumption ==
    /\ Nothing \notin Clients \cup Descriptors \cup {Foreign}
    /\ Foreign \notin Clients
ASSUME SSEFiniteAssumption == IsFiniteSet(Descriptors)
ASSUME SSEBoundsAssumption ==
    MaxConnects \in Nat /\ MaxForeign \in Nat /\ MaxBroadcasts \in Nat

VARIABLES
    \* the kernel
    peer,          \* who is at the other end of a descriptor, Nothing if closed
    gone,          \* descriptors whose peer has gone: a send fails
    \* SSEHandler
    running, listening,
    user_fds, fd_to_user,
    queue,         \* event_queue_: broadcasts, by number
    taken,         \* local_queue of process_event_queue
    hand,          \* client_fd of accept_connections
    loop, stop,
    \* history
    sent,          \* broadcasts sent to all clients, in the order they were
    connects, opened, broadcasts

sockets == <<peer, gone>>
registry == <<user_fds, fd_to_user>>
events == <<queue, taken, sent, broadcasts>>
life == <<running, listening, stop>>
sseVars == <<peer, gone, running, listening, user_fds, fd_to_user, queue, taken,
             hand, loop, stop, sent, connects, opened, broadcasts>>

LoopStates == {"accept", "recv", "greet", "add", "drain", "deliver", "pause", "exit"}
StopStates == {"run", "unlisten", "close", "join", "stopped"}

Registered == {fd \in Descriptors : fd_to_user[fd] # Nothing}

Closed(fds) == [fd \in Descriptors |-> IF fd \in fds THEN Nothing ELSE peer[fd]]

NextRound_Forever == "accept"

\* The while condition of server_loop, read when a round is over.
NextRound == IF running THEN "accept" ELSE "exit"

--------------------------------------------------------------------------------
(* accept_connections. *)

\* A connection is waiting: a free number is used for it.
Accept(u, fd) ==
    /\ loop = "accept" /\ listening
    /\ connects < MaxConnects
    /\ connects' = connects + 1
    /\ peer[fd] = Nothing
    /\ peer' = [peer EXCEPT ![fd] = u]
    /\ hand' = fd
    /\ loop' = "recv"
    /\ UNCHANGED <<gone, life, registry, events, opened>>

\* Nobody is waiting, or the listening socket is closed.
NoConnection ==
    /\ loop = "accept"
    /\ loop' = "drain"
    /\ UNCHANGED <<sockets, life, registry, events, hand, connects, opened>>

\* The client has sent its request, and may have gone since.  A client that
\* says nothing keeps the thread here.
Receive ==
    /\ loop = "recv"
    /\ loop' = "greet"
    /\ UNCHANGED <<sockets, life, registry, events, hand, connects, opened>>

CloseHand_NoClose ==
    /\ loop \in {"recv", "greet"} /\ hand \in gone
    /\ hand' = Nothing
    /\ loop' = "drain"
    /\ UNCHANGED <<sockets, life, registry, events, connects, opened>>

\* recv or the first send fails: the connection is closed.
CloseHand ==
    /\ loop \in {"recv", "greet"} /\ hand \in gone
    /\ peer' = Closed({hand})
    /\ gone' = gone \ {hand}
    /\ hand' = Nothing
    /\ loop' = "drain"
    /\ UNCHANGED <<life, registry, events, connects, opened>>

\* The header and the "connected" event are sent; if the client has just gone,
\* the kernel may take them all the same.
Greet ==
    /\ loop = "greet"
    /\ loop' = "add"
    /\ UNCHANGED <<sockets, life, registry, events, hand, connects, opened>>

\* addClient.
AddClient ==
    /\ loop = "add"
    /\ user_fds' = [user_fds EXCEPT ![peer[hand]] = @ \cup {hand}]
    /\ fd_to_user' = [fd_to_user EXCEPT ![hand] = peer[hand]]
    /\ hand' = Nothing
    /\ loop' = "drain"
    /\ UNCHANGED <<sockets, life, events, connects, opened>>

--------------------------------------------------------------------------------
(* Events. *)

CloseDead_KeepsUser(dead) ==
    /\ fd_to_user' = [fd \in Descriptors |->
                         IF fd \in dead THEN Nothing ELSE fd_to_user[fd]]
    /\ peer' = Closed(dead)
    /\ gone' = gone \ dead
    /\ UNCHANGED user_fds

\* The connections on which a send has failed leave both maps and are closed,
\* in the critical section of the send.
CloseDead(dead) ==
    /\ user_fds' = [u \in Clients |-> user_fds[u] \ dead]
    /\ fd_to_user' = [fd \in Descriptors |->
                         IF fd \in dead THEN Nothing ELSE fd_to_user[fd]]
    /\ peer' = Closed(dead)
    /\ gone' = gone \ dead

\* A send on a connection whose peer has gone may still be taken by the kernel.
Send(fds) == \E dead \in SUBSET (fds \cap gone) : CloseDead(dead)

\* sendToUser, from an HTTP thread or the order processor: to every connection
\* of the user, under mtx_.
SendToUser(u) ==
    /\ user_fds[u] # {}
    /\ Send(user_fds[u])
    /\ UNCHANGED <<life, events, hand, loop, connects, opened>>

\* broadcast: the event is queued for the server thread.
Broadcast ==
    /\ broadcasts < MaxBroadcasts
    /\ broadcasts' = broadcasts + 1
    /\ queue' = Append(queue, broadcasts + 1)
    /\ UNCHANGED <<sockets, life, registry, taken, sent, hand, loop, connects, opened>>

TakeQueue_Copied ==
    /\ loop = "drain"
    /\ taken' = queue
    /\ loop' = "deliver"
    /\ UNCHANGED <<sockets, life, registry, queue, sent, broadcasts, hand, connects,
                   opened>>

\* process_event_queue takes all that is queued.
TakeQueue ==
    /\ loop = "drain"
    /\ taken' = queue
    /\ queue' = <<>>
    /\ loop' = "deliver"
    /\ UNCHANGED <<sockets, life, registry, sent, broadcasts, hand, connects, opened>>

\* ... and sends each to every connection, send_to_all_clients.
Deliver ==
    /\ loop = "deliver" /\ taken # <<>>
    /\ sent' = Append(sent, Head(taken))
    /\ taken' = Tail(taken)
    /\ Send(Registered)
    /\ UNCHANGED <<life, queue, broadcasts, hand, loop, connects, opened>>

Delivered ==
    /\ loop = "deliver" /\ taken = <<>>
    /\ loop' = "pause"
    /\ UNCHANGED <<sockets, life, registry, events, hand, connects, opened>>

\* The end of a round, with a keepalive to all when fifteen seconds are over.
Pause ==
    /\ loop = "pause"
    /\ \/ Send(Registered)
       \/ UNCHANGED <<sockets, registry>>
    /\ loop' = NextRound
    /\ UNCHANGED <<life, events, hand, connects, opened>>

--------------------------------------------------------------------------------
(* stop, in the main thread. *)

StopRunning ==
    /\ stop = "run"
    /\ running' = FALSE
    /\ stop' = "unlisten"
    /\ UNCHANGED <<listening, sockets, registry, events, hand, loop, connects, opened>>

CloseListener ==
    /\ stop = "unlisten"
    /\ listening' = FALSE
    /\ stop' = "close"
    /\ UNCHANGED <<running, sockets, registry, events, hand, loop, connects, opened>>

\* Every registered connection is closed and both maps are cleared, under mtx_.
CloseClients ==
    /\ stop = "close"
    /\ peer' = Closed(Registered)
    /\ gone' = gone \ Registered
    /\ user_fds' = [u \in Clients |-> {}]
    /\ fd_to_user' = [fd \in Descriptors |-> Nothing]
    /\ stop' = "join"
    /\ UNCHANGED <<running, listening, events, hand, loop, connects, opened>>

Join ==
    /\ stop = "join" /\ loop = "exit"
    /\ stop' = "stopped"
    /\ UNCHANGED <<running, listening, sockets, registry, events, hand, loop, connects,
                   opened>>

--------------------------------------------------------------------------------
(* The outside. *)

\* The peer of a connection closes it, or is lost.
HangUp(fd) ==
    /\ peer[fd] \in Clients /\ fd \notin gone
    /\ gone' = gone \cup {fd}
    /\ UNCHANGED <<peer, life, registry, events, hand, loop, connects, opened>>

\* Another part of the process opens a socket, or closes one.
OpenForeign(fd) ==
    /\ peer[fd] = Nothing /\ opened < MaxForeign
    /\ opened' = opened + 1
    /\ peer' = [peer EXCEPT ![fd] = Foreign]
    /\ UNCHANGED <<gone, life, registry, events, hand, loop, connects>>

CloseForeign(fd) ==
    /\ peer[fd] = Foreign
    /\ peer' = [peer EXCEPT ![fd] = Nothing]
    /\ UNCHANGED <<gone, life, registry, events, hand, loop, connects, opened>>

--------------------------------------------------------------------------------
\* start: socket, bind and listen have succeeded and the thread runs.
SSEInit ==
    /\ peer = [fd \in Descriptors |-> Nothing] /\ gone = {}
    /\ running = TRUE /\ listening = TRUE
    /\ user_fds = [u \in Clients |-> {}]
    /\ fd_to_user = [fd \in Descriptors |-> Nothing]
    /\ queue = <<>> /\ taken = <<>>
    /\ hand = Nothing
    /\ loop = "accept" /\ stop = "run"
    /\ sent = <<>>
    /\ connects = 0 /\ opened = 0 /\ broadcasts = 0

\* What the server thread does without waiting for a client.
LoopStep ==
    \/ NoConnection \/ CloseHand \/ Greet \/ AddClient
    \/ TakeQueue \/ Deliver \/ Delivered \/ Pause

StopStep == CloseListener \/ CloseClients \/ Join

SSENext ==
    \/ \E u \in Clients, fd \in Descriptors : Accept(u, fd)
    \/ Receive
    \/ LoopStep
    \/ \E u \in Clients : SendToUser(u)
    \/ Broadcast
    \/ StopRunning \/ StopStep
    \/ \E fd \in Descriptors : HangUp(fd) \/ OpenForeign(fd) \/ CloseForeign(fd)

SSESpec == SSEInit /\ [][SSENext]_sseVars

--------------------------------------------------------------------------------
(* Properties. *)

\* The values the variables take.
SSETypeOK ==
    /\ peer \in [Descriptors -> Clients \cup {Foreign, Nothing}]
    /\ gone \subseteq Descriptors
    /\ running \in BOOLEAN /\ listening \in BOOLEAN
    /\ user_fds \in [Clients -> SUBSET Descriptors]
    /\ fd_to_user \in [Descriptors -> Clients \cup {Nothing}]
    /\ queue \in Seq(Nat) /\ taken \in Seq(Nat) /\ sent \in Seq(Nat)
    /\ hand \in Descriptors \cup {Nothing}
    /\ loop \in LoopStates /\ stop \in StopStates
    /\ connects \in Nat /\ opened \in Nat /\ broadcasts \in Nat

\* An event for a user reaches connections of that user only: every number
\* filed under the user is an open connection the user made, never one that
\* was closed and has gone to another client or to a socket of MySQL or Redis.
\* The two maps agree, so that a dead connection found in one leaves both.
OwnConnectionsOnly ==
    \A u \in Clients, fd \in Descriptors :
        /\ fd \in user_fds[u] <=> fd_to_user[fd] = u
        /\ fd \in user_fds[u] => peer[fd] = u

Held == \A fd \in Descriptors : peer[fd] \in Clients => fd \in Registered \/ fd = hand

OneLeft ==
    stop \in {"join", "stopped"} =>
        \A fd, other \in Descriptors :
            peer[fd] \in Clients /\ peer[other] \in Clients => fd = other

\* A connection the server has accepted is registered, or is the one the
\* thread has in hand: none is forgotten, whoever closes connections meanwhile.
\* What stop leaves open is that last one at most, which the thread may register
\* in the maps that stop has cleared: nobody closes it any more.
NoDescriptorLeaks == Held /\ OneLeft

\* Broadcasts are sent to the clients once each and in the order they were
\* queued, and none is skipped.
BroadcastsInOrder ==
    /\ \A i \in DOMAIN sent : sent[i] = i
    /\ Len(sent) + Len(taken) + Len(queue) = broadcasts

\* Broadcasts reach the clients until stop is called, and stop ends, unless the
\* thread stays in recv with a client that neither speaks nor hangs up.
ServesAndStops ==
    []<>(loop # "recv") =>
        /\ Len(sent) < broadcasts ~> (Len(sent) = broadcasts \/ ~running)
        /\ stop = "unlisten" ~> stop = "stopped"
================================================================================
