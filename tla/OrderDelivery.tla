----------------------------- MODULE OrderDelivery -----------------------------
(***************************************************************************)
(* What becomes of an order between the sale and the orders table, whatever *)
(* carries it there: an order that is sold waits until it is stored, and    *)
(* leaves the waiting room stored or with an excuse, once and for all; its  *)
(* buyer is told once, while it still waits for its acknowledgement, and    *)
(* not before somebody tried to store it.                                   *)
(*                                                                         *)
(* This is the requirement.  OrderPipeline implements it with a stream, a   *)
(* consumer group and a thread that crashes, loses replies and starts again.*)
(***************************************************************************)
CONSTANT Orders

VARIABLES
    sold,       \* orders the shop has accepted
    waiting,    \* orders it must still do something about
    stored,     \* orders with a row
    told,       \* orders whose buyer was told
    excused     \* orders that need not be stored

deliveryVars == <<sold, waiting, stored, told, excused>>

\* A set grows by nothing but members of S.
Gains(old, new, S) == old \subseteq new /\ new \subseteq old \cup S

DeliveryInit ==
    /\ sold = {} /\ waiting = {}
    /\ stored = {} /\ told = {} /\ excused = {}

\* A new order comes in; there may be no room for it or for another one.
Accept(o) ==
    /\ o \notin sold
    /\ sold' = sold \cup {o}
    /\ waiting' = waiting \cup {o}
    /\ Gains(excused, excused', waiting')
    /\ UNCHANGED <<stored, told>>

\* Orders that wait are stored, or found to be beyond storing.
Attempt ==
    /\ Gains(stored, stored', waiting)
    /\ Gains(excused, excused', waiting)
    /\ UNCHANGED <<sold, waiting, told>>

\* The buyer is told.
Tell(o) ==
    /\ o \in waiting \cap (stored \cup excused)
    /\ o \notin told
    /\ told' = told \cup {o}
    /\ UNCHANGED <<sold, waiting, stored, excused>>

\* Orders leave the waiting room for good.
Settle ==
    /\ waiting' \subseteq waiting
    /\ waiting \ waiting' \subseteq stored \cup excused
    /\ UNCHANGED <<sold, stored, told, excused>>

DeliveryNext ==
    \/ Attempt \/ Settle
    \/ \E o \in Orders : Accept(o) \/ Tell(o)

DeliverySpec == DeliveryInit /\ [][DeliveryNext]_deliveryVars
================================================================================
