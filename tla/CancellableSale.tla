---------------------------- MODULE CancellableSale ----------------------------
(***************************************************************************)
(* A sale of one product whose orders can be called off.  An order holds a  *)
(* unit from the moment it is made until it is called off, and its unit is  *)
(* on sale again in the same moment; a user holds one unit; an order that   *)
(* is paid is final, and so is one that was called off.                     *)
(*                                                                         *)
(* This is the requirement.  OrderLifecycle implements it with a row in     *)
(* MySQL, a stock and a set of buyers in Redis, and cancellations that go   *)
(* from one to the other step by step.                                      *)
(***************************************************************************)
EXTENDS Naturals

CONSTANTS
    Orders,
    UserOf      \* the user who makes an order

VARIABLES
    units,      \* units on sale
    state       \* of an order: "none", "open", "paid" or "gone"

saleVars == <<units, state>>

Holds(u) == \E o \in Orders : UserOf[o] = u /\ state[o] \in {"open", "paid"}

SaleInit ==
    /\ units \in Nat
    /\ state = [o \in Orders |-> "none"]

\* A user without an order takes a unit.
Buy(o) ==
    /\ units > 0 /\ units' = units - 1
    /\ ~Holds(UserOf[o])
    /\ state[o] = "none"
    /\ state' = [state EXCEPT ![o] = "open"]

Pay(o) ==
    /\ state[o] = "open"
    /\ state' = [state EXCEPT ![o] = "paid"]
    /\ UNCHANGED units

\* The order is called off and its unit is on sale again.
CallOff(o) ==
    /\ state[o] = "open"
    /\ state' = [state EXCEPT ![o] = "gone"]
    /\ units' = units + 1

\* Units disappear: the sale is stopped, or the machinery fails after an order
\* was called off and before its unit was put back.
Lose ==
    /\ units' \in Nat /\ units' <= units
    /\ \E L \in SUBSET {o \in Orders : state[o] = "open"} :
          state' = [o \in Orders |-> IF o \in L THEN "gone" ELSE state[o]]

SaleNext ==
    \/ Lose
    \/ \E o \in Orders : Buy(o) \/ Pay(o) \/ CallOff(o)

SaleSpec == SaleInit /\ [][SaleNext]_saleVars
================================================================================
