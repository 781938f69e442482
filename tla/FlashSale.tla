------------------------------- MODULE FlashSale -------------------------------
(***************************************************************************)
(* What a flash sale of one product promises to its buyers, whatever the   *)
(* machinery behind it: a limited number of units, at most one order for   *)
(* each user, and truthful, final answers.                                 *)
(*                                                                         *)
(* This is the requirement.  SeckillBuy is the server that implements it   *)
(* with an in-process counter, a Lua script and an asynchronous callback.  *)
(***************************************************************************)
EXTENDS Naturals

CONSTANTS
    Requests,   \* purchase attempts: each is made at most once
    UserOf      \* the user who makes an attempt

VARIABLES
    units,      \* units a buyer can still take
    issued,     \* units ever put on sale
    orders,     \* attempts that became an order
    answer      \* what the buyer was told

saleVars == <<units, issued, orders, answer>>

Answers == {"none", "ok", "refused", "unknown"}

\* The units a change of the level from "old" to "new" adds to the sale.
Raise(old, new) == IF new > old THEN new - old ELSE 0

HasOrder(u) == \E r \in orders : UserOf[r] = u

SaleInit ==
    /\ units \in Nat
    /\ issued = units
    /\ orders = {}
    /\ answer = [r \in Requests |-> "none"]

\* The shop sets the number of units on sale; zero ends the sale.
Offer ==
    /\ units' \in Nat
    /\ issued' = issued + Raise(units, units')
    /\ UNCHANGED <<orders, answer>>

\* An attempt takes a unit.  An attempt that was refused never becomes an
\* order afterwards.
Sell(r) ==
    /\ units > 0
    /\ ~HasOrder(UserOf[r])
    /\ answer[r] \in {"none", "unknown"}
    /\ units' = units - 1
    /\ orders' = orders \cup {r}
    /\ UNCHANGED <<issued, answer>>

\* A buyer is answered once, and told the truth or that it is not known.
Tell(r) ==
    /\ answer[r] = "none"
    /\ \E a \in {"ok", "refused", "unknown"} :
          /\ a = "ok" => r \in orders
          /\ a = "refused" => r \notin orders
          /\ answer' = [answer EXCEPT ![r] = a]
    /\ UNCHANGED <<units, issued, orders>>

SaleNext ==
    \/ Offer
    \/ \E r \in Requests : Sell(r) \/ Tell(r)

SaleSpec == SaleInit /\ [][SaleNext]_saleVars
================================================================================
