----------------------------- MODULE TicketSale -----------------------------
(***************************************************************************)
(* What selling a general admission session promises, with no clock, no    *)
(* payments and no handlers: a purchase holds units, and is then either    *)
(* sold or dropped, once and for ever; what is held and sold never exceeds *)
(* what there is.                                                          *)
(***************************************************************************)
EXTENDS Integers, FiniteSets

CONSTANTS Booking, Capacity, MaxQty

VARIABLES
    purchase,   \* what became of each purchase
    units       \* how many units it is for

saleVars == <<purchase, units>>

Taken == {u \in Booking \X (1..MaxQty) : purchase[u[1]] \in {"held", "sold"} /\ u[2] <= units[u[1]]}

SaleInit ==
    /\ purchase = [b \in Booking |-> "none"]
    /\ units = [b \in Booking |-> 0]

\* Units are promised only while they are free.
Hold(b, q) ==
    /\ purchase[b] = "none"
    /\ Cardinality(Taken) + q <= Capacity
    /\ purchase' = [purchase EXCEPT ![b] = "held"]
    /\ units' = [units EXCEPT ![b] = q]

Sell(b) ==
    /\ purchase[b] = "held"
    /\ purchase' = [purchase EXCEPT ![b] = "sold"]
    /\ UNCHANGED units

\* One purchase is dropped, or every open one when the show is called off.
Drop(B) ==
    /\ B # {} /\ \A b \in B : purchase[b] = "held"
    /\ purchase' = [b \in Booking |-> IF b \in B THEN "dropped" ELSE purchase[b]]
    /\ UNCHANGED units

SaleNext ==
    \/ \E b \in Booking, q \in 1..MaxQty : Hold(b, q)
    \/ \E b \in Booking : Sell(b)
    \/ \E B \in SUBSET Booking : Drop(B)

SaleSpec == SaleInit /\ [][SaleNext]_saleVars
=============================================================================
