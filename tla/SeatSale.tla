------------------------------ MODULE SeatSale ------------------------------
(***************************************************************************)
(* What selling a seated session promises, with no clock, no payments and  *)
(* no handlers.  A purchase takes free seats all at once and later buys    *)
(* all of them or none; a seat that was bought is nobody else's for ever.  *)
(* The organizer may withdraw a seat that is not bought, even from under a *)
(* purchase, which can then no longer be completed.                        *)
(***************************************************************************)
EXTENDS Integers, FiniteSets

CONSTANTS Booking, Seats, NoBooking

VARIABLES
    purchase,   \* what became of each purchase
    units,      \* how many seats it is for
    place       \* each seat: free, taken, bought or withdrawn, and by whom

seatSaleVars == <<purchase, units, place>>

Place(st, b) == [st |-> st, by |-> b]
TakenBy(b) == {s \in Seats : place[s] = Place("taken", b)}

\* The seats of S become p, and the others stay as they are.
Put(S, p) == place' = [s \in Seats |-> IF s \in S THEN p ELSE place[s]]

SeatSaleInit ==
    /\ purchase = [b \in Booking |-> "none"]
    /\ units = [b \in Booking |-> 0]
    /\ place = [s \in Seats |-> Place("free", NoBooking)]

Take(b, S) ==
    /\ purchase[b] = "none" /\ S # {}
    /\ purchase' = [purchase EXCEPT ![b] = "held"]
    /\ \A s \in S : place[s].st = "free"
    /\ units' = [units EXCEPT ![b] = Cardinality(S)]
    /\ Put(S, Place("taken", b))

\* Only a purchase that lost none of its seats is completed.
Buy(b) ==
    /\ purchase[b] = "held"
    /\ purchase' = [purchase EXCEPT ![b] = "sold"]
    /\ Cardinality(TakenBy(b)) = units[b]
    /\ Put(TakenBy(b), Place("bought", b))
    /\ UNCHANGED units

GiveBack(b) ==
    /\ purchase[b] = "held"
    /\ purchase' = [purchase EXCEPT ![b] = "dropped"]
    /\ Put(TakenBy(b), Place("free", NoBooking))
    /\ UNCHANGED units

Withdraw(s) ==
    /\ place[s].st \in {"free", "taken"}
    /\ Put({s}, Place("withdrawn", NoBooking))
    /\ UNCHANGED <<purchase, units>>

Offer(s) ==
    /\ place[s].st = "withdrawn"
    /\ Put({s}, Place("free", NoBooking))
    /\ UNCHANGED <<purchase, units>>

\* The show is called off: nothing stays on sale, nothing bought is touched.
CallOff ==
    /\ purchase' = [b \in Booking |-> IF purchase[b] = "held" THEN "dropped" ELSE purchase[b]]
    /\ Put({s \in Seats : place[s].st \in {"free", "taken"}}, Place("withdrawn", NoBooking))
    /\ UNCHANGED units

SeatSaleNext ==
    \/ \E b \in Booking : Buy(b) \/ GiveBack(b)
    \/ \E b \in Booking, S \in SUBSET Seats : Take(b, S)
    \/ \E s \in Seats : Withdraw(s) \/ Offer(s)
    \/ CallOff

SeatSaleSpec == SeatSaleInit /\ [][SeatSaleNext]_seatSaleVars
=============================================================================
