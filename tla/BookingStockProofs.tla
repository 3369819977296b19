------------------------- MODULE BookingStockProofs -------------------------
(* Stock and tickets, for any number of bookings, handlers and units: what *)
(* each step of BookingCore may do to them, and the invariants that follow.*)
EXTENDS BookingCoreProofs, FunctionTheorems

----------------------------------------------------------------------------
(* What a step does to bookings, counters and tickets, whoever takes it.   *)

Quiet == UNCHANGED <<status, qty, held, sold, issued>>

Holds(b, q) ==
    /\ status[b] = "NONE" /\ status' = [status EXCEPT ![b] = "PENDING_PAYMENT"]
    /\ qty' = [qty EXCEPT ![b] = q]
    /\ SeatBased \/ EnoughStock(q)
    /\ held' = held + q /\ UNCHANGED <<sold, issued>>

Sells(b) ==
    /\ status[b] = "PENDING_PAYMENT" /\ status' = [status EXCEPT ![b] = "CONFIRMED"]
    /\ held' = Max0(held - qty[b]) /\ sold' = sold + qty[b]
    /\ issued' = [issued EXCEPT ![b] = @ + qty[b]] /\ UNCHANGED qty

Drops(b, outcome) ==
    /\ status[b] = "PENDING_PAYMENT" /\ status' = [status EXCEPT ![b] = outcome]
    /\ held' = Max0(held - qty[b]) /\ UNCHANGED <<qty, sold, issued>>

CallsOff ==
    /\ status' = [b \in Booking |-> IF status[b] = "PENDING_PAYMENT" THEN "EXPIRED" ELSE status[b]]
    /\ held' = Max0(held - Cardinality(Units(WithStatus("PENDING_PAYMENT"))))
    /\ UNCHANGED <<qty, sold, issued>>

StockStep ==
    \/ Quiet
    \/ \E b \in Booking, q \in 1..MaxQty : Holds(b, q)
    \/ \E b \in Booking : Sells(b)
    \/ \E b \in Booking, outcome \in {"EXPIRED", "CANCELLED"} : Drops(b, outcome)
    \/ CallsOff

LEMMA ReleaseDrops ==
    ASSUME NEW b \in Booking, NEW outcome, ReleasePendingBooking(b, outcome), UNCHANGED issued
    PROVE  Drops(b, outcome)
BY DEF ReleasePendingBooking, StillPending, ReleaseStock, Drops

LEMMA StepKinds == TypeOK /\ [Next]_vars => StockStep
<1> SUFFICES ASSUME TypeOK, [Next]_vars  PROVE StockStep
  OBVIOUS
<1> USE DEF StockStep
<1>1. CASE UNCHANGED vars
  BY <1>1 DEF vars, Quiet, bookingVars, stockVars, ticketVars
<1>2. ASSUME NEW c \in Slots, Arrive(c) \/ Abandon(c)  PROVE Quiet
  BY <1>2 DEF Quiet, bookingVars, stockVars, ticketVars, Arrive, Abandon, CreateCheck, CreateIntent,
     CollectCash, SweepRead, CouponRead, DeliverSuccess, DeliverFailed, VerifyRead, ShowOpRead
<1>3. ASSUME NEW c \in Slots, Resume(c)  PROVE StockStep
  <2>0. calls[c] \in Call /\ (calls[c].op \notin ShowOnly => calls[c].b \in Booking)
    BY DEF TypeOK, Shapes, HandlersNameRows
  <2>1. CASE CreateSweep(c)
    <3>1. PICK x \in calls[c].list : ExpireLapsed(x, calls[c].n)
      BY <2>1 DEF CreateSweep
    <3>2. x \in Booking /\ UNCHANGED issued
      BY <2>0, <2>1 DEF Call, CreateSweep, ticketVars
    <3> QED
      BY <3>1, <3>2, ReleaseDrops DEF ExpireLapsed, Quiet, bookingVars, stockVars
  <2>2. CASE SweepRelease(c)
    <3>1. ExpireLapsed(calls[c].b, calls[c].n) /\ calls[c].b \in Booking /\ UNCHANGED issued
      BY <2>0, <2>2 DEF SweepRelease, ShowOnly, ticketVars
    <3> QED
      BY <3>1, ReleaseDrops DEF ExpireLapsed, Quiet, bookingVars, stockVars
  <2>3. ASSUME NEW m \in Methods, NEW q \in 1..MaxQty, NEW S, NEW at, NEW until,
               CreateHold(c, m, q, S, at, until)
        PROVE  StockStep
    <3>1. calls[c].b \in Booking
      BY <2>0, <2>3 DEF CreateHold, ShowOnly
    <3>2. Holds(calls[c].b, q)
      BY <2>3 DEF CreateHold, ReserveStock, Holds, ticketVars
    <3> QED
      BY <3>1, <3>2
  <2>4. CASE ConfirmClaim(c)
    <3>1. calls[c].b \in Booking
      BY <2>0, <2>4 DEF ConfirmClaim, ShowOnly
    <3>2. Sells(calls[c].b)
      BY <2>4 DEF ConfirmClaim, ClaimsBooking, ConfirmStock, Sells
    <3> QED
      BY <3>1, <3>2
  <2>5. CASE CancelShow(c)
    BY <2>5 DEF CancelShow, CallsOff, WithStatus, ticketVars
  <2>6. CASE \/ ConfirmFree(c) \/ ResumeOrder(c) \/ (\E o \in Orders : OpenOrder(c, o))
             \/ SaveOrder(c) \/ VerifySave(c) \/ CouponSave(c) \/ SaveFailed(c) \/ ConfirmLost(c)
             \/ RecordUnappliedCapture(c) \/ FileDiscrepancy(c) \/ GuardClose(c)
             \/ GuardClassify(c) \/ ShowOpSave(c)
    BY <2>6 DEF Quiet, bookingVars, stockVars, ticketVars, ConfirmFree, ResumeOrder, OpenOrder,
       SaveOrder, VerifySave, CouponSave, SaveFailed, ConfirmLost, RecordUnappliedCapture,
       FileDiscrepancy, GuardClose, GuardClassify, ShowOpSave
  <2> QED
    BY <1>3, <2>1, <2>2, <2>3, <2>4, <2>5, <2>6 DEF Resume
<1>4. ASSUME NEW b \in Booking, CancelUnpaid(b)  PROVE StockStep
  BY <1>4, ReleaseDrops DEF CancelUnpaid, ticketVars
<1>5. CASE \/ \E b \in Booking : ExtendHold(b)
           \/ \E s \in Seats : BlockSeat(s) \/ UnblockSeat(s)
           \/ \E o \in Orders : BuyerPays(o) \/ BuyerIsRefused(o)
           \/ CompleteSession \/ Tick
  BY <1>5 DEF Quiet, bookingVars, stockVars, ticketVars, ExtendHold, BlockSeat, UnblockSeat,
     BuyerPays, BuyerIsRefused, CompleteSession, Tick
<1> QED
  BY <1>1, <1>2, <1>3, <1>4, <1>5 DEF Next

----------------------------------------------------------------------------
(* Counting units.                                                         *)

UnitsOf(B, f) == {u \in B \X (1..MaxQty) : u[2] <= f[u[1]]}

\* The units of one booking are as many as its quantity.
LEMMA OneBooking ==
    ASSUME NEW b, NEW f, NEW n \in 0..MaxQty, f[b] = n
    PROVE  IsFiniteSet(UnitsOf({b}, f)) /\ Cardinality(UnitsOf({b}, f)) = n
<1> DEFINE g == [i \in 1..n |-> <<b, i>>]
           U == UnitsOf({b}, f)
<1>0. n \in Nat /\ n <= MaxQty /\ MaxQty \in Nat
  BY ConstAssumption
<1>1. g \in Bijection(1..n, U)
  <2>1. g \in [1..n -> U]
    BY <1>0 DEF UnitsOf
  <2>2. \A u \in U : \E i \in 1..n : g[i] = u
    BY <1>0 DEF UnitsOf
  <2>3. \A i, j \in 1..n : g[i] = g[j] => i = j
    OBVIOUS
  <2> QED
    BY <2>1, <2>2, <2>3, Fun_IsBij
<1>2. IsFiniteSet(1..n) /\ Cardinality(1..n) = n
  <2>1. Cardinality(1..n) = IF 1 > n THEN 0 ELSE n - 1 + 1
    BY <1>0, FS_Interval
  <2>2. IsFiniteSet(1..n)
    BY <1>0, FS_Interval
  <2> QED
    BY <1>0, <2>1, <2>2
<1>3. ExistsBijection(1..n, U)
  BY <1>1 DEF ExistsBijection
<1>4. IsFiniteSet(U) /\ Cardinality(U) = Cardinality(1..n)
  BY <1>2, <1>3, FS_Bijection
<1> QED
  BY <1>2, <1>4

LEMMA UnitsFinite ==
    ASSUME NEW B \in SUBSET Booking, NEW f
    PROVE  IsFiniteSet(UnitsOf(B, f)) /\ Cardinality(UnitsOf(B, f)) \in Nat
<1>1. IsFiniteSet(B) /\ IsFiniteSet(1..MaxQty)
  BY FiniteAssumption, ConstAssumption, FS_Subset, FS_Interval
<1>2. IsFiniteSet(B \X (1..MaxQty))
  BY <1>1, FS_Product, Zenon
<1>3. UnitsOf(B, f) \subseteq B \X (1..MaxQty)
  BY DEF UnitsOf
<1> QED
  BY <1>2, <1>3, FS_Subset, FS_CardinalityType

\* One more booking adds its quantity.
LEMMA AddBooking ==
    ASSUME NEW B \in SUBSET Booking, NEW b \in Booking \ B, NEW f \in [Booking -> 0..MaxQty]
    PROVE  Cardinality(UnitsOf(B \cup {b}, f)) = Cardinality(UnitsOf(B, f)) + f[b]
<1>1. UnitsOf(B \cup {b}, f) = UnitsOf(B, f) \cup UnitsOf({b}, f)
  BY DEF UnitsOf
<1>2. UnitsOf(B, f) \cap UnitsOf({b}, f) = {}
  BY DEF UnitsOf
<1>3. IsFiniteSet(UnitsOf(B, f)) /\ Cardinality(UnitsOf(B, f)) \in Nat
  BY UnitsFinite
<1>4. IsFiniteSet(UnitsOf({b}, f)) /\ Cardinality(UnitsOf({b}, f)) = f[b] /\ f[b] \in Nat
  BY OneBooking
<1>5. Cardinality(UnitsOf(B, f) \cup UnitsOf({b}, f))
        = Cardinality(UnitsOf(B, f)) + Cardinality(UnitsOf({b}, f))
          - Cardinality(UnitsOf(B, f) \cap UnitsOf({b}, f))
  BY <1>3, <1>4, FS_Union
<1>6. Cardinality(UnitsOf(B, f) \cap UnitsOf({b}, f)) = 0
  BY <1>2, FS_EmptySet
<1>7. Cardinality(UnitsOf(B, f) \cup UnitsOf({b}, f)) = Cardinality(UnitsOf(B, f)) + f[b]
  BY <1>3, <1>4, <1>5, <1>6
<1> QED
  BY <1>1, <1>7, Zenon

\* Only the quantities of the bookings counted matter.
LEMMA SameUnits ==
    ASSUME NEW B, NEW f, NEW g, \A b \in B : f[b] = g[b]
    PROVE  UnitsOf(B, f) = UnitsOf(B, g)
BY DEF UnitsOf

LEMMA UnitsNow == Units(WithStatus("PENDING_PAYMENT")) = UnitsOf(WithStatus("PENDING_PAYMENT"), qty)
                  /\ Units(WithStatus("CONFIRMED")) = UnitsOf(WithStatus("CONFIRMED"), qty)
BY DEF Units, UnitsOf

----------------------------------------------------------------------------
(* The counters.                                                           *)

Pending == WithStatus("PENDING_PAYMENT")
Confirmed == WithStatus("CONFIRMED")
Accounted == /\ held = Cardinality(UnitsOf(Pending, qty))
             /\ sold = Cardinality(UnitsOf(Confirmed, qty))

LEMMA AccountedIff == InventoryAccounted <=> Accounted
BY DEF InventoryAccounted, Accounted, Pending, Confirmed, Units, UnitsOf

LEMMA AccountedStep ==
    ASSUME TypeOK, TypeOK', Accounted, StockStep
    PROVE  Accounted'
<1>0. /\ qty \in [Booking -> 0..MaxQty] /\ qty' \in [Booking -> 0..MaxQty]
      /\ status \in [Booking -> BookingStatus] /\ held \in Nat /\ sold \in Nat
      /\ \A b \in Booking : qty[b] \in Nat
      /\ Pending \subseteq Booking /\ Confirmed \subseteq Booking
      /\ Pending' \subseteq Booking /\ Confirmed' \subseteq Booking
  BY ConstAssumption DEF TypeOK, Shapes, Pending, Confirmed, WithStatus
<1>1. CASE Quiet
  BY <1>1 DEF Quiet, Accounted, Pending, Confirmed, WithStatus
<1>2. ASSUME NEW b \in Booking, NEW q \in 1..MaxQty, Holds(b, q)  PROVE Accounted'
  <2>1. b \notin Pending /\ b \notin Confirmed /\ Pending' = Pending \cup {b} /\ Confirmed' = Confirmed
    BY <1>0, <1>2 DEF Holds, Pending, Confirmed, WithStatus
  <2>2. /\ \A x \in Pending \cup Confirmed : qty'[x] = qty[x]
        /\ qty'[b] = q
    BY <1>0, <1>2, <2>1 DEF Holds
  <2>3. /\ UnitsOf(Pending, qty') = UnitsOf(Pending, qty)
        /\ UnitsOf(Confirmed, qty') = UnitsOf(Confirmed, qty)
    BY <2>2, SameUnits
  <2>4. Cardinality(UnitsOf(Pending \cup {b}, qty')) = Cardinality(UnitsOf(Pending, qty')) + qty'[b]
    BY <1>0, <2>1, AddBooking
  <2> QED
    BY <1>2, <2>1, <2>2, <2>3, <2>4 DEF Holds, Accounted
<1>3. ASSUME NEW b \in Booking, StillPending(b), qty' = qty, Pending' = Pending \ {b},
             held' = Max0(held - qty[b])
      PROVE  held' = Cardinality(UnitsOf(Pending', qty')) /\ b \in Pending
  <2>1. b \in Pending /\ (Pending \ {b}) \cup {b} = Pending
    BY <1>3 DEF StillPending, Pending, WithStatus
  <2>2. Cardinality(UnitsOf((Pending \ {b}) \cup {b}, qty))
          = Cardinality(UnitsOf(Pending \ {b}, qty)) + qty[b]
    BY <1>0, AddBooking
  <2>3. Cardinality(UnitsOf(Pending \ {b}, qty)) \in Nat
    BY <1>0, UnitsFinite
  <2>4. held = Cardinality(UnitsOf(Pending \ {b}, qty)) + qty[b]
    BY <2>1, <2>2 DEF Accounted
  <2>5. held' = Cardinality(UnitsOf(Pending \ {b}, qty))
    BY <1>0, <1>3, <2>3, <2>4 DEF Max0
  <2> QED
    BY <1>3, <2>1, <2>5
<1>4. ASSUME NEW b \in Booking, Sells(b)  PROVE Accounted'
  <2>1. /\ StillPending(b) /\ b \notin Confirmed /\ qty' = qty
        /\ Pending' = Pending \ {b} /\ Confirmed' = Confirmed \cup {b}
    BY <1>0, <1>4 DEF Sells, StillPending, Pending, Confirmed, WithStatus
  <2>2. held' = Cardinality(UnitsOf(Pending', qty'))
    BY <1>3, <1>4, <2>1 DEF Sells
  <2>3. Cardinality(UnitsOf(Confirmed \cup {b}, qty)) = Cardinality(UnitsOf(Confirmed, qty)) + qty[b]
    BY <1>0, <2>1, AddBooking
  <2>4. sold' = Cardinality(UnitsOf(Confirmed', qty'))
    BY <1>4, <2>1, <2>3 DEF Sells, Accounted
  <2> QED
    BY <2>2, <2>4 DEF Accounted
<1>5. ASSUME NEW b \in Booking, NEW outcome \in {"EXPIRED", "CANCELLED"}, Drops(b, outcome)
      PROVE Accounted'
  <2>1. /\ StillPending(b) /\ qty' = qty /\ Pending' = Pending \ {b} /\ Confirmed' = Confirmed
    BY <1>0, <1>5 DEF Drops, StillPending, Pending, Confirmed, WithStatus
  <2>2. held' = Cardinality(UnitsOf(Pending', qty'))
    BY <1>3, <1>5, <2>1 DEF Drops
  <2> QED
    BY <1>5, <2>1, <2>2 DEF Drops, Accounted
<1>6. CASE CallsOff
  <2>1. Pending' = {} /\ Confirmed' = Confirmed /\ qty' = qty /\ sold' = sold
    BY <1>0, <1>6 DEF CallsOff, Pending, Confirmed, WithStatus
  <2>2. held' = 0
    BY <1>0, <1>6, UnitsNow DEF CallsOff, Accounted, Pending, Max0
  <2>3. UnitsOf({}, qty) = {}
    BY DEF UnitsOf
  <2> QED
    BY <2>1, <2>2, <2>3, FS_EmptySet DEF Accounted
<1> QED
  BY <1>1, <1>2, <1>4, <1>5, <1>6 DEF StockStep

LEMMA AccountedInductive == /\ Init => Accounted
                            /\ TypeOK /\ TypeOK' /\ Accounted /\ [Next]_vars => Accounted'
<1>1. Init => Accounted
  <2> SUFFICES ASSUME Init  PROVE Accounted
    OBVIOUS
  <2>1. Pending = {} /\ Confirmed = {} /\ UnitsOf({}, qty) = {}
    BY DEF Init, Pending, Confirmed, WithStatus, UnitsOf
  <2> QED
    BY <2>1, FS_EmptySet DEF Init, Accounted
<1> QED
  BY <1>1, StepKinds, AccountedStep

\* quantityHeld and quantitySold are exactly what the pending and the confirmed
\* bookings add up to, whatever sweeps, confirmations and cancellations race.
THEOREM StockAccounted == Spec => []InventoryAccounted
<1>1. Spec => []Accounted
  BY AccountedInductive, TypeCorrect, PTL DEF Spec
<1> QED
  BY <1>1, AccountedIff, PTL

----------------------------------------------------------------------------
(* No oversell: needs that a released or sold booking's units were held.   *)

LEMMA HeldCoversPending ==
    ASSUME TypeOK, Accounted, NEW b \in Pending
    PROVE  qty[b] <= held /\ qty[b] \in Nat
<1>0. /\ qty \in [Booking -> 0..MaxQty] /\ b \in Booking /\ Pending \subseteq Booking
      /\ (Pending \ {b}) \cup {b} = Pending
  BY DEF TypeOK, Shapes, Pending, WithStatus
<1>1. Cardinality(UnitsOf((Pending \ {b}) \cup {b}, qty))
        = Cardinality(UnitsOf(Pending \ {b}, qty)) + qty[b]
  BY <1>0, AddBooking
<1>2. Cardinality(UnitsOf(Pending \ {b}, qty)) \in Nat
  BY <1>0, UnitsFinite
<1>3. qty[b] \in Nat
  BY <1>0, ConstAssumption
<1>4. held = Cardinality(UnitsOf(Pending \ {b}, qty)) + qty[b]
  BY <1>0, <1>1 DEF Accounted
<1> QED
  BY <1>2, <1>3, <1>4

LEMMA NoOversellStep ==
    ASSUME TypeOK, Accounted, NoOversell, StockStep
    PROVE  NoOversell'
<1> SUFFICES ASSUME ~SeatBased  PROVE held' + sold' <= Capacity
  BY DEF NoOversell
<1>0. held \in Nat /\ sold \in Nat /\ held + sold <= Capacity /\ Capacity \in Nat
  BY ConstAssumption DEF TypeOK, Shapes, NoOversell
<1>1. CASE Quiet
  BY <1>0, <1>1 DEF Quiet
<1>2. ASSUME NEW b \in Booking, NEW q \in 1..MaxQty, Holds(b, q)  PROVE held' + sold' <= Capacity
  BY <1>0, <1>2, ConstAssumption DEF Holds, EnoughStock
<1>3. ASSUME NEW b \in Booking, Sells(b) \/ \E outcome : Drops(b, outcome)
      PROVE  held' + sold' <= Capacity
  <2>1. b \in Pending
    BY <1>3 DEF Sells, Drops, Pending, WithStatus
  <2>2. qty[b] <= held /\ qty[b] \in Nat
    BY <2>1, HeldCoversPending
  <2> QED
    BY <1>0, <1>3, <2>2 DEF Sells, Drops, Max0
<1>4. CASE CallsOff
  <2>1. held' = 0
    BY <1>0, <1>4, UnitsNow DEF CallsOff, Accounted, Pending, Max0
  <2> QED
    BY <1>0, <1>4, <2>1 DEF CallsOff
<1> QED
  BY <1>1, <1>2, <1>3, <1>4 DEF StockStep

\* A general admission session never has more held and sold than it has.
THEOREM NeverOversold == Spec => []NoOversell
<1>1. Init => NoOversell
  BY ConstAssumption DEF Init, NoOversell
<1>2. TypeOK /\ Accounted /\ NoOversell /\ [Next]_vars => NoOversell'
  BY StepKinds, NoOversellStep
<1>3. Spec => []Accounted
  BY AccountedInductive, TypeCorrect, PTL DEF Spec
<1> QED
  BY <1>1, <1>2, <1>3, TypeCorrect, PTL DEF Spec

----------------------------------------------------------------------------
(* Tickets and final statuses.                                             *)

LEMMA TicketsStep ==
    ASSUME TypeOK, TypeOK', TicketsIssuedOnce, StockStep
    PROVE  TicketsIssuedOnce'
<1>0. /\ status \in [Booking -> BookingStatus] /\ qty \in [Booking -> 0..MaxQty]
      /\ issued \in [Booking -> Nat]
  BY DEF TypeOK, Shapes
<1>1. CASE Quiet
  BY <1>1 DEF Quiet, TicketsIssuedOnce
<1>2. ASSUME NEW b \in Booking, NEW q \in 1..MaxQty, Holds(b, q)  PROVE TicketsIssuedOnce'
  BY <1>0, <1>2 DEF Holds, TicketsIssuedOnce
<1>3. ASSUME NEW b \in Booking, Sells(b)  PROVE TicketsIssuedOnce'
  <2>1. issued[b] = 0 /\ qty[b] \in Nat
    BY <1>0, <1>3, ConstAssumption DEF Sells, TicketsIssuedOnce
  <2> QED
    BY <1>0, <1>3, <2>1 DEF Sells, TicketsIssuedOnce
<1>4. ASSUME NEW b \in Booking, NEW outcome \in {"EXPIRED", "CANCELLED"}, Drops(b, outcome)
      PROVE  TicketsIssuedOnce'
  BY <1>0, <1>4 DEF Drops, TicketsIssuedOnce
<1>5. CASE CallsOff
  BY <1>0, <1>5 DEF CallsOff, TicketsIssuedOnce
<1> QED
  BY <1>1, <1>2, <1>3, <1>4, <1>5 DEF StockStep

\* A booking has one ticket per unit when it is confirmed and none before or
\* otherwise, however often and by whom it is confirmed.
THEOREM TicketsOnce == Spec => []TicketsIssuedOnce
<1>1. Init => TicketsIssuedOnce
  BY DEF Init, TicketsIssuedOnce
<1>2. TypeOK /\ TypeOK' /\ TicketsIssuedOnce /\ [Next]_vars => TicketsIssuedOnce'
  BY StepKinds, TicketsStep
<1> QED
  BY <1>1, <1>2, TypeCorrect, PTL DEF Spec

\* No sweep overwrites a confirmation, and no late payment revives a booking
\* that expired or was cancelled.
THEOREM SettledForever == Spec => SettledIsFinal
<1> DEFINE Final == \A b \in Booking : status[b] \in {"CONFIRMED", "EXPIRED", "CANCELLED"}
                                          => status'[b] = status[b]
<1>1. TypeOK /\ [Next]_vars => [Final]_vars
  <2> SUFFICES ASSUME TypeOK, [Next]_vars  PROVE Final
    OBVIOUS
  <2>0. StockStep /\ status \in [Booking -> BookingStatus]
    BY StepKinds DEF TypeOK, Shapes
  <2> QED
    BY <2>0 DEF StockStep, Quiet, Holds, Sells, Drops, CallsOff
<1> QED
  BY <1>1, TypeCorrect, PTL DEF Spec, SettledIsFinal

----------------------------------------------------------------------------
(* The general admission session implements the abstract sale.             *)

\* The instance's Cardinality is the one counted with here.
LEMMA SameCardinality ==
    ASSUME NEW S
    PROVE  Sale!Cardinality(S) = Cardinality(S)
BY DEF Sale!Cardinality, Cardinality

LEMMA TakenUnits ==
    ASSUME TypeOK, Accounted
    PROVE  Cardinality(Sale!Taken) = held + sold
<1>1. Sale!Taken = UnitsOf(Pending, qty) \cup UnitsOf(Confirmed, qty)
  BY DEF Sale!Taken, UnitsOf, Pending, Confirmed, WithStatus, Purchases, PurchaseOf, TypeOK, Shapes, BookingStatus
<1>2. UnitsOf(Pending, qty) \cap UnitsOf(Confirmed, qty) = {}
  BY DEF UnitsOf, Pending, Confirmed, WithStatus
<1>3. /\ IsFiniteSet(UnitsOf(Pending, qty)) /\ IsFiniteSet(UnitsOf(Confirmed, qty))
  BY UnitsFinite DEF Pending, Confirmed, WithStatus
<1>4. Cardinality(UnitsOf(Pending, qty) \cup UnitsOf(Confirmed, qty))
        = held + sold - Cardinality(UnitsOf(Pending, qty) \cap UnitsOf(Confirmed, qty))
  BY <1>3, FS_Union DEF Accounted
<1>5. Cardinality(UnitsOf(Pending, qty) \cap UnitsOf(Confirmed, qty)) = 0
  BY <1>2, FS_EmptySet
<1>6. held \in Nat /\ sold \in Nat
  BY DEF TypeOK, Shapes
<1>7. Cardinality(UnitsOf(Pending, qty) \cup UnitsOf(Confirmed, qty)) = held + sold
  BY <1>4, <1>5, <1>6
<1> QED
  BY <1>1, <1>7, Zenon

LEMMA SaleStep ==
    ASSUME TypeOK, TypeOK', Accounted, ~SeatBased, StockStep
    PROVE  [Sale!SaleNext]_(Sale!saleVars)
<1>0. /\ status \in [Booking -> BookingStatus] /\ status' \in [Booking -> BookingStatus]
      /\ qty \in [Booking -> 0..MaxQty] /\ held \in Nat /\ sold \in Nat /\ Capacity \in Nat
  BY ConstAssumption DEF TypeOK, Shapes
<1>1. CASE Quiet
  BY <1>1 DEF Quiet, Sale!saleVars, Purchases
<1>2. ASSUME NEW b \in Booking, NEW q \in 1..MaxQty, Holds(b, q)
      PROVE  Sale!Hold(b, q)
  <2>1. Cardinality(Sale!Taken) + q <= Capacity
    BY <1>0, <1>2, TakenUnits, ConstAssumption DEF Holds, EnoughStock
  <2>2. Purchases[b] = "none" /\ Purchases' = [Purchases EXCEPT ![b] = "held"]
    BY <1>0, <1>2 DEF Holds, Purchases, PurchaseOf
  <2> QED
    BY <1>2, <2>1, <2>2, SameCardinality DEF Sale!Hold, Holds
<1>3. ASSUME NEW b \in Booking, Sells(b)
      PROVE  Sale!Sell(b)
  <2>1. Purchases[b] = "held" /\ Purchases' = [Purchases EXCEPT ![b] = "sold"]
    BY <1>0, <1>3 DEF Sells, Purchases, PurchaseOf
  <2> QED
    BY <1>3, <2>1 DEF Sale!Sell, Sells
<1>4. ASSUME NEW b \in Booking, NEW outcome \in {"EXPIRED", "CANCELLED"}, Drops(b, outcome)
      PROVE  Sale!Drop({b})
  <2>1. /\ Purchases[b] = "held"
        /\ Purchases' = [x \in Booking |-> IF x \in {b} THEN "dropped" ELSE Purchases[x]]
    BY <1>0, <1>4 DEF Drops, Purchases, PurchaseOf
  <2> QED
    BY <1>4, <2>1 DEF Sale!Drop, Drops
<1>5. CASE CallsOff
  <2>1. Purchases' = [x \in Booking |-> IF x \in Pending THEN "dropped" ELSE Purchases[x]]
    BY <1>0, <1>5 DEF CallsOff, Pending, WithStatus, Purchases, PurchaseOf
  <2>2. \A b \in Pending : Purchases[b] = "held"
    BY DEF Pending, WithStatus, Purchases, PurchaseOf
  <2>3. qty' = qty /\ Pending \in SUBSET Booking
    BY <1>5 DEF CallsOff, Pending, WithStatus
  <2>4. CASE Pending = {}
    <3>1. Purchases' = Purchases
      BY <2>1, <2>4 DEF Purchases
    <3> QED
      BY <2>3, <3>1 DEF Sale!saleVars
  <2>5. CASE Pending # {}
    <3>1. Sale!Drop(Pending)
      BY <2>1, <2>2, <2>3, <2>5 DEF Sale!Drop
    <3> QED
      BY <2>3, <3>1 DEF Sale!SaleNext
  <2> QED
    BY <2>4, <2>5
<1> QED
  BY <1>1, <1>2, <1>3, <1>4, <1>5 DEF StockStep, Sale!SaleNext

\* Every interleaving of the handlers of a general admission session is, for
\* its stock, a sequence of whole purchases held, sold or dropped once.
THEOREM SaleImplemented == ~SeatBased => (Spec => ImplementsSale)
<1> SUFFICES ASSUME ~SeatBased  PROVE Spec => ImplementsSale
  OBVIOUS
<1>1. Init => Sale!SaleInit
  BY DEF Init, Sale!SaleInit, Purchases, PurchaseOf
<1>2. TypeOK /\ TypeOK' /\ Accounted /\ [Next]_vars => [Sale!SaleNext]_(Sale!saleVars)
  BY StepKinds, SaleStep
<1>3. Spec => []Accounted
  BY AccountedInductive, TypeCorrect, PTL DEF Spec
<1> QED
  BY <1>1, <1>2, <1>3, TypeCorrect, PTL DEF Spec, ImplementsSale, Sale!SaleSpec

=============================================================================
