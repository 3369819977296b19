------------------------- MODULE BookingSeatProofs -------------------------
(* Seated sessions, for any number of seats, bookings and handlers: who    *)
(* holds a seat, until when, and to whom it is sold.                       *)
EXTENDS BookingCoreProofs

----------------------------------------------------------------------------
(* What a step does to the seat map, whoever takes it.                     *)

SeatsQuiet == UNCHANGED <<status, qty, hold, sold, seat, ticketSeats>>

TakesSeats(b, q, S, until) ==
    /\ status[b] = "NONE" /\ status' = [status EXCEPT ![b] = "PENDING_PAYMENT"]
    /\ qty' = [qty EXCEPT ![b] = q] /\ hold' = [hold EXCEPT ![b] = until]
    /\ SeatsFree(S) /\ (SeatBased => S # {} /\ q = Cardinality(S))
    /\ seat' = [s \in Seats |->
                  IF s \in S THEN [st |-> "HELD", by |-> b, until |-> until] ELSE seat[s]]
    /\ UNCHANGED <<sold, ticketSeats>>

SellsSeats(b) ==
    /\ status[b] = "PENDING_PAYMENT" /\ status' = [status EXCEPT ![b] = "CONFIRMED"]
    /\ HoldsEverySeat(b)
    /\ seat' = [s \in Seats |->
                  IF s \in HeldSeats(b) THEN [seat[s] EXCEPT !.st = "SOLD"] ELSE seat[s]]
    /\ ticketSeats' = [ticketSeats EXCEPT ![b] = @ \cup HeldSeats(b)]
    /\ sold' = sold + qty[b]
    /\ UNCHANGED <<qty, hold>>

FreesSeats(b, outcome) ==
    /\ status[b] = "PENDING_PAYMENT" /\ status' = [status EXCEPT ![b] = outcome]
    /\ seat' = [s \in Seats |-> IF s \in HeldSeats(b) THEN FreeSeat ELSE seat[s]]
    /\ UNCHANGED <<qty, hold, sold, ticketSeats>>

MovesDeadline(b, until) ==
    /\ hold' = [hold EXCEPT ![b] = until]
    /\ MoveSeatDeadlines(b, until)
    /\ UNCHANGED <<status, qty, sold, ticketSeats>>

ClosesSeats ==
    /\ status' = [b \in Booking |-> IF status[b] = "PENDING_PAYMENT" THEN "EXPIRED" ELSE status[b]]
    /\ seat' = [s \in Seats |-> IF seat[s].st \in {"AVAILABLE", "HELD"}
                                THEN [FreeSeat EXCEPT !.st = "UNAVAILABLE"] ELSE seat[s]]
    /\ UNCHANGED <<qty, hold, sold, ticketSeats>>

OverridesSeat(s, st) ==
    /\ seat[s].st \in IF st = "BLOCKED" THEN {"AVAILABLE", "HELD"} ELSE {"BLOCKED"}
    /\ seat' = [seat EXCEPT ![s] = [FreeSeat EXCEPT !.st = st]]
    /\ UNCHANGED <<status, qty, hold, sold, ticketSeats>>

SeatStep ==
    \/ SeatsQuiet
    \/ \E b \in Booking, q \in 1..MaxQty, S \in SUBSET Seats, until \in Nat :
         TakesSeats(b, q, S, until)
    \/ \E b \in Booking : SellsSeats(b)
    \/ \E b \in Booking, outcome \in {"EXPIRED", "CANCELLED"} : FreesSeats(b, outcome)
    \/ \E b \in Booking, until \in Nat : MovesDeadline(b, until)
    \/ ClosesSeats
    \/ \E s \in Seats, st \in {"AVAILABLE", "BLOCKED"} : OverridesSeat(s, st)

LEMMA ReleaseFrees ==
    ASSUME NEW b \in Booking, NEW outcome, ReleasePendingBooking(b, outcome), UNCHANGED ticketSeats
    PROVE  FreesSeats(b, outcome)
BY DEF ReleasePendingBooking, StillPending, ReleaseStock, FreesSeats

LEMMA ExpireFrees ==
    ASSUME NEW b \in Booking, NEW n, ExpireLapsed(b, n), UNCHANGED ticketSeats
    PROVE  SeatStep
BY ReleaseFrees DEF ExpireLapsed, SeatStep, SeatsQuiet, bookingVars, stockVars

\* Every step of every handler is one of these.
LEMMA SeatStepKinds == TypeOK /\ [Next]_vars => SeatStep
<1> SUFFICES ASSUME TypeOK, [Next]_vars  PROVE SeatStep
  OBVIOUS
<1> USE DEF SeatStep
<1>1. CASE UNCHANGED vars
  BY <1>1 DEF vars, SeatsQuiet, bookingVars, stockVars, ticketVars
<1>2. ASSUME NEW c \in Slots, Arrive(c) \/ Abandon(c)  PROVE SeatsQuiet
  BY <1>2 DEF SeatsQuiet, bookingVars, stockVars, ticketVars, Arrive, Abandon, CreateCheck,
     CreateIntent, CollectCash, SweepRead, CouponRead, DeliverSuccess, DeliverFailed, VerifyRead,
     ShowOpRead
<1>3. ASSUME NEW c \in Slots, Resume(c)  PROVE SeatStep
  <2>0. calls[c] \in Call /\ (calls[c].op \notin ShowOnly => calls[c].b \in Booking)
    BY DEF TypeOK, Shapes, HandlersNameRows
  <2>1. CASE CreateSweep(c)
    <3>1. PICK x \in calls[c].list : ExpireLapsed(x, calls[c].n)
      BY <2>1 DEF CreateSweep
    <3>2. x \in Booking /\ UNCHANGED ticketSeats
      BY <2>0, <2>1 DEF Call, CreateSweep, ticketVars
    <3> QED
      BY <3>1, <3>2, ExpireFrees
  <2>2. CASE SweepRelease(c)
    <3>1. ExpireLapsed(calls[c].b, calls[c].n) /\ calls[c].b \in Booking /\ UNCHANGED ticketSeats
      BY <2>0, <2>2 DEF SweepRelease, ShowOnly, ticketVars
    <3> QED
      BY <3>1, ExpireFrees
  <2>3. ASSUME NEW m \in Methods, NEW q \in 1..MaxQty, NEW S \in SUBSET Seats, NEW at \in 0..now,
               NEW until, CreateHold(c, m, q, S, at, until)
        PROVE  SeatStep
    <3>1. calls[c].b \in Booking /\ until \in Nat
      BY <2>0, <2>3, ConstAssumption DEF CreateHold, ShowOnly, HoldDeadlines, TypeOK, Shapes
    <3>2. SeatsFree(S) /\ (SeatBased => S # {} /\ q = Cardinality(S))
      BY <2>3 DEF CreateHold, ReserveStock, SeatsFree
    <3>3. TakesSeats(calls[c].b, q, S, until)
      BY <2>3, <3>2 DEF CreateHold, ReserveStock, TakesSeats, ticketVars
    <3> QED
      BY <3>1, <3>3
  <2>4. CASE ConfirmClaim(c)
    <3>1. calls[c].b \in Booking
      BY <2>0, <2>4 DEF ConfirmClaim, ShowOnly
    <3>2. SellsSeats(calls[c].b)
      BY <2>4 DEF ConfirmClaim, ClaimsBooking, ConfirmStock, SellsSeats
    <3> QED
      BY <3>1, <3>2
  <2>5. CASE CancelShow(c)
    BY <2>5 DEF CancelShow, ClosesSeats, ticketVars
  <2>6. CASE \/ ConfirmFree(c) \/ ResumeOrder(c) \/ (\E o \in Orders : OpenOrder(c, o))
             \/ SaveOrder(c) \/ VerifySave(c) \/ CouponSave(c) \/ SaveFailed(c) \/ ConfirmLost(c)
             \/ RecordUnappliedCapture(c) \/ FileDiscrepancy(c) \/ GuardClose(c)
             \/ GuardClassify(c) \/ ShowOpSave(c)
    BY <2>6 DEF SeatsQuiet, bookingVars, stockVars, ticketVars, ConfirmFree, ResumeOrder, OpenOrder,
       SaveOrder, VerifySave, CouponSave, SaveFailed, ConfirmLost, RecordUnappliedCapture,
       FileDiscrepancy, GuardClose, GuardClassify, ShowOpSave
  <2> QED
    BY <1>3, <2>1, <2>2, <2>3, <2>4, <2>5, <2>6 DEF Resume
<1>4. ASSUME NEW b \in Booking, CancelUnpaid(b)  PROVE SeatStep
  BY <1>4, ReleaseFrees DEF CancelUnpaid, ticketVars
<1>5. ASSUME NEW b \in Booking, ExtendHold(b)  PROVE SeatStep
  <2>1. now + HoldTime \in Nat
    BY ConstAssumption DEF TypeOK, Shapes
  <2>2. MovesDeadline(b, now + HoldTime)
    BY <1>5 DEF ExtendHold, MovesDeadline, ticketVars
  <2> QED
    BY <2>1, <2>2
<1>6. ASSUME NEW s \in Seats, BlockSeat(s) \/ UnblockSeat(s)  PROVE SeatStep
  <2>1. CASE BlockSeat(s)
    <3>1. OverridesSeat(s, "BLOCKED")
      BY <2>1 DEF BlockSeat, OverridesSeat, bookingVars, ticketVars
    <3> QED
      BY <3>1
  <2>2. CASE UnblockSeat(s)
    <3>1. FreeSeat = [FreeSeat EXCEPT !.st = "AVAILABLE"]
      BY DEF FreeSeat
    <3>2. OverridesSeat(s, "AVAILABLE")
      BY <2>2, <3>1 DEF UnblockSeat, OverridesSeat, bookingVars, ticketVars
    <3> QED
      BY <3>2
  <2> QED
    BY <1>6, <2>1, <2>2
<1>7. CASE \/ \E o \in Orders : BuyerPays(o) \/ BuyerIsRefused(o)
           \/ CompleteSession \/ Tick
  BY <1>7 DEF SeatsQuiet, bookingVars, stockVars, ticketVars, BuyerPays, BuyerIsRefused,
     CompleteSession, Tick
<1> QED
  BY <1>1, <1>2, <1>3, <1>4, <1>5, <1>6, <1>7 DEF Next

----------------------------------------------------------------------------
(* A held seat belongs to a booking that is still to be paid, and carries  *)
(* that booking's deadline.                                                *)

HeldIsPending ==
    \A s \in Seats : seat[s].st = "HELD" =>
        /\ seat[s].by \in Booking /\ status[seat[s].by] = "PENDING_PAYMENT"
        /\ seat[s].until = hold[seat[s].by]

SeatTypes == /\ seat \in [Seats -> SeatRow] /\ status \in [Booking -> BookingStatus]
             /\ hold \in [Booking -> Nat] /\ qty \in [Booking -> 0..MaxQty]
             /\ ticketSeats \in [Booking -> SUBSET Seats] /\ sold \in Nat

LEMMA HeldIsPendingStep ==
    ASSUME SeatTypes, HeldIsPending, SeatStep
    PROVE  HeldIsPending'
<1> USE DEF SeatTypes, HeldIsPending
<1>1. CASE SeatsQuiet
  BY <1>1 DEF SeatsQuiet
<1>2. ASSUME NEW b \in Booking, NEW q \in 1..MaxQty, NEW S \in SUBSET Seats, NEW until \in Nat,
             TakesSeats(b, q, S, until)
      PROVE  HeldIsPending'
  <2> SUFFICES ASSUME NEW s \in Seats, seat'[s].st = "HELD"
               PROVE  /\ seat'[s].by \in Booking /\ status'[seat'[s].by] = "PENDING_PAYMENT"
                      /\ seat'[s].until = hold'[seat'[s].by]
    OBVIOUS
  <2>1. CASE s \in S
    BY <1>2, <2>1 DEF TakesSeats
  <2>2. CASE s \notin S
    BY <1>2, <2>2 DEF TakesSeats
  <2> QED
    BY <2>1, <2>2
<1>3. ASSUME NEW b \in Booking,
             SellsSeats(b) \/ \E outcome \in {"EXPIRED", "CANCELLED"} : FreesSeats(b, outcome)
      PROVE  HeldIsPending'
  <2> SUFFICES ASSUME NEW s \in Seats, seat'[s].st = "HELD"
               PROVE  /\ seat'[s].by \in Booking /\ status'[seat'[s].by] = "PENDING_PAYMENT"
                      /\ seat'[s].until = hold'[seat'[s].by]
    OBVIOUS
  <2>1. seat[s] \in SeatRow
    OBVIOUS
  <2>2. seat'[s] = seat[s] /\ s \notin HeldSeats(b)
    BY <1>3, <2>1 DEF SellsSeats, FreesSeats, FreeSeat, SeatRow
  <2>3. seat[s].by # b
    BY <2>2 DEF HeldSeats
  <2> QED
    BY <1>3, <2>2, <2>3 DEF SellsSeats, FreesSeats
<1>4. ASSUME NEW b \in Booking, NEW until \in Nat, MovesDeadline(b, until)
      PROVE  HeldIsPending'
  <2> SUFFICES ASSUME NEW s \in Seats, seat'[s].st = "HELD"
               PROVE  /\ seat'[s].by \in Booking /\ status'[seat'[s].by] = "PENDING_PAYMENT"
                      /\ seat'[s].until = hold'[seat'[s].by]
    OBVIOUS
  <2>1. seat[s] \in SeatRow
    OBVIOUS
  <2>2. CASE s \in HeldSeats(b)
    BY <1>4, <2>1, <2>2 DEF MovesDeadline, MoveSeatDeadlines, HeldSeats, SeatRow
  <2>3. CASE s \notin HeldSeats(b)
    BY <1>4, <2>3 DEF MovesDeadline, MoveSeatDeadlines, HeldSeats
  <2> QED
    BY <2>2, <2>3
<1>5. CASE ClosesSeats
  <2>1. \A s \in Seats : seat'[s].st # "HELD"
    BY <1>5 DEF ClosesSeats, FreeSeat
  <2> QED
    BY <2>1
<1>6. ASSUME NEW s \in Seats, NEW st \in {"AVAILABLE", "BLOCKED"}, OverridesSeat(s, st)
      PROVE  HeldIsPending'
  BY <1>6 DEF OverridesSeat, FreeSeat
<1> QED
  BY <1>1, <1>2, <1>3, <1>4, <1>5, <1>6 DEF SeatStep

\* The deadline each held seat carries is its booking's own through every
\* extension, for any number of seats, bookings and extensions.
THEOREM DeadlinesAgree == Spec => []SeatDeadlinesAgree
<1>1. Init => HeldIsPending
  BY DEF Init, HeldIsPending, FreeSeat
<1>2. TypeOK => SeatTypes
  BY DEF TypeOK, Shapes, SeatTypes
<1>3. TypeOK /\ HeldIsPending /\ [Next]_vars => HeldIsPending'
  BY <1>2, SeatStepKinds, HeldIsPendingStep
<1>4. HeldIsPending => SeatDeadlinesAgree
  BY DEF HeldIsPending, SeatDeadlinesAgree, HeldSeats
<1> QED
  BY <1>1, <1>3, <1>4, TypeCorrect, PTL DEF Spec

----------------------------------------------------------------------------
(* To whom a seat is sold.                                                 *)

TicketsNameSold ==
    \A b \in Booking : \A s \in ticketSeats[b] : seat[s].st = "SOLD" /\ seat[s].by = b
SoldIsTicketed == \A s \in Seats : seat[s].st = "SOLD" => \E b \in Booking : s \in ticketSeats[b]
SeatPerUnit == SeatBased => \A b \in WithStatus("CONFIRMED") : Cardinality(ticketSeats[b]) = qty[b]

\* A booking that is not confirmed has no tickets for anybody's seat.
TicketsAfterPayment == \A b \in Booking : status[b] # "CONFIRMED" => ticketSeats[b] = {}

SeatInv == TicketsNameSold /\ SoldIsTicketed /\ SeatPerUnit /\ TicketsAfterPayment

\* Nobody but a sale makes a seat SOLD, and nobody changes one that is.
LEMMA SoldStays ==
    ASSUME SeatTypes, SeatStep, ~ \E b \in Booking : SellsSeats(b)
    PROVE  \A s \in Seats : seat'[s].st = "SOLD" \/ seat[s].st = "SOLD" => seat'[s] = seat[s]
<1> SUFFICES ASSUME NEW s \in Seats, seat'[s].st = "SOLD" \/ seat[s].st = "SOLD"
             PROVE  seat'[s] = seat[s]
  OBVIOUS
<1>0. seat[s] \in SeatRow
  BY DEF SeatTypes
<1>1. CASE SeatsQuiet
  BY <1>1 DEF SeatsQuiet
<1>2. ASSUME NEW b \in Booking, NEW q \in 1..MaxQty, NEW S \in SUBSET Seats, NEW until \in Nat,
             TakesSeats(b, q, S, until)
      PROVE  seat'[s] = seat[s]
  BY <1>2 DEF TakesSeats, SeatsFree
<1>3. ASSUME NEW b \in Booking, NEW outcome, FreesSeats(b, outcome)
      PROVE  seat'[s] = seat[s]
  BY <1>3 DEF FreesSeats, HeldSeats, FreeSeat
<1>4. ASSUME NEW b \in Booking, NEW until \in Nat, MovesDeadline(b, until)
      PROVE  seat'[s] = seat[s]
  BY <1>0, <1>4 DEF MovesDeadline, MoveSeatDeadlines, HeldSeats, SeatRow
<1>5. CASE ClosesSeats
  BY <1>5 DEF ClosesSeats, FreeSeat
<1>6. ASSUME NEW x \in Seats, NEW st \in {"AVAILABLE", "BLOCKED"}, OverridesSeat(x, st)
      PROVE  seat'[s] = seat[s]
  BY <1>6 DEF OverridesSeat, FreeSeat, SeatTypes
<1> QED
  BY <1>1, <1>2, <1>3, <1>4, <1>5, <1>6 DEF SeatStep

\* Statuses, quantities and tickets of confirmed bookings when nothing is sold.
LEMMA UnsoldFrame ==
    ASSUME SeatTypes, SeatStep, ~ \E b \in Booking : SellsSeats(b)
    PROVE  /\ ticketSeats' = ticketSeats /\ sold' = sold
           /\ \A b \in Booking : status'[b] = "CONFIRMED" <=> status[b] = "CONFIRMED"
           /\ \A b \in Booking : status[b] = "CONFIRMED" => qty'[b] = qty[b]
<1> USE DEF SeatTypes
<1>1. CASE SeatsQuiet
  BY <1>1 DEF SeatsQuiet
<1>2. ASSUME NEW b \in Booking, NEW q \in 1..MaxQty, NEW S \in SUBSET Seats, NEW until \in Nat,
             TakesSeats(b, q, S, until)
      PROVE  /\ ticketSeats' = ticketSeats /\ sold' = sold
             /\ \A x \in Booking : status'[x] = "CONFIRMED" <=> status[x] = "CONFIRMED"
             /\ \A x \in Booking : status[x] = "CONFIRMED" => qty'[x] = qty[x]
  BY <1>2 DEF TakesSeats
<1>3. ASSUME NEW b \in Booking, NEW outcome \in {"EXPIRED", "CANCELLED"}, FreesSeats(b, outcome)
      PROVE  /\ ticketSeats' = ticketSeats /\ sold' = sold
             /\ \A x \in Booking : status'[x] = "CONFIRMED" <=> status[x] = "CONFIRMED"
             /\ \A x \in Booking : status[x] = "CONFIRMED" => qty'[x] = qty[x]
  BY <1>3 DEF FreesSeats
<1>4. CASE \/ \E b \in Booking, until \in Nat : MovesDeadline(b, until)
           \/ \E s \in Seats, st \in {"AVAILABLE", "BLOCKED"} : OverridesSeat(s, st)
  BY <1>4 DEF MovesDeadline, OverridesSeat
<1>5. CASE ClosesSeats
  BY <1>5 DEF ClosesSeats
<1> QED
  BY <1>1, <1>2, <1>3, <1>4, <1>5 DEF SeatStep

\* A sale turns exactly the seats its booking holds into its tickets.
LEMMA SaleOfSeats ==
    ASSUME SeatTypes, SeatInv, NEW b \in Booking, SellsSeats(b)
    PROVE  /\ ticketSeats' = [ticketSeats EXCEPT ![b] = HeldSeats(b)]
           /\ \A s \in HeldSeats(b) : seat'[s].st = "SOLD" /\ seat'[s].by = b
           /\ \A s \in Seats \ HeldSeats(b) : seat'[s] = seat[s]
           /\ \A s \in HeldSeats(b) : seat[s].st # "SOLD"
<1>1. ticketSeats[b] = {}
  BY DEF SellsSeats, SeatInv, TicketsAfterPayment
<1>2. ticketSeats' = [ticketSeats EXCEPT ![b] = HeldSeats(b)]
  BY <1>1 DEF SellsSeats, SeatTypes
<1>3. ASSUME NEW s \in HeldSeats(b)
      PROVE  seat'[s].st = "SOLD" /\ seat'[s].by = b /\ seat[s].st # "SOLD"
  <2>1. s \in Seats /\ seat[s] \in SeatRow /\ seat[s].st = "HELD" /\ seat[s].by = b
    BY <1>3 DEF HeldSeats, SeatTypes
  <2> QED
    BY <1>3, <2>1 DEF SellsSeats, SeatRow
<1>4. \A s \in Seats \ HeldSeats(b) : seat'[s] = seat[s]
  BY DEF SellsSeats
<1> QED
  BY <1>2, <1>3, <1>4

LEMMA SeatInvStep ==
    ASSUME SeatTypes, SeatInv, SeatStep
    PROVE  SeatInv'
<1> USE DEF SeatInv
<1>1. ASSUME NEW b \in Booking, SellsSeats(b)  PROVE SeatInv'
  <2>0. /\ ticketSeats' = [ticketSeats EXCEPT ![b] = HeldSeats(b)]
        /\ \A s \in HeldSeats(b) : seat'[s].st = "SOLD" /\ seat'[s].by = b
        /\ \A s \in Seats \ HeldSeats(b) : seat'[s] = seat[s]
        /\ \A s \in HeldSeats(b) : seat[s].st # "SOLD"
    BY <1>1, SaleOfSeats
  <2>1. TicketsNameSold'
    <3> SUFFICES ASSUME NEW x \in Booking, NEW s \in ticketSeats'[x]
                 PROVE  seat'[s].st = "SOLD" /\ seat'[s].by = x
      BY DEF TicketsNameSold
    <3>1. CASE x = b
      BY <2>0, <3>1 DEF SeatTypes
    <3>2. CASE x # b
      <4>1. s \in ticketSeats[x] /\ s \in Seats /\ seat[s].st = "SOLD" /\ seat[s].by = x
        BY <2>0, <3>2 DEF SeatTypes, TicketsNameSold
      <4> QED
        BY <2>0, <4>1
    <3> QED
      BY <3>1, <3>2
  <2>2. SoldIsTicketed'
    <3> SUFFICES ASSUME NEW s \in Seats, seat'[s].st = "SOLD"
                 PROVE  \E x \in Booking : s \in ticketSeats'[x]
      BY DEF SoldIsTicketed
    <3>1. CASE s \in HeldSeats(b)
      BY <2>0, <3>1 DEF SeatTypes
    <3>2. CASE s \notin HeldSeats(b)
      <4>1. PICK x \in Booking : s \in ticketSeats[x]
        BY <2>0, <3>2 DEF SoldIsTicketed
      <4>2. x # b
        BY <1>1, <4>1 DEF SellsSeats, TicketsAfterPayment
      <4> QED
        BY <2>0, <4>1, <4>2 DEF SeatTypes
    <3> QED
      BY <3>1, <3>2
  <2>3. SeatPerUnit'
    <3> SUFFICES ASSUME SeatBased, NEW x \in Booking, status'[x] = "CONFIRMED"
                 PROVE  Cardinality(ticketSeats'[x]) = qty'[x]
      BY DEF SeatPerUnit, WithStatus, SeatBased
    <3>1. CASE x = b
      <4>1. ticketSeats'[x] = HeldSeats(b)
        BY <2>0, <3>1 DEF SeatTypes
      <4>2. Cardinality(HeldSeats(b)) = qty[b] /\ qty' = qty
        BY <1>1 DEF SellsSeats, HoldsEverySeat
      <4> QED
        BY <3>1, <4>1, <4>2
    <3>2. CASE x # b
      <4>1. status[x] = "CONFIRMED" /\ qty' = qty /\ ticketSeats'[x] = ticketSeats[x]
        BY <1>1, <2>0, <3>2 DEF SellsSeats, SeatTypes
      <4>2. Cardinality(ticketSeats[x]) = qty[x]
        BY <4>1 DEF SeatPerUnit, WithStatus
      <4> QED
        BY <4>1, <4>2
    <3> QED
      BY <3>1, <3>2
  <2>4. TicketsAfterPayment'
    BY <1>1, <2>0 DEF TicketsAfterPayment, SellsSeats, SeatTypes
  <2> QED
    BY <2>1, <2>2, <2>3, <2>4
<1>2. CASE ~ \E b \in Booking : SellsSeats(b)
  <2>0. /\ ticketSeats' = ticketSeats
        /\ \A b \in Booking : status'[b] = "CONFIRMED" <=> status[b] = "CONFIRMED"
        /\ \A b \in Booking : status[b] = "CONFIRMED" => qty'[b] = qty[b]
        /\ \A s \in Seats : seat'[s].st = "SOLD" \/ seat[s].st = "SOLD" => seat'[s] = seat[s]
    BY <1>2, UnsoldFrame, SoldStays
  <2>1. TicketsNameSold'
    BY <2>0 DEF TicketsNameSold, SeatTypes
  <2>2. SoldIsTicketed'
    BY <2>0 DEF SoldIsTicketed
  <2>3. SeatPerUnit'
    BY <2>0 DEF SeatPerUnit, WithStatus, SeatBased
  <2>4. TicketsAfterPayment'
    BY <2>0 DEF TicketsAfterPayment
  <2> QED
    BY <2>1, <2>2, <2>3, <2>4
<1> QED
  BY <1>1, <1>2

\* However holds, blocks, sweeps and payments interleave, a seat that was sold is
\* sold to the one booking whose ticket names it, and a confirmed booking has a
\* seat for every unit it paid for.
THEOREM EachSeatSoldOnce == Spec => []SeatsSoldOnce
<1>1. Init => SeatInv
  BY DEF Init, SeatInv, TicketsNameSold, SoldIsTicketed, SeatPerUnit, TicketsAfterPayment, FreeSeat,
     WithStatus
<1>2. TypeOK => SeatTypes
  BY DEF TypeOK, Shapes, SeatTypes
<1>3. TypeOK /\ SeatInv /\ [Next]_vars => SeatInv'
  BY <1>2, SeatStepKinds, SeatInvStep
<1>4. SeatInv => SeatsSoldOnce
  BY DEF SeatInv, SeatsSoldOnce, TicketsNameSold, SoldIsTicketed, SeatPerUnit
<1> QED
  BY <1>1, <1>3, <1>4, TypeCorrect, PTL DEF Spec

----------------------------------------------------------------------------
(* The counter and the map.                                                *)

SoldSeats == {s \in Seats : seat[s].st = "SOLD"}

LEMMA SoldSeatsStep ==
    ASSUME SeatTypes, SeatInv, SoldCounterMatchesMap, SeatStep
    PROVE  SoldCounterMatchesMap'
<1> SUFFICES ASSUME SeatBased  PROVE sold' = Cardinality(SoldSeats')
  BY DEF SoldCounterMatchesMap, SoldSeats, SeatBased
<1>0. sold = Cardinality(SoldSeats)
  BY DEF SoldCounterMatchesMap, SoldSeats
<1>1. ASSUME NEW b \in Booking, SellsSeats(b)  PROVE sold' = Cardinality(SoldSeats')
  <2>1. SoldSeats' = SoldSeats \cup HeldSeats(b) /\ SoldSeats \cap HeldSeats(b) = {}
    <3>1. /\ \A s \in HeldSeats(b) : seat'[s].st = "SOLD" /\ seat[s].st # "SOLD"
          /\ \A s \in Seats \ HeldSeats(b) : seat'[s] = seat[s]
      BY <1>1, SaleOfSeats
    <3>2. HeldSeats(b) \subseteq Seats
      BY DEF HeldSeats
    <3> QED
      BY <3>1, <3>2 DEF SoldSeats
  <2>2. IsFiniteSet(SoldSeats) /\ IsFiniteSet(HeldSeats(b))
    BY FiniteAssumption, FS_Subset DEF SoldSeats, HeldSeats
  <2>3. Cardinality(SoldSeats \cup HeldSeats(b))
          = Cardinality(SoldSeats) + Cardinality(HeldSeats(b)) - Cardinality(SoldSeats \cap HeldSeats(b))
    BY <2>2, FS_Union
  <2>4. Cardinality(SoldSeats \cap HeldSeats(b)) = 0
    BY <2>1, FS_EmptySet
  <2>5. Cardinality(HeldSeats(b)) = qty[b] /\ sold' = sold + qty[b]
    BY <1>1 DEF SellsSeats, HoldsEverySeat
  <2>6. Cardinality(SoldSeats) \in Nat /\ Cardinality(HeldSeats(b)) \in Nat
    BY <2>2, FS_CardinalityType
  <2> QED
    BY <1>0, <2>1, <2>3, <2>4, <2>5, <2>6
<1>2. CASE ~ \E b \in Booking : SellsSeats(b)
  <2>1. sold' = sold
    BY <1>2, UnsoldFrame
  <2>2. SoldSeats' = SoldSeats
    BY <1>2, SoldStays DEF SoldSeats
  <2> QED
    BY <1>0, <2>1, <2>2
<1> QED
  BY <1>1, <1>2

\* quantitySold of a seated session is the number of seats that are SOLD,
\* although holds, blocks and releases write the two apart.
THEOREM CounterMatchesMap == Spec => []SoldCounterMatchesMap
<1>1. Init => SeatInv /\ SoldCounterMatchesMap
  <2> SUFFICES ASSUME Init  PROVE SeatInv /\ SoldCounterMatchesMap
    OBVIOUS
  <2>1. SeatInv
    BY DEF Init, SeatInv, TicketsNameSold, SoldIsTicketed, SeatPerUnit, TicketsAfterPayment,
       FreeSeat, WithStatus
  <2>2. {s \in Seats : seat[s].st = "SOLD"} = {}
    BY DEF Init, FreeSeat
  <2>3. SoldCounterMatchesMap
    BY <2>2, FS_EmptySet DEF Init, SoldCounterMatchesMap
  <2> QED
    BY <2>1, <2>3
<1>2. TypeOK => SeatTypes
  BY DEF TypeOK, Shapes, SeatTypes
<1>3. /\ TypeOK /\ SeatInv /\ [Next]_vars => SeatInv'
      /\ TypeOK /\ SeatInv /\ SoldCounterMatchesMap /\ [Next]_vars => SoldCounterMatchesMap'
  BY <1>2, SeatStepKinds, SeatInvStep, SoldSeatsStep
<1> QED
  BY <1>1, <1>3, TypeCorrect, PTL DEF Spec

\* A seated session never sells more tickets than it has seats, although its
\* reservations never look at the capacity of the ticket type.
THEOREM SeatedNeverOversold == Spec => [](SeatBased => sold <= Cardinality(Seats))
<1>1. SoldCounterMatchesMap => (SeatBased => sold <= Cardinality(Seats))
  BY FiniteAssumption, FS_Subset DEF SoldCounterMatchesMap
<1> QED
  BY <1>1, CounterMatchesMap, PTL

----------------------------------------------------------------------------
(* The seat map as an abstract sale of seats.                              *)

LEMMA MapCardinality ==
    ASSUME NEW S
    PROVE  SeatMap!Cardinality(S) = Cardinality(S)
BY DEF SeatMap!Cardinality, Cardinality

LEMMA TakenAreHeld ==
    ASSUME SeatTypes, NEW b \in Booking
    PROVE  SeatMap!TakenBy(b) = HeldSeats(b)
<1> SUFFICES ASSUME NEW s \in Seats
             PROVE  Places[s] = SeatMap!Place("taken", b) <=> seat[s].st = "HELD" /\ seat[s].by = b
  BY DEF SeatMap!TakenBy, HeldSeats
<1>1. seat[s] \in SeatRow
  BY DEF SeatTypes
<1> QED
  BY <1>1 DEF Places, PlaceOf, SeatMap!Place, SeatRow, SeatStatus

\* What a step that rewrites the seats of S does to the abstract map.
LEMMA MapPut ==
    ASSUME NEW S \in SUBSET Seats, NEW p,
           \A s \in S : [st |-> PlaceOf(seat'[s].st), by |-> seat'[s].by] = p,
           \A s \in Seats \ S : seat'[s] = seat[s]
    PROVE  SeatMap!Put(S, p)
<1>1. Places' = [s \in Seats |-> [st |-> PlaceOf(seat'[s].st), by |-> seat'[s].by]]
  BY DEF Places
<1>2. \A s \in Seats : Places'[s] = IF s \in S THEN p ELSE Places[s]
  BY <1>1 DEF Places
<1>3. Places' = [s \in Seats |-> IF s \in S THEN p ELSE Places[s]]
  BY <1>1, <1>2
<1> QED
  BY <1>3 DEF SeatMap!Put

LEMMA SeatSaleStep ==
    ASSUME SeatTypes, SeatTypes', SeatBased, SeatStep
    PROVE  [SeatMap!SeatSaleNext]_(SeatMap!seatSaleVars)
<1>0. /\ seat \in [Seats -> SeatRow] /\ seat' \in [Seats -> SeatRow]
      /\ status \in [Booking -> BookingStatus] /\ status' \in [Booking -> BookingStatus]
      /\ qty \in [Booking -> 0..MaxQty]
  BY DEF SeatTypes
<1>1. CASE SeatsQuiet
  BY <1>1 DEF SeatsQuiet, SeatMap!seatSaleVars, Purchases, Places
<1>2. ASSUME NEW b \in Booking, NEW q \in 1..MaxQty, NEW S \in SUBSET Seats, NEW until \in Nat,
             TakesSeats(b, q, S, until)
      PROVE  SeatMap!Take(b, S)
  <2>1. Purchases[b] = "none" /\ Purchases' = [Purchases EXCEPT ![b] = "held"]
    BY <1>0, <1>2 DEF TakesSeats, Purchases, PurchaseOf
  <2>2. S # {} /\ qty' = [qty EXCEPT ![b] = SeatMap!Cardinality(S)]
    BY <1>2, MapCardinality DEF TakesSeats
  <2>3. \A s \in S : Places[s].st = "free"
    BY <1>2 DEF TakesSeats, SeatsFree, Places, PlaceOf
  <2>4. SeatMap!Put(S, SeatMap!Place("taken", b))
    <3>1. \A s \in S : [st |-> PlaceOf(seat'[s].st), by |-> seat'[s].by] = SeatMap!Place("taken", b)
      BY <1>2 DEF TakesSeats, PlaceOf, SeatMap!Place
    <3>2. \A s \in Seats \ S : seat'[s] = seat[s]
      BY <1>2 DEF TakesSeats
    <3> QED
      BY <3>1, <3>2, MapPut
  <2> QED
    BY <2>1, <2>2, <2>3, <2>4 DEF SeatMap!Take
<1>3. ASSUME NEW b \in Booking, SellsSeats(b)
      PROVE  SeatMap!Buy(b)
  <2>0. SeatMap!TakenBy(b) = HeldSeats(b) /\ HeldSeats(b) \in SUBSET Seats
    BY TakenAreHeld DEF HeldSeats
  <2>1. Purchases[b] = "held" /\ Purchases' = [Purchases EXCEPT ![b] = "sold"] /\ qty' = qty
    BY <1>0, <1>3 DEF SellsSeats, Purchases, PurchaseOf
  <2>2. SeatMap!Cardinality(SeatMap!TakenBy(b)) = qty[b]
    BY <1>3, <2>0, MapCardinality DEF SellsSeats, HoldsEverySeat
  <2>3. SeatMap!Put(HeldSeats(b), SeatMap!Place("bought", b))
    <3>1. ASSUME NEW s \in HeldSeats(b)
          PROVE  [st |-> PlaceOf(seat'[s].st), by |-> seat'[s].by] = SeatMap!Place("bought", b)
      <4>1. s \in Seats /\ seat[s] \in SeatRow /\ seat[s].by = b
        BY <1>0 DEF HeldSeats
      <4>2. seat'[s].st = "SOLD" /\ seat'[s].by = b
        BY <1>3, <4>1 DEF SellsSeats, SeatRow
      <4> QED
        BY <4>2 DEF PlaceOf, SeatMap!Place
    <3>2. \A s \in Seats \ HeldSeats(b) : seat'[s] = seat[s]
      BY <1>3 DEF SellsSeats
    <3> QED
      BY <2>0, <3>1, <3>2, MapPut
  <2> QED
    BY <2>0, <2>1, <2>2, <2>3 DEF SeatMap!Buy
<1>4. ASSUME NEW b \in Booking, NEW outcome \in {"EXPIRED", "CANCELLED"}, FreesSeats(b, outcome)
      PROVE  SeatMap!GiveBack(b)
  <2>0. SeatMap!TakenBy(b) = HeldSeats(b) /\ HeldSeats(b) \in SUBSET Seats
    BY TakenAreHeld DEF HeldSeats
  <2>1. Purchases[b] = "held" /\ Purchases' = [Purchases EXCEPT ![b] = "dropped"] /\ qty' = qty
    BY <1>0, <1>4 DEF FreesSeats, Purchases, PurchaseOf
  <2>2. SeatMap!Put(HeldSeats(b), SeatMap!Place("free", NoBooking))
    <3>1. \A s \in HeldSeats(b) :
            [st |-> PlaceOf(seat'[s].st), by |-> seat'[s].by] = SeatMap!Place("free", NoBooking)
      BY <1>4, <2>0 DEF FreesSeats, FreeSeat, PlaceOf, SeatMap!Place
    <3>2. \A s \in Seats \ HeldSeats(b) : seat'[s] = seat[s]
      BY <1>4 DEF FreesSeats
    <3> QED
      BY <2>0, <3>1, <3>2, MapPut
  <2> QED
    BY <2>0, <2>1, <2>2 DEF SeatMap!GiveBack
<1>5. ASSUME NEW b \in Booking, NEW until \in Nat, MovesDeadline(b, until)
      PROVE  UNCHANGED SeatMap!seatSaleVars
  <2>1. ASSUME NEW s \in Seats
        PROVE  seat'[s].st = seat[s].st /\ seat'[s].by = seat[s].by
    BY <1>0, <1>5 DEF MovesDeadline, MoveSeatDeadlines, SeatRow
  <2>2. Places' = Places
    BY <2>1 DEF Places
  <2> QED
    BY <1>5, <2>2 DEF MovesDeadline, SeatMap!seatSaleVars, Purchases
<1>6. CASE ClosesSeats
  <2> DEFINE Unsold == {s \in Seats : Places[s].st \in {"free", "taken"}}
  <2>1. /\ Purchases' = [b \in Booking |->
                           IF Purchases[b] = "held" THEN "dropped" ELSE Purchases[b]]
        /\ qty' = qty
    BY <1>0, <1>6 DEF ClosesSeats, Purchases, PurchaseOf, BookingStatus
  <2>2. \A s \in Seats : s \in Unsold <=> seat[s].st \in {"AVAILABLE", "HELD"}
    BY <1>0 DEF Places, PlaceOf, SeatRow, SeatStatus
  <2>3. \A s \in Unsold : [st |-> PlaceOf(seat'[s].st), by |-> seat'[s].by]
                              = SeatMap!Place("withdrawn", NoBooking)
    BY <1>6, <2>2 DEF ClosesSeats, FreeSeat, PlaceOf, SeatMap!Place
  <2>4. \A s \in Seats \ Unsold : seat'[s] = seat[s]
    BY <1>6, <2>2 DEF ClosesSeats
  <2>5. SeatMap!Put(Unsold, SeatMap!Place("withdrawn", NoBooking))
    <3> HIDE DEF Unsold
    <3>1. Unsold \in SUBSET Seats
      BY DEF Unsold
    <3> QED
      BY <2>3, <2>4, <3>1, MapPut
  <2>6. SeatMap!CallOff
    BY <2>1, <2>5 DEF SeatMap!CallOff
  <2> QED
    BY <2>6 DEF SeatMap!SeatSaleNext
<1>7. ASSUME NEW s \in Seats, NEW st \in {"AVAILABLE", "BLOCKED"}, OverridesSeat(s, st)
      PROVE  SeatMap!Withdraw(s) \/ SeatMap!Offer(s)
  <2>1. Purchases' = Purchases /\ qty' = qty
    BY <1>7 DEF OverridesSeat, Purchases
  <2>2. seat'[s].st = st /\ seat'[s].by = NoBooking /\ \A x \in Seats \ {s} : seat'[x] = seat[x]
    BY <1>0, <1>7 DEF OverridesSeat, FreeSeat
  <2>3. SeatMap!Put({s}, SeatMap!Place(PlaceOf(st), NoBooking))
    <3>1. \A x \in {s} : [st |-> PlaceOf(seat'[x].st), by |-> seat'[x].by]
                            = SeatMap!Place(PlaceOf(st), NoBooking)
      BY <2>2 DEF SeatMap!Place
    <3> QED
      BY <2>2, <3>1, MapPut
  <2>4. CASE st = "BLOCKED"
    <3>1. Places[s].st \in {"free", "taken"} /\ PlaceOf(st) = "withdrawn"
      BY <1>7, <2>4 DEF OverridesSeat, Places, PlaceOf
    <3> QED
      BY <2>1, <2>3, <3>1 DEF SeatMap!Withdraw
  <2>5. CASE st = "AVAILABLE"
    <3>1. Places[s].st = "withdrawn" /\ PlaceOf(st) = "free"
      BY <1>7, <2>5 DEF OverridesSeat, Places, PlaceOf
    <3> QED
      BY <2>1, <2>3, <3>1 DEF SeatMap!Offer
  <2> QED
    BY <2>4, <2>5
<1> QED
  BY <1>1, <1>2, <1>3, <1>4, <1>5, <1>6, <1>7 DEF SeatStep, SeatMap!SeatSaleNext

\* Every interleaving of holds, payments, sweeps, extensions and seat overrides of
\* a seated session is, on its seat map, a sequence of purchases that take free
\* seats and then get all of them or none.
THEOREM SeatSaleImplemented == SeatBased => (Spec => ImplementsSeatSale)
<1> SUFFICES ASSUME SeatBased  PROVE Spec => ImplementsSeatSale
  OBVIOUS
<1>1. Init => SeatMap!SeatSaleInit
  BY DEF Init, SeatMap!SeatSaleInit, SeatMap!Place, Purchases, PurchaseOf, Places, PlaceOf, FreeSeat
<1>2. TypeOK => SeatTypes
  BY DEF TypeOK, Shapes, SeatTypes
<1>3. TypeOK' => SeatTypes'
  BY DEF TypeOK, Shapes, SeatTypes
<1>4. TypeOK /\ TypeOK' /\ [Next]_vars => [SeatMap!SeatSaleNext]_(SeatMap!seatSaleVars)
  BY <1>2, <1>3, SeatStepKinds, SeatSaleStep
<1> QED
  BY <1>1, <1>4, TypeCorrect, PTL DEF Spec, ImplementsSeatSale, SeatMap!SeatSaleSpec

=============================================================================
