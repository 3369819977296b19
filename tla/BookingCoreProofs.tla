------------------------- MODULE BookingCoreProofs -------------------------
(* What BookingCore guarantees for any number of bookings, seats, orders   *)
(* and concurrent handlers, any capacity and any clock bound.              *)
EXTENDS BookingCore, FiniteSetTheorems, TLAPS

----------------------------------------------------------------------------
(* Shapes, one lemma per group of handlers.                                *)

\* An idle slot, and what a handler writes over it, is a call.
LEMMA IdleIsCall == Idle \in Call
BY DEF Idle, Call, Op, PayStatus

LEMMA InitShapes == Init => Shapes
<1>1. FreeSeat \in SeatRow
  BY DEF FreeSeat, SeatRow, SeatStatus
<1>2. NoRow \in OrderRow
  BY DEF NoRow, OrderRow, OrderStatus
<1>3. QED
  BY ConstAssumption, <1>1, <1>2, IdleIsCall
     DEF Init, Shapes, BookingStatus, PayMethods, PayStatus, Discrepancy

\* What each inventory operation writes has the shape of a seat row and a counter.
StockTypeOK == held \in Nat /\ sold \in Nat /\ seat \in [Seats -> SeatRow]

LEMMA ReserveTyped ==
    ASSUME Shapes, NEW b \in Booking, NEW q \in Nat, NEW S \in SUBSET Seats, NEW until \in Nat,
           ReserveStock(b, q, S, until)
    PROVE  StockTypeOK'
BY DEF Shapes, ReserveStock, StockTypeOK, SeatRow, SeatStatus

LEMMA SettleTyped ==
    ASSUME Shapes, NEW b \in Booking, ConfirmStock(b) \/ ReleaseStock(b)
    PROVE  StockTypeOK'
<1> FreeSeat \in SeatRow
  BY DEF FreeSeat, SeatRow, SeatStatus
<1> \A s \in Seats : [seat[s] EXCEPT !.st = "SOLD"] \in SeatRow
  BY DEF Shapes, SeatRow, SeatStatus
<1> seat' \in [Seats -> SeatRow]
  BY DEF Shapes, ConfirmStock, ReleaseStock
<1> held' \in Nat /\ sold' \in Nat
  BY DEF Shapes, ConfirmStock, ReleaseStock, Max0
<1> QED
  BY DEF StockTypeOK

LEMMA ReleaseTyped ==
    ASSUME Shapes, NEW b \in Booking, NEW outcome \in {"EXPIRED", "CANCELLED"},
           ReleasePendingBooking(b, outcome),
           UNCHANGED <<ticketVars, moneyVars, ord, showVars>>, calls' \in [Slots -> Call]
    PROVE  Shapes'
<1>1. StockTypeOK'
  BY SettleTyped DEF ReleasePendingBooking
<1>2. status' \in [Booking -> BookingStatus] /\ pay' \in [Booking -> PayStatus]
  BY DEF Shapes, ReleasePendingBooking, BookingStatus, PayStatus
<1>3. QED
  BY <1>1, <1>2 DEF Shapes, StockTypeOK, ReleasePendingBooking, ticketVars, moneyVars, showVars

LEMMA ExpireTyped ==
    ASSUME Shapes, NEW b \in Booking, NEW n \in Nat, ExpireLapsed(b, n),
           UNCHANGED <<ticketVars, moneyVars, ord, showVars>>, calls' \in [Slots -> Call]
    PROVE  Shapes'
<1>1. CASE ReleasePendingBooking(b, "EXPIRED")
  BY <1>1, ReleaseTyped
<1>2. CASE UNCHANGED <<bookingVars, stockVars, payVars>>
  BY <1>2 DEF Shapes, bookingVars, stockVars, payVars, ticketVars, moneyVars, showVars
<1>3. QED
  BY <1>1, <1>2 DEF ExpireLapsed

LEMMA CallsTyped ==
    ASSUME Shapes, NEW c \in Slots, NEW k \in Call,
           Begin(c, k) \/ Goto(c, k) \/ Finish(c)
    PROVE  calls' \in [Slots -> Call]
BY IdleIsCall DEF Shapes, Begin, Goto, Finish

LEMMA OnlyCallsTyped ==
    ASSUME Shapes, calls' \in [Slots -> Call],
           UNCHANGED <<bookingVars, ticketVars, stockVars, payVars, moneyVars, ord, showVars>>
    PROVE  Shapes'
BY DEF Shapes, bookingVars, ticketVars, stockVars, payVars, moneyVars, showVars


\* Handlers that only read, or only move on: nothing but their own slot changes.
LEMMA ReadersTyped ==
    ASSUME Shapes, NEW c \in Slots,
           \/ \E b \in Booking : CreateCheck(c, b) \/ CreateIntent(c, b) \/ CollectCash(c, b)
                                    \/ SweepRead(c, b)
           \/ \E b \in Booking, p \in {Price} \cup CouponPrices : CouponRead(c, b, p)
           \/ \E o \in Orders : VerifyRead(c, o) \/ DeliverFailed(c, o)
           \/ \E op \in {"pause", "reopen", "cancel"} : ShowOpRead(c, op)
           \/ ConfirmFree(c) \/ ResumeOrder(c) \/ ConfirmLost(c) \/ Abandon(c)
    PROVE  Shapes'
<1> SUFFICES calls' \in [Slots -> Call]
  BY OnlyCallsTyped DEF CreateCheck, CreateIntent, CollectCash, SweepRead, CouponRead, VerifyRead,
     DeliverFailed, ShowOpRead, ConfirmFree, ResumeOrder, ConfirmLost, Abandon
<1>0. calls[c] \in Call /\ now \in Nat /\ Price \in Nat /\ CouponPrices \subseteq Nat
  BY ConstAssumption DEF Shapes
<1>1. ASSUME NEW b \in Booking, CreateCheck(c, b)  PROVE calls' \in [Slots -> Call]
  <2> DEFINE k == [Idle EXCEPT !.op = "sweepThenHold", !.b = b, !.n = now,
                      !.list = {x \in Booking : Lapsed(x) /\ ~NeedsProviderCheck(x)}]
  <2>1. k \in Call
    BY <1>0 DEF Call, Idle, Op, PayStatus
  <2>2. Begin(c, k)
    BY <1>1 DEF CreateCheck
  <2> QED
    BY <2>1, <2>2, CallsTyped
<1>2. ASSUME NEW b \in Booking, CreateIntent(c, b)  PROVE calls' \in [Slots -> Call]
  <2> DEFINE k == [Idle EXCEPT !.op = "openOrder", !.b = b, !.n = total[b],
                               !.pay = pay[b], !.o = payOrder[b]]
  <2>1. k \in Call
    BY DEF Shapes, Call, Idle, Op
  <2>2. Begin(c, k)
    BY <1>2 DEF CreateIntent
  <2> QED
    BY <2>1, <2>2, CallsTyped
<1>3. ASSUME NEW b \in Booking, CollectCash(c, b)  PROVE calls' \in [Slots -> Call]
  <2> DEFINE k == [Idle EXCEPT !.op = "claim", !.b = b]
  <2>1. k \in Call
    BY <1>0 DEF Call, Idle, Op, PayStatus
  <2>2. Begin(c, k)
    BY <1>3 DEF CollectCash
  <2> QED
    BY <2>1, <2>2, CallsTyped
<1>4. ASSUME NEW b \in Booking, SweepRead(c, b)  PROVE calls' \in [Slots -> Call]
  <2> DEFINE k == [Idle EXCEPT !.op = IF NeedsProviderCheck(b) THEN "close" ELSE "release",
                               !.b = b, !.n = now,
                               !.o = IF NeedsProviderCheck(b) THEN payOrder[b] ELSE NoOrder]
  <2>1. k \in Call
    <3>1. (IF NeedsProviderCheck(b) THEN "close" ELSE "release") \in Op
      BY DEF Op
    <3>2. (IF NeedsProviderCheck(b) THEN payOrder[b] ELSE NoOrder) \in Orders \cup {NoOrder}
      BY DEF Shapes
    <3> QED
      BY <1>0, <3>1, <3>2 DEF Call, Idle, PayStatus
  <2>2. Begin(c, k)
    BY <1>4 DEF SweepRead
  <2> QED
    BY <2>1, <2>2, CallsTyped
<1>5. ASSUME NEW b \in Booking, NEW p \in {Price} \cup CouponPrices, CouponRead(c, b, p)
      PROVE calls' \in [Slots -> Call]
  <2> DEFINE k == [Idle EXCEPT !.op = "saveCoupon", !.b = b, !.n = p]
  <2>1. k \in Call
    BY <1>0 DEF Call, Idle, Op, PayStatus
  <2>2. Begin(c, k)
    BY <1>5 DEF CouponRead
  <2> QED
    BY <2>1, <2>2, CallsTyped
<1>6. ASSUME NEW o \in Orders, VerifyRead(c, o) \/ DeliverFailed(c, o)
      PROVE calls' \in [Slots -> Call]
  <2>1. ord[o].b \in Booking \cup {NoBooking}
    BY DEF Shapes, OrderRow
  <2>2. /\ [Idle EXCEPT !.op = "saveVerified", !.b = ord[o].b, !.o = o] \in Call
        /\ [Idle EXCEPT !.op = "saveFailed", !.b = ord[o].b, !.o = o] \in Call
    BY <2>1 DEF Call, Idle, Op, PayStatus
  <2> QED
    BY <1>6, <2>2, CallsTyped DEF VerifyRead, DeliverFailed
<1>7. ASSUME NEW op \in {"pause", "reopen", "cancel"}, ShowOpRead(c, op)
      PROVE calls' \in [Slots -> Call]
  <2>1. [Idle EXCEPT !.op = op] \in Call
    BY DEF Call, Idle, Op, PayStatus
  <2> QED
    BY <1>7, <2>1, CallsTyped DEF ShowOpRead
<1>8. CASE ConfirmFree(c)
  <2>1. [Idle EXCEPT !.op = "claim", !.b = calls[c].b] \in Call
    BY <1>0 DEF Call, Idle, Op, PayStatus
  <2> QED
    BY <1>8, <2>1, CallsTyped DEF ConfirmFree
<1>9. CASE ConfirmLost(c)
  <2>1. [calls[c] EXCEPT !.op = "unapplied"] \in Call
    BY <1>0 DEF Call, Op
  <2> QED
    BY <1>9, <2>1, CallsTyped DEF ConfirmLost
<1>10. CASE ResumeOrder(c) \/ Abandon(c)
  BY <1>10, IdleIsCall, CallsTyped DEF ResumeOrder, Abandon
<1> QED
  BY <1>1, <1>2, <1>3, <1>4, <1>5, <1>6, <1>7, <1>8, <1>9, <1>10

\* The handlers that end in confirm's read of the booking.
LEMMA ConfirmReadersTyped ==
    ASSUME TypeOK, NEW c \in Slots,
           \/ \E o \in Orders, k \in Orders \cup {NoOrder} : DeliverSuccess(c, o, k)
           \/ GuardClassify(c)
    PROVE  Shapes'
<1> USE DEF TypeOK
<1> SUFFICES calls' \in [Slots -> Call]
  BY OnlyCallsTyped DEF DeliverSuccess, GuardClassify
<1>0. calls[c] \in Call
  BY DEF Shapes
<1>1. ASSUME NEW b \in Booking, NEW o \in Orders, NEW k, ConfirmRead(c, b, o, k)
      PROVE  calls' \in [Slots -> Call]
  <2>1. /\ [Idle EXCEPT !.op = "unapplied", !.b = b, !.o = o] \in Call
        /\ [Idle EXCEPT !.op = "claim", !.b = b, !.o = o] \in Call
    BY DEF Call, Idle, Op, PayStatus
  <2> QED
    BY <1>1, <2>1, CallsTyped DEF ConfirmRead
<1>2. ASSUME NEW o \in Orders, NEW k \in Orders \cup {NoOrder}, DeliverSuccess(c, o, k)
      PROVE  calls' \in [Slots -> Call]
  BY <1>1, <1>2 DEF DeliverSuccess, HandlersNameRows
<1>3. CASE GuardClassify(c)
  <2>1. [calls[c] EXCEPT !.op = "release"] \in Call
    BY <1>0 DEF Call, Op
  <2>2. calls[c].b \in Booking /\ calls[c].o \in Orders
    BY <1>3 DEF GuardClassify, HandlersNameRows, ShowOnly, AboutAnOrder
  <2> QED
    BY <1>1, <1>3, <2>1, <2>2, CallsTyped DEF GuardClassify
<1> QED
  BY <1>2, <1>3

\* The two sweeps and the buyer's own cancellation.
LEMMA ReleasersTyped ==
    ASSUME TypeOK, NEW c \in Slots,
           CreateSweep(c) \/ SweepRelease(c) \/ (\E b \in Booking : CancelUnpaid(b))
    PROVE  Shapes'
<1> USE DEF TypeOK
<1>0. calls[c] \in Call
  BY DEF Shapes
<1>1. CASE CreateSweep(c)
  <2>1. PICK x \in calls[c].list : /\ Goto(c, [calls[c] EXCEPT !.list = @ \ {x}])
                                   /\ ExpireLapsed(x, calls[c].n)
    BY <1>1 DEF CreateSweep
  <2>2. [calls[c] EXCEPT !.list = @ \ {x}] \in Call /\ x \in Booking /\ calls[c].n \in Nat
    BY <1>0 DEF Call
  <2>3. calls' \in [Slots -> Call]
    BY <2>1, <2>2, CallsTyped
  <2> QED
    BY <1>1, <2>1, <2>2, <2>3, ExpireTyped DEF CreateSweep
<1>2. CASE SweepRelease(c)
  <2>1. calls[c].b \in Booking /\ calls[c].n \in Nat
    BY <1>0, <1>2 DEF SweepRelease, HandlersNameRows, ShowOnly, Call
  <2>2. calls' \in [Slots -> Call]
    BY <1>2, IdleIsCall, CallsTyped DEF SweepRelease
  <2> QED
    BY <1>2, <2>1, <2>2, ExpireTyped DEF SweepRelease
<1>3. ASSUME NEW b \in Booking, CancelUnpaid(b)  PROVE Shapes'
  <2>1. calls' \in [Slots -> Call]
    BY <1>3 DEF CancelUnpaid, Shapes
  <2> QED
    BY <1>3, <2>1, ReleaseTyped DEF CancelUnpaid
<1> QED
  BY <1>1, <1>2, <1>3

LEMMA CreateHoldTyped ==
    ASSUME TypeOK, NEW c \in Slots, NEW m \in Methods, NEW q \in 1..MaxQty,
           NEW S \in SUBSET Seats, NEW at \in 0..now, NEW until,
           CreateHold(c, m, q, S, at, until)
    PROVE  Shapes'
<1> USE DEF TypeOK
<1> DEFINE b == calls[c].b
<1>1. b \in Booking /\ until \in Nat /\ q \in 0..MaxQty /\ q \in Nat /\ m \in PayMethods
  BY ConstAssumption DEF CreateHold, HoldDeadlines, HandlersNameRows, ShowOnly, Shapes
<1>2. StockTypeOK'
  BY <1>1, ReserveTyped DEF CreateHold
<1>3. /\ status' \in [Booking -> BookingStatus] /\ method' \in [Booking -> PayMethods \cup {"NONE"}]
      /\ pay' \in [Booking -> PayStatus]
  BY <1>1 DEF CreateHold, Shapes, BookingStatus, PayStatus
<1>4. /\ qty' \in [Booking -> 0..MaxQty] /\ hold' \in [Booking -> Nat] /\ total' \in [Booking -> Nat]
  BY <1>1, ConstAssumption DEF CreateHold, Shapes
<1>5. calls' \in [Slots -> Call]
  <2>1. [Idle EXCEPT !.op = "confirmFree", !.b = b] \in Call
    BY <1>1 DEF Call, Idle, Op, PayStatus
  <2> QED
    BY <2>1, IdleIsCall, CallsTyped DEF CreateHold
<1> QED
  BY <1>2, <1>3, <1>4, <1>5
     DEF CreateHold, Shapes, StockTypeOK, ticketVars, moneyVars, showVars

\* One field of an order or a seat row rewritten.
LEMMA OrderRows ==
    ASSUME NEW r \in OrderRow, NEW st \in OrderStatus
    PROVE  [r EXCEPT !.st = st] \in OrderRow /\ [r EXCEPT !.failed = TRUE] \in OrderRow
<1>1. [r EXCEPT !.st = st] \in OrderRow
  BY DEF OrderRow
<1>2. [r EXCEPT !.failed = TRUE] \in OrderRow
  BY DEF OrderRow
<1> QED
  BY <1>1, <1>2

LEMMA OrderPut ==
    ASSUME NEW f \in [Orders -> OrderRow], NEW o \in Orders, NEW st \in OrderStatus
    PROVE  /\ [f EXCEPT ![o].st = st] \in [Orders -> OrderRow]
           /\ [f EXCEPT ![o].failed = TRUE] \in [Orders -> OrderRow]
<1>1. [f[o] EXCEPT !.st = st] \in OrderRow /\ [f[o] EXCEPT !.failed = TRUE] \in OrderRow
  BY OrderRows
<1>2. [f EXCEPT ![o].st = st] \in [Orders -> OrderRow]
  BY <1>1
<1>3. [f EXCEPT ![o].failed = TRUE] \in [Orders -> OrderRow]
  BY <1>1
<1> QED
  BY <1>2, <1>3

LEMMA SeatDeadlinePut ==
    ASSUME NEW r \in SeatRow, NEW u \in Nat
    PROVE  [r EXCEPT !.until = u] \in SeatRow
BY DEF SeatRow

\* Orders: opened, saved, closed at the provider, paid or refused by the buyer.
LEMMA OrdersTyped ==
    ASSUME TypeOK, NEW o \in Orders,
           \/ \E c \in Slots : OpenOrder(c, o) \/ SaveOrder(c) \/ GuardClose(c)
           \/ BuyerPays(o) \/ BuyerIsRefused(o)
    PROVE  Shapes'
<1> USE DEF TypeOK
<1>1. ASSUME NEW c \in Slots, OpenOrder(c, o)  PROVE Shapes'
  <2>0. calls[c] \in Call /\ calls[c].b \in Booking /\ now \in Nat
    BY <1>1 DEF OpenOrder, HandlersNameRows, ShowOnly, Shapes
  <2>1. ord' \in [Orders -> OrderRow]
    <3> DEFINE row == [st |-> "created", b |-> calls[c].b, amount |-> calls[c].n,
                       key |-> IF Provider = "stripe" THEN now ELSE 0, failed |-> FALSE]
    <3>1. row \in OrderRow
      BY <2>0 DEF OrderRow, OrderStatus, Call
    <3>2. ord' = ord \/ ord' = [ord EXCEPT ![o] = row]
      BY <1>1 DEF OpenOrder
    <3> QED
      BY <3>1, <3>2 DEF Shapes
  <2>2. [calls[c] EXCEPT !.op = "saveOrder", !.o = o] \in Call
    BY <2>0 DEF Call, Op
  <2>3. calls' \in [Slots -> Call]
    BY <1>1, <2>2, CallsTyped DEF OpenOrder
  <2> QED
    BY <1>1, <2>1, <2>3 DEF OpenOrder, Shapes, bookingVars, ticketVars, stockVars, payVars,
       moneyVars, showVars
<1>2. ASSUME NEW c \in Slots, SaveOrder(c)  PROVE Shapes'
  <2>0. calls[c].b \in Booking /\ calls[c].o \in Orders
    BY <1>2 DEF SaveOrder, HandlersNameRows, ShowOnly, AboutAnOrder
  <2>1. ord' \in [Orders -> OrderRow]
    <3> DEFINE x == calls[c].o
               st == IF ord[x].st = "created" THEN "open" ELSE ord[x].st
    <3>1. st \in OrderStatus /\ ord \in [Orders -> OrderRow]
      BY <2>0 DEF Shapes, OrderRow, OrderStatus
    <3>2. ord' = [ord EXCEPT ![x].st = st]
      BY <1>2, <2>0, <3>1 DEF SaveOrder
    <3> QED
      BY <2>0, <3>1, <3>2, OrderPut
  <2>2. calls' \in [Slots -> Call]
    BY <1>2, IdleIsCall, CallsTyped DEF SaveOrder
  <2>3. /\ pay' \in [Booking -> PayStatus] /\ payOrder' \in [Booking -> Orders \cup {NoOrder}]
        /\ payRef' \in [Booking -> Orders \cup {NoOrder}]
    BY <1>2, <2>0 DEF SaveOrder, Shapes, PayStatus
  <2> QED
    BY <1>2, <2>1, <2>2, <2>3 DEF SaveOrder, Shapes, bookingVars, ticketVars, stockVars,
       moneyVars, showVars
<1>3. ASSUME NEW c \in Slots, GuardClose(c)  PROVE Shapes'
  <2>0. calls[c] \in Call
    BY DEF Shapes
  <2>1. ord' \in [Orders -> OrderRow]
    <3> DEFINE x == calls[c].o
               st == IF ord[x].st = "open" THEN "closed" ELSE ord[x].st
    <3>0. x \in Orders
      BY <1>3 DEF GuardClose, HandlersNameRows, AboutAnOrder
    <3>1. st \in OrderStatus /\ ord \in [Orders -> OrderRow]
      BY <3>0 DEF Shapes, OrderRow, OrderStatus
    <3>2. ord' = [ord EXCEPT ![x].st = st] \/ ord' = ord
      BY <1>3, <3>0, <3>1 DEF GuardClose
    <3>3. [ord EXCEPT ![x].st = st] \in [Orders -> OrderRow]
      BY <3>0, <3>1, OrderPut
    <3> QED
      BY <3>1, <3>2, <3>3
  <2>2. [calls[c] EXCEPT !.op = "classify"] \in Call
    BY <2>0 DEF Call, Op
  <2>3. calls' \in [Slots -> Call]
    BY <1>3, <2>2, CallsTyped DEF GuardClose
  <2> QED
    BY <1>3, <2>1, <2>3 DEF GuardClose, Shapes, bookingVars, ticketVars, stockVars, payVars,
       moneyVars, showVars
<1>4. CASE BuyerPays(o) \/ BuyerIsRefused(o)
  <2>1. ord' \in [Orders -> OrderRow]
    <3>1. "captured" \in OrderStatus /\ ord \in [Orders -> OrderRow]
      BY DEF OrderStatus, Shapes
    <3>2. \/ ord' = [ord EXCEPT ![o].st = "captured"]
          \/ ord' = [ord EXCEPT ![o].failed = TRUE]
      BY <1>4 DEF BuyerPays, BuyerIsRefused
    <3>3. /\ [ord EXCEPT ![o].st = "captured"] \in [Orders -> OrderRow]
          /\ [ord EXCEPT ![o].failed = TRUE] \in [Orders -> OrderRow]
      BY <3>1, OrderPut, Zenon
    <3> QED
      BY <3>2, <3>3, Zenon
  <2> QED
    BY <1>4, <2>1 DEF BuyerPays, BuyerIsRefused, Shapes, bookingVars, ticketVars, stockVars,
       payVars, moneyVars, showVars
<1> QED
  BY <1>1, <1>2, <1>3, <1>4

\* The confirm transaction.
LEMMA ConfirmClaimTyped ==
    ASSUME TypeOK, NEW c \in Slots, ConfirmClaim(c)
    PROVE  Shapes'
<1> USE DEF TypeOK
<1> DEFINE b == calls[c].b
           o == calls[c].o
<1>0. b \in Booking /\ o \in Orders \cup {NoOrder}
  BY DEF ConfirmClaim, HandlersNameRows, ShowOnly, Shapes, Call
<1>1. StockTypeOK'
  BY <1>0, SettleTyped DEF ConfirmClaim
<1>2. status' \in [Booking -> BookingStatus] /\ issued' \in [Booking -> Nat]
  BY <1>0 DEF ConfirmClaim, Shapes, BookingStatus
<1>3. ticketSeats' \in [Booking -> SUBSET Seats]
  BY <1>0 DEF ConfirmClaim, Shapes, HeldSeats
<1>4. /\ pay' \in [Booking -> PayStatus] /\ payRef' \in [Booking -> Orders \cup {NoOrder}]
      /\ attempts' \in [Booking -> SUBSET Orders] /\ processed' \subseteq Orders
  BY <1>0 DEF ConfirmClaim, Shapes, PayStatus
<1>5. calls' \in [Slots -> Call]
  BY IdleIsCall, CallsTyped DEF ConfirmClaim
<1> QED
  BY <1>1, <1>2, <1>3, <1>4, <1>5 DEF ConfirmClaim, Shapes, StockTypeOK, showVars

\* What is written to the payment, its attempts, the discrepancies and the price.
LEMMA PaymentsTyped ==
    ASSUME TypeOK, NEW c \in Slots,
           \/ VerifySave(c) \/ CouponSave(c) \/ SaveFailed(c)
           \/ RecordUnappliedCapture(c) \/ FileDiscrepancy(c)
    PROVE  Shapes'
<1> USE DEF TypeOK
<1>0. calls[c] \in Call
  BY DEF Shapes
<1>1. CASE VerifySave(c) \/ CouponSave(c) \/ SaveFailed(c)
  <2>1. calls' \in [Slots -> Call]
    BY <1>1, IdleIsCall, CallsTyped DEF VerifySave, CouponSave, SaveFailed
  <2>2. /\ payRef' \in [Booking -> Orders \cup {NoOrder}] /\ pay' \in [Booking -> PayStatus]
        /\ total' \in [Booking -> Nat]
    BY <1>0, <1>1 DEF VerifySave, CouponSave, SaveFailed, Shapes, Call, PayStatus, bookingVars, payVars
  <2> QED
    BY <1>1, <2>1, <2>2 DEF VerifySave, CouponSave, SaveFailed, Shapes, bookingVars, ticketVars,
       stockVars, payVars, moneyVars, showVars
<1>2. CASE RecordUnappliedCapture(c)
  <2>1. calls[c].o \in Orders
    BY <1>2 DEF RecordUnappliedCapture, HandlersNameRows, AboutAnOrder
  <2>2. /\ [calls[c] EXCEPT !.op = "fileMissing"] \in Call
        /\ [calls[c] EXCEPT !.op = "fileDuplicate"] \in Call
    BY <1>0 DEF Call, Op
  <2>3. calls' \in [Slots -> Call]
    BY <1>2, <2>2, IdleIsCall DEF RecordUnappliedCapture, Goto, Finish, Shapes
  <2>4. attempts' \in [Booking -> SUBSET Orders] /\ processed' \subseteq Orders
    BY <1>2, <2>1 DEF RecordUnappliedCapture, Shapes
  <2> QED
    BY <1>2, <2>3, <2>4 DEF RecordUnappliedCapture, Shapes, bookingVars, ticketVars, stockVars,
       showVars
<1>3. CASE FileDiscrepancy(c)
  <2>1. calls[c].o \in Orders
    BY <1>3 DEF FileDiscrepancy, HandlersNameRows, AboutAnOrder
  <2>2. calls' \in [Slots -> Call]
    BY <1>3, IdleIsCall, CallsTyped DEF FileDiscrepancy
  <2>3. filed' \subseteq Discrepancy \X Orders /\ processed' \subseteq Orders
    BY <1>3, <2>1 DEF FileDiscrepancy, Shapes, Discrepancy
  <2> QED
    BY <1>3, <2>2, <2>3 DEF FileDiscrepancy, Shapes, bookingVars, ticketVars, stockVars, payVars,
       showVars
<1> QED
  BY <1>1, <1>2, <1>3

\* The organizer, the clock and a hold extended.
LEMMA ShowTyped ==
    ASSUME TypeOK,
           \/ \E c \in Slots : ShowOpSave(c) \/ CancelShow(c)
           \/ \E b \in Booking : ExtendHold(b)
           \/ \E s \in Seats : BlockSeat(s) \/ UnblockSeat(s)
           \/ CompleteSession \/ Tick
    PROVE  Shapes'
<1> USE DEF TypeOK
<1>0. FreeSeat \in SeatRow
  BY DEF FreeSeat, SeatRow, SeatStatus
<1>1. ASSUME NEW c \in Slots, ShowOpSave(c)  PROVE Shapes'
  <2>1. calls' \in [Slots -> Call]
    BY <1>1, IdleIsCall, CallsTyped DEF ShowOpSave
  <2> QED
    BY <1>1, <2>1 DEF ShowOpSave, Shapes, bookingVars, ticketVars, stockVars, payVars, moneyVars
<1>2. ASSUME NEW c \in Slots, CancelShow(c)  PROVE Shapes'
  <2>1. calls' \in [Slots -> Call]
    BY <1>2, IdleIsCall, CallsTyped DEF CancelShow
  <2>2. status' \in [Booking -> BookingStatus] /\ pay' \in [Booking -> PayStatus]
    BY <1>2 DEF CancelShow, Shapes, BookingStatus, PayStatus
  <2>3. seat' \in [Seats -> SeatRow]
    BY <1>2 DEF CancelShow, Shapes, FreeSeat, SeatRow, SeatStatus
  <2>4. held' \in Nat
    <3>1. IsFiniteSet(Units({b \in Booking : status[b] = "PENDING_PAYMENT"}))
      <4>1. IsFiniteSet({b \in Booking : status[b] = "PENDING_PAYMENT"})
        BY FiniteAssumption, FS_Subset
      <4>2. IsFiniteSet({b \in Booking : status[b] = "PENDING_PAYMENT"} \X (1..MaxQty))
        <5>1. IsFiniteSet(1..MaxQty)
          BY FS_Interval, ConstAssumption
        <5> QED
          BY <4>1, <5>1, FS_Product, Zenon
      <4> QED
        BY <4>2, FS_Subset DEF Units
    <3>2. Cardinality(Units({b \in Booking : status[b] = "PENDING_PAYMENT"})) \in Nat
      BY <3>1, FS_CardinalityType
    <3> QED
      BY <1>2, <3>2 DEF CancelShow, Shapes, Max0
  <2> QED
    BY <1>2, <2>1, <2>2, <2>3, <2>4 DEF CancelShow, Shapes, ticketVars, moneyVars
<1>3. ASSUME NEW b \in Booking, ExtendHold(b)  PROVE Shapes'
  <2>1. hold' \in [Booking -> Nat] /\ ext' \in [Booking -> 0..MaxHoldExtensions]
    BY <1>3, ConstAssumption DEF ExtendHold, MayExtend, Shapes
  <2>2. now + HoldTime \in Nat
    BY ConstAssumption DEF Shapes
  <2>3. seat' \in [Seats -> SeatRow]
    <3>1. \A s \in Seats : [seat[s] EXCEPT !.until = now + HoldTime] \in SeatRow
      BY <2>2, SeatDeadlinePut DEF Shapes
    <3> QED
      BY <1>3, <3>1 DEF ExtendHold, MoveSeatDeadlines, Shapes
  <2> QED
    BY <1>3, <2>1, <2>3 DEF ExtendHold, Shapes, ticketVars, payVars, moneyVars, showVars
<1>4. ASSUME NEW s \in Seats, BlockSeat(s) \/ UnblockSeat(s)  PROVE Shapes'
  <2>1. seat' \in [Seats -> SeatRow]
    <3>1. [FreeSeat EXCEPT !.st = "BLOCKED"] \in SeatRow
      BY DEF FreeSeat, SeatRow, SeatStatus
    <3> QED
      BY <1>0, <1>4, <3>1 DEF BlockSeat, UnblockSeat, Shapes
  <2> QED
    BY <1>4, <2>1 DEF BlockSeat, UnblockSeat, Shapes, bookingVars, ticketVars, payVars, moneyVars,
       showVars
<1>5. CASE CompleteSession \/ Tick
  BY <1>5 DEF CompleteSession, Tick, Shapes, bookingVars, ticketVars, stockVars, payVars, moneyVars
<1> QED
  BY <1>1, <1>2, <1>3, <1>4, <1>5

LEMMA ShapesStep == TypeOK /\ [Next]_vars => Shapes'
<1> SUFFICES ASSUME TypeOK, [Next]_vars  PROVE Shapes'
  OBVIOUS
<1> Shapes
  BY DEF TypeOK
<1>1. CASE UNCHANGED vars
  BY <1>1, OnlyCallsTyped DEF vars, Shapes
<1>2. ASSUME NEW c \in Slots, Arrive(c)  PROVE Shapes'
  BY <1>2, ReadersTyped, ConfirmReadersTyped DEF Arrive
<1>3. ASSUME NEW c \in Slots, Resume(c)  PROVE Shapes'
  <2>1. CASE CreateSweep(c) \/ SweepRelease(c)
    BY <2>1, ReleasersTyped
  <2>2. CASE \E m \in Methods, q \in 1..MaxQty, S \in SUBSET Seats, at \in 0..now :
               \E until \in HoldDeadlines(m, at) : CreateHold(c, m, q, S, at, until)
    BY <2>2, CreateHoldTyped
  <2>3. CASE ConfirmFree(c) \/ ResumeOrder(c) \/ ConfirmLost(c)
    BY <2>3, ReadersTyped
  <2>4. CASE (\E o \in Orders : OpenOrder(c, o)) \/ SaveOrder(c) \/ GuardClose(c)
    <3>1. CASE \E o \in Orders : OpenOrder(c, o)
      BY <3>1, OrdersTyped
    <3>2. CASE SaveOrder(c) \/ GuardClose(c)
      <4>1. calls[c].o \in Orders
        BY <3>2 DEF SaveOrder, GuardClose, TypeOK, HandlersNameRows, AboutAnOrder
      <4> QED
        BY <3>2, <4>1, OrdersTyped
    <3> QED
      BY <2>4, <3>1, <3>2
  <2>5. CASE VerifySave(c) \/ CouponSave(c) \/ SaveFailed(c)
               \/ RecordUnappliedCapture(c) \/ FileDiscrepancy(c)
    BY <2>5, PaymentsTyped
  <2>6. CASE ConfirmClaim(c)
    BY <2>6, ConfirmClaimTyped
  <2>7. CASE GuardClassify(c)
    BY <2>7, ConfirmReadersTyped
  <2>8. CASE ShowOpSave(c) \/ CancelShow(c)
    BY <2>8, ShowTyped
  <2> QED
    BY <1>3, <2>1, <2>2, <2>3, <2>4, <2>5, <2>6, <2>7, <2>8 DEF Resume
<1>4. ASSUME NEW c \in Slots, Abandon(c)  PROVE Shapes'
  BY <1>4, ReadersTyped
<1>5. ASSUME NEW b \in Booking, CancelUnpaid(b)  PROVE Shapes'
  <2>1. calls' \in [Slots -> Call]
    BY <1>5 DEF CancelUnpaid, Shapes
  <2> QED
    BY <1>5, <2>1, ReleaseTyped DEF CancelUnpaid
<1>6. CASE \/ \E b \in Booking : ExtendHold(b)
           \/ \E s \in Seats : BlockSeat(s) \/ UnblockSeat(s)
           \/ CompleteSession \/ Tick
  BY <1>6, ShowTyped
<1>7. ASSUME NEW o \in Orders, BuyerPays(o) \/ BuyerIsRefused(o)  PROVE Shapes'
  BY <1>7, OrdersTyped
<1> QED
  BY <1>1, <1>2, <1>3, <1>4, <1>5, <1>6, <1>7 DEF Next

----------------------------------------------------------------------------
(* A handler in flight names the booking, and the order, it is about.      *)

CallNames(k) == /\ k.op \notin ShowOnly => k.b \in Booking
                /\ k.op \in AboutAnOrder => k.o \in Orders

CallsNamed == \A d \in Slots : CallNames(calls[d])
OrdersNamed == \A o \in Orders : ord[o].st # "unused" \/ ord[o].failed => ord[o].b \in Booking

LEMMA SlotNames ==
    ASSUME TypeOK, NEW c \in Slots, NEW k, CallNames(k), Begin(c, k) \/ Goto(c, k)
    PROVE  CallsNamed'
BY DEF TypeOK, Shapes, HandlersNameRows, CallsNamed, CallNames, Begin, Goto

LEMMA FinishNames ==
    ASSUME TypeOK, NEW c \in Slots, Finish(c)
    PROVE  CallsNamed'
<1> CallNames(Idle)
  BY DEF CallNames, Idle, ShowOnly, AboutAnOrder
<1> Goto(c, Idle)
  BY DEF Finish, Goto
<1> QED
  BY SlotNames

\* Requests, webhooks and timers name the booking they are about when they start.
LEMMA ArriveNames ==
    ASSUME TypeOK, NEW c \in Slots, Arrive(c)
    PROVE  CallsNamed'
<1> USE DEF CallNames, ShowOnly, AboutAnOrder
<1>1. ASSUME NEW b \in Booking, CreateCheck(c, b)  PROVE CallsNamed'
  <2> DEFINE k == [Idle EXCEPT !.op = "sweepThenHold", !.b = b, !.n = now,
                      !.list = {x \in Booking : Lapsed(x) /\ ~NeedsProviderCheck(x)}]
  <2>1. CallNames(k)
    BY DEF Idle
  <2> QED
    BY <1>1, <2>1, SlotNames DEF CreateCheck
<1>2. ASSUME NEW b \in Booking, CreateIntent(c, b)  PROVE CallsNamed'
  <2> DEFINE k == [Idle EXCEPT !.op = "openOrder", !.b = b, !.n = total[b],
                               !.pay = pay[b], !.o = payOrder[b]]
  <2>1. CallNames(k)
    BY DEF Idle
  <2> QED
    BY <1>2, <2>1, SlotNames DEF CreateIntent
<1>3. ASSUME NEW b \in Booking, CollectCash(c, b)  PROVE CallsNamed'
  <2> DEFINE k == [Idle EXCEPT !.op = "claim", !.b = b]
  <2>1. CallNames(k)
    BY DEF Idle
  <2> QED
    BY <1>3, <2>1, SlotNames DEF CollectCash
<1>4. ASSUME NEW b \in Booking, SweepRead(c, b)  PROVE CallsNamed'
  <2> DEFINE k == [Idle EXCEPT !.op = IF NeedsProviderCheck(b) THEN "close" ELSE "release",
                               !.b = b, !.n = now,
                               !.o = IF NeedsProviderCheck(b) THEN payOrder[b] ELSE NoOrder]
  <2>1. CallNames(k)
    <3>1. NeedsProviderCheck(b) => payOrder[b] \in Orders
      BY DEF NeedsProviderCheck, TypeOK, Shapes
    <3> QED
      BY <3>1 DEF Idle
  <2> QED
    BY <1>4, <2>1, SlotNames DEF SweepRead
<1>5. ASSUME NEW b \in Booking, NEW p, CouponRead(c, b, p)  PROVE CallsNamed'
  <2> DEFINE k == [Idle EXCEPT !.op = "saveCoupon", !.b = b, !.n = p]
  <2>1. CallNames(k)
    BY DEF Idle
  <2> QED
    BY <1>5, <2>1, SlotNames DEF CouponRead
<1>6. ASSUME NEW o \in Orders, NEW checkout, DeliverSuccess(c, o, checkout)  PROVE CallsNamed'
  <2>1. ord[o].b \in Booking
    BY <1>6 DEF DeliverSuccess, TypeOK, HandlersNameRows
  <2>2. /\ CallNames([Idle EXCEPT !.op = "unapplied", !.b = ord[o].b, !.o = o])
        /\ CallNames([Idle EXCEPT !.op = "claim", !.b = ord[o].b, !.o = o])
    BY <2>1 DEF Idle
  <2> QED
    BY <1>6, <2>2, SlotNames DEF DeliverSuccess, ConfirmRead
<1>7. ASSUME NEW o \in Orders, DeliverFailed(c, o) \/ VerifyRead(c, o)  PROVE CallsNamed'
  <2>1. ord[o].b \in Booking
    BY <1>7 DEF DeliverFailed, VerifyRead, TypeOK, HandlersNameRows
  <2>2. /\ CallNames([Idle EXCEPT !.op = "saveFailed", !.b = ord[o].b, !.o = o])
        /\ CallNames([Idle EXCEPT !.op = "saveVerified", !.b = ord[o].b, !.o = o])
    BY <2>1 DEF Idle
  <2> QED
    BY <1>7, <2>2, SlotNames DEF DeliverFailed, VerifyRead
<1>8. ASSUME NEW op \in {"pause", "reopen", "cancel"}, ShowOpRead(c, op)  PROVE CallsNamed'
  <2>1. CallNames([Idle EXCEPT !.op = op])
    BY DEF Idle
  <2> QED
    BY <1>8, <2>1, SlotNames DEF ShowOpRead
<1> QED
  BY <1>1, <1>2, <1>3, <1>4, <1>5, <1>6, <1>7, <1>8 DEF Arrive

\* A handler that goes on keeps what it names, or is done.
LEMMA ResumeNames ==
    ASSUME TypeOK, NEW c \in Slots, Resume(c)
    PROVE  CallsNamed'
<1> USE DEF CallNames, ShowOnly, AboutAnOrder
<1>0. calls[c] \in Call /\ CallNames(calls[c])
  BY DEF TypeOK, Shapes, HandlersNameRows
<1>1. CASE CreateSweep(c)
  <2>1. PICK x \in calls[c].list : Goto(c, [calls[c] EXCEPT !.list = @ \ {x}])
    BY <1>1 DEF CreateSweep
  <2>2. CallNames([calls[c] EXCEPT !.list = @ \ {x}])
    BY <1>0 DEF Call
  <2> QED
    BY <2>1, <2>2, SlotNames
<1>2. ASSUME NEW m, NEW q, NEW S, NEW at, NEW until, CreateHold(c, m, q, S, at, until)
      PROVE CallsNamed'
  <2>1. CallNames([Idle EXCEPT !.op = "confirmFree", !.b = calls[c].b])
    BY <1>0, <1>2 DEF CreateHold, Idle
  <2>2. Goto(c, [Idle EXCEPT !.op = "confirmFree", !.b = calls[c].b]) \/ Finish(c)
    BY <1>2 DEF CreateHold
  <2> QED
    BY <2>1, <2>2, SlotNames, FinishNames
<1>3. CASE ConfirmFree(c)
  <2>1. CallNames([Idle EXCEPT !.op = "claim", !.b = calls[c].b])
    BY <1>0, <1>3 DEF ConfirmFree, Idle
  <2> QED
    BY <1>3, <2>1, SlotNames DEF ConfirmFree
<1>4. ASSUME NEW o \in Orders, OpenOrder(c, o)  PROVE CallsNamed'
  <2>1. CallNames([calls[c] EXCEPT !.op = "saveOrder", !.o = o])
    BY <1>0, <1>4 DEF OpenOrder, Call
  <2> QED
    BY <1>4, <2>1, SlotNames DEF OpenOrder
<1>5. CASE ConfirmLost(c)
  <2>1. CASE calls[c].o = NoOrder
    BY <1>5, <2>1, FinishNames DEF ConfirmLost
  <2>2. CASE calls[c].o # NoOrder
    <3>1. CallNames([calls[c] EXCEPT !.op = "unapplied"])
      BY <1>0, <1>5, <2>2 DEF ConfirmLost, Call
    <3> QED
      BY <1>5, <2>2, <3>1, SlotNames DEF ConfirmLost
  <2> QED
    BY <2>1, <2>2
<1>6. CASE RecordUnappliedCapture(c)
  <2>1. /\ CallNames([calls[c] EXCEPT !.op = "fileMissing"])
        /\ CallNames([calls[c] EXCEPT !.op = "fileDuplicate"])
    BY <1>0, <1>6 DEF RecordUnappliedCapture, Call
  <2>2. \/ Goto(c, [calls[c] EXCEPT !.op = "fileMissing"])
        \/ Goto(c, [calls[c] EXCEPT !.op = "fileDuplicate"])
        \/ Finish(c)
    BY <1>6 DEF RecordUnappliedCapture
  <2> QED
    BY <2>1, <2>2, SlotNames, FinishNames
<1>7. CASE GuardClose(c)
  <2>1. CallNames([calls[c] EXCEPT !.op = "classify"])
    BY <1>0, <1>7 DEF GuardClose, Call
  <2> QED
    BY <1>7, <2>1, SlotNames DEF GuardClose
<1>8. CASE GuardClassify(c)
  <2>1. /\ CallNames([calls[c] EXCEPT !.op = "release"])
        /\ CallNames([Idle EXCEPT !.op = "unapplied", !.b = calls[c].b, !.o = calls[c].o])
        /\ CallNames([Idle EXCEPT !.op = "claim", !.b = calls[c].b, !.o = calls[c].o])
    BY <1>0, <1>8 DEF GuardClassify, Call, Idle
  <2> QED
    BY <1>8, <2>1, SlotNames DEF GuardClassify, ConfirmRead
<1>9. CASE \/ ResumeOrder(c) \/ SaveOrder(c) \/ VerifySave(c) \/ CouponSave(c) \/ SaveFailed(c)
           \/ ConfirmClaim(c) \/ FileDiscrepancy(c) \/ SweepRelease(c)
           \/ ShowOpSave(c) \/ CancelShow(c)
  BY <1>9, FinishNames DEF ResumeOrder, SaveOrder, VerifySave, CouponSave, SaveFailed,
     ConfirmClaim, FileDiscrepancy, SweepRelease, ShowOpSave, CancelShow
<1> QED
  BY <1>1, <1>2, <1>3, <1>4, <1>5, <1>6, <1>7, <1>8, <1>9 DEF Resume

\* An order belongs to the booking it was opened for from the start.
LEMMA OrderNames ==
    ASSUME TypeOK,
           \/ UNCHANGED ord
           \/ \E c \in Slots, o \in Orders : OpenOrder(c, o)
           \/ \E c \in Slots : SaveOrder(c) \/ GuardClose(c)
           \/ \E o \in Orders : BuyerPays(o) \/ BuyerIsRefused(o)
    PROVE  OrdersNamed'
<1> USE DEF TypeOK
<1>0. OrdersNamed /\ ord \in [Orders -> OrderRow]
  BY DEF HandlersNameRows, OrdersNamed, Shapes
<1>1. CASE UNCHANGED ord
  BY <1>0, <1>1 DEF OrdersNamed
<1>2. ASSUME NEW c \in Slots, NEW o \in Orders, OpenOrder(c, o)  PROVE OrdersNamed'
  <2>1. calls[c].b \in Booking
    BY <1>2 DEF OpenOrder, HandlersNameRows, ShowOnly
  <2>2. \/ ord' = ord
        \/ \E n, k : ord' = [ord EXCEPT ![o] = [st |-> "created", b |-> calls[c].b, amount |-> n,
                                                key |-> k, failed |-> FALSE]]
    BY <1>2 DEF OpenOrder
  <2> QED
    BY <1>0, <2>1, <2>2 DEF OrdersNamed, OrderRow
<1>3. ASSUME NEW c \in Slots, SaveOrder(c) \/ GuardClose(c)  PROVE OrdersNamed'
  <2>1. calls[c].o \in Orders
    BY <1>3 DEF SaveOrder, GuardClose, HandlersNameRows, AboutAnOrder
  <2>2. \/ ord' = ord
        \/ ord[calls[c].o].st \in {"created", "open"}
             /\ \E st : ord' = [ord EXCEPT ![calls[c].o].st = st]
        \/ ord' = [ord EXCEPT ![calls[c].o].st = ord[calls[c].o].st]
    BY <1>0, <1>3, <2>1 DEF SaveOrder, GuardClose
  <2> QED
    BY <1>0, <2>1, <2>2 DEF OrdersNamed, OrderRow
<1>4. ASSUME NEW o \in Orders, BuyerPays(o) \/ BuyerIsRefused(o)  PROVE OrdersNamed'
  BY <1>0, <1>4 DEF BuyerPays, BuyerIsRefused, OrdersNamed, OrderRow
<1> QED
  BY <1>1, <1>2, <1>3, <1>4

LEMMA NamesStep == TypeOK /\ [Next]_vars => HandlersNameRows'
<1> SUFFICES ASSUME TypeOK, [Next]_vars  PROVE CallsNamed' /\ OrdersNamed'
  BY DEF HandlersNameRows, CallsNamed, CallNames, OrdersNamed
<1>1. CallsNamed'
  <2>1. CASE UNCHANGED calls
    BY <2>1 DEF TypeOK, HandlersNameRows, CallsNamed, CallNames
  <2>2. ASSUME NEW c \in Slots, Abandon(c)  PROVE CallsNamed'
    BY <2>2, FinishNames DEF Abandon
  <2> QED
    BY <2>1, <2>2, ArriveNames, ResumeNames
       DEF Next, vars, ExtendHold, CancelUnpaid, BlockSeat, UnblockSeat, BuyerPays, BuyerIsRefused,
           CompleteSession, Tick
<1>2. OrdersNamed'
  <2>1. CASE UNCHANGED vars
    BY <2>1, OrderNames DEF vars
  <2>2. ASSUME NEW c \in Slots, Arrive(c) \/ Abandon(c)  PROVE OrdersNamed'
    BY <2>2, OrderNames DEF Arrive, Abandon, CreateCheck, CreateIntent, CollectCash, SweepRead,
       CouponRead, DeliverSuccess, DeliverFailed, VerifyRead, ShowOpRead
  <2>3. ASSUME NEW c \in Slots, Resume(c)  PROVE OrdersNamed'
    BY <2>3, OrderNames DEF Resume, CreateSweep, CreateHold, ConfirmFree, ResumeOrder, VerifySave,
       CouponSave, SaveFailed, ConfirmClaim, ConfirmLost, RecordUnappliedCapture, FileDiscrepancy,
       GuardClassify, SweepRelease, ShowOpSave, CancelShow
  <2> QED
    BY <2>1, <2>2, <2>3, OrderNames
       DEF Next, ExtendHold, CancelUnpaid, BlockSeat, UnblockSeat, CompleteSession, Tick
<1> QED
  BY <1>1, <1>2

\* Every row keeps its shape and every handler names rows that exist, however
\* many handlers of BookingsService, PaymentsService and the worker interleave.
THEOREM TypeCorrect == Spec => []TypeOK
<1>1. Init => TypeOK
  <2>1. Init => HandlersNameRows
    BY DEF Init, HandlersNameRows, Idle, NoRow, ShowOnly, AboutAnOrder
  <2> QED
    BY <2>1, InitShapes DEF TypeOK
<1>2. TypeOK /\ [Next]_vars => TypeOK'
  BY ShapesStep, NamesStep DEF TypeOK
<1> QED
  BY <1>1, <1>2, PTL DEF Spec

=============================================================================
