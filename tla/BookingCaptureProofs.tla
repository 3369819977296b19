------------------------ MODULE BookingCaptureProofs ------------------------
(* Money, for any number of bookings, orders and handlers: which order a   *)
(* handler is about, what the provider's answers allow, and what is on     *)
(* record when an event has been processed.                                *)
EXTENDS BookingCoreProofs

----------------------------------------------------------------------------
(* What a step may do to an order, and to the records of a booking.        *)

\* An order belongs to one booking from the moment it is opened; a session that
\* was closed or paid stays so.
OrderKept(o) ==
    /\ ord[o].st = "unused" \/ (ord'[o].st # "unused" /\ ord'[o].b = ord[o].b)
    /\ ord[o].st \in {"closed", "captured"} => ord'[o].st = ord[o].st
    /\ ord'[o].st = "unused" => ord'[o].b = ord[o].b

\* Attempts are never deleted, and a booking that exists keeps its payment method.
BookingKept(b) ==
    /\ attempts[b] \subseteq attempts'[b]
    /\ status[b] # "NONE" => status'[b] # "NONE" /\ method'[b] = method[b]

LEMMA OrdersKept ==
    ASSUME TypeOK, [Next]_vars
    PROVE  \A o \in Orders : OrderKept(o)
<1> USE DEF OrderKept
<1>0. ord \in [Orders -> OrderRow] /\ \A o \in Orders : ord[o] \in OrderRow
  BY DEF TypeOK, Shapes
<1>1. CASE UNCHANGED ord
  BY <1>1
<1>2. ASSUME NEW c \in Slots, NEW o \in Orders, OpenOrder(c, o)
      PROVE  \A x \in Orders : OrderKept(x)
  <2>1. CASE UNCHANGED ord
    BY <2>1
  <2>2. CASE ord[o].st = "unused" /\ ord' = [ord EXCEPT ![o] =
               [st |-> "created", b |-> calls[c].b, amount |-> calls[c].n,
                key |-> IF Provider = "stripe" THEN now ELSE 0, failed |-> FALSE]]
    BY <1>0, <2>2
  <2> QED
    BY <1>2, <2>1, <2>2 DEF OpenOrder
<1>3. ASSUME NEW c \in Slots, SaveOrder(c)  PROVE \A x \in Orders : OrderKept(x)
  <2>1. calls[c].o \in Orders
    BY <1>3 DEF SaveOrder, TypeOK, HandlersNameRows, AboutAnOrder
  <2>2. ord' = [ord EXCEPT ![calls[c].o].st = IF @ = "created" THEN "open" ELSE @]
    BY <1>3 DEF SaveOrder
  <2> QED
    BY <1>0, <2>1, <2>2 DEF OrderRow
<1>4. ASSUME NEW c \in Slots, GuardClose(c)  PROVE \A x \in Orders : OrderKept(x)
  <2>1. calls[c].o \in Orders
    BY <1>4 DEF GuardClose, TypeOK, HandlersNameRows, AboutAnOrder
  <2>2. \/ UNCHANGED ord
        \/ ord' = [ord EXCEPT ![calls[c].o].st = IF @ = "open" THEN "closed" ELSE @]
    BY <1>4 DEF GuardClose
  <2> QED
    BY <1>0, <1>1, <2>1, <2>2 DEF OrderRow
<1>5. ASSUME NEW o \in Orders, BuyerPays(o) \/ BuyerIsRefused(o)
      PROVE  \A x \in Orders : OrderKept(x)
  BY <1>0, <1>5 DEF BuyerPays, BuyerIsRefused, OrderRow
<1>6. ASSUME NEW c \in Slots, Arrive(c) \/ Abandon(c)  PROVE UNCHANGED ord
  BY <1>6 DEF Arrive, Abandon, CreateCheck, CreateIntent, CollectCash, SweepRead, CouponRead,
     DeliverSuccess, DeliverFailed, VerifyRead, ShowOpRead
<1>7. ASSUME NEW c \in Slots, Resume(c)  PROVE \A x \in Orders : OrderKept(x)
  <2>1. \/ UNCHANGED ord \/ (\E o \in Orders : OpenOrder(c, o)) \/ SaveOrder(c) \/ GuardClose(c)
    BY <1>7 DEF Resume, CreateSweep, CreateHold, ConfirmFree, ResumeOrder, VerifySave, CouponSave,
       SaveFailed, ConfirmClaim, ConfirmLost, RecordUnappliedCapture, FileDiscrepancy,
       GuardClassify, SweepRelease, ShowOpSave, CancelShow
  <2> QED
    BY <1>1, <1>2, <1>3, <1>4, <2>1
<1>8. CASE \/ \E b \in Booking : ExtendHold(b) \/ CancelUnpaid(b)
           \/ \E s \in Seats : BlockSeat(s) \/ UnblockSeat(s)
           \/ CompleteSession \/ Tick \/ UNCHANGED vars
  BY <1>1, <1>8 DEF ExtendHold, CancelUnpaid, BlockSeat, UnblockSeat, CompleteSession, Tick, vars
<1> QED
  BY <1>1, <1>5, <1>6, <1>7, <1>8 DEF Next

LEMMA ExpireKeeps ==
    ASSUME Shapes, NEW x \in Booking, NEW n, ExpireLapsed(x, n)
    PROVE  \A b \in Booking : BookingKept(b)
BY DEF Shapes, ExpireLapsed, ReleasePendingBooking, BookingKept, bookingVars, payVars

LEMMA BookingsKept ==
    ASSUME TypeOK, [Next]_vars
    PROVE  \A b \in Booking : BookingKept(b)
<1> USE DEF BookingKept
<1>0. Shapes
  BY DEF TypeOK
<1>1. CASE UNCHANGED <<status, method, attempts>>
  BY <1>1
<1>2. ASSUME NEW c \in Slots, Arrive(c) \/ Abandon(c)  PROVE UNCHANGED <<status, method, attempts>>
  BY <1>2 DEF Arrive, Abandon, CreateCheck, CreateIntent, CollectCash, SweepRead, CouponRead,
     DeliverSuccess, DeliverFailed, VerifyRead, ShowOpRead, bookingVars, payVars
<1>3. ASSUME NEW c \in Slots, Resume(c)  PROVE \A b \in Booking : BookingKept(b)
  <2>0. calls[c] \in Call /\ (calls[c].op \notin ShowOnly => calls[c].b \in Booking)
    BY DEF TypeOK, Shapes, HandlersNameRows
  <2>1. CASE CreateSweep(c)
    <3>1. PICK x \in calls[c].list : ExpireLapsed(x, calls[c].n)
      BY <2>1 DEF CreateSweep
    <3>2. x \in Booking
      BY <2>0 DEF Call
    <3> QED
      BY <1>0, <3>1, <3>2, ExpireKeeps
  <2>2. CASE SweepRelease(c)
    BY <1>0, <2>0, <2>2, ExpireKeeps DEF SweepRelease, ShowOnly
  <2>3. ASSUME NEW m, NEW q, NEW S, NEW at, NEW until, CreateHold(c, m, q, S, at, until)
        PROVE  \A b \in Booking : BookingKept(b)
    <3>1. /\ status[calls[c].b] = "NONE" /\ method' = [method EXCEPT ![calls[c].b] = m]
          /\ status' = [status EXCEPT ![calls[c].b] = "PENDING_PAYMENT"] /\ attempts' = attempts
      BY <2>3 DEF CreateHold
    <3> QED
      BY <1>0, <3>1 DEF Shapes
  <2>4. CASE ConfirmClaim(c)
    <3>1. /\ method' = method /\ status' = [status EXCEPT ![calls[c].b] = "CONFIRMED"]
          /\ attempts' = attempts \/ attempts' = [attempts EXCEPT ![calls[c].b] = @ \cup {calls[c].o}]
      BY <2>4 DEF ConfirmClaim
    <3> QED
      BY <1>0, <3>1 DEF Shapes
  <2>5. CASE RecordUnappliedCapture(c)
    BY <1>0, <2>5 DEF RecordUnappliedCapture, Shapes, bookingVars
  <2>6. CASE CancelShow(c)
    BY <1>0, <2>6 DEF CancelShow, Shapes
  <2>7. CASE \/ ConfirmFree(c) \/ ResumeOrder(c) \/ (\E o \in Orders : OpenOrder(c, o))
             \/ SaveOrder(c) \/ VerifySave(c) \/ CouponSave(c) \/ SaveFailed(c) \/ ConfirmLost(c)
             \/ FileDiscrepancy(c) \/ GuardClose(c) \/ GuardClassify(c) \/ ShowOpSave(c)
    BY <1>1, <2>7 DEF ConfirmFree, ResumeOrder, OpenOrder, SaveOrder, VerifySave, CouponSave,
       SaveFailed, ConfirmLost, FileDiscrepancy, GuardClose, GuardClassify, ShowOpSave,
       bookingVars, payVars
  <2> QED
    BY <1>3, <2>1, <2>2, <2>3, <2>4, <2>5, <2>6, <2>7 DEF Resume
<1>4. ASSUME NEW b \in Booking, CancelUnpaid(b)  PROVE \A x \in Booking : BookingKept(x)
  BY <1>0, <1>4 DEF CancelUnpaid, ReleasePendingBooking, Shapes
<1>5. CASE \/ \E b \in Booking : ExtendHold(b)
           \/ \E s \in Seats : BlockSeat(s) \/ UnblockSeat(s)
           \/ \E o \in Orders : BuyerPays(o) \/ BuyerIsRefused(o)
           \/ CompleteSession \/ Tick \/ UNCHANGED vars
  BY <1>1, <1>5 DEF ExtendHold, BlockSeat, UnblockSeat, BuyerPays, BuyerIsRefused, CompleteSession,
     Tick, vars, bookingVars, payVars
<1> QED
  BY <1>2, <1>1, <1>3, <1>4, <1>5 DEF Next

----------------------------------------------------------------------------
(* What a handler in flight knows about the order it carries, and goes on  *)
(* knowing while others run.                                               *)

Owns(b, o) == o \in Orders /\ ord[o].b = b /\ ord[o].st # "unused"

\* The order a handler opened, or read from a payment row, is its booking's.
KnowsOwner(k) == k.op \in {"saveOrder", "close", "classify"} => Owns(k.b, k.o)

\* confirm and what follows it are about a capture of the booking they name ...
KnowsCapture(k) ==
    k.op \in {"claim", "unapplied", "fileMissing", "fileDuplicate"} /\ k.o # NoOrder
        => k.o \in CapturedFor(k.b)

\* ... or about a booking that is not paid online.
KnowsNoPayment(k) ==
    (k.op = "claim" /\ k.o = NoOrder) \/ k.op = "confirmFree"
        => status[k.b] # "NONE" /\ method[k.b] # "ONLINE"

\* A discrepancy is filed after its attempt was written.
KnowsRecord(k) == k.op \in {"fileMissing", "fileDuplicate"} => k.o \in attempts[k.b]

\* The guard lets go behind a closed session; only Razorpay has verify.
KnowsStripe(k) ==
    Provider = "stripe" =>
        /\ k.op # "saveVerified"
        /\ k.op = "release" /\ k.o # NoOrder => ord[k.o].st = "closed"

Knows(k) == KnowsOwner(k) /\ KnowsCapture(k) /\ KnowsNoPayment(k) /\ KnowsRecord(k) /\ KnowsStripe(k)

HandlersKnow == \A d \in Slots : Knows(calls[d])

\* What a handler knows stays true whatever step is taken.
LEMMA KnowledgeKept ==
    ASSUME TypeOK, [Next]_vars, NEW k \in Call, CallNames(k), Knows(k)
    PROVE  Knows(k)'
<1> USE DEF CallNames, ShowOnly, AboutAnOrder
<1>0. \A o \in Orders : OrderKept(o)
  BY OrdersKept
<1>1. \A b \in Booking : BookingKept(b)
  BY BookingsKept
<1>2. k.o \in Orders \cup {NoOrder}
  BY DEF Call
<1>3. KnowsOwner(k)'
  BY <1>0 DEF Knows, KnowsOwner, Owns, OrderKept
<1>4. KnowsCapture(k)'
  BY <1>0 DEF Knows, KnowsCapture, CapturedFor, OrderKept
<1>5. KnowsNoPayment(k)'
  BY <1>1 DEF Knows, KnowsNoPayment, BookingKept
<1>6. KnowsRecord(k)'
  BY <1>1 DEF Knows, KnowsRecord, BookingKept
<1>7. KnowsStripe(k)'
  BY <1>0, <1>2 DEF Knows, KnowsStripe, OrderKept
<1> QED
  BY <1>3, <1>4, <1>5, <1>6, <1>7 DEF Knows

\* A slot that is rewritten with something known leaves every slot with
\* something known.
LEMMA SlotKnows ==
    ASSUME TypeOK, [Next]_vars, HandlersKnow, NEW c \in Slots, NEW k,
           calls' = [calls EXCEPT ![c] = k], Knows(k)'
    PROVE  HandlersKnow'
<1> SUFFICES ASSUME NEW d \in Slots  PROVE Knows(calls[d])'
  BY DEF HandlersKnow
<1>1. calls \in [Slots -> Call]
  BY DEF TypeOK, Shapes
<1>2. CASE d = c
  BY <1>1, <1>2 DEF Knows, KnowsOwner, KnowsCapture, KnowsNoPayment, KnowsRecord, KnowsStripe
<1>3. CASE d # c
  <2>1. calls[d] \in Call /\ CallNames(calls[d]) /\ Knows(calls[d]) /\ calls'[d] = calls[d]
    BY <1>1, <1>3 DEF TypeOK, HandlersNameRows, CallNames, HandlersKnow
  <2> QED
    BY <2>1, KnowledgeKept DEF Knows, KnowsOwner, KnowsCapture, KnowsNoPayment, KnowsRecord,
       KnowsStripe
<1> QED
  BY <1>2, <1>3

\* The usual case: what the handler writes into its slot it knew before the step.
LEMMA MovesOnKnowing ==
    ASSUME TypeOK, [Next]_vars, HandlersKnow, NEW c \in Slots, NEW k \in Call, CallNames(k),
           Knows(k), Begin(c, k) \/ Goto(c, k)
    PROVE  HandlersKnow'
BY KnowledgeKept, SlotKnows DEF Begin, Goto

LEMMA FinishKnows ==
    ASSUME TypeOK, [Next]_vars, HandlersKnow, NEW c \in Slots, Finish(c)
    PROVE  HandlersKnow'
<1>1. Idle \in Call /\ CallNames(Idle) /\ Knows(Idle)
  BY IdleIsCall DEF CallNames, Knows, KnowsOwner, KnowsCapture, KnowsNoPayment, KnowsRecord,
     KnowsStripe, Idle, ShowOnly, AboutAnOrder
<1>2. Goto(c, Idle)
  BY DEF Finish, Goto
<1> QED
  BY <1>1, <1>2, MovesOnKnowing

\* Orders nobody opened belong to nobody; a payment row names an order of its own
\* booking.
OrdersPlaced ==
    /\ \A o \in Orders : ord[o].st = "unused" => ord[o].b = NoBooking
    /\ \A b \in Booking : payOrder[b] # NoOrder => Owns(b, payOrder[b])

\* confirm's read of the booking, from a webhook or from the expiry guard.
LEMMA ConfirmReadKnows ==
    ASSUME TypeOK, [Next]_vars, HandlersKnow, NEW c \in Slots, NEW o \in Orders,
           ord[o].st = "captured", NEW checkout, ConfirmRead(c, ord[o].b, o, checkout)
    PROVE  HandlersKnow'
<1> DEFINE k1 == [Idle EXCEPT !.op = "unapplied", !.b = ord[o].b, !.o = o]
           k2 == [Idle EXCEPT !.op = "claim", !.b = ord[o].b, !.o = o]
<1>1. ord[o].b \in Booking /\ o # NoOrder
  BY ConstAssumption DEF TypeOK, HandlersNameRows
<1>2. k1 \in Call /\ k2 \in Call
  BY <1>1 DEF Call, Idle, Op, PayStatus
<1>3. CallNames(k1) /\ CallNames(k2)
  BY <1>1 DEF CallNames, Idle, ShowOnly, AboutAnOrder
<1>4. Knows(k1)
  BY <1>1 DEF Knows, KnowsOwner, KnowsCapture, KnowsNoPayment, KnowsRecord, KnowsStripe, CapturedFor,
     Idle
<1>5. Knows(k2)
  BY <1>1 DEF Knows, KnowsOwner, KnowsCapture, KnowsNoPayment, KnowsRecord, KnowsStripe, CapturedFor,
     Idle
<1>6. Goto(c, k1) \/ Goto(c, k2)
  BY DEF ConfirmRead
<1> QED
  BY <1>2, <1>3, <1>4, <1>5, <1>6, MovesOnKnowing

\* A request, webhook or timer that starts knows what it has just read.
LEMMA ArriveKnows ==
    ASSUME TypeOK, OrdersPlaced, [Next]_vars, HandlersKnow, NEW c \in Slots, Arrive(c)
    PROVE  HandlersKnow'
<1> USE DEF CallNames, ShowOnly, AboutAnOrder
<1>0. now \in Nat /\ Price \in Nat /\ CouponPrices \subseteq Nat
  BY ConstAssumption DEF TypeOK, Shapes
<1>1. ASSUME NEW k \in Call, k.op \in {"sweepThenHold", "openOrder", "saveCoupon", "saveFailed",
                                       "pause", "reopen", "cancel"},
             CallNames(k), Begin(c, k)
      PROVE  HandlersKnow'
  <2>1. Knows(k)
    BY <1>1 DEF Knows, KnowsOwner, KnowsCapture, KnowsNoPayment, KnowsRecord, KnowsStripe
  <2> QED
    BY <1>1, <2>1, MovesOnKnowing
<1>2. ASSUME NEW b \in Booking, CreateCheck(c, b)  PROVE HandlersKnow'
  <2> DEFINE k == [Idle EXCEPT !.op = "sweepThenHold", !.b = b, !.n = now,
                      !.list = {x \in Booking : Lapsed(x) /\ ~NeedsProviderCheck(x)}]
  <2>1. k \in Call /\ k.op = "sweepThenHold" /\ CallNames(k)
    BY <1>0 DEF Call, Idle, Op, PayStatus
  <2>2. Begin(c, k)
    BY <1>2 DEF CreateCheck
  <2> QED
    BY <1>1, <2>1, <2>2
<1>3. ASSUME NEW b \in Booking, CreateIntent(c, b)  PROVE HandlersKnow'
  <2> DEFINE k == [Idle EXCEPT !.op = "openOrder", !.b = b, !.n = total[b],
                               !.pay = pay[b], !.o = payOrder[b]]
  <2>1. k \in Call /\ k.op = "openOrder" /\ CallNames(k)
    BY DEF TypeOK, Shapes, Call, Idle, Op
  <2>2. Begin(c, k)
    BY <1>3 DEF CreateIntent
  <2> QED
    BY <1>1, <2>1, <2>2
<1>4. ASSUME NEW b \in Booking, CollectCash(c, b)  PROVE HandlersKnow'
  <2> DEFINE k == [Idle EXCEPT !.op = "claim", !.b = b]
  <2>1. k \in Call /\ CallNames(k)
    BY <1>0 DEF Call, Idle, Op, PayStatus
  <2>2. status[b] # "NONE" /\ method[b] # "ONLINE"
    BY <1>4 DEF CollectCash, AwaitsCash
  <2>3. Knows(k)
    BY <2>2 DEF Knows, KnowsOwner, KnowsCapture, KnowsNoPayment, KnowsRecord, KnowsStripe, Idle
  <2>4. Begin(c, k)
    BY <1>4 DEF CollectCash
  <2> QED
    BY <2>1, <2>3, <2>4, MovesOnKnowing
<1>5. ASSUME NEW b \in Booking, SweepRead(c, b)  PROVE HandlersKnow'
  <2>1. CASE NeedsProviderCheck(b)
    <3> DEFINE k == [Idle EXCEPT !.op = "close", !.b = b, !.n = now, !.o = payOrder[b]]
    <3>1. Owns(b, payOrder[b])
      BY <2>1 DEF NeedsProviderCheck, OrdersPlaced
    <3>2. k \in Call /\ CallNames(k)
      BY <1>0, <3>1 DEF Call, Idle, Op, PayStatus, Owns
    <3>3. Knows(k)
      BY <3>1 DEF Knows, KnowsOwner, KnowsCapture, KnowsNoPayment, KnowsRecord, KnowsStripe, Idle
    <3>4. Begin(c, k)
      BY <1>5, <2>1 DEF SweepRead
    <3> QED
      BY <3>2, <3>3, <3>4, MovesOnKnowing
  <2>2. CASE ~NeedsProviderCheck(b)
    <3> DEFINE k == [Idle EXCEPT !.op = "release", !.b = b, !.n = now, !.o = NoOrder]
    <3>1. k \in Call /\ CallNames(k)
      BY <1>0 DEF Call, Idle, Op, PayStatus
    <3>2. Knows(k)
      BY DEF Knows, KnowsOwner, KnowsCapture, KnowsNoPayment, KnowsRecord, KnowsStripe, Idle
    <3>3. Begin(c, k)
      BY <1>5, <2>2 DEF SweepRead
    <3> QED
      BY <3>1, <3>2, <3>3, MovesOnKnowing
  <2> QED
    BY <2>1, <2>2
<1>6. ASSUME NEW b \in Booking, NEW p \in {Price} \cup CouponPrices, CouponRead(c, b, p)
      PROVE  HandlersKnow'
  <2> DEFINE k == [Idle EXCEPT !.op = "saveCoupon", !.b = b, !.n = p]
  <2>1. k \in Call /\ k.op = "saveCoupon" /\ CallNames(k)
    BY <1>0 DEF Call, Idle, Op, PayStatus
  <2>2. Begin(c, k)
    BY <1>6 DEF CouponRead
  <2> QED
    BY <1>1, <2>1, <2>2
<1>7. ASSUME NEW o \in Orders, NEW checkout, DeliverSuccess(c, o, checkout)  PROVE HandlersKnow'
  BY <1>7, ConfirmReadKnows DEF DeliverSuccess
<1>8. ASSUME NEW o \in Orders, DeliverFailed(c, o)  PROVE HandlersKnow'
  <2> DEFINE k == [Idle EXCEPT !.op = "saveFailed", !.b = ord[o].b, !.o = o]
  <2>1. ord[o].b \in Booking
    BY <1>8 DEF DeliverFailed, TypeOK, HandlersNameRows
  <2>2. k \in Call /\ k.op = "saveFailed" /\ CallNames(k)
    BY <2>1 DEF Call, Idle, Op, PayStatus
  <2>3. Begin(c, k)
    BY <1>8 DEF DeliverFailed
  <2> QED
    BY <1>1, <2>2, <2>3
<1>9. ASSUME NEW o \in Orders, VerifyRead(c, o)  PROVE HandlersKnow'
  <2> DEFINE k == [Idle EXCEPT !.op = "saveVerified", !.b = ord[o].b, !.o = o]
  <2>1. ord[o].b \in Booking /\ Provider # "stripe"
    BY <1>9 DEF VerifyRead, TypeOK, HandlersNameRows
  <2>2. k \in Call /\ CallNames(k)
    BY <2>1 DEF Call, Idle, Op, PayStatus
  <2>3. Knows(k)
    BY <2>1 DEF Knows, KnowsOwner, KnowsCapture, KnowsNoPayment, KnowsRecord, KnowsStripe, Idle
  <2>4. Begin(c, k)
    BY <1>9 DEF VerifyRead
  <2> QED
    BY <2>2, <2>3, <2>4, MovesOnKnowing
<1>10. ASSUME NEW op \in {"pause", "reopen", "cancel"}, ShowOpRead(c, op)  PROVE HandlersKnow'
  <2> DEFINE k == [Idle EXCEPT !.op = op]
  <2>1. k \in Call /\ k.op \in {"pause", "reopen", "cancel"} /\ CallNames(k)
    BY DEF Call, Idle, Op, PayStatus
  <2>2. Begin(c, k)
    BY <1>10 DEF ShowOpRead
  <2> QED
    BY <1>1, <2>1, <2>2
<1> QED
  BY <1>2, <1>3, <1>4, <1>5, <1>6, <1>7, <1>8, <1>9, <1>10 DEF Arrive

\* createIntent's call to the provider: a new order, or the session replayed for
\* the same key, is the booking's when the handler goes on to save it.
LEMMA OpenOrderKnows ==
    ASSUME TypeOK, OrdersPlaced, [Next]_vars, HandlersKnow, NEW c \in Slots, NEW o \in Orders,
           OpenOrder(c, o)
    PROVE  HandlersKnow'
<1>0. calls[c].b \in Booking /\ calls[c] \in Call
  BY DEF OpenOrder, TypeOK, Shapes, HandlersNameRows, ShowOnly
<1>1. PICK k : k = [calls[c] EXCEPT !.op = "saveOrder", !.o = o]
  OBVIOUS
<1>2. calls' = [calls EXCEPT ![c] = k]
  BY <1>1 DEF OpenOrder, Goto
<1>3. k.op = "saveOrder" /\ k.o = o /\ k.b = calls[c].b
  BY <1>0, <1>1 DEF Call
<1>4. ord'[o].b = calls[c].b /\ ord'[o].st # "unused"
  <2>1. CASE o \in Replayed(calls[c].b) /\ UNCHANGED ord
    BY <1>0, <2>1, ConstAssumption DEF Replayed, OrdersPlaced
  <2>2. CASE ord' = [ord EXCEPT ![o] =
               [st |-> "created", b |-> calls[c].b, amount |-> calls[c].n,
                key |-> IF Provider = "stripe" THEN now ELSE 0, failed |-> FALSE]]
    BY <2>2 DEF TypeOK, Shapes
  <2> QED
    BY <2>1, <2>2 DEF OpenOrder
<1>5. Knows(k)'
  BY <1>3, <1>4 DEF Knows, KnowsOwner, KnowsCapture, KnowsNoPayment, KnowsRecord, KnowsStripe, Owns
<1> QED
  BY <1>2, <1>5, SlotKnows

\* A free booking is confirmed by the handler that has just created it.
LEMMA CreateHoldKnows ==
    ASSUME TypeOK, [Next]_vars, HandlersKnow, NEW c \in Slots, NEW m, NEW q, NEW S, NEW at, NEW until,
           CreateHold(c, m, q, S, at, until)
    PROVE  HandlersKnow'
<1>0. calls[c].b \in Booking
  BY DEF CreateHold, TypeOK, HandlersNameRows, ShowOnly
<1>1. CASE m = "FREE"
  <2>1. PICK k : k = [Idle EXCEPT !.op = "confirmFree", !.b = calls[c].b]
    OBVIOUS
  <2>2. calls' = [calls EXCEPT ![c] = k]
    BY <1>1, <2>1 DEF CreateHold, Goto
  <2>3. k.op = "confirmFree" /\ k.b = calls[c].b
    BY <2>1 DEF Idle
  <2>4. status'[calls[c].b] = "PENDING_PAYMENT" /\ method'[calls[c].b] = "FREE"
    BY <1>0, <1>1 DEF CreateHold, TypeOK, Shapes
  <2>5. Knows(k)'
    BY <2>3, <2>4 DEF Knows, KnowsOwner, KnowsCapture, KnowsNoPayment, KnowsRecord, KnowsStripe
  <2> QED
    BY <2>2, <2>5, SlotKnows
<1>2. CASE m # "FREE"
  BY <1>2, FinishKnows DEF CreateHold
<1> QED
  BY <1>1, <1>2

\* recordUnappliedCapture writes the attempt before it goes on to file it.
LEMMA RecordKnows ==
    ASSUME TypeOK, [Next]_vars, HandlersKnow, NEW c \in Slots, RecordUnappliedCapture(c)
    PROVE  HandlersKnow'
<1>0. /\ calls[c].b \in Booking /\ calls[c].o \in Orders /\ calls[c] \in Call
      /\ calls[c].op = "unapplied" /\ Knows(calls[c]) /\ calls[c].o # NoOrder
  BY ConstAssumption DEF RecordUnappliedCapture, TypeOK, Shapes, HandlersNameRows, ShowOnly,
     AboutAnOrder, HandlersKnow
<1>1. CASE Redelivery(calls[c].b, calls[c].o)
  BY <1>1, FinishKnows DEF RecordUnappliedCapture
<1>2. CASE ~Redelivery(calls[c].b, calls[c].o)
  <2>1. PICK k : k = [calls[c] EXCEPT !.op = IF pay[calls[c].b] # "SUCCEEDED" THEN "fileMissing"
                                                                          ELSE "fileDuplicate"]
    OBVIOUS
  <2>2. calls' = [calls EXCEPT ![c] = k]
    BY <1>2, <2>1 DEF RecordUnappliedCapture, Goto
  <2>3. k.op \in {"fileMissing", "fileDuplicate"} /\ k.b = calls[c].b /\ k.o = calls[c].o
    BY <1>0, <2>1 DEF Call
  <2>4. k.o \in attempts'[k.b]
    BY <1>0, <1>2, <2>3 DEF RecordUnappliedCapture, TypeOK, Shapes
  <2>5. ord[k.o].b = k.b /\ ord[k.o].st = "captured" /\ ord' = ord
    BY <1>0, <2>3 DEF RecordUnappliedCapture, Knows, KnowsCapture, CapturedFor
  <2>6. Knows(k)'
    BY <1>0, <2>3, <2>4, <2>5 DEF Knows, KnowsOwner, KnowsCapture, KnowsNoPayment, KnowsRecord,
       KnowsStripe, CapturedFor
  <2> QED
    BY <2>2, <2>6, SlotKnows
<1> QED
  BY <1>1, <1>2

\* A handler that goes on after its await.
LEMMA ResumeKnows ==
    ASSUME TypeOK, OrdersPlaced, [Next]_vars, HandlersKnow, NEW c \in Slots, Resume(c)
    PROVE  HandlersKnow'
<1> USE DEF CallNames, ShowOnly, AboutAnOrder
<1>0. calls[c] \in Call /\ CallNames(calls[c]) /\ Knows(calls[c])
  BY DEF TypeOK, Shapes, HandlersNameRows, HandlersKnow
<1>1. CASE CreateSweep(c)
  <2>1. PICK x \in calls[c].list : Goto(c, [calls[c] EXCEPT !.list = @ \ {x}])
    BY <1>1 DEF CreateSweep
  <2> DEFINE k == [calls[c] EXCEPT !.list = @ \ {x}]
  <2>2. k \in Call /\ CallNames(k) /\ k.op = "sweepThenHold"
    BY <1>0, <1>1 DEF Call, CreateSweep
  <2>3. Knows(k)
    BY <2>2 DEF Knows, KnowsOwner, KnowsCapture, KnowsNoPayment, KnowsRecord, KnowsStripe
  <2> QED
    BY <2>1, <2>2, <2>3, MovesOnKnowing
<1>2. CASE \E m \in Methods, q \in 1..MaxQty, S \in SUBSET Seats, at \in 0..now :
             \E until \in HoldDeadlines(m, at) : CreateHold(c, m, q, S, at, until)
  BY <1>2, CreateHoldKnows
<1>3. CASE ConfirmFree(c)
  <2> DEFINE k == [Idle EXCEPT !.op = "claim", !.b = calls[c].b]
  <2>1. calls[c].b \in Booking /\ status[calls[c].b] # "NONE" /\ method[calls[c].b] # "ONLINE"
    BY <1>0, <1>3 DEF ConfirmFree, Knows, KnowsNoPayment
  <2>2. k \in Call /\ CallNames(k)
    BY <2>1 DEF Call, Idle, Op, PayStatus
  <2>3. Knows(k)
    BY <2>1 DEF Knows, KnowsOwner, KnowsCapture, KnowsNoPayment, KnowsRecord, KnowsStripe, Idle
  <2>4. Goto(c, k)
    BY <1>3 DEF ConfirmFree
  <2> QED
    BY <2>2, <2>3, <2>4, MovesOnKnowing
<1>4. CASE \E o \in Orders : OpenOrder(c, o)
  BY <1>4, OpenOrderKnows
<1>5. CASE ConfirmLost(c)
  <2>1. CASE calls[c].o = NoOrder
    BY <1>5, <2>1, FinishKnows DEF ConfirmLost
  <2>2. CASE calls[c].o # NoOrder
    <3> DEFINE k == [calls[c] EXCEPT !.op = "unapplied"]
    <3>1. calls[c].op = "claim" /\ calls[c].b \in Booking /\ calls[c].o \in CapturedFor(calls[c].b)
      BY <1>0, <1>5, <2>2 DEF ConfirmLost, Knows, KnowsCapture
    <3>2. k \in Call /\ k.op = "unapplied" /\ k.b = calls[c].b /\ k.o = calls[c].o
      BY <1>0 DEF Call, Op
    <3>3. CallNames(k)
      BY <3>1, <3>2 DEF CapturedFor
    <3>4. Knows(k)
      BY <3>1, <3>2 DEF Knows, KnowsOwner, KnowsCapture, KnowsNoPayment, KnowsRecord, KnowsStripe
    <3>5. Goto(c, k)
      BY <1>5, <2>2 DEF ConfirmLost
    <3> QED
      BY <3>2, <3>3, <3>4, <3>5, MovesOnKnowing
  <2> QED
    BY <2>1, <2>2
<1>6. CASE RecordUnappliedCapture(c)
  BY <1>6, RecordKnows
<1>7. CASE GuardClose(c)
  <2> DEFINE k == [calls[c] EXCEPT !.op = "classify"]
  <2>1. calls[c].op = "close" /\ Owns(calls[c].b, calls[c].o)
    BY <1>0, <1>7 DEF GuardClose, Knows, KnowsOwner
  <2>2. k \in Call /\ k.op = "classify" /\ k.b = calls[c].b /\ k.o = calls[c].o
    BY <1>0 DEF Call, Op
  <2>3. CallNames(k)
    BY <1>0, <2>1, <2>2
  <2>4. Knows(k)
    BY <2>1, <2>2 DEF Knows, KnowsOwner, KnowsCapture, KnowsNoPayment, KnowsRecord, KnowsStripe
  <2>5. Goto(c, k)
    BY <1>7 DEF GuardClose
  <2> QED
    BY <2>2, <2>3, <2>4, <2>5, MovesOnKnowing
<1>8. CASE GuardClassify(c)
  <2>1. calls[c].op = "classify" /\ Owns(calls[c].b, calls[c].o) /\ calls[c].b \in Booking
    BY <1>0, <1>8 DEF GuardClassify, Knows, KnowsOwner
  <2>2. CASE ord[calls[c].o].st = "captured" /\ ConfirmRead(c, calls[c].b, calls[c].o, calls[c].o)
    BY <2>1, <2>2, ConfirmReadKnows DEF Owns
  <2>3. CASE NobodyPaid(calls[c].o) /\ Goto(c, [calls[c] EXCEPT !.op = "release"])
    <3> DEFINE k == [calls[c] EXCEPT !.op = "release"]
    <3>1. k \in Call /\ k.op = "release" /\ k.b = calls[c].b /\ k.o = calls[c].o
      BY <1>0 DEF Call, Op
    <3>2. CallNames(k)
      BY <2>1, <3>1
    <3>3. Provider = "stripe" => ord[k.o].st = "closed"
      BY <2>3, <3>1 DEF NobodyPaid
    <3>4. Knows(k)
      BY <3>1, <3>3 DEF Knows, KnowsOwner, KnowsCapture, KnowsNoPayment, KnowsRecord, KnowsStripe
    <3> QED
      BY <2>3, <3>1, <3>2, <3>4, MovesOnKnowing
  <2> QED
    BY <1>8, <2>2, <2>3 DEF GuardClassify
<1>9. CASE \/ ResumeOrder(c) \/ SaveOrder(c) \/ VerifySave(c) \/ CouponSave(c) \/ SaveFailed(c)
           \/ ConfirmClaim(c) \/ FileDiscrepancy(c) \/ SweepRelease(c) \/ ShowOpSave(c)
           \/ CancelShow(c)
  BY <1>9, FinishKnows DEF ResumeOrder, SaveOrder, VerifySave, CouponSave, SaveFailed, ConfirmClaim,
     FileDiscrepancy, SweepRelease, ShowOpSave, CancelShow
<1> QED
  BY <1>1, <1>2, <1>3, <1>4, <1>5, <1>6, <1>7, <1>8, <1>9 DEF Resume

\* A step that leaves the slots alone leaves what they know.
LEMMA OthersKnow ==
    ASSUME TypeOK, [Next]_vars, HandlersKnow, UNCHANGED calls
    PROVE  HandlersKnow'
<1> SUFFICES ASSUME NEW d \in Slots  PROVE Knows(calls[d])'
  BY DEF HandlersKnow
<1>1. calls[d] \in Call /\ CallNames(calls[d]) /\ Knows(calls[d]) /\ calls'[d] = calls[d]
  BY DEF TypeOK, Shapes, HandlersNameRows, CallNames, HandlersKnow
<1> QED
  BY <1>1, KnowledgeKept DEF Knows, KnowsOwner, KnowsCapture, KnowsNoPayment, KnowsRecord, KnowsStripe

LEMMA HandlersKnowStep ==
    ASSUME TypeOK, OrdersPlaced, HandlersKnow, [Next]_vars
    PROVE  HandlersKnow'
<1>1. ASSUME NEW c \in Slots, Arrive(c)  PROVE HandlersKnow'
  BY <1>1, ArriveKnows
<1>2. ASSUME NEW c \in Slots, Resume(c)  PROVE HandlersKnow'
  BY <1>2, ResumeKnows
<1>3. ASSUME NEW c \in Slots, Abandon(c)  PROVE HandlersKnow'
  BY <1>3, FinishKnows DEF Abandon
<1>4. CASE \/ \E b \in Booking : ExtendHold(b) \/ CancelUnpaid(b)
           \/ \E s \in Seats : BlockSeat(s) \/ UnblockSeat(s)
           \/ \E o \in Orders : BuyerPays(o) \/ BuyerIsRefused(o)
           \/ CompleteSession \/ Tick \/ UNCHANGED vars
  BY <1>4, OthersKnow DEF ExtendHold, CancelUnpaid, BlockSeat, UnblockSeat, BuyerPays,
     BuyerIsRefused, CompleteSession, Tick, vars
<1> QED
  BY <1>1, <1>2, <1>3, <1>4 DEF Next

----------------------------------------------------------------------------
(* What is on record.                                                      *)

NothingRecorded ==
    /\ UNCHANGED <<payOrder, payRef, attempts, processed>>
    /\ \A b \in Booking : status'[b] = "CONFIRMED" => status[b] = "CONFIRMED"

LEMMA ExpireRecordsNothing ==
    ASSUME Shapes, NEW b \in Booking, NEW n, ExpireLapsed(b, n), UNCHANGED processed
    PROVE  NothingRecorded
BY DEF Shapes, ExpireLapsed, ReleasePendingBooking, NothingRecorded, bookingVars, payVars

\* The steps that write a payment's order or reference, an attempt, or the outcome
\* of an event.
LEMMA RecordingSteps ==
    ASSUME TypeOK, [Next]_vars
    PROVE  \/ NothingRecorded
           \/ \E c \in Slots : \/ SaveOrder(c) \/ VerifySave(c) \/ ConfirmClaim(c)
                               \/ RecordUnappliedCapture(c) \/ FileDiscrepancy(c)
<1>0. Shapes
  BY DEF TypeOK
<1>1. UNCHANGED <<payOrder, payRef, attempts, processed, status>> => NothingRecorded
  BY DEF NothingRecorded
<1>2. ASSUME NEW c \in Slots, Arrive(c) \/ Abandon(c)
      PROVE  UNCHANGED <<payOrder, payRef, attempts, processed, status>>
  BY <1>2 DEF Arrive, Abandon, CreateCheck, CreateIntent, CollectCash, SweepRead, CouponRead,
     DeliverSuccess, DeliverFailed, VerifyRead, ShowOpRead, bookingVars, payVars, moneyVars
<1>3. ASSUME NEW c \in Slots, Resume(c)
      PROVE  \/ NothingRecorded \/ SaveOrder(c) \/ VerifySave(c) \/ ConfirmClaim(c)
             \/ RecordUnappliedCapture(c) \/ FileDiscrepancy(c)
  <2>0. calls[c] \in Call /\ (calls[c].op \notin ShowOnly => calls[c].b \in Booking)
    BY DEF TypeOK, Shapes, HandlersNameRows
  <2>1. CASE CreateSweep(c)
    <3>1. PICK x \in calls[c].list : ExpireLapsed(x, calls[c].n)
      BY <2>1 DEF CreateSweep
    <3>2. x \in Booking /\ UNCHANGED processed
      BY <2>0, <2>1 DEF Call, CreateSweep, moneyVars
    <3> QED
      BY <1>0, <3>1, <3>2, ExpireRecordsNothing
  <2>2. CASE SweepRelease(c)
    <3>1. ExpireLapsed(calls[c].b, calls[c].n) /\ calls[c].b \in Booking /\ UNCHANGED processed
      BY <2>0, <2>2 DEF SweepRelease, ShowOnly, moneyVars
    <3> QED
      BY <1>0, <3>1, ExpireRecordsNothing
  <2>3. ASSUME NEW m, NEW q, NEW S, NEW at, NEW until, CreateHold(c, m, q, S, at, until)
        PROVE  NothingRecorded
    BY <1>0, <2>3 DEF CreateHold, NothingRecorded, Shapes, moneyVars
  <2>4. CASE CancelShow(c)
    BY <1>0, <2>4 DEF CancelShow, NothingRecorded, Shapes, moneyVars
  <2>5. CASE \/ ConfirmFree(c) \/ ResumeOrder(c) \/ (\E o \in Orders : OpenOrder(c, o))
             \/ CouponSave(c) \/ SaveFailed(c) \/ ConfirmLost(c)
             \/ GuardClose(c) \/ GuardClassify(c) \/ ShowOpSave(c)
    BY <1>1, <2>5 DEF ConfirmFree, ResumeOrder, OpenOrder, CouponSave, SaveFailed, ConfirmLost,
       GuardClose, GuardClassify, ShowOpSave, bookingVars, payVars, moneyVars
  <2> QED
    BY <1>3, <2>1, <2>2, <2>3, <2>4, <2>5 DEF Resume
<1>4. ASSUME NEW b \in Booking, CancelUnpaid(b)  PROVE NothingRecorded
  BY <1>0, <1>4 DEF CancelUnpaid, ReleasePendingBooking, NothingRecorded, Shapes, moneyVars
<1>5. CASE \/ \E b \in Booking : ExtendHold(b)
           \/ \E s \in Seats : BlockSeat(s) \/ UnblockSeat(s)
           \/ \E o \in Orders : BuyerPays(o) \/ BuyerIsRefused(o)
           \/ CompleteSession \/ Tick \/ UNCHANGED vars
  BY <1>1, <1>5 DEF ExtendHold, BlockSeat, UnblockSeat, BuyerPays, BuyerIsRefused, CompleteSession,
     Tick, vars, bookingVars, payVars, moneyVars
<1> QED
  BY <1>1, <1>2, <1>3, <1>4, <1>5 DEF Next

LEMMA OrdersPlacedStep ==
    ASSUME TypeOK, TypeOK', OrdersPlaced, HandlersKnow, [Next]_vars
    PROVE  OrdersPlaced'
<1>0. \A o \in Orders : OrderKept(o)
  BY OrdersKept
<1>1. \A o \in Orders : ord'[o].st = "unused" => ord'[o].b = NoBooking
  BY <1>0 DEF OrderKept, OrdersPlaced
<1>2. \A b \in Booking, o \in Orders : Owns(b, o) => ord'[o].b = b /\ ord'[o].st # "unused"
  BY <1>0 DEF Owns, OrderKept
<1>3. ASSUME NEW b \in Booking, payOrder'[b] # NoOrder
      PROVE  /\ payOrder'[b] \in Orders /\ ord'[payOrder'[b]].b = b
             /\ ord'[payOrder'[b]].st # "unused"
  <2>0. payOrder \in [Booking -> Orders \cup {NoOrder}]
    BY DEF TypeOK, Shapes
  <2>1. CASE payOrder'[b] = payOrder[b]
    <3>1. Owns(b, payOrder[b]) /\ payOrder[b] \in Orders
      BY <1>3, <2>1 DEF OrdersPlaced, Owns
    <3> QED
      BY <1>2, <2>1, <3>1
  <2>2. ASSUME NEW c \in Slots, SaveOrder(c), b = calls[c].b, payOrder'[b] = calls[c].o
        PROVE  /\ payOrder'[b] \in Orders /\ ord'[payOrder'[b]].b = b
               /\ ord'[payOrder'[b]].st # "unused"
    <3>1. Owns(b, calls[c].o) /\ calls[c].o \in Orders
      BY <2>2 DEF SaveOrder, HandlersKnow, Knows, KnowsOwner, Owns
    <3> QED
      BY <1>2, <2>2, <3>1
  <2>3. \/ payOrder'[b] = payOrder[b]
        \/ \E c \in Slots : SaveOrder(c) /\ b = calls[c].b /\ payOrder'[b] = calls[c].o
    BY <2>0, RecordingSteps DEF NothingRecorded, SaveOrder, VerifySave, ConfirmClaim,
       RecordUnappliedCapture, FileDiscrepancy, payVars
  <2> QED
    BY <2>1, <2>2, <2>3
<1> QED
  BY <1>1, <1>3 DEF OrdersPlaced, Owns

\* The invariant about orders and handlers, both parts inductive together.
KnowledgeInv == OrdersPlaced /\ HandlersKnow

LEMMA KnowledgeInductive == /\ Init => KnowledgeInv
                            /\ TypeOK /\ TypeOK' /\ KnowledgeInv /\ [Next]_vars => KnowledgeInv'
<1>1. Init => KnowledgeInv
  <2> SUFFICES ASSUME Init  PROVE KnowledgeInv
    OBVIOUS
  <2>1. OrdersPlaced
    BY DEF Init, OrdersPlaced, NoRow
  <2>2. \A d \in Slots : calls[d] = Idle
    BY DEF Init
  <2>3. Knows(Idle)
    BY DEF Knows, KnowsOwner, KnowsCapture, KnowsNoPayment, KnowsRecord, KnowsStripe, Idle
  <2> QED
    BY <2>1, <2>2, <2>3 DEF KnowledgeInv, HandlersKnow
<1> QED
  BY <1>1, OrdersPlacedStep, HandlersKnowStep DEF KnowledgeInv

LEMMA HandlersAreInformed == Spec => []KnowledgeInv
BY KnowledgeInductive, TypeCorrect, PTL DEF Spec

\* Stripe: whatever buyers, intents and other sweeps do meanwhile, the guard gives
\* a hold back only when the session it asked about can no longer be paid.
THEOREM GuardIsSafe == Spec => []ReleasedCheckoutIsDead
<1>1. KnowledgeInv => ReleasedCheckoutIsDead
  BY DEF KnowledgeInv, HandlersKnow, Knows, KnowsStripe, ReleasedCheckoutIsDead
<1> QED
  BY <1>1, HandlersAreInformed, PTL

LEMMA BackedStep ==
    ASSUME TypeOK, TicketsAreBacked, KnowledgeInv, [Next]_vars
    PROVE  TicketsAreBacked'
<1>0. /\ \A o \in Orders : OrderKept(o)
      /\ \A b \in Booking : BookingKept(b)
  BY OrdersKept, BookingsKept
<1>t. attempts \in [Booking -> SUBSET Orders] /\ status \in [Booking -> BookingStatus]
  BY DEF TypeOK, Shapes
<1>1. \A b \in Booking : CapturedFor(b) \subseteq CapturedFor(b)'
  BY <1>0 DEF CapturedFor, OrderKept
<1>2. ASSUME NEW b \in Booking, NEW o \in attempts'[b]  PROVE o \in CapturedFor(b)'
  <2>1. CASE o \in attempts[b]
    BY <1>1, <2>1 DEF TicketsAreBacked
  <2>2. ASSUME NEW c \in Slots, ConfirmClaim(c) \/ RecordUnappliedCapture(c), b = calls[c].b,
               o = calls[c].o, o # NoOrder
        PROVE  o \in CapturedFor(b)'
    <3>1. o \in CapturedFor(b)
      BY <2>2 DEF ConfirmClaim, RecordUnappliedCapture, KnowledgeInv, HandlersKnow, Knows,
         KnowsCapture
    <3> QED
      BY <1>1, <3>1
  <2>3. \/ o \in attempts[b]
        \/ \E c \in Slots : /\ ConfirmClaim(c) \/ RecordUnappliedCapture(c)
                            /\ b = calls[c].b /\ o = calls[c].o /\ o # NoOrder
    <3>1. CASE NothingRecorded
      BY <1>2, <3>1 DEF NothingRecorded
    <3>2. ASSUME NEW c \in Slots, SaveOrder(c) \/ VerifySave(c) \/ FileDiscrepancy(c)
          PROVE  o \in attempts[b]
      BY <1>2, <3>2 DEF SaveOrder, VerifySave, FileDiscrepancy, payVars
    <3>3. ASSUME NEW c \in Slots, ConfirmClaim(c), o \notin attempts[b]
          PROVE  b = calls[c].b /\ o = calls[c].o /\ o # NoOrder
      BY <1>t, <1>2, <3>3 DEF ConfirmClaim
    <3>4. ASSUME NEW c \in Slots, RecordUnappliedCapture(c), o \notin attempts[b]
          PROVE  b = calls[c].b /\ o = calls[c].o /\ o # NoOrder
      <4>1. calls[c].o # NoOrder
        BY <3>4, ConstAssumption DEF RecordUnappliedCapture, TypeOK, HandlersNameRows, AboutAnOrder
      <4> QED
        BY <1>t, <1>2, <3>4, <4>1 DEF RecordUnappliedCapture
    <3> QED
      BY <3>1, <3>2, <3>3, <3>4, RecordingSteps
  <2> QED
    BY <2>1, <2>2, <2>3
<1>3. ASSUME NEW b \in Booking, status'[b] = "CONFIRMED", method'[b] = "ONLINE"
      PROVE  attempts'[b] # {}
  <2>1. CASE status[b] = "CONFIRMED"
    BY <1>0, <1>3, <2>1 DEF BookingKept, TicketsAreBacked, WithStatus
  <2>2. CASE status[b] # "CONFIRMED"
    <3>1. PICK c \in Slots : ConfirmClaim(c)
      BY <1>3, <2>2, RecordingSteps DEF NothingRecorded, SaveOrder, VerifySave,
         RecordUnappliedCapture, FileDiscrepancy, bookingVars
    <3>2. calls[c].b = b /\ method' = method
      BY <1>t, <1>3, <2>2, <3>1 DEF ConfirmClaim
    <3>3. calls[c].o # NoOrder
      BY <1>3, <3>1, <3>2 DEF ConfirmClaim, KnowledgeInv, HandlersKnow, Knows, KnowsNoPayment
    <3> QED
      BY <1>t, <3>1, <3>2, <3>3 DEF ConfirmClaim
  <2> QED
    BY <2>1, <2>2
<1> QED
  BY <1>2, <1>3 DEF TicketsAreBacked, WithStatus

\* What is on record against a booking is a capture of that very booking, and
\* no online booking is confirmed without one: no event, sweep or counter
\* operation hands out tickets nobody paid for.
THEOREM NoUnpaidTickets == Spec => []TicketsAreBacked
<1>1. Init => TicketsAreBacked
  BY DEF Init, TicketsAreBacked, WithStatus
<1> QED
  BY <1>1, BackedStep, HandlersAreInformed, TypeCorrect, PTL DEF Spec

----------------------------------------------------------------------------
(* No capture vanishes.  A capture is skipped as a redelivery when the     *)
(* payment row names it, so what the row names must be on record.          *)

RefIsRecorded == \A b \in Booking : payRef[b] # NoOrder => payRef[b] \in attempts[b]
ProcessedIsCaptured == \A o \in processed : ord[o].st = "captured"
Recorded == RefIsRecorded /\ ProcessedIsCaptured /\ NoCaptureVanishes

LEMMA RecordedStep ==
    ASSUME Provider = "stripe", TypeOK, KnowledgeInv, Recorded, [Next]_vars
    PROVE  Recorded'
<1>0. /\ \A o \in Orders : OrderKept(o)
      /\ \A b \in Booking : BookingKept(b)
  BY OrdersKept, BookingsKept
<1>t. /\ attempts \in [Booking -> SUBSET Orders] /\ payRef \in [Booking -> Orders \cup {NoOrder}]
      /\ processed \subseteq Orders /\ ord \in [Orders -> OrderRow]
  BY DEF TypeOK, Shapes
<1>c. \A c \in Slots : calls[c] \in Call
  BY DEF TypeOK, Shapes
<1>n. \A c \in Slots : ~VerifySave(c)
  BY DEF VerifySave, KnowledgeInv, HandlersKnow, Knows, KnowsStripe
<1>1. ASSUME NEW b \in Booking, payRef'[b] # NoOrder  PROVE payRef'[b] \in attempts'[b]
  <2>1. CASE payRef'[b] = payRef[b]
    BY <1>0, <1>1, <2>1 DEF BookingKept, Recorded, RefIsRecorded
  <2>2. CASE payRef'[b] # payRef[b]
    <3>1. PICK c \in Slots : SaveOrder(c) \/ ConfirmClaim(c)
      BY <1>n, <2>2, RecordingSteps DEF NothingRecorded, RecordUnappliedCapture, FileDiscrepancy,
         payVars
    <3>2. CASE SaveOrder(c)
      BY <1>t, <1>1, <2>2, <3>2 DEF SaveOrder
    <3>3. CASE ConfirmClaim(c)
      BY <1>t, <1>1, <2>2, <3>3 DEF ConfirmClaim
    <3> QED
      BY <3>1, <3>2, <3>3
  <2> QED
    BY <2>1, <2>2
<1>2. ASSUME NEW o \in processed'
      PROVE  \E b \in Booking : o \in CapturedFor(b) /\ o \in attempts'[b]
  <2>1. CASE o \in processed
    <3>1. o \in Orders /\ ord[o].st = "captured" /\ o \in attempts[ord[o].b]
      BY <1>t, <2>1 DEF Recorded, ProcessedIsCaptured, NoCaptureVanishes
    <3>2. ord[o].b \in Booking
      BY <3>1 DEF TypeOK, HandlersNameRows
    <3> QED
      BY <1>0, <3>1, <3>2 DEF BookingKept, CapturedFor
  <2>2. CASE o \notin processed
    <3>1. PICK c \in Slots : ConfirmClaim(c) \/ RecordUnappliedCapture(c) \/ FileDiscrepancy(c)
      BY <1>n, <1>2, <2>2, RecordingSteps DEF NothingRecorded, SaveOrder, moneyVars
    <3>2. o = calls[c].o /\ o \in Orders
      <4>1. o = calls[c].o
        BY <1>2, <2>2, <3>1 DEF ConfirmClaim, RecordUnappliedCapture, FileDiscrepancy
      <4>2. CASE ConfirmClaim(c)
        BY <1>2, <2>2, <4>1, <4>2, <1>c DEF ConfirmClaim, Call
      <4>3. CASE RecordUnappliedCapture(c) \/ FileDiscrepancy(c)
        BY <4>1, <4>3 DEF RecordUnappliedCapture, FileDiscrepancy, TypeOK, HandlersNameRows,
           AboutAnOrder
      <4> QED
        BY <3>1, <4>1, <4>2, <4>3
    <3>3. calls[c].b \in Booking /\ o # NoOrder
      BY <3>1, <3>2, ConstAssumption DEF ConfirmClaim, RecordUnappliedCapture, FileDiscrepancy,
         TypeOK, HandlersNameRows, ShowOnly
    <3>4. o \in CapturedFor(calls[c].b)
      BY <3>1, <3>2, <3>3 DEF ConfirmClaim, RecordUnappliedCapture, FileDiscrepancy, KnowledgeInv,
         HandlersKnow, Knows, KnowsCapture
    <3>5. o \in attempts'[calls[c].b]
      <4>1. CASE ConfirmClaim(c)
        BY <1>t, <3>2, <3>3, <4>1 DEF ConfirmClaim
      <4>2. CASE RecordUnappliedCapture(c)
        <5>1. Redelivery(calls[c].b, o) => o \in attempts[calls[c].b]
          BY <3>3 DEF Redelivery, Applied, Recorded, RefIsRecorded
        <5> QED
          BY <1>t, <1>2, <2>2, <3>2, <3>3, <4>2, <5>1 DEF RecordUnappliedCapture
      <4>3. CASE FileDiscrepancy(c)
        BY <3>2, <4>3 DEF FileDiscrepancy, KnowledgeInv, HandlersKnow, Knows, KnowsRecord, payVars
      <4> QED
        BY <3>1, <4>1, <4>2, <4>3
    <3> QED
      BY <3>3, <3>4, <3>5
  <2> QED
    BY <2>1, <2>2
<1>3. ASSUME NEW o \in processed'
      PROVE  ord'[o].st = "captured" /\ o \in attempts'[ord'[o].b]
  <2>1. PICK b \in Booking : o \in CapturedFor(b) /\ o \in attempts'[b]
    BY <1>2, <1>3
  <2>2. o \in Orders /\ ord'[o].st = "captured" /\ ord'[o].b = b
    BY <1>0, <2>1 DEF CapturedFor, OrderKept
  <2> QED
    BY <2>1, <2>2
<1> QED
  BY <1>1, <1>3 DEF Recorded, RefIsRecorded, ProcessedIsCaptured, NoCaptureVanishes

\* Stripe: a success event that was processed without an error has left a
\* SUCCEEDED attempt, however many sessions a booking opened and however often and
\* late their events are delivered.
THEOREM CapturesAreOnRecord == Provider = "stripe" => (Spec => []NoCaptureVanishes)
<1> SUFFICES ASSUME Provider = "stripe"  PROVE Spec => []NoCaptureVanishes
  OBVIOUS
<1>1. Init => Recorded
  BY DEF Init, Recorded, RefIsRecorded, ProcessedIsCaptured, NoCaptureVanishes
<1>2. TypeOK /\ KnowledgeInv /\ Recorded /\ [Next]_vars => Recorded'
  BY RecordedStep
<1>3. Recorded => NoCaptureVanishes
  BY DEF Recorded
<1> QED
  BY <1>1, <1>2, <1>3, HandlersAreInformed, TypeCorrect, PTL DEF Spec

=============================================================================
