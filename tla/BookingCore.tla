---------------------------- MODULE BookingCore ----------------------------
(***************************************************************************)
(* One session on sale: its bookings, the stock they hold, the Payment row *)
(* of each, the orders opened at the payment provider, and every handler   *)
(* that changes them (apps/api/src/bookings, payments, inventory, shows).  *)
(*                                                                         *)
(* A handler that reads, awaits and then writes is split at each await:    *)
(* calls[c] is what the handler in slot c carries across the await.  A     *)
(* Prisma $transaction, and a single conditional UPDATE, is one step.      *)
(***************************************************************************)
EXTENDS Integers, FiniteSets

CONSTANTS
    Booking,            \* booking ids; create() makes each at most once
    Seats,              \* the ShowSeat rows of the session; {} for general admission
    Orders,             \* provider orders (Razorpay) or checkout sessions (Stripe)
    Slots,              \* handlers that may be running at once, over all replicas
    Provider,           \* the gateway bookings are routed to
    Capacity,           \* TicketInventory.quantityTotal
    MaxQty,             \* units in one booking
    Methods,            \* how bookings are paid
    Price,              \* totalMinor of a booking that is not free
    CouponPrices,       \* totals a discount code re-prices to
    HoldTime,           \* BOOKING_HOLD_MINUTES, in ticks
    MaxHoldExtensions,
    StartsAt,           \* the session's start, in ticks
    MaxTime,            \* bound on the clock
    ShowOps,            \* what the organizer does to the show or its seats
    NoBooking, NoOrder

Providers == {"razorpay", "stripe"}
PayMethods == {"ONLINE", "CASH", "FREE"}
Operations == {"pause", "reopen", "cancel", "block"}
Total == {0, Price} \cup CouponPrices

ASSUME ConstAssumption ==
    /\ Provider \in Providers
    /\ Methods \subseteq PayMethods
    /\ ShowOps \subseteq Operations
    /\ Capacity \in Nat /\ MaxQty \in Nat /\ MaxTime \in Nat
    /\ HoldTime \in Nat /\ StartsAt \in Nat /\ MaxHoldExtensions \in Nat
    /\ Price \in Nat \ {0} /\ CouponPrices \subseteq Nat
    /\ NoBooking \notin Booking /\ NoOrder \notin Orders

ASSUME FiniteAssumption == IsFiniteSet(Booking) /\ IsFiniteSet(Seats)

VARIABLES
    now,                \* the clock
    session,            \* EventSession.status
    held, sold,         \* TicketInventory.quantityHeld, quantitySold
    seat,               \* ShowSeat rows: status, holdBookingId, holdExpiresAt
    status,             \* Booking.status ("NONE": not created)
    method, qty,        \* Booking.paymentMethod (and free), units over its items
    hold, ext, total,   \* Booking.holdExpiresAt, holdExtensions, totalMinor
    issued,             \* how many tickets have been created for the booking
    ticketSeats,        \* the seats those tickets name
    pay,                \* Payment.status ("NONE": no row)
    payOrder,           \* Payment.providerOrderId
    payRef,             \* the order whose capture Payment.providerRef names
    attempts,           \* SUCCEEDED PaymentAttempt rows: captures, by order
    filed,              \* OPEN finance discrepancies: <<type, capture>>
    ord,                \* the provider's own state
    processed,          \* captures whose event was processed without an error
    calls               \* handlers in flight

bookingVars == <<status, method, qty, hold, ext, total>>
ticketVars  == <<issued, ticketSeats>>
stockVars   == <<held, sold, seat>>
payVars     == <<pay, payOrder, payRef, attempts>>
moneyVars   == <<filed, processed>>
showVars    == <<now, session>>
vars == <<bookingVars, ticketVars, stockVars, payVars, moneyVars, ord, showVars, calls>>

----------------------------------------------------------------------------
(* Handlers in flight.                                                     *)

Op == {"idle", "sweepThenHold", "confirmFree", "openOrder", "saveOrder", "claim",
       "unapplied", "fileMissing", "fileDuplicate", "saveFailed", "saveVerified",
       "saveCoupon", "close", "classify", "release", "pause", "reopen", "cancel"}

PayStatus == {"NONE", "REQUIRES_PAYMENT", "PROCESSING", "SUCCEEDED", "FAILED"}

Call == [op: Op, b: Booking \cup {NoBooking}, o: Orders \cup {NoOrder}, n: Nat,
         pay: PayStatus, list: SUBSET Booking]

Idle == [op |-> "idle", b |-> NoBooking, o |-> NoOrder, n |-> 0, pay |-> "NONE", list |-> {}]

Begin(c, call) == calls[c] = Idle /\ calls' = [calls EXCEPT ![c] = call]
Goto(c, call)  == calls' = [calls EXCEPT ![c] = call]
Finish(c)      == calls' = [calls EXCEPT ![c] = Idle]

----------------------------------------------------------------------------
(* Inventory strategies (inventory.forSeating): the same four operations   *)
(* on the counter, and for a seated session on the ShowSeat rows as well.  *)

SeatBased == Seats # {}
Max0(x) == IF x < 0 THEN 0 ELSE x
HeldSeats(b) == {s \in Seats : seat[s].st = "HELD" /\ seat[s].by = b}
FreeSeat == [st |-> "AVAILABLE", by |-> NoBooking, until |-> 0]

\* The units (one ticket each) of a set of bookings.
Units(B) == {u \in B \X (1..MaxQty) : u[2] <= qty[u[1]]}

\* The WHERE clauses of the two conditional updates: nothing less than free
\* stock may be held, and a miss rolls the whole booking back.
EnoughStockIgnoringHolds(q) == Capacity - sold >= q
SeatsNotHeld(S) == \A s \in S : seat[s].st # "HELD"

EnoughStock(q) == Capacity - sold - held >= q
SeatsFree(S) == \A s \in S : seat[s].st = "AVAILABLE"

ReserveStock(b, q, S, until) ==
    /\ IF SeatBased
       THEN S # {} /\ q = Cardinality(S) /\ SeatsFree(S)
       ELSE S = {} /\ EnoughStock(q)
    /\ seat' = [s \in Seats |->
                  IF s \in S THEN [st |-> "HELD", by |-> b, until |-> until] ELSE seat[s]]
    /\ held' = held + q
    /\ UNCHANGED sold

HoldsSomeSeat(b) == SeatBased => HeldSeats(b) # {}

\* A seated booking must still hold every seat it booked.
HoldsEverySeat(b) == SeatBased => Cardinality(HeldSeats(b)) = qty[b]

\* held -> sold.
ConfirmStock(b) ==
    /\ HoldsEverySeat(b)
    /\ seat' = [s \in Seats |->
                  IF s \in HeldSeats(b) THEN [seat[s] EXCEPT !.st = "SOLD"] ELSE seat[s]]
    /\ held' = Max0(held - qty[b])
    /\ sold' = sold + qty[b]

ReleaseStock(b) ==
    /\ seat' = [s \in Seats |-> IF s \in HeldSeats(b) THEN FreeSeat ELSE seat[s]]
    /\ held' = Max0(held - qty[b])
    /\ UNCHANGED sold

----------------------------------------------------------------------------
(* releasePendingBooking: the claim, then what only its winner may do.     *)

StillPendingOrExpired(b) == status[b] \in {"PENDING_PAYMENT", "EXPIRED"}
StillPendingOrPaid(b) == status[b] \in {"PENDING_PAYMENT", "CONFIRMED"}

StillPending(b) == status[b] = "PENDING_PAYMENT"

ReleasePendingBooking(b, outcome) ==
    /\ StillPending(b)
    /\ status' = [status EXCEPT ![b] = outcome]
    /\ ReleaseStock(b)
    /\ pay' = [pay EXCEPT ![b] = IF @ = "REQUIRES_PAYMENT" THEN "FAILED" ELSE @]
    /\ UNCHANGED <<method, qty, hold, ext, total, payOrder, payRef, attempts>>

\* A sweep also requires that the hold is still lapsed, by the time it read.
\* A claim that matches nothing changes nothing.
ExpireLapsed(b, lapsedBefore) ==
    \/ hold[b] < lapsedBefore /\ ReleasePendingBooking(b, "EXPIRED")
    \/ ~(StillPending(b) /\ hold[b] < lapsedBefore) /\ UNCHANGED <<bookingVars, stockVars, payVars>>

Lapsed(b) == status[b] = "PENDING_PAYMENT" /\ hold[b] < now
NeedsProviderCheck(b) == pay[b] = "PROCESSING" /\ payOrder[b] # NoOrder
Selling == session = "SCHEDULED" /\ now < StartsAt

----------------------------------------------------------------------------
(* BookingsService                                                         *)

\* create(), up to its own lazy sweep: the candidates are read once, and the
\* ones that reached the gateway are left for the worker.
CreateCheck(c, b) ==
    /\ status[b] = "NONE" /\ Selling
    /\ Begin(c, [Idle EXCEPT !.op = "sweepThenHold", !.b = b, !.n = now,
                    !.list = {x \in Booking : Lapsed(x) /\ ~NeedsProviderCheck(x)}])
    /\ UNCHANGED <<bookingVars, ticketVars, stockVars, payVars, moneyVars, ord, showVars>>

\* One candidate of that sweep: released if the claim still matches.
CreateSweep(c) ==
    /\ calls[c].op = "sweepThenHold"
    /\ \E x \in calls[c].list :
         /\ Goto(c, [calls[c] EXCEPT !.list = @ \ {x}])
         /\ ExpireLapsed(x, calls[c].n)
    /\ UNCHANGED <<ticketVars, moneyVars, ord, showVars>>

\* A reservation to be paid at the venue is held until the show starts; a sale
\* made at the counter, cash or not, is held like any other.
HoldDeadlines(m, at) == {at + HoldTime} \cup {t \in {StartsAt} : m = "CASH"}

\* The hold transaction: booking, payment row and stock together or not at all.
\* The hold runs from a time read after that sweep, a little before the commit.
CreateHold(c, m, q, S, at, until) ==
    /\ calls[c].op = "sweepThenHold" /\ calls[c].list = {} /\ calls[c].n <= at
    /\ until \in HoldDeadlines(m, at)
    /\ LET b == calls[c].b
       IN  /\ status[b] = "NONE"
           /\ ReserveStock(b, q, S, until)
           /\ status' = [status EXCEPT ![b] = "PENDING_PAYMENT"]
           /\ method' = [method EXCEPT ![b] = m]
           /\ qty' = [qty EXCEPT ![b] = q]
           /\ hold' = [hold EXCEPT ![b] = until]
           /\ total' = [total EXCEPT ![b] = IF m = "FREE" THEN 0 ELSE Price]
           /\ pay' = [pay EXCEPT ![b] = IF m = "ONLINE" THEN "REQUIRES_PAYMENT" ELSE "NONE"]
           /\ IF m = "FREE"
              THEN Goto(c, [Idle EXCEPT !.op = "confirmFree", !.b = b])
              ELSE Finish(c)
    /\ UNCHANGED <<ext, ticketVars, payOrder, payRef, attempts, moneyVars, ord, showVars>>

MayExtendUncapped(b) ==
    status[b] = "PENDING_PAYMENT" /\ method[b] # "CASH" /\ hold[b] > now

MayExtend(b) ==
    /\ status[b] = "PENDING_PAYMENT" /\ method[b] # "CASH"
    /\ hold[b] > now /\ ext[b] < MaxHoldExtensions

MoveNoDeadline(b, until) == UNCHANGED seat

MoveSeatDeadlines(b, until) ==
    seat' = [s \in Seats |->
               IF s \in HeldSeats(b) THEN [seat[s] EXCEPT !.until = until] ELSE seat[s]]

\* extendHold: the cap is in the conditional update.  The seats carry a copy of
\* the deadline, moved in the same transaction.
ExtendHold(b) ==
    /\ MayExtend(b)
    /\ hold' = [hold EXCEPT ![b] = now + HoldTime]
    /\ ext' = [ext EXCEPT ![b] = @ + 1]
    /\ MoveSeatDeadlines(b, now + HoldTime)
    /\ UNCHANGED <<status, method, qty, total, held, sold, ticketVars, payVars, moneyVars,
                   ord, showVars, calls>>

\* cancelUnpaid, cancelUnpaidAsGuest, releaseCounterSale: no lapse is required.
CancelUnpaid(b) ==
    /\ ReleasePendingBooking(b, "CANCELLED")
    /\ UNCHANGED <<ticketVars, moneyVars, ord, showVars, calls>>

\* applyCoupon reads the booking and its payment, prices, and then writes by id.
CouponRead(c, b, p) ==
    /\ status[b] = "PENDING_PAYMENT" /\ method[b] # "FREE" /\ p # total[b]
    /\ pay[b] = "NONE" \/ (pay[b] = "REQUIRES_PAYMENT" /\ payOrder[b] = NoOrder)
    /\ Begin(c, [Idle EXCEPT !.op = "saveCoupon", !.b = b, !.n = p])
    /\ UNCHANGED <<bookingVars, ticketVars, stockVars, payVars, moneyVars, ord, showVars>>

CouponSave(c) ==
    /\ calls[c].op = "saveCoupon"
    /\ total' = [total EXCEPT ![calls[c].b] = calls[c].n]
    /\ Finish(c)
    /\ UNCHANGED <<status, method, qty, hold, ext, ticketVars, stockVars, payVars, moneyVars,
                   ord, showVars>>

----------------------------------------------------------------------------
(* PaymentsService.createIntent and RazorpayOrderService.createOrder       *)

CreateIntent(c, b) ==
    /\ status[b] = "PENDING_PAYMENT" /\ method[b] = "ONLINE"
    /\ hold[b] >= now /\ Selling
    /\ Begin(c, [Idle EXCEPT !.op = "openOrder", !.b = b, !.n = total[b],
                             !.pay = pay[b], !.o = payOrder[b]])
    /\ UNCHANGED <<bookingVars, ticketVars, stockVars, payVars, moneyVars, ord, showVars>>

\* The payment row each branch trusts: Razorpay re-reads it, Stripe uses the
\* copy that came with the booking.
OpenCheckout(c) ==
    LET b == calls[c].b
    IN IF Provider = "razorpay"
       THEN IF NeedsProviderCheck(b) THEN payOrder[b] ELSE NoOrder
       ELSE IF calls[c].pay = "PROCESSING" THEN calls[c].o ELSE NoOrder

\* "One payable checkout per booking": an open one is handed back.
Resumable(c) ==
    /\ OpenCheckout(c) # NoOrder
    /\ Provider = "stripe" => ord[OpenCheckout(c)].st = "open"

ResumeOrder(c) ==
    /\ calls[c].op = "openOrder" /\ Resumable(c)
    /\ Finish(c)
    /\ UNCHANGED <<bookingVars, ticketVars, stockVars, payVars, moneyVars, ord, showVars>>

\* Stripe replays the session of an idempotency key; the deadline in the key
\* moves with the clock.  Razorpay opens a new order on every call.
Replayed(b) == {o \in Orders : Provider = "stripe" /\ ord[o].b = b /\ ord[o].key = now}

OpenOrder(c, o) ==
    /\ calls[c].op = "openOrder" /\ ~Resumable(c)
    /\ LET b == calls[c].b
       IN  \/ /\ o \in Replayed(b) /\ ord[o].amount = calls[c].n
              /\ UNCHANGED ord
           \/ /\ Replayed(b) = {} /\ ord[o].st = "unused"
              /\ ord' = [ord EXCEPT ![o] = [st |-> "created", b |-> b, amount |-> calls[c].n,
                                            key |-> IF Provider = "stripe" THEN now ELSE 0,
                                            failed |-> FALSE]]
    /\ Goto(c, [calls[c] EXCEPT !.op = "saveOrder", !.o = o])
    /\ UNCHANGED <<bookingVars, ticketVars, stockVars, payVars, moneyVars, showVars>>

\* Written by booking id whatever the row has become; only then does the buyer
\* get the checkout.
SaveOrder(c) ==
    /\ calls[c].op = "saveOrder"
    /\ LET b == calls[c].b
           o == calls[c].o
       IN  /\ pay' = [pay EXCEPT ![b] = "PROCESSING"]
           /\ payOrder' = [payOrder EXCEPT ![b] = o]
           /\ payRef' = [payRef EXCEPT ![b] = NoOrder]
           /\ ord' = [ord EXCEPT ![o].st = IF @ = "created" THEN "open" ELSE @]
    /\ Finish(c)
    /\ UNCHANGED <<bookingVars, ticketVars, stockVars, attempts, moneyVars, showVars>>

\* RazorpayOrderService.verify: the browser's signed answer, checked against the
\* order read with the booking; it names the payment and never confirms.
VerifyRead(c, o) ==
    /\ Provider = "razorpay" /\ ord[o].st = "captured"
    /\ status[ord[o].b] # "CONFIRMED" /\ payOrder[ord[o].b] = o
    /\ Begin(c, [Idle EXCEPT !.op = "saveVerified", !.b = ord[o].b, !.o = o])
    /\ UNCHANGED <<bookingVars, ticketVars, stockVars, payVars, moneyVars, ord, showVars>>

VerifySave(c) ==
    /\ calls[c].op = "saveVerified"
    /\ payRef' = [payRef EXCEPT ![calls[c].b] = calls[c].o]
    /\ Finish(c)
    /\ UNCHANGED <<bookingVars, ticketVars, stockVars, pay, payOrder, attempts, moneyVars,
                   ord, showVars>>

----------------------------------------------------------------------------
(* PaymentsService.confirm                                                 *)

\* What confirm decides from the booking it reads: set the capture aside, or go
\* for the claim.  A wrong amount, or a checkout this booking did not open, throws.
ConfirmRead(c, b, o, checkout) ==
    \/ /\ status[b] # "PENDING_PAYMENT" \/ session # "SCHEDULED"
       /\ Goto(c, [Idle EXCEPT !.op = "unapplied", !.b = b, !.o = o])
    \/ /\ status[b] = "PENDING_PAYMENT" /\ session = "SCHEDULED"
       /\ ord[o].amount = total[b]
       /\ checkout = NoOrder \/ payOrder[b] \in {NoOrder, checkout}
       /\ Goto(c, [Idle EXCEPT !.op = "claim", !.b = b, !.o = o])

\* A signed success event, delivered any number of times.  Stripe reports the
\* checkout session on some of its events; Razorpay never does.
DeliverSuccess(c, o, checkout) ==
    /\ ord[o].st = "captured" /\ calls[c] = Idle
    /\ checkout \in IF Provider = "stripe" THEN {o, NoOrder} ELSE {NoOrder}
    /\ ConfirmRead(c, ord[o].b, o, checkout)
    /\ UNCHANGED <<bookingVars, ticketVars, stockVars, payVars, moneyVars, ord, showVars>>

AwaitsPayment(b) == status[b] = "PENDING_PAYMENT"

AwaitsCash(b) == method[b] = "CASH" /\ status[b] = "PENDING_PAYMENT"

\* collectCash: the amount is the booking's own, and there is no payment row.
CollectCash(c, b) ==
    /\ AwaitsCash(b) /\ session = "SCHEDULED"
    /\ Begin(c, [Idle EXCEPT !.op = "claim", !.b = b])
    /\ UNCHANGED <<bookingVars, ticketVars, stockVars, payVars, moneyVars, ord, showVars>>

\* confirmFreeBooking, called by create(): the total is read again and must be 0.
ConfirmFree(c) ==
    /\ calls[c].op = "confirmFree"
    /\ LET b == calls[c].b
       IN  /\ total[b] = 0 /\ status[b] = "PENDING_PAYMENT" /\ session = "SCHEDULED"
           /\ Goto(c, [Idle EXCEPT !.op = "claim", !.b = b])
    /\ UNCHANGED <<bookingVars, ticketVars, stockVars, payVars, moneyVars, ord, showVars>>

ClaimsBookingAgain(b) == status[b] \in {"PENDING_PAYMENT", "CONFIRMED"}

ClaimsBooking(b) == status[b] = "PENDING_PAYMENT"

\* The confirm transaction.  Only the delivery that moves the booking off
\* PENDING_PAYMENT settles stock and issues tickets.
ConfirmClaim(c) ==
    /\ calls[c].op = "claim"
    /\ LET b == calls[c].b
           o == calls[c].o
       IN  /\ ClaimsBooking(b)
           /\ status' = [status EXCEPT ![b] = "CONFIRMED"]
           /\ ConfirmStock(b)
           /\ issued' = [issued EXCEPT ![b] = @ + qty[b]]
           /\ ticketSeats' = [ticketSeats EXCEPT ![b] = @ \cup HeldSeats(b)]
           /\ IF o = NoOrder
              THEN UNCHANGED <<pay, payRef, attempts, processed>>
              ELSE /\ pay' = [pay EXCEPT ![b] = "SUCCEEDED"]
                   /\ payRef' = [payRef EXCEPT ![b] = o]
                   /\ attempts' = [attempts EXCEPT ![b] = @ \cup {o}]
                   /\ processed' = processed \cup {o}
    /\ Finish(c)
    /\ UNCHANGED <<method, qty, hold, ext, total, payOrder, filed, ord, showVars>>

\* The claim matched nothing: a capture still has to be accounted for.
ConfirmLost(c) ==
    /\ calls[c].op = "claim" /\ status[calls[c].b] # "PENDING_PAYMENT"
    /\ IF calls[c].o = NoOrder THEN Finish(c) ELSE Goto(c, [calls[c] EXCEPT !.op = "unapplied"])
    /\ UNCHANGED <<bookingVars, ticketVars, stockVars, payVars, moneyVars, ord, showVars>>

\* recordUnappliedCapture: the capture the row names is a redelivery, one with
\* an attempt was seen before, and anything else is recorded and then filed.
Applied(b, o) == pay[b] = "SUCCEEDED" /\ payRef[b] = o

AnythingOnPaidBooking(b, o) == pay[b] = "SUCCEEDED" \/ o \in attempts[b]

Redelivery(b, o) == Applied(b, o) \/ o \in attempts[b]

RecordUnappliedCapture(c) ==
    /\ calls[c].op = "unapplied"
    /\ LET b == calls[c].b
           o == calls[c].o
           unpayable == pay[b] # "SUCCEEDED"
       IN  IF Redelivery(b, o)
           THEN /\ processed' = processed \cup {o}
                /\ Finish(c)
                /\ UNCHANGED attempts
           ELSE /\ attempts' = [attempts EXCEPT ![b] = @ \cup {o}]
                /\ Goto(c, [calls[c] EXCEPT !.op = IF unpayable THEN "fileMissing"
                                                                ELSE "fileDuplicate"])
                /\ UNCHANGED processed
    /\ UNCHANGED <<bookingVars, ticketVars, stockVars, pay, payOrder, payRef, filed, ord, showVars>>

FileDiscrepancy(c) ==
    /\ calls[c].op \in {"fileMissing", "fileDuplicate"}
    /\ LET type == IF calls[c].op = "fileMissing" THEN "PAYMENT_MISSING_INTERNALLY"
                                                  ELSE "DUPLICATE_CAPTURE"
       IN  filed' = filed \cup {<<type, calls[c].o>>}
    /\ processed' = processed \cup {calls[c].o}
    /\ Finish(c)
    /\ UNCHANGED <<bookingVars, ticketVars, stockVars, payVars, ord, showVars>>

----------------------------------------------------------------------------
(* PaymentsService.fail: a refused attempt.  The order stays payable.      *)

DeliverFailed(c, o) ==
    /\ ord[o].failed /\ status[ord[o].b] # "CONFIRMED"
    /\ Begin(c, [Idle EXCEPT !.op = "saveFailed", !.b = ord[o].b, !.o = o])
    /\ UNCHANGED <<bookingVars, ticketVars, stockVars, payVars, moneyVars, ord, showVars>>

SaveFailed(c) ==
    /\ calls[c].op = "saveFailed"
    /\ pay' = [pay EXCEPT ![calls[c].b] = "FAILED"]
    /\ Finish(c)
    /\ UNCHANGED <<bookingVars, ticketVars, stockVars, payOrder, payRef, attempts, moneyVars,
                   ord, showVars>>

----------------------------------------------------------------------------
(* The worker's expiry sweep and PendingPaymentRecoveryService.guardExpiry *)

\* A candidate and its payment are read together; lapsedBefore is this moment.
SweepRead(c, b) ==
    /\ Lapsed(b)
    /\ Begin(c, [Idle EXCEPT !.op = IF NeedsProviderCheck(b) THEN "close" ELSE "release",
                             !.b = b, !.n = now,
                             !.o = IF NeedsProviderCheck(b) THEN payOrder[b] ELSE NoOrder])
    /\ UNCHANGED <<bookingVars, ticketVars, stockVars, payVars, moneyVars, ord, showVars>>

\* closeCheckout.  Razorpay has no closeOrder, which counts as shut.
GuardClose(c) ==
    /\ calls[c].op = "close"
    /\ IF Provider = "stripe"
       THEN ord' = [ord EXCEPT ![calls[c].o].st = IF @ = "open" THEN "closed" ELSE @]
       ELSE UNCHANGED ord
    /\ Goto(c, [calls[c] EXCEPT !.op = "classify"])
    /\ UNCHANGED <<bookingVars, ticketVars, stockVars, payVars, moneyVars, showVars>>

\* classifyOrder: a capture goes through the confirm path, "nobody paid" lets
\* the hold go.  Stripe says so only of a session that has expired.
SessionNotOpen(o) == ord[o].st # "open"

OpenOrderUnpaid(o) == ord[o].st = "open" /\ Provider = "razorpay"

NobodyPaid(o) == ord[o].st = "closed" \/ (ord[o].st = "open" /\ Provider = "razorpay")

GuardClassify(c) ==
    /\ calls[c].op = "classify"
    /\ LET b == calls[c].b
           o == calls[c].o
       IN  \/ ord[o].st = "captured" /\ ConfirmRead(c, b, o, o)
           \/ NobodyPaid(o) /\ Goto(c, [calls[c] EXCEPT !.op = "release"])
    /\ UNCHANGED <<bookingVars, ticketVars, stockVars, payVars, moneyVars, ord, showVars>>

SweepRelease(c) ==
    /\ calls[c].op = "release"
    /\ ExpireLapsed(calls[c].b, calls[c].n)
    /\ Finish(c)
    /\ UNCHANGED <<ticketVars, moneyVars, ord, showVars>>

----------------------------------------------------------------------------
(* ShowsService: authorizeOperation reads the status, the write is by id.  *)

ShowOpRead(c, op) ==
    /\ op \in ShowOps
    /\ \/ op = "pause" /\ session = "SCHEDULED" /\ now < StartsAt
       \/ op = "reopen" /\ session = "PAUSED" /\ now < StartsAt
       \/ op = "cancel" /\ session \in {"SCHEDULED", "PAUSED"}
    /\ Begin(c, [Idle EXCEPT !.op = op])
    /\ UNCHANGED <<bookingVars, ticketVars, stockVars, payVars, moneyVars, ord, showVars>>

ShowOpSave(c) ==
    /\ calls[c].op \in {"pause", "reopen"}
    /\ session' = IF calls[c].op = "pause" THEN "PAUSED" ELSE "SCHEDULED"
    /\ Finish(c)
    /\ UNCHANGED <<bookingVars, ticketVars, stockVars, payVars, moneyVars, ord, now>>

\* cancelShow's transaction: every unpaid booking is expired with it, and no
\* seat that is not sold stays on sale.
CancelShow(c) ==
    /\ calls[c].op = "cancel"
    /\ session' = "CANCELLED"
    /\ LET unpaid == {b \in Booking : status[b] = "PENDING_PAYMENT"}
       IN  /\ status' = [b \in Booking |-> IF b \in unpaid THEN "EXPIRED" ELSE status[b]]
           /\ pay' = [b \in Booking |-> IF b \in unpaid /\ pay[b] = "REQUIRES_PAYMENT"
                                        THEN "FAILED" ELSE pay[b]]
           /\ held' = Max0(held - Cardinality(Units(unpaid)))
    /\ seat' = [s \in Seats |-> IF seat[s].st \in {"AVAILABLE", "HELD"}
                                THEN [FreeSeat EXCEPT !.st = "UNAVAILABLE"] ELSE seat[s]]
    /\ Finish(c)
    /\ UNCHANGED <<method, qty, hold, ext, total, sold, ticketVars, payOrder, payRef, attempts,
                   moneyVars, ord, now>>

\* completePastEvents retires a session that is over.
CompleteSession ==
    /\ session \in {"SCHEDULED", "PAUSED"} /\ now > StartsAt
    /\ session' = "COMPLETED"
    /\ UNCHANGED <<bookingVars, ticketVars, stockVars, payVars, moneyVars, ord, now, calls>>

\* blockSeats: free seats, and held ones whose own deadline has passed.
BlockSeat(s) ==
    /\ "block" \in ShowOps
    /\ seat[s].st = "AVAILABLE" \/ (seat[s].st = "HELD" /\ seat[s].until <= now)
    /\ seat' = [seat EXCEPT ![s] = [FreeSeat EXCEPT !.st = "BLOCKED"]]
    /\ UNCHANGED <<bookingVars, ticketVars, held, sold, payVars, moneyVars, ord, showVars, calls>>

\* releaseSeats and expireLapsedOverrides put back only what is still blocked.
UnblockSeat(s) ==
    /\ seat[s].st = "BLOCKED"
    /\ seat' = [seat EXCEPT ![s] = FreeSeat]
    /\ UNCHANGED <<bookingVars, ticketVars, held, sold, payVars, moneyVars, ord, showVars, calls>>

----------------------------------------------------------------------------
(* The environment: buyers at the gateway, the clock, and handlers that    *)
(* throw, cannot reach the provider, or die with their process.            *)

BuyerPays(o) ==
    /\ ord[o].st = "open"
    /\ ord' = [ord EXCEPT ![o].st = "captured"]
    /\ UNCHANGED <<bookingVars, ticketVars, stockVars, payVars, moneyVars, showVars, calls>>

BuyerIsRefused(o) ==
    /\ ord[o].st = "open" /\ ~ord[o].failed
    /\ ord' = [ord EXCEPT ![o].failed = TRUE]
    /\ UNCHANGED <<bookingVars, ticketVars, stockVars, payVars, moneyVars, showVars, calls>>

Abandon(c) ==
    /\ calls[c] # Idle
    /\ Finish(c)
    /\ UNCHANGED <<bookingVars, ticketVars, stockVars, payVars, moneyVars, ord, showVars>>

Tick ==
    /\ now < MaxTime
    /\ now' = now + 1
    /\ UNCHANGED <<bookingVars, ticketVars, stockVars, payVars, moneyVars, ord, session, calls>>

----------------------------------------------------------------------------
NoRow == [st |-> "unused", b |-> NoBooking, amount |-> 0, key |-> 0, failed |-> FALSE]

Init ==
    /\ now = 0 /\ session = "SCHEDULED"
    /\ held = 0 /\ sold = 0 /\ seat = [s \in Seats |-> FreeSeat]
    /\ status = [b \in Booking |-> "NONE"] /\ method = [b \in Booking |-> "NONE"]
    /\ qty = [b \in Booking |-> 0] /\ hold = [b \in Booking |-> 0]
    /\ ext = [b \in Booking |-> 0] /\ total = [b \in Booking |-> 0]
    /\ issued = [b \in Booking |-> 0] /\ ticketSeats = [b \in Booking |-> {}]
    /\ pay = [b \in Booking |-> "NONE"] /\ payOrder = [b \in Booking |-> NoOrder]
    /\ payRef = [b \in Booking |-> NoOrder] /\ attempts = [b \in Booking |-> {}]
    /\ filed = {} /\ processed = {}
    /\ ord = [o \in Orders |-> NoRow]
    /\ calls = [c \in Slots |-> Idle]

\* A handler continues after its await.
Resume(c) ==
    \/ CreateSweep(c)
    \/ \E m \in Methods, q \in 1..MaxQty, S \in SUBSET Seats, at \in 0..now :
         \E until \in HoldDeadlines(m, at) : CreateHold(c, m, q, S, at, until)
    \/ ConfirmFree(c)
    \/ ResumeOrder(c) \/ (\E o \in Orders : OpenOrder(c, o)) \/ SaveOrder(c)
    \/ VerifySave(c) \/ CouponSave(c) \/ SaveFailed(c)
    \/ ConfirmClaim(c) \/ ConfirmLost(c)
    \/ RecordUnappliedCapture(c) \/ FileDiscrepancy(c)
    \/ GuardClose(c) \/ GuardClassify(c) \/ SweepRelease(c)
    \/ ShowOpSave(c) \/ CancelShow(c)

\* A request, a webhook or a timer starts a handler.
Arrive(c) ==
    \/ \E b \in Booking :
         \/ CreateCheck(c, b) \/ CreateIntent(c, b) \/ CollectCash(c, b) \/ SweepRead(c, b)
         \/ \E p \in {Price} \cup CouponPrices : CouponRead(c, b, p)
    \/ \E o \in Orders :
         \/ \E checkout \in Orders \cup {NoOrder} : DeliverSuccess(c, o, checkout)
         \/ DeliverFailed(c, o) \/ VerifyRead(c, o)
    \/ \E op \in {"pause", "reopen", "cancel"} : ShowOpRead(c, op)

Next ==
    \/ \E c \in Slots : Arrive(c) \/ Resume(c) \/ Abandon(c)
    \/ \E b \in Booking : ExtendHold(b) \/ CancelUnpaid(b)
    \/ \E s \in Seats : BlockSeat(s) \/ UnblockSeat(s)
    \/ \E o \in Orders : BuyerPays(o) \/ BuyerIsRefused(o)
    \/ CompleteSession \/ Tick

Spec == Init /\ [][Next]_vars

----------------------------------------------------------------------------
(* Properties.                                                             *)

SeatStatus == {"AVAILABLE", "HELD", "SOLD", "BLOCKED", "UNAVAILABLE"}
OrderStatus == {"unused", "created", "open", "closed", "captured"}
BookingStatus == {"NONE", "PENDING_PAYMENT", "CONFIRMED", "EXPIRED", "CANCELLED"}
SeatRow == [st: SeatStatus, by: Booking \cup {NoBooking}, until: Nat]
OrderRow == [st: OrderStatus, b: Booking \cup {NoBooking}, amount: Nat, key: Nat, failed: BOOLEAN]
Discrepancy == {"PAYMENT_MISSING_INTERNALLY", "DUPLICATE_CAPTURE"}

Shapes ==
    /\ now \in Nat /\ session \in {"SCHEDULED", "PAUSED", "CANCELLED", "COMPLETED"}
    /\ held \in Nat /\ sold \in Nat
    /\ seat \in [Seats -> SeatRow]
    /\ status \in [Booking -> BookingStatus]
    /\ method \in [Booking -> PayMethods \cup {"NONE"}]
    /\ qty \in [Booking -> 0..MaxQty] /\ hold \in [Booking -> Nat]
    /\ ext \in [Booking -> 0..MaxHoldExtensions] /\ total \in [Booking -> Nat]
    /\ issued \in [Booking -> Nat] /\ ticketSeats \in [Booking -> SUBSET Seats]
    /\ pay \in [Booking -> PayStatus]
    /\ payOrder \in [Booking -> Orders \cup {NoOrder}]
    /\ payRef \in [Booking -> Orders \cup {NoOrder}]
    /\ attempts \in [Booking -> SUBSET Orders]
    /\ filed \subseteq Discrepancy \X Orders /\ processed \subseteq Orders
    /\ ord \in [Orders -> OrderRow]
    /\ calls \in [Slots -> Call]

\* The row a handler reads before an await is there when it resumes.
ShowOnly == {"idle", "pause", "reopen", "cancel"}
AboutAnOrder == {"saveOrder", "unapplied", "fileMissing", "fileDuplicate", "saveVerified",
                 "saveFailed", "close", "classify"}

HandlersNameRows ==
    /\ \A c \in Slots : /\ calls[c].op \notin ShowOnly => calls[c].b \in Booking
                        /\ calls[c].op \in AboutAnOrder => calls[c].o \in Orders
    /\ \A o \in Orders : ord[o].st # "unused" \/ ord[o].failed => ord[o].b \in Booking

\* Every row has the shape the schema gives it, and every handler in flight
\* names rows that exist.
TypeOK == Shapes /\ HandlersNameRows

WithStatus(st) == {b \in Booking : status[b] = st}

\* The counters say exactly what the bookings say, however sweeps, cancellations
\* and confirmations race: GREATEST(0, held - n) never hides a double release.
InventoryAccounted ==
    /\ held = Cardinality(Units(WithStatus("PENDING_PAYMENT")))
    /\ sold = Cardinality(Units(WithStatus("CONFIRMED")))

\* A general admission session never promises more than it has.
NoOversell == ~SeatBased => held + sold <= Capacity

\* Tickets exist for confirmed bookings only, once, however often the provider
\* reports the payment and whoever else confirms at the same moment.
TicketsIssuedOnce ==
    \A b \in Booking : issued[b] = IF status[b] = "CONFIRMED" THEN qty[b] ELSE 0

\* A seat is SOLD to the one booking whose ticket names it.
SeatsSoldOnce ==
    /\ \A b \in Booking : \A s \in ticketSeats[b] : seat[s].st = "SOLD" /\ seat[s].by = b
    /\ \A s \in Seats : seat[s].st = "SOLD" => \E b \in Booking : s \in ticketSeats[b]
    /\ SeatBased => \A b \in WithStatus("CONFIRMED") : Cardinality(ticketSeats[b]) = qty[b]

\* The counter of a seated session and its seat map tell the same story, although
\* they are written separately and seats are blocked under lapsed holds.
SoldCounterMatchesMap ==
    SeatBased => sold = Cardinality({s \in Seats : seat[s].st = "SOLD"})

\* The deadline a seat carries is its booking's own, through every extension: a
\* seat is never blocked as lapsed while its buyer still has time to pay.
SeatDeadlinesAgree ==
    \A b \in WithStatus("PENDING_PAYMENT") : \A s \in HeldSeats(b) : seat[s].until = hold[b]

\* A booking that was paid, expired or cancelled never becomes anything else:
\* no sweep overwrites a confirmation and no late payment revives a dead booking.
SettledIsFinal ==
    [][\A b \in Booking :
         status[b] \in {"CONFIRMED", "EXPIRED", "CANCELLED"} => status'[b] = status[b]]_vars

\* The guard releases a hold only when its checkout can no longer be paid.
ReleasedCheckoutIsDead ==
    Provider = "stripe" =>
      \A c \in Slots : calls[c].op = "release" /\ calls[c].o # NoOrder
                        => ord[calls[c].o].st = "closed"

\* A capture whose event was processed without an error left a SUCCEEDED attempt:
\* applied or set aside, it is on record.
NoCaptureVanishes == \A o \in processed : o \in attempts[ord[o].b]

CapturedFor(b) == {o \in Orders : ord[o].b = b /\ ord[o].st = "captured"}

\* What is on record against a booking is money the provider took for that very
\* booking, and no ticket of an online booking is issued without some.
TicketsAreBacked ==
    /\ \A b \in Booking : attempts[b] \subseteq CapturedFor(b)
    /\ \A b \in WithStatus("CONFIRMED") : method[b] = "ONLINE" => attempts[b] # {}

----------------------------------------------------------------------------
(* What the repository's comments say, and TLC refutes.                    *)

\* releaseExpiredHolds: "Nothing below may release a booking the provider has
\* taken money for."
NoReleaseAfterCapture ==
    [][\A b \in Booking : status[b] = "PENDING_PAYMENT" /\ status'[b] = "EXPIRED"
                              /\ session' = session => CapturedFor(b) = {}]_vars

\* evaluateOperation: pausing "stops NEW sales and touches nothing that already
\* exists"; a capture is set aside only for a booking that is over.
PauseSparesCheckouts ==
    \A o \in Orders : <<"PAYMENT_MISSING_INTERNALLY", o>> \in filed
                         => status[ord[o].b] \in {"EXPIRED", "CANCELLED"}

\* recordUnappliedCapture: an operator sees the attempt AND "an OPEN finance
\* discrepancy" for every capture on a booking that could not take it.
RecordedCaptureIsFiled ==
    \A b \in WithStatus("EXPIRED") : \A o \in attempts[b] :
        \/ \E t \in Discrepancy : <<t, o>> \in filed
        \/ \E c \in Slots : calls[c].o = o

----------------------------------------------------------------------------
(* Liveness.  In one of the slots, the worker's, a handler that has        *)
(* started ends, answered or not; the worker runs its sweep there every    *)
(* minute, and not every one of its runs is cut short by a crash or an     *)
(* unreachable provider.  Nothing is asked of the other handlers.          *)

Worker == CHOOSE c \in Slots : TRUE

Fairness ==
    /\ WF_vars(Abandon(Worker) \/ Resume(Worker))
    /\ \A b \in Booking : SF_vars(SweepRead(Worker, b))
    /\ SF_vars(GuardClose(Worker)) /\ SF_vars(GuardClassify(Worker))
    /\ SF_vars(SweepRelease(Worker)) /\ SF_vars(ConfirmClaim(Worker))

FairSpec == Spec /\ Fairness

\* The provider took money that the confirm path refuses every time: a coupon has
\* re-priced the booking since its checkout was opened, or one of its seats was
\* blocked under the lapsed hold.
CaptureIsRefused(b) ==
    \E o \in CapturedFor(b) : ord[o].amount # total[b] \/ ~HoldsEverySeat(b)

\* A hold that has lapsed while its show is on sale does not keep its stock for
\* ever: the sweep gives it back, or finds the payment and confirms it.  Only a
\* payment that the confirm path refuses stays held, which guardExpiry leaves to a
\* person.
LapsedHoldsSettle ==
    \A b \in Booking : Lapsed(b) ~> \/ status[b] # "PENDING_PAYMENT" \/ session # "SCHEDULED"
                                    \/ CaptureIsRefused(b)

----------------------------------------------------------------------------
(* General admission implements the abstract sale.                         *)

PurchaseOf(st) == CASE st = "NONE" -> "none"
                    [] st = "PENDING_PAYMENT" -> "held"
                    [] st = "CONFIRMED" -> "sold"
                    [] OTHER -> "dropped"

Purchases == [b \in Booking |-> PurchaseOf(status[b])]

Sale == INSTANCE TicketSale WITH purchase <- Purchases, units <- qty

\* Every interleaving of the handlers is, stock-wise, a sequence of whole
\* purchases held, sold or dropped once.
ImplementsSale == Sale!SaleSpec

----------------------------------------------------------------------------
(* A seated session implements the abstract sale of its seats.             *)

PlaceOf(st) == CASE st = "AVAILABLE" -> "free"
                 [] st = "HELD" -> "taken"
                 [] st = "SOLD" -> "bought"
                 [] OTHER -> "withdrawn"

Places == [s \in Seats |-> [st |-> PlaceOf(seat[s].st), by |-> seat[s].by]]

SeatMap == INSTANCE SeatSale WITH purchase <- Purchases, units <- qty, place <- Places

\* Every interleaving of holds, payments, sweeps and seat overrides is, on the
\* seat map, a sequence of purchases that get all of their seats or none.
ImplementsSeatSale == SeatMap!SeatSaleSpec
=============================================================================
