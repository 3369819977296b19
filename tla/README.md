# ETickets: selling a session, being paid for it, and paying back

This directory models the part of ETickets that must not go wrong: bookings
that hold stock, payments that arrive from outside at any moment, refunds whose
answers get lost, the locks and the event outbox beside them, and the sweeps,
operators and buyers that change the same rows at the same time. TLC
checks the models on small instances; TLAPS proves the central safety results
for every size.

## 1. Inventory of the system

The API (`apps/api`, NestJS over PostgreSQL through Prisma) runs in several
replicas beside a worker (`apps/worker`) that calls the same services from
BullMQ timers. There are no application locks around a booking. Consistency
rests on conditional `updateMany` statements ("claims"), on `$transaction`
blocks, and on unique keys.

| component | state | operations | correct when |
|---|---|---|---|
| Bookings (`bookings/bookings.service.ts`) | `Booking.status`, `holdExpiresAt`, `holdExtensions`, `totalMinor` | create, extendHold, applyCoupon, cancelUnpaid, releaseExpiredHolds | a booking settles once; its stock is held exactly while it is pending |
| Inventory strategies (`inventory/*.strategy.ts`, `expire-pending-booking.ts`) | `TicketInventory.quantityHeld/Sold`, `ShowSeat` | reserve, confirm, release | counters agree with bookings; no oversell; a seat is sold once |
| Payments (`payments/payments.service.ts`, `razorpay/`, `provider/`) | `Payment`, `PaymentAttempt`, finance discrepancies; orders at the provider | createIntent, verify, confirm, collectCash, recordUnappliedCapture, fail | a capture yields its tickets once, or is on record and filed |
| Recovery (`payments/recovery/`) | none of its own | guardExpiry: close the checkout, classify it, recover or let go | a booking that was paid is not released |
| Shows (`shows/`, `events/`) | `EventSession.status`, seat overrides | pause, reopen, cancel, complete, block and unblock seats | operations do not harm what was sold or is being paid |
| Webhook inbox (`payments/razorpay/razorpay-webhook.*`, `payments/webhooks/stripe`) | `WebhookEvent` rows with status and attempts | ingest, claim, dispatch, retry, dead-letter | every accepted event is handled, and its effect happens once |
| Refunds (`refunds/`) | `Refund` rows with key, attempts and review hold; tickets | request, approve, provider call, lookup, retry, settlement by webhook | the provider pays a refund once, and tickets follow its answer |
| Settlement, payouts | `EventSettlement`, reversals | transfer, reverse | ledgers agree with the provider |
| Redis lock engine (`inventory/locking`) | locks, seat keys, quantity set, fencing counter, all with a time to live | acquire, renew, release, confirm, reconcile | a held lock owns its seats, tokens grow, nothing is kept for ever |
| Outbox (`common/domain-events/outbox`) | `OutboxEvent` rows with lease and attempts; a record per event and handler | record, claim, deliver, retry, dead-letter, operate, purge | a handler completes once; in order per aggregate; every row ends |
| Booking workflow and compensation (`bookings/orchestration`, `compensation`) | workflow rows | advance, retry, compensate | a workflow ends completed or compensated |
| Check-in (`checkins`) | ticket state, offline batches | scan, sync | a ticket admits once |
| Provider orchestration (`payments/orchestration`) | breaker state | route, retry, trip, probe | an ambiguous call is not repeated blindly |
| Inventory sync, billing, notifications, auth, discovery, admin, front ends | - | - | outside the core; see section 7 |

How they interact: `create` opens a hold and a `Payment` row; `createIntent`
opens an order at the provider; the buyer pays there, and the provider's signed
webhook (delivered any number of times, in any order), or the expiry guard that
asks the provider, calls `confirm`. A worker sweep runs every minute over lapsed
holds. An operator may pause or cancel the show at any time.

What is hard here: every handler reads, awaits and writes; writes by id after a
stale read; a deadline that passes while the buyer is at the gateway; captures
that arrive for bookings that are gone; processes that die between two writes.
`PROJECT.json` lists these hazards at their lines.

## 2. Modules

| module | models |
|---|---|
| `BookingCore` | one session, its bookings, stock, payment rows and provider orders, and every handler that changes them |
| `TicketSale` | what a session promises: purchases are held, sold or dropped as a whole, within capacity |
| `SeatSale` | what a seated session promises: a purchase takes free seats and gets all of them or none |
| `WebhookInbox` | the rows of accepted provider events, their ingestion and processors, and the refund ledger of one payment that they feed |
| `Outbox` | the outbox rows, dispatchers with leases, the idempotency record of each handler, operators and retention |
| `InventoryLock` | the Redis keys of one scope, the calls in flight with their clock readings, and PostgreSQL's booking beside each lock |
| `Refund` | the refund rows of one paid booking, its tickets, what the provider holds under each key, and the handlers |
| `MCBookingCore`, `MCWebhookInbox`, `MCOutbox`, `MCInventoryLock`, `MCRefund` | what TLC runs, with the symmetry sets where they are sound |
| `BookingCoreProofs` | type correctness, including that a handler in flight names rows that exist |
| `BookingStockProofs` | stock, tickets, finality and the refinement of `TicketSale` |
| `BookingSeatProofs` | seat deadlines, seats sold once, the counter against the map, and the refinement of `SeatSale` |
| `BookingCaptureProofs` | what a handler in flight knows about its order, the expiry guard, and captures on record |
| `WebhookInboxProofs` | dead letters, and refund rows closed by their events |
| `OutboxProofs`, `InventoryLockProofs`, `RefundProofs` | every safety property of the runs of these three |

### How `BookingCore` corresponds to the code

A handler occupies a slot `c`, and `calls[c]` holds what it carries across its
awaits: the booking, the order, a value or time it read, and the copy of the
payment status that it will trust. It is split where the code awaits between a
read and a write that another handler can come between:

| handler | steps |
|---|---|
| `create` | `CreateCheck`, `CreateSweep` per lapsed candidate, `CreateHold` (the transaction), then `ConfirmFree` for a free booking |
| `createIntent` / `createOrder` | `CreateIntent`, `ResumeOrder` or `OpenOrder` (the provider call), `SaveOrder` |
| `verify` | `VerifyRead`, `VerifySave` |
| `confirm` | `DeliverSuccess`, `CollectCash`, `ConfirmFree` or `GuardClassify`, then `ConfirmClaim` (the transaction), or `ConfirmLost` |
| `recordUnappliedCapture` | `RecordUnappliedCapture` (the attempt), `FileDiscrepancy` |
| `fail` | `DeliverFailed`, `SaveFailed` |
| worker sweep | `SweepRead`, `GuardClose`, `GuardClassify`, `SweepRelease` |
| `applyCoupon` | `CouponRead`, `CouponSave` |
| `pauseSales`, `reopenSales`, `cancelShow` | `ShowOpRead`, then `ShowOpSave` or `CancelShow` |

`ExtendHold`, `CancelUnpaid`, `BlockSeat`, `UnblockSeat` and `CompleteSession`
decide in their conditional update or transaction and are one step each. One
handler is coarser than the code: `recordUnappliedCapture` looks for the attempt,
reads the payment and writes the attempt in three awaits
(`payments.service.ts:1353-1403`), and `RecordUnappliedCapture` is one step. Two
redeliveries interleaved there can write two attempt rows for one capture, which the
model, whose attempts are a set, does not tell apart, and the kind of the discrepancy
may come from an older payment status; no property here speaks of either.

`Abandon` ends a handler after any await: an exception, an unreachable
provider, or the death of the process. What was written stays written. `Tick` is
the clock. `BuyerPays` and `BuyerIsRefused` are the buyer at the provider, and
`DeliverSuccess` and `DeliverFailed` may fire any number of times.

The differences between providers that matter are in the model. Razorpay
re-reads the payment before opening an order, cannot close one, and its events
name no checkout. Stripe trusts the payment that was read with the booking,
replays a session of the same idempotency key (the key contains a deadline, so
it changes with the clock), reports an open session until it is closed, and names
the session on some events.

Abstractions. Units of one ticket type stand for all of a booking's lines; an
amount is a small number; a capture is identified with its order; the end of a
session is its start. `create` reads its clock after its own sweep and commits a
little later, so `CreateHold` takes any time between the two.

### How `WebhookInbox` corresponds to the code

Razorpay and Stripe have the same inbox code and different refund events;
`Provider` chooses. A slot is an ingest request, with the processing it starts, or
a sweep of the worker.

| code | steps |
|---|---|
| `ingest` | `IngestRead` (a `PROCESSED` or `PROCESSING` row is a duplicate), then `CreateRow` (the unique key decides) or `ResetRow` (by id, back to `RECEIVED`), then `process` inline |
| `processPending` | `SweepPick` of a row that is `Due` |
| `process` | `Claim` (conditional, counts the attempt), `ReadRecord`, `Dispatch`, ..., `FinishEvent`; `Fail` is the catch, entered from any of them |
| Razorpay `handleRefund` | `Dispatch` (reads the payment), `SettleRow` (the row with the refund's id), `CheckInFlight` (if there is none), `CheckSibling`, `Count`, `Deduct` |
| Razorpay `handleRefundFailed` | `HandleRefundFailed`, within `Dispatch` |
| Stripe `handleChargeRefunded` | `Dispatch`, `Count`, `Deduct` |

`settleRefundRow` reads twice: the row that carries the refund's id, and, if there is
none, a row of the booking that is `PROCESSING` without an id. `CheckInFlight` is
blocked where it throws; the exception is then `Fail`. `MakeRefund`, `RecordRefund`
and `Send` are the provider and `RefundsService`; a refund is ours or comes from the
dashboard, and our row, until the answer is committed, has no id (`recording`), or
the second read cannot see it (`hidden`: a retry's row still has its earlier id, and a
row with a lost answer is `FAILED`). The history `unseen` holds the refunds whose row
was hidden, or was recorded between the two reads.
`Die` ends a process between two statements. Every refund is worth 1, and the
organizer's share is the refund itself. The backoff of 30 seconds is the time that
passes before the sweep is taken. Payment events are handed on: their effect is
`DeliverSuccess` and `DeliverFailed` of `BookingCore`, which assumes nothing but
that they arrive any number of times, or never.

### How `Outbox` corresponds to the code

A slot is one claimed row in the hands of one worker. `Claim` is the `FOR UPDATE
SKIP LOCKED` statement: a row is `Eligible` (pending, due for a retry, or
`PROCESSING` under a lapsed lease) and has `NoEarlierSibling`.

| code | steps |
|---|---|
| `recordMany` | `Record`, in the order of the commits, not of the creation times |
| `processRow` | `Deserialize` (a newer version goes to `MANUAL_REVIEW`), then per handler `StartHandler` (`ProcessedEventStore.claim`) and `HandlerOk`, `HandlerFailed` or `HandlerTimesOut`, then `Deliver` or `HandleFailure` |
| `withTimeout` | `HandlerTimesOut` rejects and the record is `FAILED`; the handler is not stopped: it is in `background` until `BackgroundEnds`, completed or not, while a redelivery may run it again |
| `classifyOutboxFailure` | `Verdict`: retryable until the attempts are used up, permanent (dead-lettered at once), or for a person |
| `recoverStaleLeases` | `RecoverStaleLeases`, also behind the operators' button |
| `OutboxOpsService` | `Retry`, `RetryBatch`, `Cancel`, `MarkManualReview` |
| `purge` | `PurgeDelivered`, `PurgeDeadLetter`, `PurgeIdempotency`, after `MonthPasses` |

`StoreError` is a database call that throws inside `processRow`, `Crash` a worker
that dies, `LeaseLapses` the clock. `AdapterRefuses` is an adapter that throws an error
of the permanent class, or one for a person: the dispatcher's tests and ADR-041
provide for it, while the in-process adapter shipped today throws only retryable
ones. All writes of the row are by id, as in the
code: a worker whose lease has lapsed still writes its outcome.

### How `InventoryLock` corresponds to the code

Every script is one step at Redis. The service reads its clock before it sends
the script, so a call carries `at`, and the script runs up to `Lag` later: this is
where `expiresAtMs`, written from the caller's clock, and the key's time to live
part. A lock is for a set of seats, or for one unit of a quantity (no seats). The
clock ticks in fractions of a second (`Second` of them make one): a renewal grants
whole seconds, rounded down, and at least one.

| code | steps |
|---|---|
| `acquire` | `AcquireSend`, then `AcquireSeats` or `AcquireConflict`, `AcquireQuantity` or `AcquireFull`, or `AcquireReplayed` |
| `renew` | `RenewRead` (lifetime, window, granted ttl), then `RenewExec` or `RenewRejected` |
| `release` | `ReleaseRead`, `ReleaseExec` |
| `confirm` | `ConfirmValidate`, `WorkCommits` or `WorkFails`, then the release script with `CONFIRMED` |
| `reconcile` | `ReconcileRead`, `Classify`, then the release script |

`Lost` is a call that ends early, `BookingEnds` a booking expired or cancelled in
PostgreSQL, `Tick` the clock, which removes keys. SEAT_RENEW extends whatever
seat key exists, without looking at its owner; `SeatsHeld` shows that this is
harmless, because the lock key is checked first and lives as long as its seats.

### How `Refund` corresponds to the code

A worker is one request handler. Claims are one step; the provider call begins in
`Begin` and ends in `CallAnswered` or `CallLost`, and goes on at the provider after the
caller has given up.

| code | steps |
|---|---|
| `request` | `Request` (one transaction under an advisory lock) |
| `process` | `Reject`, or `Approve` (the claim) and `payClaimed` |
| `payClaimed` | `CheckTickets`; `KeyFor`, `Begin`, or `SendThrows` where either finds that somebody else is sending; `CallAnswered` or `CallLost`; after a lost answer `LookupAnswers`, `LookupHolds` or `LookupBreaks`; then `CommitRefusal` and `AuditRefusal`, `CommitAccepted`, or `CommitBreaks` |
| `retry` | `RetryAssess` (`retryFacts`, `assessRetry`), `RetryClaim` or `RetryLoses`, then `payClaimed` or, if the tickets went back before, `resendAccepted` (the same steps without the tickets); what throws comes to `RetryCatch`, and both ways end in `RetryResult` |
| Razorpay webhooks | `RefundProcessed`, `RefundFailed`; not enabled where `settleRefundRow` throws and the event comes again |

`NextGen` is `keyFor`: the same key after a lost answer, the next one after an
answer. The provider makes one refund per key, lists a refund when its call has
finished, and never returns more than was captured. `Provider` decides what a
pending refund is reported as: `PROCESSING` by Razorpay, `COMPLETED` by Stripe and
Square, which have no refund webhook here. `DbErrors` lets the database fail a
handler's calls. `request` reads the tickets' statuses before its advisory lock, so
`Request` does not look at them at all. `RetryCatch` sets a row it finds `PROCESSING`
to `FAILED`, by id; every path to it but a failed commit has done so already, so what
it finds is another administrator's claim. `RefundFailed` moves a row by the
reference it carries, also when a retry holds the claim. The history `undone` collects
the rows whose claim was taken away by one of these. A ticket is worth one unit and
`Captured` may exceed the tickets, as fees make it. An empty list is believed only
`RECHECK_AFTER_MS` after a lost answer; the model's retry may look at once and
still pays once, since the key of a lost call is used again.

## 3. Properties and runs

Twelve runs; the passing ones have no error, and each of their properties is
also shown to fail under a plausible bug (`mutants` in `PROJECT.json`).

| run | instance | what it shows |
|---|---|---|
| `stock` | 2 bookings of up to 2 units, capacity 2, Razorpay, 2 handlers, cancellation, no extensions | `InventoryAccounted`, `NoOversell`, `TicketsIssuedOnce`, `SettledIsFinal`, and the refinement `ImplementsSale` |
| `seats` | 2 bookings, 2 seats, blocking | `SeatsSoldOnce`: a seat is sold to the one booking whose ticket names it, and no booking is confirmed with a seat missing; `SoldCounterMatchesMap`: `quantitySold` is the number of `SOLD` seats, though the two are written apart |
| `desk` | 1 booking of up to 2 seats, no provider orders, every payment method, a coupon, an extension, every show operation, blocking, a clock long enough to extend a hold and let it lapse | `TypeOK` (with the extension cap), `SeatDeadlinesAgree`, and the refinement `ImplementsSeatSale` |
| `stripe` | 1 booking, 2 checkout sessions, 2 handlers | `ReleasedCheckoutIsDead`, `NoCaptureVanishes`, and `TicketsAreBacked`: an attempt is money taken for its own booking, and no online booking is confirmed without one ("would confirm a ticket nobody paid for", `payments.service.ts:697`) |
| `live` | 2 handlers, Stripe, a coupon, a seat that may be blocked, one fair worker | `LapsedHoldsSettle` |
| `inbox` | 1 Razorpay event, 3 deliveries, 2 processors, 2 attempts, fair sweeps | `DeadLetterExhausted`; `ClosedWithEvent`: when the event of a paid refund has been handled, our row of it is closed, unless `settleRefundRow` could not see it; and `AcceptedIsHandled`: an accepted event is processed, ignored or dead-lettered |
| `outbox` | 1 event, 2 handlers, 2 slots, a fault or refusal, a run past its limit, operators, retention | `OneRunner`: one worker at a time awaits a handler; `CompletedOnce`: a handler completes once, and once more for each purge of its record and each run past its limit; `DeliveredMeansDone`; `DeadLetterExhausted`: a dead letter has used its attempts or was refused for good |
| `outbox_siblings` | 2 events of one aggregate, 1 handler, 2 slots, fair dispatching | `InOrder`, and `EventuallySettled`: a recorded event is delivered, dead-lettered or put before a person |
| `locks` | 2 locks, for a seat or a unit, 2 calls, 2 idempotency keys, half seconds, a clock past the maximum lifetime | `SeatsHeld`, `LifetimeBound`, `ConfirmedAfterCommit`, and the action property `TokensGrow` |
| `refunds` | 2 Razorpay refunds, 1 ticket, 3 handlers, 2 keys, lost answers, database errors, deaths, late failures | `PaidOncePerRefund`, `VoidedMeansAccepted`, `CompletedMeansPaid` |

Bounds. Two handlers are enough for every check-then-act race between two
operations; the third party (buyer, provider, clock, operator) needs no slot.
Two bookings compete for the same stock, two seats let a booking lose one of
several, and two orders let one booking be charged twice. The clock runs far
enough for a hold to be taken, extended and lapse, and for the show to start.
None of the safety results depends on these bounds: they are proved. `desk` has
one booking, because every show operation against every way to pay is already
large; that two bookings compete for a seat is in `seats`, and the refinement is
proved for any number. In the inbox, two processors can share one row after a stale `ResetRow`, three
deliveries allow that to happen to a row that has already failed, and two
attempts are enough for a retry and for exhaustion (the code has 6). In the
outbox two slots let a lapsed lease be taken over while the first worker goes on, one
run past its limit per handler lets the redelivery complete beside it, and two handlers let one complete while the other fails; order needs two events,
and is checked apart because the product of both is too large. For locks the
clock passes the lifetime of a renewed lock, and two calls with a lag let a stale
script land after another lock's. Two refunds with two keys cover a lost answer, a
refusal, a bounce and a retry each; three handlers let one retry's catch meet the
claim of another. The safety results of these three modules are
proved without the bounds.

Deadlock checking is off because an instance stops once its clock, bookings
and orders are used up.

Fairness (`live`). It is assumed of one slot, the worker's, and of no other handler.
What it starts ends, answered or not (weak fairness of `Resume \/ Abandon`). It
repeats its sweep every minute and the guard's steps are not cut short every time
(strong fairness of `SweepRead`, `GuardClose`, `GuardClassify`, `SweepRelease` and
`ConfirmClaim`): an outage may be long, not permanent. Under these a lapsed hold is
released or found paid, with two exceptions, both of which the code has and the run
needs. A paused session, where a capture found is set aside again at every sweep; and
`CaptureIsRefused`, a capture whose amount is no longer the booking's (a coupon saved
after the order was opened) or whose seat was blocked: `confirm` throws at every
sweep and the hold is "STILL not released" (`pending-payment-recovery.service.ts:161-164`).

Fairness (`inbox`). A processor that runs ends (weak fairness of its steps: an
exception is one of them); the worker's sweep, every 15 seconds, keeps picking
due rows, and not every claim is preceded by a crash (strong fairness of
`SweepPick` and `Claim`). `AcceptedIsHandled` has two exceptions, which the
code has too: `Orphaned`, a row whose process died after its claim, and `Spent`,
a row that two processors shared and the slower one marked `FAILED` after the
attempts had run out. Neither is picked up again by the sweep.

Fairness (`outbox_siblings`). A slot at work goes on (weak fairness: a failure is
one of its steps), the dispatcher's timer keeps claiming what may be claimed, and
leases lapse. Nothing is assumed of handlers, which may fail every time: the
attempts end the series.

### Where the code and its own words disagree

| run | the words | what happens |
|---|---|---|
| `release_after_capture` | "Nothing below may release a booking the provider has taken money for." | the sweep decides from the payment row it read with the candidates; an order saved afterwards is not asked about, and the claim checks only status and deadline |
| `refunded_twice` | "WHY IT CANNOT PAY TWICE" (`retry`), "Refused here, the second payout never happens." (`payClaimed`) | a refused refund is `FAILED` and not held, so its ticket can be named by a second request; the retry counts other refunds by amount and only if they are `COMPLETED` or `PROCESSING`; both find the ticket live and are sent under keys of their own |

These are the two runs kept with an expected violation. The following
configurations also end in a counterexample; they are kept beside the models to
be run by hand:

| configuration | the words | what happens |
|---|---|---|
| `PausedCapture.cfg` (`PauseSparesCheckouts`) | pausing "touches nothing that already exists" (`show-operations.ts:93`) | `confirm` refuses a paused session, so a buyer already at the gateway is charged and gets no ticket |
| `VerifyRace.cfg` (`NoCaptureVanishes`, Razorpay) | "a capture that is not the one applied must not vanish" (`payments.service.ts:1283`) | `verify` writes `providerRef` by booking id; after it lands on a booking paid through another order, the second charge looks like a redelivery |
| `UnfiledCapture.cfg` (`RecordedCaptureIsFiled`) | "an OPEN finance discrepancy" (`payments.service.ts:1336`) | the process dies after the attempt and before the discrepancy; the redelivery stops at the attempt |
| `InboxOrphan.cfg` (`CrashIsRedelivered`) | "the refund webhook is not marked processed, so it is redelivered" (`settlement.service.ts:859`) | a process that dies after its claim leaves the row `PROCESSING`; the sweep skips it and a redelivery is answered `duplicate` |
| `RefundOnce.cfg` (`OncePerRefund`) | "Once per Razorpay refund, not once per delivery." (`razorpay-webhook.processor.ts:339`) | two events of one refund, claimed at the same time, each find the other `PROCESSING` and leave the counting to it |
| `OutboxStranded.cfg` (`CrashStrandsNothing`) | "A worker crash never strands rows" (`docs/ops/DOMAIN-EVENT-DELIVERY-RUNBOOK.md:41`) | the row is claimed again, but the handler's `PROCESSING` record has no lease: every redelivery finds it in progress, and the event is dead-lettered without its handler |
| `RefundLeftOpen.cfg` (`NeverLeftOpen`) | `settleRefundRow` throws "when a refund of ours on this booking is still between the provider call and its commit" (`razorpay-webhook.processor.ts:437`), since "finalising nothing would leave it PROCESSING for ever" | the answer is committed between its two reads, so neither finds the row; or the row has an earlier attempt's id, and the second read does not look at it. The event is processed, and no other one closes the row |
| `RefundPaidTwice.cfg` (`NeverPaidTwice`) | "WHY IT CANNOT PAY TWICE" (`refunds.service.ts:1563`), "of two clicks (or two admins) one wins" | the catch of a retry that failed sets the claim of another retry, which is sending, to `FAILED`; a third retry claims the row and, once the second call is answered, `keyFor` gives it a new key. A late `refund.failed` of an earlier key does the same: the row carries the old reference until the retry commits |
| `OutboxOverrun.cfg` (`NeverRepeated`) | "completed side effects never repeat" (`outbox-delivery.adapter.ts:23`) | a handler passes its time limit, is recorded as `FAILED` and goes on; the redelivery runs it again, and both runs complete |
| `LockHardCap.cfg` (`HardCap`) | "Hard cap on total lock lifetime" (`configuration.ts:445`) | a renewal with less than a second left is granted a whole second |
| `LockCapacity.cfg` (`QuantityBounded`) | "two requests can never jointly exceed capacity" (`docs/adr/ADR-039-distributed-inventory-locking.md:57`) | QUANTITY_ACQUIRE purges by the caller's clock, read before the script, while the lock's key lives by the script's; a lock purged early and then renewed is back in the sorted set without its quantity |

More interleavings are behaviours of the model and not kept as runs:
a reopen authorised before a cancellation writes `SCHEDULED` after it, although
"Cancellation is never undone this way" (`shows.service.ts:2120`); a refusal that read `PENDING_PAYMENT` marks the payment of a booking confirmed
meanwhile `FAILED`; after a refused card, or with two simultaneous requests in
different minutes, a second Stripe session is opened beside one still open
(`NoCaptureVanishes` shows that a second capture is then on record); a coupon
priced before payment is written after it; and a seat of a lapsed booking that
the guard is holding back can be blocked, after which a payment found for the
booking cannot be confirmed. In the inbox: a refund event whose deduction throws
after `refundedMinor` was written is counted again by its retry, up to the
capture; and two refunds of one payment handled at the same time both start from
the same `refundedMinor`, so one is missing from it although both are deducted.
In the outbox: a delivery that was under way when an operator cancelled its row
overwrites the cancellation; retention deletes completed records, so a retry by an
operator afterwards runs the handlers again (`purges` in `CompletedOnce`); an
event committed after a later-created sibling was claimed is out of order (`late` in
`InOrder`). In the lock engine: a replayed acquisition answers with the snapshot
of a lock that may have been released, and the idempotency key is not renewed with
its lock. In refunds: a death after the claim leaves a row `PROCESSING` for good;
a read that fails after a lost answer leaves a refund `FAILED` and not held,
although it may have been paid, which the retry's lookup then finds; and with Stripe
or Square a refund that is only pending is shown as `COMPLETED`, so `CompletedMeansPaid`
is stated of Razorpay.

## 4. What is proved

Assumptions: `ConstAssumption` (constants have their types, the null values are
not ids) and `FiniteAssumption` (finitely many bookings and seats). Nothing is
assumed of the number of bookings, handlers, orders, the capacity or the clock.

* `TypeCorrect`: `Spec => []TypeOK`. Shapes alone are not inductive: a handler
  that resumes indexes rows by what it carries, so `HandlersNameRows` (a handler
  about a booking names one, a handler about an order names one, an order in use
  belongs to a booking) is part of the invariant. One lemma per group of
  actions types their results.
* `StockAccounted`: `Spec => []InventoryAccounted`. `StepKinds` shows that every
  step leaves stock alone, holds for one new booking, sells one pending booking,
  drops one, or calls all pending ones off. The counting lemmas say what each
  does to the units of pending and of confirmed bookings. The invariant
  `Accounted` is the two counting equations: while they hold, the units of a
  pending booking are part of `held`, so the floor in `GREATEST(0, held - n)` never
  bites.
* `NeverOversold`, `TicketsOnce`, `SettledForever`: from the same
  classification.
* `DeadlinesAgree`: `Spec => []SeatDeadlinesAgree`. `SeatStepKinds` classifies every
  step by what it does to the seat map: nothing, take free seats, sell what a
  booking holds, free it, move its deadlines, close the map, or override one seat.
  The property speaks of pending bookings only; the invariant `HeldIsPending` says
  that a held seat always has one: otherwise a booking being created could find a
  seat that already names it under another deadline.
* `EachSeatSoldOnce`, `CounterMatchesMap`, `SeatedNeverOversold`: `Spec` implies
  `[]SeatsSoldOnce`, `[]SoldCounterMatchesMap`, and that no more tickets are sold
  than there are seats, although a seated reservation never looks at
  `quantityTotal`. `SeatInv` adds that a booking which is not confirmed has no
  tickets: without it a sale could add its seats to somebody's. A lost seat is why
  `HoldsEverySeat` is needed: the counter moves by the booking's units, the map by
  the seats it still holds.
* `SeatSaleImplemented`: for a seated session `Spec => ImplementsSeatSale`; extensions
  and every step that touches no seat are stutters, and each other kind is one step
  of `SeatSale`.
* `GuardIsSafe`, `NoUnpaidTickets`, `CapturesAreOnRecord`: `Spec` implies
  `[]ReleasedCheckoutIsDead` and `[]TicketsAreBacked`, and for Stripe
  `[]NoCaptureVanishes`. All three depend on what handlers read before their awaits,
  so `KnowledgeInv` says what each of them knows (`Knows`): an order it opened or read
  is its booking's; a capture it carries was made for the booking it names; a
  confirmation without a capture is of a booking not paid online; a discrepancy is
  filed after its attempt; the guard releases behind a closed session. With it goes
  `OrdersPlaced`, that the order on a payment row belongs to that booking.
  `KnowledgeKept` is the heart: knowledge is never lost while a handler waits,
  because orders never change hands, a closed or captured session stays so, attempts
  are never deleted and a booking keeps its payment method (`OrderKept`,
  `BookingKept`). `CapturesAreOnRecord` also needs `Recorded`: a `providerRef` names a
  capture that is on record, so what looks like a redelivery is one. Razorpay's
  `verify` writes a `providerRef` with no attempt behind it, and there the property
  is false (`VerifyRace.cfg`): hence the hypothesis. It is not empty: `stripe` has
  captures processed on every path.
* `NoEarlyDeadLetter`, `HandledEventClosesRow`: `Spec => []DeadLetterExhausted`, and
  `Spec => [](InboxTypeOK /\ ClosedWithEvent)`, from `InboxAssumption` alone. Both
  depend on what a processor carries while others work on the same rows, so
  `InboxInv` adds `Carries` for every slot: the attempts it read are not more than
  the row's (they only grow), and a refund handler is about a refund the provider
  has made (events never change). For the second, `ClosedInv` says that a processor
  which is past `settleRefundRow` leaves a row behind that is closed or `unseen`
  (`SettledCall`), and `RowsOnlyClose` that no later step opens it again: a row is
  opened only with its refund, before any event about it.
* `HandlerRunByOne`, `HandlerCompletesOnce`, `DeliveredIsComplete`,
  `DeadLetterLast`, `SiblingsInOrder`: `Spec` implies `[]OneRunner`,
  `[]CompletedOnce`, `[]DeliveredMeansDone`, `[]DeadLetterExhausted` and
  `[]InOrder`, from `OutboxAssumption`. The invariant ties each slot to the records:
  a slot that runs a handler is the only one and its record is `PROCESSING`; runs past
  their limit are counted by `overran`, completed or not, which bounds what they add; the
  handlers a slot has passed without `pending` are complete; a count carried by a
  slot is at most the row's.
* `SeatsOfOneLock`, `LifetimeIsBounded`, `CommitComesFirst`, `TokensAreFenced`: from
  `TimesAssumption` (a time to live is at least a second) and `NamesAssumption`. The
  lifetime is bounded by `Longest`: less than a second past the maximum, or the first
  time to live if that is longer, which the configuration does not exclude.
  `TokensAreFenced` has the hypothesis `FenceOutlives`: the counter's four maximum
  lifetimes exceed the longest life of a lock and the delay of a script. Seats
  held by a lock live exactly as long as it does; what a call in flight will write
  is bounded by the acquisition time it read; a lock token is below the counter, and
  the counter outlives every lock.
* `OneRefundIsPaid`, `VoidedOnlyIfAccepted`, `CompletedOnlyIfPaid`: from
  `RefundAssumption` alone, with late failures, failed commits and the catch of
  `retry` in the specification. `RefundInv` says what a row's key, attempts and answer
  imply about the provider (`RowIs`), what a handler knows at each step (`Knows`), and
  that a row in `PROCESSING` without an answer has one handler (`FreeFor`); the parts
  about one handler and one key are claimed of rows that are not `undone`. Paying once
  rests on them: a new key is used only when all earlier ones are known to be dead. The
  other two need nothing about claims and hold of every row.
* `SaleImplemented`: for general admission, `Spec => ImplementsSale`; each kind of
  step maps to a step of `TicketSale` or to a stutter.

Every safety property of the passing runs is proved. Only model-checked are the
liveness properties `LapsedHoldsSettle`, `AcceptedIsHandled` and
`EventuallySettled`: they rest on fairness and `ENABLED`, which are outside the
prover.

## 5. Plan

Done: `BookingCore`, `TicketSale`, `SeatSale`, `WebhookInbox`, `Outbox`, `InventoryLock`,
`Refund` and their proofs. Next:

1. A run of `WebhookInbox` for Stripe's cumulative events, and its composition
   with `BookingCore`: a success event that is accepted ends in `confirm`.
2. `Settlement`: transfers and reversals against the ledger that refunds reduce.
3. `BookingWorkflow`: the state machine with leases, retries and compensation.
4. `CheckIn` with offline devices; `CircuitBreaker`.
5. Theorems: the steps that the liveness arguments rest on and that are safety
   (a released or recovered hold stays settled, attempts only grow), and what a
   refund whose claim was undone still guarantees (never more than the capture).

## 6. Running

    tlc -workers 2 -config BookingStock.cfg MCBookingCore
    tlapm BookingCoreProofs.tla
    tlapm BookingStockProofs.tla
    tlapm BookingSeatProofs.tla
    tlapm BookingCaptureProofs.tla
    tlc -workers 2 -config Inbox.cfg MCWebhookInbox
    tlapm WebhookInboxProofs.tla
    tlc -workers 2 -config Outbox.cfg MCOutbox
    tlc -workers 2 -config Locks.cfg MCInventoryLock
    tlc -workers 2 -config Refunds.cfg MCRefund
    tlapm OutboxProofs.tla
    tlapm InventoryLockProofs.tla
    tlapm RefundProofs.tla

The other configurations are used the same way; `PROJECT.json` names them.

## 7. Not modelled

* In `create`: idempotency records, hold limits per buyer, the pilot's daily cap,
  zone capacity, add-on stock and fee-policy redemptions. Each only refuses a
  booking or counts beside it, inside the same transaction.
* In `confirm`: receipts, coupon redemption counts, notifications and the
  workflow hand-over, which follow the claim and decide nothing about it. The
  mock gateway is for development.
* The sweep's page of 500 candidates: a candidate beyond the page is read by a
  later sweep, which `SweepRead`'s nondeterminism covers.
* In `BookingCore`, refunds after a confirmation, which move a booking on to
  `REFUNDED` or `PARTIALLY_REFUNDED` and return its stock; `SettledIsFinal` is about
  the operations modelled there. In `Refund`: fee and tax shares, cash and free
  bookings, the fan-out of a cancelled show, and the stock behind a ticket.
* In the lock engine: the index of locks per owner, the shadow
  comparison and the health report.
* Booking workflow and compensation, settlement and payouts, check-in, provider
  routing, inventory synchronisation and billing: components of their own, see
  the plan. Transfer reversals behind `applyRefund`, disputes and
  account updates belong to the settlement module of the plan.
* Pricing, tax and discount arithmetic; scheduling, layouts and pricing of shows.
* Notifications, authentication, administration, CRM, discovery, analytics, and
  the web, mobile and scanner applications: I/O and presentation over the state
  modelled here.
