---------------------------- MODULE WebhookInbox ----------------------------
(***************************************************************************)
(* The payment webhook inbox: WebhookEvent rows, their ingestion and their *)
(* processors (apps/api/src/payments/razorpay/razorpay-webhook.*.ts and    *)
(* payments/webhooks/stripe), and the refund ledger of one payment that    *)
(* the refund events feed: Payment.refundedMinor and the amount deducted   *)
(* from the settlement.                                                    *)
(*                                                                         *)
(* Every refund is worth 1.  Event bodies: 0 is any event that is not a    *)
(* paid refund; k > 0 is the k-th refund (Razorpay) or a charge of which k *)
(* has been refunded in all (Stripe).  The effect of payment events on     *)
(* bookings is BookingCore's DeliverSuccess and DeliverFailed.             *)
(***************************************************************************)
EXTENDS Integers, FiniteSets

CONSTANTS
    Event,              \* (provider, providerEventId): the unique key of a row
    Slots,              \* ingest requests and processors running at once
    Provider,
    MAX_ATTEMPTS,
    Amount,             \* Payment.amountMinor, what was captured
    MaxRefunds,         \* bound on the refunds made at the provider
    MaxDeliveries,      \* bound on the deliveries of one event
    NoEvent

ASSUME InboxAssumption ==
    /\ Provider \in {"razorpay", "stripe"}
    /\ MAX_ATTEMPTS \in Nat \ {0} /\ Amount \in Nat
    /\ MaxRefunds \in 0..Amount /\ MaxDeliveries \in Nat
    /\ NoEvent \notin Event

VARIABLES
    st,                 \* WebhookEvent.processingStatus ("NONE": no row)
    attempts,           \* WebhookEvent.attempts
    body,               \* what the provider's event says (-1: not sent yet)
    deliveries,         \* how often it was posted
    made,               \* refunds the provider has made
    own,                \* our Refund row of each of them
    refunded,           \* Payment.refundedMinor
    deducted,           \* Settlement.refundsMinor
    calls,              \* requests and processors in flight
    unseen              \* history: refunds whose row the two reads of
                        \* settleRefundRow may both miss

rowVars      == <<st, attempts>>
providerVars == <<body, deliveries, made>>
ledgerVars   == <<refunded, deducted>>
vars == <<rowVars, providerVars, own, ledgerVars, calls, unseen>>

Status == {"NONE", "RECEIVED", "PROCESSING", "PROCESSED", "IGNORED", "FAILED", "DEAD_LETTER"}

\* Of our Refund row for a refund of the provider: none (issued from the
\* dashboard); PROCESSING and without an id until the answer is committed;
\* hidden, when until then the row has the id of an earlier attempt, or is FAILED
\* because the answer was lost, and a retry records it; or its status, with the id.
OwnRow == {"none", "recording", "hidden", "PROCESSING", "COMPLETED", "FAILED"}

\* A processor carries the event, record.attempts, the refundedMinor it read, the
\* amount it will deduct, and the outcome it will write.
Op == {"idle", "create", "reset", "claim", "record", "dispatch", "settleRow", "inFlight",
       "sibling", "count", "deduct", "finish"}
Call == [op: Op, e: Event \cup {NoEvent}, n: Nat, seen: Nat, delta: Nat, out: Status]
Idle == [op |-> "idle", e |-> NoEvent, n |-> 0, seen |-> 0, delta |-> 0, out |-> "NONE"]

Goto(c, call) == calls' = [calls EXCEPT ![c] = call]
Outcome(c, out) == Goto(c, [calls[c] EXCEPT !.op = "finish", !.out = out])

----------------------------------------------------------------------------
(* ingest: read the row, then create it or put it back to RECEIVED by id,  *)
(* and process it inline.                                                  *)

IngestRead(c, e) ==
    /\ calls[c] = Idle /\ body[e] >= 0 /\ deliveries[e] < MaxDeliveries
    /\ deliveries' = [deliveries EXCEPT ![e] = @ + 1]
    /\ IF st[e] \in {"PROCESSED", "PROCESSING"}
       THEN UNCHANGED calls
       ELSE Goto(c, [Idle EXCEPT !.op = IF st[e] = "NONE" THEN "create" ELSE "reset", !.e = e])
    /\ UNCHANGED <<rowVars, body, made, own, ledgerVars, unseen>>

\* The unique key decides between two first deliveries; the loser is a duplicate.
CreateRow(c) ==
    /\ calls[c].op = "create"
    /\ IF st[calls[c].e] = "NONE"
       THEN /\ st' = [st EXCEPT ![calls[c].e] = "RECEIVED"]
            /\ Goto(c, [calls[c] EXCEPT !.op = "claim"])
       ELSE UNCHANGED st /\ Goto(c, Idle)
    /\ UNCHANGED <<attempts, providerVars, own, ledgerVars, unseen>>

ResetRow(c) ==
    /\ calls[c].op = "reset"
    /\ st' = [st EXCEPT ![calls[c].e] = "RECEIVED"]
    /\ Goto(c, [calls[c] EXCEPT !.op = "claim"])
    /\ UNCHANGED <<attempts, providerVars, own, ledgerVars, unseen>>

----------------------------------------------------------------------------
(* processPending and process                                              *)

DueReceivedOnly(e) == st[e] = "RECEIVED"

Due(e) == st[e] = "RECEIVED" \/ (st[e] = "FAILED" /\ attempts[e] < MAX_ATTEMPTS)

\* The worker's sweep; the backoff is the time that passes before it is taken.
SweepPick(c, e) ==
    /\ calls[c] = Idle /\ Due(e)
    /\ Goto(c, [Idle EXCEPT !.op = "claim", !.e = e])
    /\ UNCHANGED <<rowVars, providerVars, own, ledgerVars, unseen>>

Claim(c) ==
    /\ calls[c].op = "claim"
    /\ LET e == calls[c].e
       IN  IF st[e] \in {"RECEIVED", "FAILED"}
           THEN /\ st' = [st EXCEPT ![e] = "PROCESSING"]
                /\ attempts' = [attempts EXCEPT ![e] = @ + 1]
                /\ Goto(c, [calls[c] EXCEPT !.op = "record"])
           ELSE UNCHANGED rowVars /\ Goto(c, Idle)
    /\ UNCHANGED <<providerVars, own, ledgerVars, unseen>>

ReadRecord(c) ==
    /\ calls[c].op = "record"
    /\ Goto(c, [calls[c] EXCEPT !.op = "dispatch", !.n = attempts[calls[c].e]])
    /\ UNCHANGED <<rowVars, providerVars, own, ledgerVars, unseen>>

\* A refund row of ours that has its provider id has failed at the provider.
HandleRefundFailed(c) ==
    /\ Provider = "razorpay"
    /\ \E k \in 1..MaxRefunds : /\ own[k] \in {"PROCESSING", "COMPLETED"}
                                /\ own' = [own EXCEPT ![k] = "FAILED"]
    /\ Outcome(c, "PROCESSED")

\* dispatch.  handleRefund and handleChargeRefunded begin by reading the payment;
\* an event that is not a paid refund is handed on, or has no handler and is
\* recorded as IGNORED.
Dispatch(c) ==
    /\ calls[c].op = "dispatch"
    /\ \/ body[calls[c].e] = 0 /\ HandleRefundFailed(c)
       \/ /\ body[calls[c].e] = 0
          /\ \E out \in {"PROCESSED", "IGNORED"} : Outcome(c, out)
          /\ UNCHANGED own
       \/ /\ body[calls[c].e] > 0
          /\ Goto(c, [calls[c] EXCEPT !.seen = refunded,
                                      !.op = IF Provider = "razorpay" THEN "settleRow" ELSE "count"])
          /\ UNCHANGED own
    /\ UNCHANGED <<rowVars, providerVars, ledgerVars, unseen>>

\* settleRefundRow(COMPLETED): the row that has the refund's id, if there is one.
SettleRow(c) ==
    /\ calls[c].op = "settleRow"
    /\ LET k == body[calls[c].e]
       IN  IF own[k] \in {"PROCESSING", "COMPLETED", "FAILED"}
           THEN /\ own' = [own EXCEPT ![k] = IF @ = "PROCESSING" THEN "COMPLETED" ELSE @]
                /\ Goto(c, [calls[c] EXCEPT !.op = "sibling"])
           ELSE UNCHANGED own /\ Goto(c, [calls[c] EXCEPT !.op = "inFlight"])
    /\ UNCHANGED <<rowVars, providerVars, ledgerVars, unseen>>

CheckInFlightNever(c) ==
    /\ calls[c].op = "inFlight"
    /\ Goto(c, [calls[c] EXCEPT !.op = "sibling"])
    /\ UNCHANGED <<rowVars, providerVars, own, ledgerVars, unseen>>

\* No such row: it throws while a refund of ours on this booking has no id yet.
CheckInFlight(c) ==
    /\ calls[c].op = "inFlight" /\ \A j \in 1..MaxRefunds : own[j] # "recording"
    /\ Goto(c, [calls[c] EXCEPT !.op = "sibling"])
    /\ UNCHANGED <<rowVars, providerVars, own, ledgerVars, unseen>>

\* Another event about this refund that was handled "or is being handled right now".
Siblings(e) ==
    {f \in Event \ {e} : body[f] = body[e] /\ st[f] \in {"PROCESSED", "PROCESSING"}}

CheckSibling(c) ==
    /\ calls[c].op = "sibling"
    /\ IF Siblings(calls[c].e) # {}
       THEN Outcome(c, "PROCESSED")
       ELSE Goto(c, [calls[c] EXCEPT !.op = "count"])
    /\ UNCHANGED <<rowVars, providerVars, own, ledgerVars, unseen>>

\* Razorpay events add up, never beyond the capture; Stripe's are cumulative.
NewTotal(seen, k) ==
    IF Provider = "stripe" THEN k ELSE IF seen + 1 > Amount THEN Amount ELSE seen + 1

\* The total is computed from the value read before, and written by id.
Count(c) ==
    /\ calls[c].op = "count"
    /\ LET total == NewTotal(calls[c].seen, body[calls[c].e])
       IN  IF total <= calls[c].seen
           THEN UNCHANGED refunded /\ Outcome(c, "PROCESSED")
           ELSE /\ refunded' = total
                /\ Goto(c, [calls[c] EXCEPT !.op = "deduct", !.delta = total - calls[c].seen])
    /\ UNCHANGED <<rowVars, providerVars, own, deducted, unseen>>

Deduct(c) ==
    /\ calls[c].op = "deduct"
    /\ deducted' = deducted + calls[c].delta
    /\ Outcome(c, "PROCESSED")
    /\ UNCHANGED <<rowVars, providerVars, own, refunded, unseen>>

FinishEvent(c) ==
    /\ calls[c].op = "finish"
    /\ st' = [st EXCEPT ![calls[c].e] = calls[c].out]
    /\ Goto(c, Idle)
    /\ UNCHANGED <<attempts, providerVars, own, ledgerVars, unseen>>

DeadEarly(n) == n >= MAX_ATTEMPTS - 1

Dead(n) == n >= MAX_ATTEMPTS

InTry == {"dispatch", "settleRow", "inFlight", "sibling", "count", "deduct", "finish"}

\* Anything that throws after the record was read ends in the catch.
Fail(c) ==
    /\ calls[c].op \in InTry
    /\ st' = [st EXCEPT ![calls[c].e] = IF Dead(calls[c].n) THEN "DEAD_LETTER" ELSE "FAILED"]
    /\ Goto(c, Idle)
    /\ UNCHANGED <<attempts, providerVars, own, ledgerVars, unseen>>

----------------------------------------------------------------------------
(* The environment: the provider, RefundsService, and processes that die.  *)

\* The provider makes a refund: one of ours, whose answer is not committed yet,
\* or one issued from its dashboard.
MakeRefund(row) ==
    /\ made < MaxRefunds /\ made' = made + 1
    /\ own' = [own EXCEPT ![made + 1] = row]
    /\ unseen' = IF row = "hidden" THEN unseen \cup {made + 1} ELSE unseen
    /\ UNCHANGED <<rowVars, body, deliveries, ledgerVars, calls>>

\* RefundsService commits the provider's answer, "pending" or done; a processor
\* may be between its two reads.
RecordRefund(k, answer) ==
    /\ own[k] \in {"recording", "hidden"}
    /\ own' = [own EXCEPT ![k] = answer]
    /\ unseen' = IF \E c \in Slots : calls[c].op = "inFlight" /\ body[calls[c].e] = k
                 THEN unseen \cup {k} ELSE unseen
    /\ UNCHANGED <<rowVars, providerVars, ledgerVars, calls>>

\* A Razorpay event names any refund made; a Stripe one carries the sum so far.
Send(e, k) ==
    /\ body[e] = -1
    /\ k \in IF Provider = "stripe" THEN {0, made} ELSE 0..made
    /\ body' = [body EXCEPT ![e] = k]
    /\ UNCHANGED <<rowVars, deliveries, made, own, ledgerVars, calls, unseen>>

Die(c) ==
    /\ calls[c] # Idle
    /\ Goto(c, Idle)
    /\ UNCHANGED <<rowVars, providerVars, own, ledgerVars, unseen>>

----------------------------------------------------------------------------
Init ==
    /\ st = [e \in Event |-> "NONE"] /\ attempts = [e \in Event |-> 0]
    /\ body = [e \in Event |-> -1] /\ deliveries = [e \in Event |-> 0]
    /\ made = 0 /\ own = [k \in 1..MaxRefunds |-> "none"]
    /\ refunded = 0 /\ deducted = 0
    /\ calls = [c \in Slots |-> Idle] /\ unseen = {}

Work(c) ==
    \/ CreateRow(c) \/ ResetRow(c) \/ Claim(c) \/ ReadRecord(c) \/ Dispatch(c)
    \/ SettleRow(c) \/ CheckInFlight(c) \/ CheckSibling(c) \/ Count(c) \/ Deduct(c)
    \/ FinishEvent(c) \/ Fail(c)

Next ==
    \/ \E c \in Slots : Work(c) \/ Die(c) \/ \E e \in Event : IngestRead(c, e) \/ SweepPick(c, e)
    \/ \E row \in {"none", "recording", "hidden"} : MakeRefund(row)
    \/ \E k \in 1..MaxRefunds, answer \in {"PROCESSING", "COMPLETED"} : RecordRefund(k, answer)
    \/ \E e \in Event, k \in 0..MaxRefunds : Send(e, k)

Spec == Init /\ [][Next]_vars

----------------------------------------------------------------------------
(* Properties.                                                             *)

InboxTypeOK ==
    /\ st \in [Event -> Status] /\ attempts \in [Event -> Nat]
    /\ body \in [Event -> {-1} \cup (0..made)] /\ deliveries \in [Event -> Nat]
    /\ made \in 0..MaxRefunds /\ own \in [1..MaxRefunds -> OwnRow]
    /\ refunded \in Nat /\ deducted \in Nat
    /\ calls \in [Slots -> Call] /\ unseen \subseteq 1..MaxRefunds

\* A dead letter has used up its attempts, also when two processors worked on the
\* row and each counted its own.
DeadLetterExhausted == \A e \in Event : st[e] = "DEAD_LETTER" => attempts[e] >= MAX_ATTEMPTS

\* settleRefundRow: once a refund.processed event counts as handled, our row of that
\* refund is not left open, which nothing would ever close, whether the event came
\* before or after the provider's answer was committed.  Two cases are excepted: the
\* answer is committed between the two reads, or the row is hidden from the second.
Open(k) == own[k] \in {"recording", "hidden", "PROCESSING"}

ClosedWithEvent ==
    Provider = "razorpay" =>
        \A e \in Event : st[e] = "PROCESSED" /\ body[e] > 0 => ~Open(body[e]) \/ body[e] \in unseen

\* A process that died while it had the row: nothing will take the row again,
\* because neither ingest nor the sweep looks at PROCESSING.
WorksOn(c, e) == calls[c].e = e /\ calls[c].op \notin {"idle", "create", "reset", "claim"}
Orphaned(e) == st[e] = "PROCESSING" /\ \A c \in Slots : ~WorksOn(c, e)

\* A row that two processors shared: the late one wrote FAILED after the count
\* of attempts had reached the cap.
Spent(e) == st[e] = "FAILED" /\ attempts[e] >= MAX_ATTEMPTS

Settled(e) == st[e] \in {"PROCESSED", "IGNORED", "DEAD_LETTER"}

\* An event the API has accepted is processed, ignored or dead-lettered, whatever
\* happens inline, unless the process handling it dies or the row is spent.
AcceptedIsHandled ==
    \A e \in Event : st[e] = "RECEIVED" ~> (Settled(e) \/ Orphaned(e) \/ Spent(e))

\* A processor that runs ends; the worker's sweep runs every fifteen seconds, and
\* not every one of its runs dies before its claim.
Fairness ==
    \A c \in Slots : /\ WF_vars(Work(c)) /\ SF_vars(Claim(c))
                     /\ \A e \in Event : SF_vars(SweepPick(c, e))

FairSpec == Spec /\ Fairness

----------------------------------------------------------------------------
(* What the repository's comments say, and TLC refutes.                    *)

\* reverseIfTransferred: "the refund webhook is not marked processed, so it is
\* redelivered."  A refund event that was accepted ends up handled.
CrashIsRedelivered ==
    \A e \in Event : (body[e] > 0 /\ st[e] = "RECEIVED") ~> (Settled(e) \/ Spent(e))

\* settleRefundRow: "Throws - so the event is retried - when a refund of ours on this
\* booking is still between the provider call and its commit: [...] finalising nothing
\* would leave it PROCESSING for ever."  ClosedWithEvent with no exception.
NeverLeftOpen ==
    Provider = "razorpay" =>
        \A e \in Event : st[e] = "PROCESSED" /\ body[e] > 0 => ~Open(body[e])

\* handleRefund: "Once per Razorpay refund, not once per delivery."  When every
\* refund event has been processed, the ledger counts each refund once.
OncePerRefund ==
    LET reports == {e \in Event : body[e] > 0}
    IN  (\A c \in Slots : calls[c] = Idle) /\ (\A e \in reports : st[e] = "PROCESSED")
            => refunded = Cardinality({body[e] : e \in reports})
=============================================================================
