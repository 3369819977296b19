------------------------------ MODULE Refund ------------------------------
(* Refunds of one paid booking (apps/api/src/refunds): a request names      *)
(* tickets, an approval claims it and asks the payment provider once, a     *)
(* lost answer is settled by a lookup or held for a person, an admin may    *)
(* retry what failed, and the provider's webhooks settle what it accepted.  *)
(*                                                                          *)
(* A refund returns one unit of money for a ticket. A worker is one request *)
(* and its handler: it serves one approval or one retry, and may stop       *)
(* between any two of its database and provider calls.                      *)
(* The provider (external) makes at most one refund per key, as Stripe does *)
(* by replaying and Razorpay by refusing a reused receipt, and lists a      *)
(* refund only once its call has finished. An administrator confirms "no    *)
(* refund in the dashboard" only when none is listed. What retryFacts       *)
(* learns from webhooks that have already arrived only makes it stricter    *)
(* and is left out: a webhook may always still be on its way. Cash and free *)
(* bookings have no provider and are left out.                              *)
EXTENDS Integers, FiniteSets, FiniteSetsExt

CONSTANTS Refunds,   \* refund rows
          Tickets,   \* the booking's tickets
          Workers,   \* approvals and retries, one handler each
          Captured,  \* what the customer paid: the tickets, one each, and fees
          MaxGen,    \* bound: keys a refund uses
          DbErrors,  \* whether the database may fail a handler's call
          Provider,  \* the payment provider of the booking
          NoRefund

ASSUME RefundAssumption ==
    /\ MaxGen \in Nat \ {0} /\ Captured \in Nat /\ NoRefund \notin Refunds
    /\ DbErrors \in BOOLEAN /\ Provider \in {"razorpay", "stripe"}

VARIABLES
    row,      \* row[r]: the refund row, with what its attempts and history say
    ticket,   \* ticket[t]: TRUE while ACTIVE or CHECKED_IN, FALSE once REFUNDED
    prov,     \* prov[r][g]: what the provider holds under key g of refund r
    worker,   \* worker[w]: what handler w does next
    undone    \* history: the rows whose claim was set back to FAILED by a step
              \* that did not belong to it (see RetryCatch and RefundFailed)

vars == <<row, ticket, prov, worker, undone>>

Gens == 1 .. MaxGen

NoRow == [st |-> "NONE", tix |-> {}, hold |-> FALSE, gen |-> 0, last |-> "NONE",
          answer |-> "UNKNOWN", accepted |-> FALSE, gone |-> FALSE, ref |-> 0]

\* retry: the handler is an administrator's retry; latest: its attempt is the
\* refund's last one.
Idle == [pc |-> "idle", r |-> NoRefund, retry |-> FALSE, returned |-> FALSE,
         g |-> 0, res |-> "NONE", latest |-> FALSE]

Init ==
    /\ row = [r \in Refunds |-> NoRow]
    /\ ticket = [t \in Tickets |-> TRUE]
    /\ prov = [r \in Refunds |-> [g \in Gens |-> "none"]]
    /\ worker = [w \in Workers |-> Idle]
    /\ undone = {}

\* "paid" and "bounced" become "settled" and "returned" when their webhook has
\* been handled.
Money == {"pending", "paid", "settled"}
Dead == {"refused", "bounced", "returned"}

\* The refunds of r the provider lists that were not refused.
LiveGens(r) == {g \in Gens : prov[r][g] \in Money}

\* Mutant: a refund that is only pending is reported as paid.
StatusOfEarly(state) == IF state \in Dead THEN "FAILED" ELSE "COMPLETED"

\* The provider's status of a refund, as its adapter reports it: Stripe's (and
\* Square's) calls a refund that is only pending COMPLETED.
StatusOf(state) ==
    CASE state \in Dead -> "FAILED"
      [] state = "pending" /\ Provider = "razorpay" -> "PROCESSING"
      [] OTHER -> "COMPLETED"

OpenStatuses == {"REQUESTED", "PROCESSING", "COMPLETED"}

At(w, pc) == worker[w].pc = pc

Ended == [Idle EXCEPT !.pc = "done"]
Done(w) == worker' = [worker EXCEPT ![w] = Ended]

Goto(w, pc) == worker' = [worker EXCEPT ![w].pc = pc]

\* The next step of w once it holds the claim and its tickets are checked.
PayStep(res) == IF res = "NONE" THEN "key" ELSE "commit"

\* The handlers that work on a claim of r.
Holding == {"check", "key", "begin", "wait", "lookup", "commit"}
Holders(r) == {w \in Workers : worker[w].pc \in Holding /\ worker[w].r = r}

\* A handler throws: an approval is over, a retry comes to its catch. res is
\* FAILED when the error says that the provider refused.
Throws(w, res) ==
    worker' = [worker EXCEPT ![w] =
                 IF worker[w].retry
                 THEN [Idle EXCEPT !.pc = "catch", !.r = worker[w].r, !.retry = TRUE, !.res = res]
                 ELSE Ended]

-----------------------------------------------------------------------------
(* Request, reject, approve. *)

\* Rows whose tickets may not be refunded again: open ones, and those held
\* because the money may have moved.
Covering(r) == row[r].st \in OpenStatuses \/ (row[r].st = "FAILED" /\ row[r].hold)

\* What a set of rows returns to the customer.
Amount(S) == MapThenSumSet(LAMBDA r : Cardinality(row[r].tix), S)

\* The tickets' statuses are read before the advisory lock is taken, so a
\* ticket that went back since may be among the targets.
Request(r, S) ==
    LET prior == {q \in Refunds : Covering(q)}
        targets == {t \in S : \A q \in prior : t \notin row[q].tix}
    IN  /\ row[r].st = "NONE"
        /\ targets # {}
        /\ Amount(prior) + Cardinality(targets) <= Captured
        /\ row' = [row EXCEPT ![r] = [@ EXCEPT !.st = "REQUESTED", !.tix = targets]]
        /\ UNCHANGED <<ticket, prov, worker, undone>>

Reject(r) ==
    /\ row[r].st = "REQUESTED"
    /\ row' = [row EXCEPT ![r].st = "REJECTED"]
    /\ UNCHANGED <<ticket, prov, worker, undone>>

Approve(w, r) ==
    /\ At(w, "idle") /\ row[r].st = "REQUESTED"
    /\ row' = [row EXCEPT ![r].st = "PROCESSING"]
    /\ worker' = [worker EXCEPT ![w] = [Idle EXCEPT !.pc = "check", !.r = r]]
    /\ UNCHANGED <<ticket, prov, undone>>

-----------------------------------------------------------------------------
(* payClaimed: the tickets, the provider call, the commit. *)

\* A ticket that already went back stops the refund before any money moves.
CheckTickets(w) ==
    LET r == worker[w].r
    IN  /\ At(w, "check")
        /\ \/ /\ \A t \in row[r].tix : ticket[t]
              /\ Goto(w, PayStep(worker[w].res))
              /\ UNCHANGED row
           \/ /\ \E t \in row[r].tix : ~ticket[t]
              /\ row' = [row EXCEPT ![r] = [@ EXCEPT !.st = "FAILED", !.gone = TRUE]]
              /\ Throws(w, "NONE")
        /\ UNCHANGED <<ticket, prov, undone>>

\* Mutant: every call carries a key of its own.
NextGenFresh(r) == row[r].gen + 1

\* The key of the next call: the same after a lost answer, a new one after the
\* provider answered the last call.
NextGen(r) ==
    IF row[r].gen = 0 \/ row[r].last \in {"ACCEPTED", "REFUSED"}
    THEN row[r].gen + 1 ELSE row[r].gen

\* keyFor: the row's key moves before the attempt is written.
KeyFor(w) ==
    LET r == worker[w].r
        g == NextGen(r)
    IN  /\ At(w, "key") /\ g \in Gens
        /\ row' = [row EXCEPT ![r].gen = g]
        /\ worker' = [worker EXCEPT ![w] = [@ EXCEPT !.pc = "begin", !.g = g]]
        /\ UNCHANGED <<ticket, prov, undone>>

\* begin: the attempt is written, now the last of its row; the call goes out.
Begin(w) ==
    LET r == worker[w].r
        g == worker[w].g
    IN  /\ At(w, "begin") /\ row[r].st = "PROCESSING"
        /\ row' = [row EXCEPT ![r].last = "SENT"]
        /\ prov' = IF prov[r][g] = "none" THEN [prov EXCEPT ![r][g] = "flying"] ELSE prov
        /\ worker' = [v \in Workers |->
                        CASE v = w -> [worker[v] EXCEPT !.pc = "wait", !.latest = TRUE]
                          [] v # w /\ worker[v].r = r -> [worker[v] EXCEPT !.latest = FALSE]
                          [] OTHER -> worker[v]]
        /\ UNCHANGED <<ticket, undone>>

\* alreadySending, or a database error: the row is no longer claimed, or
\* another handler of it moved the key or the call counter in between.
SendThrows(w) ==
    LET r == worker[w].r
    IN  /\ \/ At(w, "begin") /\ row[r].st # "PROCESSING"
           \/ worker[w].pc \in {"key", "begin"} /\ (DbErrors \/ Holders(r) # {w})
        /\ row' = [row EXCEPT ![r].st = "FAILED"]
        /\ Throws(w, "NONE")
        /\ UNCHANGED <<ticket, prov, undone>>

\* finish writes to the handler's own attempt; its database errors are ignored.
Finish(w, outcome) ==
    \/ row' = [row EXCEPT ![worker[w].r].last = IF worker[w].latest THEN outcome ELSE @]
    \/ DbErrors /\ UNCHANGED row

CallAnswered(w) ==
    LET state == prov[worker[w].r][worker[w].g]
    IN  /\ At(w, "wait") /\ state \in Money \union Dead
        /\ Finish(w, IF state \in Dead THEN "REFUSED" ELSE "ACCEPTED")
        /\ worker' = [worker EXCEPT ![w] = [@ EXCEPT !.pc = "commit", !.res = StatusOf(state),
                                                        !.latest = FALSE]]
        /\ UNCHANGED <<ticket, prov, undone>>

\* A timeout or a broken connection; the call may go on at the provider.
CallLost(w) ==
    /\ At(w, "wait")
    /\ Finish(w, "UNKNOWN")
    /\ worker' = [worker EXCEPT ![w] = [@ EXCEPT !.pc = "lookup", !.latest = FALSE]]
    /\ UNCHANGED <<ticket, prov, undone>>

\* The provider lists this refund, once, or the refusal of the key just sent.
LookupAnswers(w) ==
    LET r == worker[w].r
    IN  /\ At(w, "lookup")
        /\ \E g \in Gens :
             /\ \/ LiveGens(r) = {g}
                \/ LiveGens(r) = {} /\ g = worker[w].g /\ prov[r][g] \in Dead
             /\ worker' = [worker EXCEPT ![w] =
                  [@ EXCEPT !.pc = "commit", !.g = g, !.res = StatusOf(prov[r][g])]]
        /\ UNCHANGED <<row, ticket, prov, undone>>

\* Nothing listed that settles it, or the provider cannot be asked: held.
LookupHolds(w) ==
    /\ At(w, "lookup")
    /\ row' = [row EXCEPT ![worker[w].r] = [@ EXCEPT !.st = "FAILED", !.hold = TRUE]]
    /\ Throws(w, "NONE")
    /\ UNCHANGED <<ticket, prov, undone>>

\* The database fails while the lookup reads the sibling refunds: the refund
\* is FAILED, and not held.
LookupBreaks(w) ==
    /\ DbErrors /\ At(w, "lookup")
    /\ row' = [row EXCEPT ![worker[w].r].st = "FAILED"]
    /\ Throws(w, "NONE")
    /\ UNCHANGED <<ticket, prov, undone>>

\* Mutant: a refused refund cancels the tickets and reads as completed.
CommitRefusalVoids(w) ==
    /\ At(w, "commit") /\ worker[w].res = "FAILED"
    /\ row' = [row EXCEPT ![worker[w].r].st = "COMPLETED", ![worker[w].r].ref = worker[w].g]
    /\ ticket' = [t \in Tickets |-> ticket[t] /\ t \notin row[worker[w].r].tix]
    /\ Done(w)
    /\ UNCHANGED <<prov, undone>>

\* A refusal: the row is written, its history after it (AuditRefusal).
CommitRefusal(w) ==
    /\ At(w, "commit") /\ worker[w].res = "FAILED"
    /\ row' = [row EXCEPT ![worker[w].r] =
                 [@ EXCEPT !.st = "FAILED", !.ref = worker[w].g, !.hold = FALSE]]
    /\ Goto(w, "audit")
    /\ UNCHANGED <<ticket, prov, undone>>

\* REFUND_FAILED on the refund's history, and the throw that ends payClaimed.
AuditRefusal(w) ==
    /\ At(w, "audit")
    /\ row' = [row EXCEPT ![worker[w].r].answer = "REFUSED"]
    /\ Throws(w, "FAILED")
    /\ UNCHANGED <<ticket, prov, undone>>

\* One transaction: tickets back (unless they went back before), row settled.
CommitAccepted(w) ==
    LET r == worker[w].r
    IN  /\ At(w, "commit") /\ worker[w].res # "FAILED"
        /\ row' = [row EXCEPT ![r] =
                     [@ EXCEPT !.st = worker[w].res, !.ref = worker[w].g, !.hold = FALSE,
                               !.accepted = TRUE]]
        /\ ticket' = [t \in Tickets |->
                        ticket[t] /\ (t \in row[r].tix => worker[w].returned)]
        /\ worker' = [worker EXCEPT ![w] =
                        IF @.retry THEN [Idle EXCEPT !.pc = "result", !.r = r, !.retry = TRUE]
                        ELSE Ended]
        /\ UNCHANGED <<prov, undone>>

\* The database fails the commit; the row of an approval stays PROCESSING.
CommitBreaks(w) ==
    /\ DbErrors /\ At(w, "commit")
    /\ Throws(w, "NONE")
    /\ UNCHANGED <<row, ticket, prov, undone>>

\* The process dies; a claimed row stays PROCESSING.
Die(w) ==
    /\ worker[w].pc \notin {"idle", "done"}
    /\ Done(w)
    /\ UNCHANGED <<row, ticket, prov, undone>>

-----------------------------------------------------------------------------
(* retry: assess, claim, pay. *)

\* Whether a retry may send money. The provider lists no refund of this row:
\* the lookup says so (believed only RECHECK_AFTER_MS after a lost answer), it
\* lists the refusal of the current key, or it cannot be asked and the
\* administrator confirms the dashboard, which lists what the lookup would.
\* Or the provider cannot be asked, and refused the last attempt.
MaySend(r) == LiveGens(r) = {} \/ row[r].answer = "REFUSED"

\* The checks that come before the provider's answer is looked at.
Retryable(r) ==
    /\ row[r].st = "FAILED"
    /\ row[r].accepted \/ (~row[r].gone /\ \A t \in row[r].tix : ticket[t])
    /\ Amount({q \in Refunds \ {r} : row[q].st \in {"COMPLETED", "PROCESSING"}})
         + Cardinality(row[r].tix) <= Captured

RetryAssess(w, r) ==
    /\ At(w, "idle") /\ Retryable(r)
    /\ \/ /\ MaySend(r)
          /\ worker' = [worker EXCEPT ![w] =
                          [Idle EXCEPT !.pc = "claim", !.r = r, !.retry = TRUE,
                                       !.returned = row[r].accepted]]
       \/ \E g \in Gens :
            /\ LiveGens(r) = {g}
            /\ worker' = [worker EXCEPT ![w] =
                            [Idle EXCEPT !.pc = "claim", !.r = r, !.retry = TRUE,
                                         !.returned = row[r].accepted,
                                         !.g = g, !.res = StatusOf(prov[r][g])]]
    /\ UNCHANGED <<row, ticket, prov, undone>>

\* The claim of a retry; a recorded answer and tickets that went back before
\* skip the steps they make needless.
RetryClaim(w) ==
    LET r == worker[w].r
    IN  /\ At(w, "claim") /\ row[r].st = "FAILED"
        /\ row' = [row EXCEPT ![r] = [@ EXCEPT !.st = "PROCESSING", !.answer = "UNKNOWN"]]
        /\ Goto(w, IF worker[w].returned THEN PayStep(worker[w].res) ELSE "check")
        /\ UNCHANGED <<ticket, prov, undone>>

RetryLoses(w) ==
    /\ At(w, "claim") /\ row[worker[w].r].st # "FAILED"
    /\ Done(w)
    /\ UNCHANGED <<row, ticket, prov, undone>>

\* retry's catch: whatever failed, a row found PROCESSING is set to FAILED, by
\* id. Every path here but a broken commit set the row FAILED before, so what
\* it finds PROCESSING is by then another administrator's claim.
RetryCatch(w) ==
    LET r == worker[w].r
        claimed == row[r].st = "PROCESSING"
    IN  /\ At(w, "catch")
        /\ row' = [row EXCEPT ![r].st = IF claimed THEN "FAILED" ELSE @]
        /\ undone' = IF claimed THEN undone \union {r} ELSE undone
        /\ Goto(w, "result")
        /\ UNCHANGED <<ticket, prov>>

\* REFUND_RETRY_RESULT, the last word on what the provider answered.
RetryResult(w) ==
    /\ At(w, "result")
    /\ row' = [row EXCEPT ![worker[w].r].answer =
                 IF worker[w].res = "FAILED" THEN "REFUSED" ELSE "UNKNOWN"]
    /\ Done(w)
    /\ UNCHANGED <<ticket, prov, undone>>

-----------------------------------------------------------------------------
(* The provider (external), its webhooks, and time. *)

\* What the provider has sent back, or is about to.
SentBack ==
    MapThenSumSet(LAMBDA p : Cardinality(row[p[1]].tix),
                  {p \in Refunds \X Gens : prov[p[1]][p[2]] \in Money})

\* A call in flight ends: refused, never received, or accepted, which never
\* returns more than was captured.
ProviderAnswers(r, g) ==
    /\ prov[r][g] = "flying"
    /\ \E to \in {"refused", "none", "pending", "paid"} :
         /\ to \in Money => SentBack + Cardinality(row[r].tix) <= Captured
         /\ prov' = [prov EXCEPT ![r][g] = to]
    /\ UNCHANGED <<row, ticket, worker, undone>>

\* A pending refund reaches the customer or bounces.
ProviderSettles(r, g) ==
    /\ prov[r][g] = "pending"
    /\ \E to \in {"paid", "bounced"} : prov' = [prov EXCEPT ![r][g] = to]
    /\ UNCHANGED <<row, ticket, worker, undone>>

\* settleRefundRow throws, so the event comes again, while a refund of the
\* booking is claimed and carries no provider reference yet.
StillRecorded == \E q \in Refunds : row[q].st = "PROCESSING" /\ row[q].ref = 0

\* Razorpay's webhooks; the other providers' refunds have none here.
RefundProcessed(r, g) ==
    /\ Provider = "razorpay" /\ prov[r][g] = "paid"
    /\ row[r].ref = g \/ ~StillRecorded
    /\ prov' = [prov EXCEPT ![r][g] = "settled"]
    /\ row' = IF row[r].ref = g /\ row[r].st = "PROCESSING"
              THEN [row EXCEPT ![r].st = "COMPLETED"] ELSE row
    /\ UNCHANGED <<ticket, worker, undone>>

\* The row is failed by the reference it carries, whatever its current key is
\* and whoever is paying it again.
RefundFailed(r, g) ==
    /\ Provider = "razorpay" /\ prov[r][g] = "bounced"
    /\ row[r].ref = g \/ ~StillRecorded
    /\ prov' = [prov EXCEPT ![r][g] = "returned"]
    /\ row' = IF row[r].ref = g /\ row[r].st \in OpenStatuses
              THEN [row EXCEPT ![r] = [@ EXCEPT !.st = "FAILED", !.accepted = TRUE,
                                                !.answer = "REFUSED"]]
              ELSE row
    /\ undone' = IF /\ row[r].ref = g /\ row[r].st \in OpenStatuses
                    /\ row[r].gen # g \/ Holders(r) # {}
                 THEN undone \union {r} ELSE undone
    /\ UNCHANGED <<ticket, worker>>

Next ==
    \/ \E r \in Refunds :
          \/ \E S \in SUBSET Tickets : Request(r, S)
          \/ Reject(r)
          \/ \E g \in Gens : \/ ProviderAnswers(r, g) \/ ProviderSettles(r, g)
                            \/ RefundProcessed(r, g) \/ RefundFailed(r, g)
    \/ \E w \in Workers :
          \/ \E r \in Refunds : Approve(w, r) \/ RetryAssess(w, r)
          \/ CheckTickets(w) \/ KeyFor(w) \/ Begin(w) \/ SendThrows(w)
          \/ CallAnswered(w) \/ CallLost(w)
          \/ LookupAnswers(w) \/ LookupHolds(w) \/ LookupBreaks(w)
          \/ CommitRefusal(w) \/ AuditRefusal(w) \/ CommitAccepted(w) \/ CommitBreaks(w)
          \/ RetryClaim(w) \/ RetryLoses(w) \/ RetryCatch(w) \/ RetryResult(w)
          \/ Die(w)

Spec == Init /\ [][Next]_vars

-----------------------------------------------------------------------------
ProviderStates == {"none", "flying"} \union Money \union Dead

RowType ==
    [st : {"NONE", "REQUESTED", "REJECTED", "PROCESSING", "COMPLETED", "FAILED"},
     tix : SUBSET Tickets, hold : BOOLEAN, gen : 0 .. MaxGen,
     last : {"NONE", "SENT", "UNKNOWN", "ACCEPTED", "REFUSED"},
     answer : {"UNKNOWN", "REFUSED"}, accepted : BOOLEAN, gone : BOOLEAN,
     ref : 0 .. MaxGen]

WorkerType ==
    [pc : {"idle", "done", "claim", "audit", "catch", "result"} \union Holding,
     r : Refunds \union {NoRefund}, retry : BOOLEAN, returned : BOOLEAN,
     g : 0 .. MaxGen, res : {"NONE", "FAILED", "PROCESSING", "COMPLETED"},
     latest : BOOLEAN]

TypeOK ==
    /\ row \in [Refunds -> RowType]
    /\ ticket \in [Tickets -> BOOLEAN]
    /\ prov \in [Refunds -> [Gens -> ProviderStates]]
    /\ worker \in [Workers -> WorkerType]
    /\ undone \in SUBSET Refunds

\* refund-provider-call.ts, refunds.service.ts retry: whatever answers are lost,
\* whichever handlers die and however often it is tried again, the provider makes
\* one refund for a row, unless the row's claim was undone: by another retry's
\* catch, by its own after a commit that failed, or by the late refund.failed
\* event of an earlier key.
PaidOncePerRefund == \A r \in Refunds \ undone : Cardinality(LiveGens(r)) <= 1

\* The same with no exception, as the comment of retry (WHY IT CANNOT PAY TWICE)
\* puts it; the code does not keep it.
NeverPaidTwice == \A r \in Refunds : Cardinality(LiveGens(r)) <= 1

\* refunds.service.ts payClaimed: a ticket goes back only for a refund the
\* provider accepted, even if that one bounced later.
VoidedMeansAccepted ==
    \A t \in Tickets : ticket[t] \/ \E r \in Refunds : \E g \in Gens :
        t \in row[r].tix /\ prov[r][g] \in Money \union {"bounced", "returned"}

\* refunds.service.ts, razorpay-webhook.processor.ts: a Razorpay refund told to
\* the customer as COMPLETED was paid. (Stripe's adapter says COMPLETED earlier.)
CompletedMeansPaid ==
    \A r \in Refunds : Provider = "razorpay" /\ row[r].st = "COMPLETED" =>
        \E g \in Gens : prov[r][g] \in {"paid", "settled"}

\* refunds.service.ts request, retry: the money of one ticket goes back through
\* one refund.
TicketPaidOnce ==
    \A q, r \in Refunds : \A t \in row[q].tix \intersect row[r].tix :
        LiveGens(q) # {} /\ LiveGens(r) # {} => q = r
=============================================================================
