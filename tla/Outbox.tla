------------------------------- MODULE Outbox -------------------------------
(***************************************************************************)
(* The transactional outbox (apps/api/src/common/domain-events/outbox):    *)
(* OutboxEvent rows, the dispatcher that claims them under a lease, the    *)
(* durable per-handler record (ProcessedDomainEvent) that keeps a handler  *)
(* from running twice, the operators' actions and retention.               *)
(*                                                                         *)
(* A slot is one claimed row of one worker's batch: it waits, is delivered *)
(* and ends on its own.  Leases lapse and rows fall due by actions of      *)
(* their own, so that a lease may outlast or undercut the delivery.  The   *)
(* retry delay is the time that passes before a failed row is claimed.     *)
(* serializeEvent refuses what deserializeEvent would not take back, so a  *)
(* recorded row fails there only for its version.  A handler that passes   *)
(* its time limit goes on in the background, where nothing awaits it.      *)
(***************************************************************************)
EXTENDS Integers, FiniteSets

CONSTANTS
    Event,
    Earlier,            \* pairs <<e, f>>: same aggregate, e created before f
    Slots,
    NHandlers,          \* handlers subscribed to each event, in their order
    MaxAttempts,        \* OutboxEvent.maxAttempts
    MaxFaults,          \* bound on crashes, failed writes and refusals
    MaxOverruns,        \* bound on the runs of one handler that pass its time limit
    MaxOps,             \* bound on the operators' actions
    MaxMonths,          \* bound on the retention periods that pass
    NoEvent

ASSUME OutboxAssumption ==
    /\ Earlier \subseteq Event \X Event
    /\ NHandlers \in Nat /\ MaxAttempts \in Nat \ {0}
    /\ MaxFaults \in Nat /\ MaxOverruns \in Nat /\ MaxOps \in Nat /\ MaxMonths \in Nat
    /\ NoEvent \notin Event

VARIABLES
    status,             \* OutboxEvent.status ("NONE": not recorded, "PURGED": deleted)
    attempts,           \* OutboxEvent.attemptCount
    lease,              \* lockExpiresAt: none, still to come, or past
    newer,              \* events of a version this build does not know
    proc,               \* ProcessedDomainEvent.status of an event and a handler
    old,                \* rows whose retention period is over
    slots,              \* claimed rows in the workers' hands
    background,         \* runs of a handler that go on after their time limit
    done,               \* how often a handler has run to its end
    purges,             \* how often its record was purged
    overran,            \* how often a run of it passed its time limit
    refused,            \* events a delivery of which failed for good
    late,               \* events recorded or reopened after a later sibling was claimed
    faults, ops, months

rowVars   == <<status, attempts, lease, newer>>
boundVars == <<faults, ops, months>>
history   == <<done, purges, overran, refused, late>>
vars == <<rowVars, proc, old, slots, background, history, boundVars>>

Handler    == 1..NHandlers
Pair       == Event \X Handler
Open       == {"PENDING", "PROCESSING", "RETRYABLE_FAILURE"}
Closed     == {"DELIVERED", "DEAD_LETTERED", "MANUAL_REVIEW", "CANCELLED"}
Status     == Open \cup Closed \cup {"NONE", "PURGED"}
ProcStatus == {"none", "PROCESSING", "COMPLETED", "FAILED"}

\* A slot carries the row, the attemptCount the claim returned, the handler it is
\* at, and whether some handler is not complete.  The last three are the classes of
\* classifyOutboxFailure: retryable, permanent, for a person.
Slot == [op: {"idle", "read", "next", "run", "fail", "refused", "review"}, e: Event \cup {NoEvent},
         n: Nat, h: Nat, pending: BOOLEAN]
Idle == [op |-> "idle", e |-> NoEvent, n |-> 0, h |-> 0, pending |-> FALSE]

Goto(s, slot) == slots' = [slots EXCEPT ![s] = slot]
Here(s) == <<slots[s].e, slots[s].h>>

\* On to the next handler.
Onward(s, pending) == [slots[s] EXCEPT !.op = "next", !.h = @ + 1, !.pending = pending]

\* update ... where id: whatever the row's status is by now.
SetRow(e, st) ==
    /\ status' = [status EXCEPT ![e] = st]
    /\ lease' = [lease EXCEPT ![e] = "none"]

Overtaken(e) == \E p \in Earlier : p[1] = e /\ attempts[p[2]] > 0
Reopen(e) == late' = IF Overtaken(e) THEN late \cup {e} ELSE late

----------------------------------------------------------------------------
(* Recording, in the transaction of the business mutation.  Two            *)
(* transactions may commit in the other order than their rows were made.   *)

Record(e) ==
    /\ status[e] = "NONE"
    /\ status' = [status EXCEPT ![e] = "PENDING"]
    /\ \E n \in {newer, newer \cup {e}} : newer' = n
    /\ Reopen(e)
    /\ UNCHANGED <<attempts, lease, proc, old, slots, background,
                   done, purges, overran, refused, boundVars>>

----------------------------------------------------------------------------
(* The dispatcher                                                          *)

EligibleUnleased(e) == status[e] \in {"PENDING", "RETRYABLE_FAILURE"}

Eligible(e) == \/ status[e] \in {"PENDING", "RETRYABLE_FAILURE"}
               \/ status[e] = "PROCESSING" /\ lease[e] = "lapsed"

NoEarlierPending(e) == \A p \in Earlier : p[2] = e => status[p[1]] \notin {"PENDING", "PROCESSING"}

NoEarlierSibling(e) == \A p \in Earlier : p[2] = e => status[p[1]] \notin Open

\* claim, one statement under FOR UPDATE SKIP LOCKED.
Claim(s, e) ==
    /\ slots[s] = Idle /\ Eligible(e) /\ NoEarlierSibling(e)
    /\ status' = [status EXCEPT ![e] = "PROCESSING"]
    /\ lease' = [lease EXCEPT ![e] = "held"]
    /\ attempts' = [attempts EXCEPT ![e] = @ + 1]
    /\ Goto(s, [Idle EXCEPT !.op = "read", !.e = e, !.n = attempts[e] + 1])
    /\ UNCHANGED <<newer, proc, old, background, history, boundVars>>

\* processRow begins with deserializeEvent; a version newer than the catalogue's is
\* for a person.
Deserialize(s) ==
    /\ slots[s].op = "read"
    /\ Goto(s, IF slots[s].e \in newer THEN [slots[s] EXCEPT !.op = "review"]
                                      ELSE [slots[s] EXCEPT !.op = "next", !.h = 1])
    /\ UNCHANGED <<rowVars, proc, old, background, history, boundVars>>

\* ProcessedEventStore.claim of the next handler: a new or a FAILED record is
\* claimed and the handler runs, a COMPLETED one is skipped, any other means that
\* somebody else runs it.
MayRunIfIncomplete(s) == proc[Here(s)] # "COMPLETED"
MayRunIfFree(s) == proc[Here(s)] # "PROCESSING"

MayRun(s) == proc[Here(s)] \in {"none", "FAILED"}

InProgressIgnored(s) == FALSE

InProgress(s) == proc[Here(s)] = "PROCESSING"

StartHandler(s) ==
    /\ slots[s].op = "next" /\ slots[s].h <= NHandlers
    /\ IF MayRun(s)
       THEN /\ proc' = [proc EXCEPT ![Here(s)] = "PROCESSING"]
            /\ Goto(s, [slots[s] EXCEPT !.op = "run"])
       ELSE /\ Goto(s, Onward(s, slots[s].pending \/ InProgress(s)))
            /\ UNCHANGED proc
    /\ UNCHANGED <<rowVars, old, background, history, boundVars>>

\* executeHandler answered ok, and markCompleted.
HandlerOk(s) ==
    /\ slots[s].op = "run"
    /\ proc' = [proc EXCEPT ![Here(s)] = "COMPLETED"]
    /\ old' = old \ {Here(s)}
    /\ done' = [done EXCEPT ![Here(s)] = @ + 1]
    /\ Goto(s, Onward(s, slots[s].pending))
    /\ UNCHANGED <<rowVars, background, purges, overran, refused, late, boundVars>>

\* The handler threw, and markFailed.
HandlerFailed(s) ==
    /\ slots[s].op = "run"
    /\ proc' = [proc EXCEPT ![Here(s)] = "FAILED"]
    /\ Goto(s, Onward(s, TRUE))
    /\ UNCHANGED <<rowVars, old, background, history, boundVars>>

\* withTimeout rejects, and markFailed; the handler itself is not stopped.
HandlerTimesOut(s) ==
    /\ slots[s].op = "run" /\ overran[Here(s)] < MaxOverruns
    /\ proc' = [proc EXCEPT ![Here(s)] = "FAILED"]
    /\ background' = [background EXCEPT ![Here(s)] = @ + 1]
    /\ overran' = [overran EXCEPT ![Here(s)] = @ + 1]
    /\ Goto(s, Onward(s, TRUE))
    /\ UNCHANGED <<rowVars, old, done, purges, refused, late, boundVars>>

\* A run in the background ends, well or not, or dies with its process; nobody
\* awaits it and no record is written.
BackgroundEnds(p) ==
    /\ background[p] > 0
    /\ background' = [background EXCEPT ![p] = @ - 1]
    /\ \E n \in {0, 1} : done' = [done EXCEPT ![p] = @ + n]
    /\ UNCHANGED <<rowVars, proc, old, slots, purges, overran, refused, late, boundVars>>

Handled(s) == slots[s].op = "next" /\ slots[s].h > NHandlers

\* deliver() returned: the row is DELIVERED.
Deliver(s) ==
    /\ Handled(s) /\ ~slots[s].pending
    /\ SetRow(slots[s].e, "DELIVERED")
    /\ old' = old \ {slots[s].e}
    /\ Goto(s, Idle)
    /\ UNCHANGED <<attempts, newer, proc, background, history, boundVars>>

ExhaustedEarly(s) == slots[s].n + 1 >= MaxAttempts

Exhausted(s) == slots[s].n >= MaxAttempts

\* The status handleFailure writes: a permanent failure is dead-lettered whatever the
\* attempts are, a retryable one when they are used up.
Verdict(s) ==
    CASE slots[s].op = "refused" -> "DEAD_LETTERED"
      [] slots[s].op = "review"  -> "MANUAL_REVIEW"
      [] OTHER -> IF Exhausted(s) THEN "DEAD_LETTERED" ELSE "RETRYABLE_FAILURE"

\* deserializeEvent, deliver() or a write threw.
HandleFailure(s) ==
    /\ slots[s].op \in {"fail", "refused", "review"} \/ (Handled(s) /\ slots[s].pending)
    /\ SetRow(slots[s].e, Verdict(s))
    /\ IF status[slots[s].e] \notin Open /\ Verdict(s) = "RETRYABLE_FAILURE"
       THEN Reopen(slots[s].e) ELSE UNCHANGED late
    /\ old' = old \ {slots[s].e}
    /\ Goto(s, Idle)
    /\ UNCHANGED <<attempts, newer, proc, background, done, purges, overran, refused, boundVars>>

----------------------------------------------------------------------------
(* Faults                                                                  *)

\* A run whose delivery is cut short may have come to its end.
MayHaveRun(s) ==
    IF slots[s].op = "run"
    THEN \E n \in {0, 1} : done' = [done EXCEPT ![Here(s)] = @ + n]
    ELSE UNCHANGED done

\* A write of deliver() or the update to DELIVERED throws; processRow catches it.
\* The record of a handler that has run stays as it is.
StoreError(s) ==
    /\ slots[s].op \in {"next", "run"} /\ faults < MaxFaults
    /\ faults' = faults + 1
    /\ MayHaveRun(s)
    /\ Goto(s, [slots[s] EXCEPT !.op = "fail"])
    /\ UNCHANGED <<rowVars, proc, old, background, purges, overran, refused, late, ops, months>>

\* The delivery adapter throws an error of the permanent class or one for a person.
\* The contract of OutboxDeliveryAdapter allows it; the in-process adapter does not.
AdapterRefuses(s, class) ==
    /\ slots[s].op = "next" /\ faults < MaxFaults
    /\ faults' = faults + 1
    /\ refused' = IF class = "refused" THEN refused \cup {slots[s].e} ELSE refused
    /\ Goto(s, [slots[s] EXCEPT !.op = class])
    /\ UNCHANGED <<rowVars, proc, old, background, done, purges, overran, late, ops, months>>

\* The worker dies, or handleFailure's own write throws.
Crash(s) ==
    /\ slots[s] # Idle /\ faults < MaxFaults
    /\ faults' = faults + 1
    /\ MayHaveRun(s)
    /\ Goto(s, Idle)
    /\ UNCHANGED <<rowVars, proc, old, background, purges, overran, refused, late, ops, months>>

LeaseLapses(e) ==
    /\ lease[e] = "held"
    /\ lease' = [lease EXCEPT ![e] = "lapsed"]
    /\ UNCHANGED <<status, attempts, newer, proc, old, slots, background, history, boundVars>>

RecoverStaleLeases ==
    LET stale == {e \in Event : status[e] = "PROCESSING" /\ lease[e] = "lapsed"}
    IN  /\ stale # {}
        /\ status' = [e \in Event |-> IF e \in stale THEN "RETRYABLE_FAILURE" ELSE status[e]]
        /\ lease' = [e \in Event |-> IF e \in stale THEN "none" ELSE lease[e]]
        /\ UNCHANGED <<attempts, newer, proc, old, slots, background, history, boundVars>>

----------------------------------------------------------------------------
(* Operators                                                               *)

Operate(e, from, to) ==
    /\ ops < MaxOps /\ ops' = ops + 1
    /\ status[e] \in from
    /\ SetRow(e, to)
    /\ IF to = "PENDING" THEN Reopen(e) ELSE UNCHANGED late
    /\ UNCHANGED <<attempts, newer, proc, old, slots, background,
                   done, purges, overran, refused, faults, months>>

Retry(e) == Operate(e, {"RETRYABLE_FAILURE", "DEAD_LETTERED", "MANUAL_REVIEW"}, "PENDING")

\* retryBatch takes whichever status the operator names.
RetryBatch(e) == Operate(e, Open \cup Closed, "PENDING")

Cancel(e) == Operate(e, (Open \cup Closed) \ {"DELIVERED", "CANCELLED"}, "CANCELLED")

MarkManualReview(e) == Operate(e, Open \cup Closed, "MANUAL_REVIEW")

----------------------------------------------------------------------------
(* Retention                                                               *)

\* The retention period of everything that is finished now passes.  No delivery and
\* no series of retries lasts that long.
MonthPasses ==
    /\ months < MaxMonths
    /\ \A s \in Slots : slots[s] = Idle
    /\ \A p \in Pair : background[p] = 0
    /\ \A e \in Event : status[e] \notin Open
    /\ months' = months + 1
    /\ old' = {e \in Event : status[e] \in {"DELIVERED", "DEAD_LETTERED"}}
                \cup {p \in Pair : proc[p] = "COMPLETED"}
    /\ UNCHANGED <<rowVars, proc, slots, background, history, faults, ops>>

\* deleteMany of rows, kept by a status; dead letters have a longer period, so the
\* three statements are three steps.
PurgeRows(st) ==
    LET gone == {e \in Event \cap old : status[e] = st}
    IN  /\ gone # {}
        /\ status' = [e \in Event |-> IF e \in gone THEN "PURGED" ELSE status[e]]
        /\ lease' = [e \in Event |-> IF e \in gone THEN "none" ELSE lease[e]]
        /\ UNCHANGED <<attempts, newer, proc, old, slots, background, history, boundVars>>

PurgeDelivered  == PurgeRows("DELIVERED")
PurgeDeadLetter == PurgeRows("DEAD_LETTERED")

PurgeIdempotency ==
    LET gone == {p \in Pair \cap old : proc[p] = "COMPLETED"}
    IN  /\ gone # {}
        /\ proc' = [p \in Pair |-> IF p \in gone THEN "none" ELSE proc[p]]
        /\ purges' = [p \in Pair |-> IF p \in gone THEN purges[p] + 1 ELSE purges[p]]
        /\ old' = old \ gone
        /\ UNCHANGED <<rowVars, slots, background, done, overran, refused, late, boundVars>>

----------------------------------------------------------------------------
Init ==
    /\ status = [e \in Event |-> "NONE"] /\ attempts = [e \in Event |-> 0]
    /\ lease = [e \in Event |-> "none"] /\ newer = {}
    /\ proc = [p \in Pair |-> "none"] /\ old = {}
    /\ slots = [s \in Slots |-> Idle] /\ background = [p \in Pair |-> 0]
    /\ done = [p \in Pair |-> 0] /\ purges = [p \in Pair |-> 0]
    /\ overran = [p \in Pair |-> 0] /\ refused = {} /\ late = {}
    /\ faults = 0 /\ ops = 0 /\ months = 0

SlotStep(s) == Deserialize(s) \/ StartHandler(s) \/ HandlerOk(s) \/ HandlerFailed(s)
                 \/ HandlerTimesOut(s) \/ Deliver(s) \/ HandleFailure(s)

Next ==
    \/ \E e \in Event : \/ Record(e) \/ LeaseLapses(e)
                        \/ Retry(e) \/ RetryBatch(e) \/ Cancel(e) \/ MarkManualReview(e)
    \/ \E s \in Slots, e \in Event : Claim(s, e)
    \/ \E s \in Slots : SlotStep(s) \/ StoreError(s) \/ Crash(s)
                        \/ AdapterRefuses(s, "refused") \/ AdapterRefuses(s, "review")
    \/ \E p \in Pair : BackgroundEnds(p)
    \/ RecoverStaleLeases
    \/ MonthPasses \/ PurgeDelivered \/ PurgeDeadLetter \/ PurgeIdempotency

Spec == Init /\ [][Next]_vars

\* The repeatable job polls every second and claims what is eligible; a slot's calls
\* return (handlers are cut off by a timeout); time passes.  Nothing is assumed of
\* operators, faults or retention.
Fairness ==
    /\ \A e \in Event : WF_vars(\E s \in Slots : Claim(s, e)) /\ WF_vars(LeaseLapses(e))
    /\ \A s \in Slots : WF_vars(SlotStep(s))

FairSpec == Spec /\ Fairness

----------------------------------------------------------------------------
(* Properties                                                              *)

TypeOK ==
    /\ status \in [Event -> Status] /\ attempts \in [Event -> Nat]
    /\ lease \in [Event -> {"none", "held", "lapsed"}] /\ newer \in SUBSET Event
    /\ proc \in [Pair -> ProcStatus] /\ old \in SUBSET (Event \cup Pair)
    /\ slots \in [Slots -> Slot]
    /\ background \in [Pair -> Nat]
    /\ done \in [Pair -> Nat] /\ purges \in [Pair -> Nat]
    /\ overran \in [Pair -> 0..MaxOverruns] /\ refused \in SUBSET Event
    /\ late \in SUBSET Event
    /\ faults \in 0..MaxFaults /\ ops \in 0..MaxOps /\ months \in 0..MaxMonths

\* Two deliveries of one event, the second of which took the row over when the lease
\* of the first lapsed, never both await one handler: the record of the handler, not
\* the lease, decides (ProcessedEventStore.claim).  A run that has passed its time
\* limit is not awaited any more and may go on beside the one of the next delivery.
OneRunner ==
    \A s, t \in Slots :
        slots[s].op = "run" /\ slots[t].op = "run" /\ Here(s) = Here(t) => s = t

\* A handler that has run to its end does not run again, however often its event is
\* redelivered, requeued or taken over and whatever write fails, unless retention
\* deleted its record.  Every run that passed its time limit may add one more, in the
\* background.
CompletedOnce == \A p \in Pair : done[p] + background[p] <= 1 + purges[p] + overran[p]

\* outbox-delivery.adapter.ts: "completed side effects never repeat".  Not so for a
\* handler that passes its time limit.
NeverRepeated == \A p \in Pair : done[p] <= 1 + purges[p]

\* A row says DELIVERED only if every handler has run to its end, also when the
\* delivery that wrote it had lost its lease, or was cancelled or requeued under way
\* (deliver throws unless all are complete).
DeliveredMeansDone ==
    \A e \in Event : status[e] = "DELIVERED" => \A h \in Handler : done[<<e, h>>] > 0

\* An event is dead-lettered before maxAttempts claims were made of it only if a
\* delivery of it failed for good, also when a delivery that lost its lease writes the
\* verdict over the row.
DeadLetterExhausted ==
    \A e \in Event : status[e] = "DEAD_LETTERED" => attempts[e] >= MaxAttempts \/ e \in refused

\* Events of one aggregate are taken in the order of their creation: one is claimed
\* before an earlier sibling has settled only if that sibling was committed, requeued
\* or put back by a delivery without a lease after the claim.
InOrder ==
    \A p \in Earlier : attempts[p[2]] > 0 /\ status[p[1]] \in Open => p[1] \in late

\* Whatever workers crash and leases lapse, a recorded event reaches an outcome:
\* it is delivered, dead-lettered, or in the hands of a person.
EventuallySettled ==
    \A e \in Event : status[e] \in Open ~> status[e] \in Closed \cup {"PURGED"}

\* docs/ops/DOMAIN-EVENT-DELIVERY-RUNBOOK.md: "A worker crash never strands rows".
\* A handler's record does not stay PROCESSING for ever.
CrashStrandsNothing ==
    \A p \in Pair : proc[p] = "PROCESSING" ~> proc[p] # "PROCESSING"
=============================================================================
