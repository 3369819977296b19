---------------------------- MODULE OutboxProofs ----------------------------
(* Safety of the outbox for any number of events, handlers, deliveries and *)
(* operators' actions, and any number of crashes.                          *)
EXTENDS Outbox, TLAPS

\* What a delivery carries stays true while others work on the same rows: the
\* attempts it was given are not more than the row's, the handler it runs is
\* recorded as PROCESSING, and as long as nothing is pending every handler it has
\* passed has run to its end.
Carries(x, att, pr, dn) ==
    /\ x \in Slot
    /\ x.op # "idle" => x.e \in Event /\ x.n <= att[x.e]
    /\ x.op \in {"next", "run"} => x.h >= 1
    /\ x.op = "run" => x.h <= NHandlers /\ pr[<<x.e, x.h>>] = "PROCESSING"
    /\ x.op \in {"next", "run"} /\ x.pending = FALSE =>
          \A k \in Handler : k < x.h => dn[<<x.e, k>>] > 0

SlotsOK ==
    \A s \in Slots :
        /\ Carries(slots[s], attempts, proc, done)
        /\ slots[s].op = "refused" => slots[s].e \in refused

\* The runs of a handler that have ended or go on in the background, and those that
\* purges and overruns account for.
Runs(p) == done[p] + background[p]
Allowed(p) == purges[p] + overran[p]

\* The record of a handler and the number of its runs belong together: one run more
\* than is accounted for means that the record is closed to further claims.
RecordOK(st, d, r, g) ==
    /\ st = "COMPLETED" => d > 0
    /\ st \in {"COMPLETED", "PROCESSING"} => r <= g + 1
    /\ st \in {"none", "FAILED"} => r <= g

RecordsOK == \A p \in Pair : RecordOK(proc[p], done[p], Runs(p), Allowed(p))

\* The run a delivery awaits has not been counted yet.
RunsOK == \A s \in Slots : slots[s].op = "run" => Runs(Here(s)) <= Allowed(Here(s))

OutboxInv ==
    /\ TypeOK /\ SlotsOK /\ RecordsOK /\ RunsOK /\ OneRunner
    /\ DeliveredMeansDone /\ DeadLetterExhausted /\ InOrder

\* Later attempts and later runs do not invalidate what a delivery carries.
LEMMA CarriesOn ==
    ASSUME NEW x, NEW att \in [Event -> Nat], NEW att2 \in [Event -> Nat],
           NEW pr, NEW pr2, NEW dn \in [Pair -> Nat], NEW dn2 \in [Pair -> Nat],
           Carries(x, att, pr, dn),
           \A e \in Event : att[e] <= att2[e],
           \A p \in Pair : dn[p] <= dn2[p],
           x.op = "run" => pr2[<<x.e, x.h>>] = "PROCESSING"
    PROVE  Carries(x, att2, pr2, dn2)
<1>1. x \in Slot /\ (x.op # "idle" => x.e \in Event /\ x.n <= att[x.e])
  BY DEF Carries
<1>2. x.op # "idle" => x.n <= att2[x.e]
  BY <1>1 DEF Slot
<1>3. ASSUME x.op \in {"next", "run"}, x.pending = FALSE, NEW k \in Handler, k < x.h
      PROVE  dn2[<<x.e, k>>] > 0
  <2>1. dn[<<x.e, k>>] > 0 /\ <<x.e, k>> \in Pair
    BY <1>3, <1>1 DEF Carries, Pair
  <2> QED
    BY <2>1
<1> QED
  BY <1>1, <1>2, <1>3 DEF Carries

\* A slot at rest carries nothing.
LEMMA IdleCarries ==
    ASSUME NEW att, NEW pr, NEW dn
    PROVE  Carries(Idle, att, pr, dn)
BY DEF Carries, Idle, Slot

\* One delivery moves, the others keep what they carry.
LEMMA SlotMoves ==
    ASSUME OutboxInv, NEW s \in Slots, NEW x, Goto(s, x),
           Carries(x, attempts', proc', done'),
           x.op = "refused" => x.e \in refused', refused \subseteq refused',
           attempts' \in [Event -> Nat], done' \in [Pair -> Nat],
           \A e \in Event : attempts[e] <= attempts'[e],
           \A p \in Pair : done[p] <= done'[p],
           \A t \in Slots \ {s} : slots[t].op = "run" => proc'[Here(t)] = "PROCESSING"
    PROVE  /\ slots' \in [Slots -> Slot] /\ SlotsOK'
           /\ \A t \in Slots : slots'[t] = IF t = s THEN x ELSE slots[t]
<1>1. slots' = [slots EXCEPT ![s] = x] /\ slots \in [Slots -> Slot] /\ x \in Slot
  BY DEF Goto, OutboxInv, TypeOK, Carries
<1>2. \A t \in Slots : slots'[t] = IF t = s THEN x ELSE slots[t]
  BY <1>1
<1>3. ASSUME NEW t \in Slots, t # s  PROVE Carries(slots[t], attempts', proc', done')
  <2>1. Carries(slots[t], attempts, proc, done)
    BY DEF OutboxInv, SlotsOK
  <2>2. attempts \in [Event -> Nat] /\ done \in [Pair -> Nat]
    BY DEF OutboxInv, TypeOK
  <2> QED
    BY <2>1, <2>2, <1>3, CarriesOn DEF Here
<1>4. ASSUME NEW t \in Slots, t # s, slots[t].op = "refused"  PROVE slots[t].e \in refused'
  BY <1>4 DEF OutboxInv, SlotsOK
<1> QED
  BY <1>1, <1>2, <1>3, <1>4 DEF SlotsOK

\* No delivery moves.
LEMMA SlotsStay ==
    ASSUME OutboxInv, UNCHANGED <<slots, attempts, refused>>, done' \in [Pair -> Nat],
           \A p \in Pair : done[p] <= done'[p],
           \A t \in Slots : slots[t].op = "run" => proc'[Here(t)] = "PROCESSING"
    PROVE  SlotsOK' /\ OneRunner'
<1>1. ASSUME NEW t \in Slots  PROVE Carries(slots[t], attempts', proc', done')
  <2>1. Carries(slots[t], attempts, proc, done)
    BY DEF OutboxInv, SlotsOK
  <2>2. attempts \in [Event -> Nat] /\ done \in [Pair -> Nat]
    BY DEF OutboxInv, TypeOK
  <2>3. \A e \in Event : attempts[e] <= attempts'[e]
    BY <2>2
  <2> QED
    BY <2>1, <2>2, <2>3, CarriesOn DEF Here
<1>2. OneRunner'
  BY DEF OutboxInv, OneRunner, Here
<1>3. \A t \in Slots : slots'[t].op = "refused" => slots'[t].e \in refused'
  BY DEF OutboxInv, SlotsOK
<1> QED
  BY <1>1, <1>2, <1>3 DEF SlotsOK

\* The pair of a running handler is a pair of the model.
LEMMA RunningPair ==
    ASSUME OutboxInv, NEW s \in Slots, slots[s].op \in {"next", "run"},
           slots[s].h <= NHandlers
    PROVE  Here(s) \in Pair /\ slots[s].h \in Handler /\ slots[s].e \in Event
<1>1. Carries(slots[s], attempts, proc, done)
  BY DEF OutboxInv, SlotsOK
<1> QED
  BY <1>1, OutboxAssumption DEF Carries, Here, Pair, Handler, Slot

\* The handler a slot runs: its record and who else may be at it.
LEMMA Running ==
    ASSUME OutboxInv, NEW s \in Slots, slots[s].op = "run"
    PROVE  /\ Here(s) \in Pair /\ slots[s].h \in Handler /\ slots[s].e \in Event
           /\ proc[Here(s)] = "PROCESSING" /\ Runs(Here(s)) <= Allowed(Here(s))
           /\ \A t \in Slots \ {s} : slots[t].op = "run" => Here(t) # Here(s)
<1>1. Carries(slots[s], attempts, proc, done)
  BY DEF OutboxInv, SlotsOK
<1>2. slots[s].h <= NHandlers /\ proc[Here(s)] = "PROCESSING"
  BY <1>1 DEF Carries, Here
<1>3. Here(s) \in Pair /\ slots[s].h \in Handler /\ slots[s].e \in Event
  BY <1>2, RunningPair
<1>4. Runs(Here(s)) <= Allowed(Here(s))
  BY DEF OutboxInv, RunsOK
<1>5. \A t \in Slots \ {s} : slots[t].op = "run" => Here(t) # Here(s)
  BY DEF OutboxInv, OneRunner
<1> QED
  BY <1>2, <1>3, <1>4, <1>5

\* The counters of a pair are numbers.
LEMMA Counters ==
    ASSUME OutboxInv, NEW p \in Pair
    PROVE  /\ done[p] \in Nat /\ background[p] \in Nat /\ purges[p] \in Nat
           /\ overran[p] \in Nat /\ proc[p] \in ProcStatus
           /\ RecordOK(proc[p], done[p], Runs(p), Allowed(p))
BY OutboxAssumption DEF OutboxInv, TypeOK, RecordsOK

\* The invariant holds of an empty outbox.
LEMMA OutboxInit == Init => OutboxInv
<1> SUFFICES ASSUME Init  PROVE OutboxInv
  OBVIOUS
<1>1. SlotsOK
  <2>1. Idle.op # "refused"
    BY DEF Idle
  <2> QED
    BY <2>1, IdleCarries DEF Init, SlotsOK
<1>2. TypeOK
  BY OutboxAssumption DEF Init, TypeOK, Status, Open, Closed, ProcStatus, Slot, Idle
<1>3. OneRunner
  BY DEF Init, OneRunner, Idle
<1>4. RecordsOK
  BY DEF Init, RecordsOK, RecordOK, Runs, Allowed
<1>5. RunsOK
  BY DEF Init, RunsOK, Idle
<1> QED
  BY <1>1, <1>2, <1>3, <1>4, <1>5, OutboxAssumption
  DEF OutboxInv, Init, DeliveredMeansDone, DeadLetterExhausted, InOrder

\* What a step has to show of the rows it writes.
LEMMA RowsKept ==
    ASSUME OutboxInv, UNCHANGED attempts, done' \in [Pair -> Nat],
           \A p \in Pair : done[p] <= done'[p],
           late \subseteq late', refused \subseteq refused',
           \A e \in Event : status'[e] \in Open =>
                              status[e] \in Open \/ ~Overtaken(e) \/ e \in late',
           \A e \in Event : status'[e] = "DELIVERED" =>
                              \/ status[e] = "DELIVERED"
                              \/ \A h \in Handler : done[<<e, h>>] > 0,
           \A e \in Event : status'[e] = "DEAD_LETTERED" =>
                              \/ status[e] = "DEAD_LETTERED"
                              \/ attempts[e] >= MaxAttempts \/ e \in refused'
    PROVE  DeliveredMeansDone' /\ DeadLetterExhausted' /\ InOrder'
<1>1. ASSUME NEW e \in Event, status'[e] = "DELIVERED", NEW h \in Handler
      PROVE  done'[<<e, h>>] > 0
  <2>1. done[<<e, h>>] > 0 /\ <<e, h>> \in Pair
    BY <1>1 DEF OutboxInv, DeliveredMeansDone, Pair
  <2>2. done \in [Pair -> Nat]
    BY DEF OutboxInv, TypeOK
  <2> QED
    BY <2>1, <2>2
<1>2. DeadLetterExhausted'
  BY DEF OutboxInv, DeadLetterExhausted
<1>3. ASSUME NEW p \in Earlier, attempts'[p[2]] > 0, status'[p[1]] \in Open
      PROVE  p[1] \in late'
  <2>1. p[1] \in Event
    BY OutboxAssumption
  <2>2. Overtaken(p[1])
    BY <1>3 DEF Overtaken
  <2> QED
    BY <1>3, <2>1, <2>2 DEF OutboxInv, InOrder
<1> QED
  BY <1>1, <1>2, <1>3 DEF DeliveredMeansDone, InOrder, Handler

\* A step that only writes rows and moves no delivery.
LEMMA RowStep ==
    ASSUME OutboxInv, TypeOK', late \subseteq late',
           UNCHANGED <<attempts, proc, slots, background, done, purges, overran, refused>>,
           \A e \in Event : status'[e] \in Open =>
                              status[e] \in Open \/ ~Overtaken(e) \/ e \in late',
           \A e \in Event : status'[e] \in {"DELIVERED", "DEAD_LETTERED"} =>
                              status'[e] = status[e]
    PROVE  OutboxInv'
<1>1. \A t \in Slots : slots[t].op = "run" => proc'[Here(t)] = "PROCESSING"
  BY DEF OutboxInv, SlotsOK, Carries, Here
<1>4. done' \in [Pair -> Nat] /\ \A p \in Pair : done[p] <= done'[p]
  BY DEF OutboxInv, TypeOK
<1>2. SlotsOK' /\ OneRunner'
  BY <1>1, <1>4, SlotsStay
<1>3. RecordsOK' /\ RunsOK'
  BY DEF OutboxInv, RecordsOK, RunsOK, Runs, Allowed, Here
<1>5. DeliveredMeansDone' /\ DeadLetterExhausted' /\ InOrder'
  BY <1>4, RowsKept
<1> QED
  BY <1>2, <1>3, <1>5 DEF OutboxInv

\* A delivery's step that leaves the handlers' records alone; the run it awaited may
\* have come to its end.
LEMMA SlotStepKeeps ==
    ASSUME OutboxInv, NEW s \in Slots, NEW x, Goto(s, x), x.op # "run",
           UNCHANGED <<attempts, newer, proc, background, purges, overran, ops, months>>,
           done' \in [Pair -> Nat],
           \A p \in Pair : done'[p] # done[p] =>
               slots[s].op = "run" /\ p = Here(s) /\ done'[p] = done[p] + 1,
           Carries(x, attempts, proc, done), x.op = "refused" => x.e \in refused',
           status' \in [Event -> Status], lease' \in [Event -> {"none", "held", "lapsed"}],
           old' \in SUBSET (Event \cup Pair), late' \in SUBSET Event, late \subseteq late',
           refused' \in SUBSET Event, refused \subseteq refused', faults' \in 0..MaxFaults,
           \A e \in Event : status'[e] \in Open =>
                              status[e] \in Open \/ ~Overtaken(e) \/ e \in late',
           \A e \in Event : status'[e] = "DELIVERED" =>
                              \/ status[e] = "DELIVERED"
                              \/ \A h \in Handler : done[<<e, h>>] > 0,
           \A e \in Event : status'[e] = "DEAD_LETTERED" =>
                              \/ status[e] = "DEAD_LETTERED"
                              \/ attempts[e] >= MaxAttempts \/ e \in refused'
    PROVE  OutboxInv'
<1>0. /\ attempts \in [Event -> Nat] /\ attempts' \in [Event -> Nat]
      /\ \A e \in Event : attempts[e] <= attempts'[e]
      /\ done \in [Pair -> Nat] /\ \A p \in Pair : done[p] <= done'[p]
  BY DEF OutboxInv, TypeOK
<1>1. \A t \in Slots : slots[t].op = "run" => proc'[Here(t)] = "PROCESSING"
  BY DEF OutboxInv, SlotsOK, Carries, Here
<1>2. Carries(x, attempts', proc', done')
  BY <1>0, CarriesOn
<1>3. /\ slots' \in [Slots -> Slot] /\ SlotsOK'
      /\ \A t \in Slots : slots'[t] = IF t = s THEN x ELSE slots[t]
  BY <1>0, <1>1, <1>2, SlotMoves
<1>4. OneRunner'
  BY <1>3 DEF OutboxInv, OneRunner, Here
<1>5. ASSUME NEW p \in Pair  PROVE RecordOK(proc'[p], done'[p], Runs(p)', Allowed(p)')
  <2>1. RecordOK(proc[p], done[p], Runs(p), Allowed(p)) /\ done[p] \in Nat /\ background[p] \in Nat
        /\ purges[p] \in Nat /\ overran[p] \in Nat
    BY Counters
  <2>2. CASE done'[p] = done[p]
    BY <2>1, <2>2 DEF RecordOK, Runs, Allowed
  <2>3. CASE slots[s].op = "run" /\ p = Here(s) /\ done'[p] = done[p] + 1
    <3>1. proc[p] = "PROCESSING" /\ Runs(p) <= Allowed(p)
      BY <2>3, Running
    <3> QED
      BY <2>1, <2>3, <3>1 DEF RecordOK, Runs, Allowed
  <2> QED
    BY <2>2, <2>3
<1>6. ASSUME NEW t \in Slots, slots'[t].op = "run"  PROVE (Runs(Here(t)) <= Allowed(Here(t)))'
  <2>1. t # s /\ slots'[t] = slots[t] /\ slots[t].op = "run"
    BY <1>3, <1>6
  <2>2. Here(t) \in Pair /\ Runs(Here(t)) <= Allowed(Here(t))
    BY <2>1, Running
  <2>3. slots[s].op = "run" => Here(s) # Here(t)
    BY <2>1 DEF OutboxInv, OneRunner
  <2>4. done'[Here(t)] = done[Here(t)] /\ Here(t)' = Here(t)
    BY <2>1, <2>2, <2>3 DEF Here
  <2> QED
    BY <2>2, <2>4 DEF Runs, Allowed
<1>7. TypeOK'
  BY <1>3 DEF OutboxInv, TypeOK
<1>8. DeliveredMeansDone' /\ DeadLetterExhausted' /\ InOrder'
  BY <1>0, RowsKept
<1> QED
  BY <1>3, <1>4, <1>5, <1>6, <1>7, <1>8 DEF OutboxInv, RecordsOK, RunsOK

\* A new row is open; it counts as late if a later sibling was already claimed.
LEMMA RecordKeeps == ASSUME OutboxInv, NEW e \in Event, Record(e)  PROVE OutboxInv'
<1>1. TypeOK'
  BY DEF Record, Reopen, OutboxInv, TypeOK, Status, Open, boundVars
<1>2. /\ late \subseteq late'
      /\ \A f \in Event : status'[f] \in Open =>
                           status[f] \in Open \/ ~Overtaken(f) \/ f \in late'
      /\ \A f \in Event : status'[f] \in {"DELIVERED", "DEAD_LETTERED"} => status'[f] = status[f]
  BY DEF Record, Reopen, OutboxInv, TypeOK
<1>3. UNCHANGED <<attempts, proc, slots, background, done, purges, overran, refused>>
  BY DEF Record
<1> QED
  BY <1>1, <1>2, <1>3, RowStep

\* A lease that lapses changes no row's outcome.
LEMMA LeaseLapsesKeeps == ASSUME OutboxInv, NEW e \in Event, LeaseLapses(e)  PROVE OutboxInv'
<1>1. TypeOK'
  BY DEF LeaseLapses, OutboxInv, TypeOK, history, boundVars
<1>2. UNCHANGED <<status, attempts, proc, slots, background, done, purges, overran, refused, late>>
  BY DEF LeaseLapses, history
<1> QED
  BY <1>1, <1>2, RowStep

\* Stale rows go from one open status to another.
LEMMA RecoverKeeps == ASSUME OutboxInv, RecoverStaleLeases  PROVE OutboxInv'
<1>1. TypeOK'
  BY DEF RecoverStaleLeases, OutboxInv, TypeOK, Status, Open, history, boundVars
<1>2. UNCHANGED <<attempts, proc, slots, background, done, purges, overran, refused, late>>
  BY DEF RecoverStaleLeases, history
<1>3. /\ \A f \in Event : status'[f] \in Open => status[f] \in Open
      /\ \A f \in Event : status'[f] \in {"DELIVERED", "DEAD_LETTERED"} => status'[f] = status[f]
  BY DEF RecoverStaleLeases, Open
<1> QED
  BY <1>1, <1>2, <1>3, RowStep

\* Operators requeue, cancel or park; they do not deliver or dead-letter.
LEMMA OperateKeeps ==
    ASSUME OutboxInv, NEW e \in Event, NEW from, NEW to \in {"PENDING", "CANCELLED", "MANUAL_REVIEW"},
           Operate(e, from, to)
    PROVE  OutboxInv'
<1>1. TypeOK'
  BY OutboxAssumption DEF Operate, SetRow, Reopen, OutboxInv, TypeOK, Status, Open, Closed
<1>2. UNCHANGED <<attempts, proc, slots, background, done, purges, overran, refused>>
  BY DEF Operate
<1>3. /\ late \subseteq late'
      /\ \A f \in Event : status'[f] \in Open =>
                           status[f] \in Open \/ ~Overtaken(f) \/ f \in late'
      /\ \A f \in Event : status'[f] \in {"DELIVERED", "DEAD_LETTERED"} => status'[f] = status[f]
  BY DEF Operate, SetRow, Reopen, Open, OutboxInv, TypeOK
<1> QED
  BY <1>1, <1>2, <1>3, RowStep

\* Time only makes rows old.
LEMMA MonthKeeps == ASSUME OutboxInv, MonthPasses  PROVE OutboxInv'
<1>1. TypeOK'
  BY OutboxAssumption DEF MonthPasses, OutboxInv, TypeOK, rowVars, history
<1>2. UNCHANGED <<status, attempts, proc, slots, background, done, purges, overran, refused, late>>
  BY DEF MonthPasses, rowVars, history
<1> QED
  BY <1>1, <1>2, RowStep

\* A purged row has no status a property speaks of.
LEMMA PurgeRowsKeeps == ASSUME OutboxInv, NEW st, PurgeRows(st)  PROVE OutboxInv'
<1>1. TypeOK'
  BY DEF PurgeRows, OutboxInv, TypeOK, Status, history, boundVars
<1>2. UNCHANGED <<attempts, proc, slots, background, done, purges, overran, refused, late>>
  BY DEF PurgeRows, history
<1>3. /\ \A f \in Event : status'[f] \in Open => status[f] \in Open
      /\ \A f \in Event : status'[f] \in {"DELIVERED", "DEAD_LETTERED"} => status'[f] = status[f]
  BY DEF PurgeRows, Open
<1> QED
  BY <1>1, <1>2, <1>3, RowStep

\* A record that is purged was COMPLETED: nobody runs its handler.
LEMMA PurgeIdempotencyKeeps == ASSUME OutboxInv, PurgeIdempotency  PROVE OutboxInv'
<1> DEFINE gone == {p \in Pair \cap old : proc[p] = "COMPLETED"}
<1>1. /\ proc' = [p \in Pair |-> IF p \in gone THEN "none" ELSE proc[p]]
      /\ purges' = [p \in Pair |-> IF p \in gone THEN purges[p] + 1 ELSE purges[p]]
      /\ old' = old \ gone
      /\ UNCHANGED <<status, attempts, lease, newer, slots, background, done, overran, refused,
                      late, faults, ops, months>>
  BY DEF PurgeIdempotency, rowVars, boundVars
<1>2. proc \in [Pair -> ProcStatus] /\ purges \in [Pair -> Nat] /\ done \in [Pair -> Nat]
  BY DEF OutboxInv, TypeOK
<1>3. TypeOK'
  <2>1. proc' \in [Pair -> ProcStatus] /\ purges' \in [Pair -> Nat]
    BY <1>1, <1>2 DEF ProcStatus
  <2>2. old' \in SUBSET (Event \cup Pair)
    BY <1>1 DEF OutboxInv, TypeOK
  <2> QED
    BY <1>1, <2>1, <2>2 DEF OutboxInv, TypeOK
<1>4. ASSUME NEW t \in Slots, slots[t].op = "run"  PROVE proc'[Here(t)] = "PROCESSING"
  <2>1. Carries(slots[t], attempts, proc, done)
    BY DEF OutboxInv, SlotsOK
  <2>2. proc[Here(t)] = "PROCESSING" /\ Here(t) \in Pair
    BY <1>4, <2>1, OutboxAssumption DEF Carries, Here, Pair, Handler, Slot
  <2> QED
    BY <2>2, <1>1
<1>7. done' \in [Pair -> Nat] /\ \A p \in Pair : done[p] <= done'[p]
  BY <1>1, <1>2
<1>5. SlotsOK' /\ OneRunner'
  BY <1>1, <1>4, <1>7, SlotsStay
<1>6. ASSUME NEW p \in Pair  PROVE RecordOK(proc'[p], done'[p], Runs(p)', Allowed(p)')
  <2>1. /\ RecordOK(proc[p], done[p], Runs(p), Allowed(p)) /\ done[p] \in Nat
        /\ background[p] \in Nat /\ purges[p] \in Nat /\ overran[p] \in Nat
    BY Counters
  <2>2. CASE p \in gone
    <3>1. proc'[p] = "none" /\ purges'[p] = purges[p] + 1 /\ done'[p] = done[p]
      BY <1>1, <2>2
    <3>2. proc[p] = "COMPLETED"
      BY <2>2
    <3> QED
      BY <1>1, <2>1, <3>1, <3>2 DEF RecordOK, Runs, Allowed
  <2>3. CASE p \notin gone
    <3>1. proc'[p] = proc[p] /\ purges'[p] = purges[p] /\ done'[p] = done[p]
      BY <1>1, <2>3
    <3> QED
      BY <1>1, <2>1, <3>1 DEF Runs, Allowed
  <2> QED
    BY <2>2, <2>3
<1>9. ASSUME NEW t \in Slots, slots[t].op = "run"
      PROVE  (Runs(Here(t)) <= Allowed(Here(t)))'
  <2>1. Here(t) \in Pair /\ Runs(Here(t)) <= Allowed(Here(t)) /\ Here(t)' = Here(t)
    BY <1>1, <1>9, Running DEF Here
  <2>2. /\ purges[Here(t)] \in Nat /\ overran[Here(t)] \in Nat
        /\ done[Here(t)] \in Nat /\ background[Here(t)] \in Nat
    BY <2>1, Counters
  <2>3. purges'[Here(t)] >= purges[Here(t)]
    BY <1>1, <2>1, <2>2
  <2> QED
    BY <1>1, <1>2, <2>1, <2>2, <2>3 DEF Runs, Allowed
<1>8. DeliveredMeansDone' /\ DeadLetterExhausted' /\ InOrder'
  BY <1>1, <1>7, RowsKept
<1> QED
  BY <1>1, <1>3, <1>5, <1>6, <1>8, <1>9 DEF OutboxInv, RecordsOK, RunsOK

\* A run in the background ends: its record stays, the runs counted do not grow.
LEMMA BackgroundEndsKeeps == ASSUME OutboxInv, NEW p \in Pair, BackgroundEnds(p)  PROVE OutboxInv'
<1>1. PICK n \in {0, 1} : done' = [done EXCEPT ![p] = @ + n]
  BY DEF BackgroundEnds
<1>2. /\ background[p] > 0 /\ background' = [background EXCEPT ![p] = @ - 1]
      /\ UNCHANGED <<status, attempts, lease, newer, proc, old, slots, purges, overran, refused,
                     late, faults, ops, months>>
  BY DEF BackgroundEnds, rowVars, boundVars
<1>3. done \in [Pair -> Nat] /\ background \in [Pair -> Nat]
  BY DEF OutboxInv, TypeOK
<1>4. /\ done' \in [Pair -> Nat] /\ background' \in [Pair -> Nat]
      /\ \A q \in Pair : done[q] <= done'[q] /\ done'[q] + background'[q] <= done[q] + background[q]
  BY <1>1, <1>2, <1>3
<1>5. TypeOK'
  BY <1>2, <1>4 DEF OutboxInv, TypeOK
<1>6. \A t \in Slots : slots[t].op = "run" => proc'[Here(t)] = "PROCESSING"
  BY <1>2 DEF OutboxInv, SlotsOK, Carries, Here
<1>7. SlotsOK' /\ OneRunner'
  BY <1>2, <1>4, <1>6, SlotsStay
<1>8. ASSUME NEW q \in Pair  PROVE RecordOK(proc'[q], done'[q], Runs(q)', Allowed(q)')
  <2>1. /\ RecordOK(proc[q], done[q], Runs(q), Allowed(q)) /\ done[q] \in Nat
        /\ background[q] \in Nat /\ purges[q] \in Nat /\ overran[q] \in Nat
    BY Counters
  <2>2. done'[q] \in Nat /\ background'[q] \in Nat
    BY <1>4
  <2> QED
    BY <1>2, <1>4, <2>1, <2>2 DEF RecordOK, Runs, Allowed
<1>9. ASSUME NEW t \in Slots, slots[t].op = "run"
      PROVE  (Runs(Here(t)) <= Allowed(Here(t)))'
  <2>1. Here(t) \in Pair /\ Runs(Here(t)) <= Allowed(Here(t)) /\ Here(t)' = Here(t)
    BY <1>2, <1>9, Running DEF Here
  <2>2. /\ purges[Here(t)] \in Nat /\ overran[Here(t)] \in Nat
        /\ done[Here(t)] \in Nat /\ background[Here(t)] \in Nat
        /\ done'[Here(t)] \in Nat /\ background'[Here(t)] \in Nat
    BY <1>4, <2>1, Counters
  <2> QED
    BY <1>2, <1>4, <2>1, <2>2 DEF Runs, Allowed
<1>10. DeliveredMeansDone' /\ DeadLetterExhausted' /\ InOrder'
  BY <1>2, <1>4, RowsKept
<1> QED
  BY <1>2, <1>5, <1>7, <1>8, <1>9, <1>10 DEF OutboxInv, RecordsOK, RunsOK

\* What a slot that is at work carries.
LEMMA AtWork ==
    ASSUME OutboxInv, NEW s \in Slots
    PROVE  /\ slots[s] \in Slot /\ Carries(slots[s], attempts, proc, done)
           /\ slots[s].op # "idle" => slots[s].e \in Event /\ slots[s].n <= attempts[slots[s].e]
           /\ slots[s].op = "refused" => slots[s].e \in refused
BY DEF OutboxInv, TypeOK, SlotsOK, Carries

\* A delivery moves on without touching rows, records or counters.
LEMMA SlotOnly ==
    ASSUME OutboxInv, NEW s \in Slots, NEW x, Goto(s, x), x.op # "run",
           Carries(x, attempts, proc, done), x.op = "refused" => x.e \in refused',
           faults' \in 0..MaxFaults,
           refused' \in SUBSET Event, refused \subseteq refused',
           UNCHANGED <<status, attempts, lease, newer, proc, old, background, done, purges,
                       overran, late, ops, months>>
    PROVE  OutboxInv'
<1>1. /\ status' \in [Event -> Status] /\ lease' \in [Event -> {"none", "held", "lapsed"}]
      /\ old' \in SUBSET (Event \cup Pair) /\ late' \in SUBSET Event /\ late \subseteq late'
      /\ done' \in [Pair -> Nat] /\ \A p \in Pair : done'[p] = done[p]
      /\ \A e \in Event : status'[e] = status[e]
  BY DEF OutboxInv, TypeOK
<1>2. UNCHANGED <<attempts, newer, proc, background, purges, overran, ops, months>>
  OBVIOUS
<1> QED
  BY <1>1, <1>2, SlotStepKeeps

\* A version this build does not know is for a person.
LEMMA DeserializeKeeps == ASSUME OutboxInv, NEW s \in Slots, Deserialize(s)  PROVE OutboxInv'
<1> DEFINE x == IF slots[s].e \in newer THEN [slots[s] EXCEPT !.op = "review"]
                                        ELSE [slots[s] EXCEPT !.op = "next", !.h = 1]
<1>1. slots[s] \in Slot /\ slots[s].e \in Event /\ slots[s].n <= attempts[slots[s].e]
  BY AtWork DEF Deserialize
<1>2. /\ x \in Slot /\ x.op \in {"review", "next"} /\ x.e = slots[s].e /\ x.n = slots[s].n
      /\ x.op = "next" => x.h = 1
  BY <1>1 DEF Slot
<1>3. Goto(s, x)
  BY DEF Deserialize
<1>4. /\ UNCHANGED <<status, attempts, lease, newer, proc, old, background, done, purges,
                      overran, refused, late, faults, ops, months>>
      /\ faults' \in 0..MaxFaults /\ refused' \in SUBSET Event
  BY DEF Deserialize, rowVars, history, boundVars, OutboxInv, TypeOK
<1> HIDE DEF x
<1>5. Carries(x, attempts, proc, done) /\ x.op \notin {"run", "refused"}
  BY <1>1, <1>2, OutboxAssumption DEF Carries, Handler
<1> QED
  BY <1>3, <1>4, <1>5, SlotOnly

\* A row is delivered by a delivery that has passed every handler with nothing
\* pending.
LEMMA DeliverKeeps == ASSUME OutboxInv, NEW s \in Slots, Deliver(s)  PROVE OutboxInv'
<1>1. slots[s] \in Slot /\ slots[s].e \in Event /\ Carries(slots[s], attempts, proc, done)
  BY AtWork DEF Deliver, Handled
<1>2. slots[s].op = "next" /\ slots[s].h > NHandlers /\ slots[s].pending = FALSE
  BY <1>1 DEF Deliver, Handled, Slot
<1>3. \A h \in Handler : done[<<slots[s].e, h>>] > 0
  BY <1>1, <1>2, OutboxAssumption DEF Carries, Handler, Slot
<1>4. UNCHANGED <<attempts, newer, proc, background, done, purges, overran, refused, late, faults,
                  ops, months>>
  BY DEF Deliver, history, boundVars
<1>5. /\ old' \in SUBSET (Event \cup Pair) /\ late' \in SUBSET Event /\ faults' \in 0..MaxFaults
      /\ late \subseteq late' /\ refused' \in SUBSET Event /\ done' \in [Pair -> Nat]
  BY <1>4 DEF Deliver, OutboxInv, TypeOK
<1>6. /\ Goto(s, Idle) /\ Idle.op \notin {"run", "refused"}
      /\ status' = [status EXCEPT ![slots[s].e] = "DELIVERED"]
      /\ lease' = [lease EXCEPT ![slots[s].e] = "none"]
  BY DEF Deliver, SetRow, Idle
<1>7. status' \in [Event -> Status] /\ lease' \in [Event -> {"none", "held", "lapsed"}]
  BY <1>6 DEF OutboxInv, TypeOK, Status, Closed
<1>8. \A f \in Event : status'[f] # status[f] => f = slots[s].e /\ status'[f] = "DELIVERED"
  BY <1>1, <1>6 DEF OutboxInv, TypeOK
<1>9. /\ \A f \in Event : status'[f] \in Open \cup {"DEAD_LETTERED"} => status[f] = status'[f]
      /\ \A f \in Event : status'[f] = "DELIVERED" =>
             status[f] = "DELIVERED" \/ \A h \in Handler : done[<<f, h>>] > 0
  BY <1>3, <1>8 DEF Open
<1> QED
  BY <1>4, <1>5, <1>6, <1>7, <1>9, IdleCarries, SlotStepKeeps

\* A failed delivery dead-letters the row only when it failed for good, or when the
\* attempts it was given, and so the row's, have reached the limit; a row it puts
\* back is late if overtaken.
LEMMA HandleFailureKeeps == ASSUME OutboxInv, NEW s \in Slots, HandleFailure(s)  PROVE OutboxInv'
<1>1. /\ slots[s] \in Slot /\ slots[s].e \in Event /\ slots[s].n <= attempts[slots[s].e]
      /\ slots[s].op = "refused" => slots[s].e \in refused
  BY AtWork DEF HandleFailure, Handled
<1>2. /\ status' = [status EXCEPT ![slots[s].e] = Verdict(s)]
      /\ lease' = [lease EXCEPT ![slots[s].e] = "none"] /\ old' = old \ {slots[s].e}
      /\ IF status[slots[s].e] \notin Open /\ Verdict(s) = "RETRYABLE_FAILURE"
         THEN Reopen(slots[s].e) ELSE UNCHANGED late
      /\ UNCHANGED <<attempts, newer, proc, background, done, purges, overran, refused, faults,
                     ops, months>>
      /\ Goto(s, Idle) /\ Idle.op \notin {"run", "refused"}
  BY DEF HandleFailure, SetRow, Idle, boundVars
<1>3. /\ status \in [Event -> Status] /\ lease \in [Event -> {"none", "held", "lapsed"}]
      /\ old \in SUBSET (Event \cup Pair) /\ late \in SUBSET Event /\ faults \in 0..MaxFaults
      /\ attempts \in [Event -> Nat] /\ refused' \in SUBSET Event /\ done' \in [Pair -> Nat]
  BY <1>2 DEF OutboxInv, TypeOK
<1>4. Verdict(s) \in {"DEAD_LETTERED", "MANUAL_REVIEW", "RETRYABLE_FAILURE"}
  BY DEF Verdict
<1>5. Verdict(s) = "DEAD_LETTERED" =>
          attempts[slots[s].e] >= MaxAttempts \/ slots[s].e \in refused
  BY <1>1, <1>3, OutboxAssumption DEF Verdict, Exhausted, Slot
<1>6. \A f \in Event : status'[f] = IF f = slots[s].e THEN Verdict(s) ELSE status[f]
  BY <1>1, <1>2, <1>3
<1>7. /\ status' \in [Event -> Status] /\ lease' \in [Event -> {"none", "held", "lapsed"}]
      /\ old' \in SUBSET (Event \cup Pair) /\ faults' \in 0..MaxFaults
  BY <1>2, <1>3, <1>4 DEF Status, Open, Closed
<1>8. late' \in SUBSET Event /\ late \subseteq late'
  BY <1>1, <1>2, <1>3 DEF Reopen
<1>9. \A f \in Event : status'[f] \in Open => status[f] \in Open \/ ~Overtaken(f) \/ f \in late'
  BY <1>1, <1>2, <1>4, <1>6 DEF Reopen, Open
<1>10. /\ \A f \in Event : status'[f] = "DELIVERED" => status[f] = "DELIVERED"
       /\ \A f \in Event : status'[f] = "DEAD_LETTERED" =>
             status[f] = "DEAD_LETTERED" \/ attempts[f] >= MaxAttempts \/ f \in refused'
  BY <1>2, <1>4, <1>5, <1>6
<1> QED
  BY <1>2, <1>3, <1>7, <1>8, <1>9, <1>10, IdleCarries, SlotStepKeeps

\* What a run that is cut short adds to the count.
LEMMA CutShort ==
    ASSUME OutboxInv, NEW s \in Slots, MayHaveRun(s)
    PROVE  /\ done' \in [Pair -> Nat]
           /\ \A p \in Pair : done'[p] # done[p] =>
                  slots[s].op = "run" /\ p = Here(s) /\ done'[p] = done[p] + 1
<1>1. done \in [Pair -> Nat]
  BY DEF OutboxInv, TypeOK
<1>2. CASE slots[s].op = "run"
  <2>1. PICK n \in {0, 1} : done' = [done EXCEPT ![Here(s)] = @ + n]
    BY <1>2 DEF MayHaveRun
  <2>2. Here(s) \in Pair
    BY <1>2, Running
  <2> QED
    BY <1>1, <1>2, <2>1, <2>2
<1>3. CASE slots[s].op # "run"
  BY <1>1, <1>3 DEF MayHaveRun
<1> QED
  BY <1>2, <1>3

\* A write that throws ends the delivery and leaves rows and records alone.
LEMMA StoreErrorKeeps == ASSUME OutboxInv, NEW s \in Slots, StoreError(s)  PROVE OutboxInv'
<1> DEFINE x == [slots[s] EXCEPT !.op = "fail"]
<1>1. slots[s] \in Slot /\ slots[s].e \in Event /\ slots[s].n <= attempts[slots[s].e]
  BY AtWork DEF StoreError
<1>2. x \in Slot /\ x.op = "fail" /\ x.e = slots[s].e /\ x.n = slots[s].n
  BY <1>1 DEF Slot
<1>3. Carries(x, attempts, proc, done)
  BY <1>1, <1>2 DEF Carries
<1>4. /\ Goto(s, x) /\ faults' \in 0..MaxFaults /\ MayHaveRun(s)
      /\ UNCHANGED <<status, lease, attempts, newer, proc, background, purges, overran, refused,
                     late, old, ops, months>>
  BY OutboxAssumption DEF StoreError, rowVars, OutboxInv, TypeOK
<1>5. /\ status' \in [Event -> Status] /\ lease' \in [Event -> {"none", "held", "lapsed"}]
      /\ old' \in SUBSET (Event \cup Pair) /\ late' \in SUBSET Event /\ refused' \in SUBSET Event
  BY <1>4 DEF OutboxInv, TypeOK
<1> HIDE DEF x
<1> QED
  BY <1>2, <1>3, <1>4, <1>5, CutShort, SlotStepKeeps

\* An adapter that refuses an event for good marks it as refused.
LEMMA AdapterRefusesKeeps ==
    ASSUME OutboxInv, NEW s \in Slots, NEW class \in {"refused", "review"}, AdapterRefuses(s, class)
    PROVE  OutboxInv'
<1> DEFINE x == [slots[s] EXCEPT !.op = class]
<1>1. slots[s] \in Slot /\ slots[s].e \in Event /\ slots[s].n <= attempts[slots[s].e]
  BY AtWork DEF AdapterRefuses
<1>2. x \in Slot /\ x.op = class /\ x.e = slots[s].e /\ x.n = slots[s].n
  BY <1>1 DEF Slot
<1>3. Carries(x, attempts, proc, done)
  BY <1>1, <1>2 DEF Carries
<1>4. /\ Goto(s, x) /\ faults' \in 0..MaxFaults
      /\ refused' = IF class = "refused" THEN refused \cup {slots[s].e} ELSE refused
      /\ UNCHANGED <<status, lease, attempts, newer, proc, background, done, purges, overran,
                     late, old, ops, months>>
  BY OutboxAssumption DEF AdapterRefuses, rowVars, OutboxInv, TypeOK
<1>5. /\ refused' \in SUBSET Event /\ refused \subseteq refused'
      /\ class = "refused" => slots[s].e \in refused'
  BY <1>1, <1>4 DEF OutboxInv, TypeOK
<1> HIDE DEF x
<1> QED
  BY <1>2, <1>3, <1>4, <1>5, SlotOnly

\* A worker that dies leaves rows and records as they are.
LEMMA CrashKeeps == ASSUME OutboxInv, NEW s \in Slots, Crash(s)  PROVE OutboxInv'
<1>1. /\ Goto(s, Idle) /\ Idle.op \notin {"run", "refused"} /\ faults' \in 0..MaxFaults /\ MayHaveRun(s)
      /\ UNCHANGED <<status, lease, attempts, newer, proc, background, purges, overran, refused,
                     late, old, ops, months>>
  BY OutboxAssumption DEF Crash, Idle, rowVars, OutboxInv, TypeOK
<1>2. /\ status' \in [Event -> Status] /\ lease' \in [Event -> {"none", "held", "lapsed"}]
      /\ old' \in SUBSET (Event \cup Pair) /\ late' \in SUBSET Event /\ refused' \in SUBSET Event
  BY <1>1 DEF OutboxInv, TypeOK
<1> QED
  BY <1>1, <1>2, CutShort, IdleCarries, SlotStepKeeps

\* A claim raises the row's attempts and hands them to the slot; no earlier sibling
\* is open.
LEMMA ClaimKeeps ==
    ASSUME OutboxInv, NEW s \in Slots, NEW e \in Event, Claim(s, e)  PROVE OutboxInv'
<1> DEFINE x == [Idle EXCEPT !.op = "read", !.e = e, !.n = attempts[e] + 1]
<1>1. /\ status' = [status EXCEPT ![e] = "PROCESSING"] /\ lease' = [lease EXCEPT ![e] = "held"]
      /\ attempts' = [attempts EXCEPT ![e] = @ + 1] /\ Goto(s, x)
      /\ UNCHANGED <<newer, proc, old, background, done, purges, overran, refused, late, faults,
                     ops, months>>
      /\ status[e] \in Open /\ NoEarlierSibling(e)
  BY DEF Claim, Eligible, Open, history, boundVars
<1>2. /\ status \in [Event -> Status] /\ lease \in [Event -> {"none", "held", "lapsed"}]
      /\ attempts \in [Event -> Nat] /\ done \in [Pair -> Nat]
  BY DEF OutboxInv, TypeOK
<1>3. x \in Slot /\ x.op = "read" /\ x.e = e /\ x.n = attempts'[e]
  <2>1. attempts'[e] = attempts[e] + 1 /\ attempts[e] + 1 \in Nat
    BY <1>1, <1>2
  <2>2. Idle \in Slot
    BY DEF Idle, Slot
  <2>3. x \in Slot
    BY <2>1, <2>2 DEF Slot
  <2>4. x.op = "read" /\ x.e = e /\ x.n = attempts[e] + 1
    BY <2>2 DEF Slot
  <2> QED
    BY <2>1, <2>3, <2>4
<1> HIDE DEF x
<1>4. /\ attempts' \in [Event -> Nat] /\ done' \in [Pair -> Nat]
      /\ \A f \in Event : attempts[f] <= attempts'[f]
      /\ \A p \in Pair : done[p] <= done'[p]
  BY <1>1, <1>2
<1>5. Carries(x, attempts', proc', done')
  BY <1>3, <1>4 DEF Carries
<1>6. \A t \in Slots : slots[t].op = "run" => proc'[Here(t)] = "PROCESSING"
  BY <1>1 DEF OutboxInv, SlotsOK, Carries, Here
<1>7. /\ slots' \in [Slots -> Slot] /\ SlotsOK'
      /\ \A t \in Slots : slots'[t] = IF t = s THEN x ELSE slots[t]
  BY <1>1, <1>3, <1>4, <1>5, <1>6, SlotMoves
<1>8. OneRunner' /\ RecordsOK' /\ RunsOK'
  <2>1. OneRunner' /\ RecordsOK'
    BY <1>1, <1>3, <1>7 DEF OutboxInv, OneRunner, Here, RecordsOK, Runs, Allowed
  <2>2. ASSUME NEW t \in Slots, slots'[t].op = "run"  PROVE (Runs(Here(t)) <= Allowed(Here(t)))'
    <3>1. slots'[t] = slots[t] /\ slots[t].op = "run"
      BY <1>3, <1>7, <2>2
    <3> QED
      BY <1>1, <3>1 DEF OutboxInv, RunsOK, Runs, Allowed, Here
  <2> QED
    BY <2>1, <2>2 DEF RunsOK
<1>9. TypeOK'
  BY <1>1, <1>2, <1>4, <1>7 DEF OutboxInv, TypeOK, Status, Open
<1>10. DeliveredMeansDone'
  BY <1>1, <1>2 DEF OutboxInv, DeliveredMeansDone
<1>11. DeadLetterExhausted'
  BY <1>1, <1>2, <1>4, OutboxAssumption DEF OutboxInv, DeadLetterExhausted
<1>12. ASSUME NEW p \in Earlier, attempts'[p[2]] > 0, status'[p[1]] \in Open
       PROVE  p[1] \in late'
  <2>1. p[1] \in Event /\ p[2] \in Event
    BY OutboxAssumption
  <2>2. p[2] # e
    BY <1>1, <1>2, <1>12, <2>1 DEF NoEarlierSibling
  <2>3. attempts[p[2]] > 0 /\ status[p[1]] \in Open
    BY <1>1, <1>2, <1>12, <2>1, <2>2
  <2> QED
    BY <1>1, <2>3 DEF OutboxInv, InOrder
<1> QED
  BY <1>7, <1>8, <1>9, <1>10, <1>11, <1>12 DEF OutboxInv, InOrder

\* A delivery's step on the record of the handler it is at: only this slot may be
\* running it, before and after.
LEMMA RecordStep ==
    ASSUME OutboxInv, NEW s \in Slots, NEW x, NEW st \in ProcStatus, Goto(s, x),
           Here(s) \in Pair, proc' = [proc EXCEPT ![Here(s)] = st],
           \A t \in Slots \ {s} : slots[t].op = "run" => Here(t) # Here(s),
           x.op = "run" => <<x.e, x.h>> = Here(s) /\ (Runs(Here(s)) <= Allowed(Here(s))),
           x.op # "refused",
           done' \in [Pair -> Nat], background' \in [Pair -> Nat],
           overran' \in [Pair -> 0..MaxOverruns], \A p \in Pair : done[p] <= done'[p],
           \A p \in Pair : p # Here(s) =>
               done'[p] = done[p] /\ background'[p] = background[p] /\ overran'[p] = overran[p],
           x.op = "run" => UNCHANGED <<done, background, overran>>,
           RecordOK(st, done'[Here(s)], done'[Here(s)] + background'[Here(s)],
                    purges[Here(s)] + overran'[Here(s)]),
           Carries(x, attempts, proc', done'),
           old' \in SUBSET (Event \cup Pair),
           UNCHANGED <<status, attempts, lease, newer, purges, refused, late, faults, ops, months>>
    PROVE  OutboxInv'
<1>1. proc \in [Pair -> ProcStatus] /\ attempts \in [Event -> Nat]
  BY DEF OutboxInv, TypeOK
<1>2. /\ attempts' \in [Event -> Nat] /\ \A e \in Event : attempts[e] <= attempts'[e]
      /\ Carries(x, attempts', proc', done')
  BY <1>1
<1>3. ASSUME NEW t \in Slots \ {s}, slots[t].op = "run"  PROVE proc'[Here(t)] = "PROCESSING"
  <2>1. proc[Here(t)] = "PROCESSING" /\ Here(t) \in Pair
    BY <1>3, Running
  <2> QED
    BY <1>1, <1>3, <2>1
<1>4. /\ slots' \in [Slots -> Slot] /\ SlotsOK'
      /\ \A t \in Slots : slots'[t] = IF t = s THEN x ELSE slots[t]
  BY <1>2, <1>3, SlotMoves
<1>5. OneRunner'
  <2> SUFFICES ASSUME NEW t \in Slots, NEW u \in Slots,
                      slots'[t].op = "run", slots'[u].op = "run", Here(t)' = Here(u)'
               PROVE  t = u
    BY DEF OneRunner
  <2>1. CASE t = s \/ u = s
    BY <1>4, <2>1 DEF Here
  <2>2. CASE t # s /\ u # s
    BY <1>4, <2>2 DEF Here, OutboxInv, OneRunner
  <2> QED
    BY <2>1, <2>2
<1>6. ASSUME NEW p \in Pair  PROVE RecordOK(proc'[p], done'[p], Runs(p)', Allowed(p)')
  <2>1. CASE p = Here(s)
    BY <1>1, <2>1 DEF Runs, Allowed
  <2>2. CASE p # Here(s)
    <3>1. RecordOK(proc[p], done[p], Runs(p), Allowed(p))
      BY DEF OutboxInv, RecordsOK
    <3>2. proc'[p] = proc[p] /\ done'[p] = done[p] /\ Runs(p)' = Runs(p) /\ Allowed(p)' = Allowed(p)
      BY <1>1, <2>2 DEF Runs, Allowed
    <3> QED
      BY <3>1, <3>2
  <2> QED
    BY <2>1, <2>2
<1>7. ASSUME NEW t \in Slots, slots'[t].op = "run"  PROVE (Runs(Here(t)) <= Allowed(Here(t)))'
  <2>1. CASE t = s
    <3>1. slots'[t] = x /\ Here(t)' = Here(s) /\ UNCHANGED <<done, background, overran>>
          /\ Runs(Here(s)) <= Allowed(Here(s))
      BY <1>4, <1>7, <2>1 DEF Here
    <3> QED
      BY <3>1 DEF Runs, Allowed
  <2>2. CASE t # s
    <3>1. slots[t].op = "run" /\ Here(t)' = Here(t)
      BY <1>4, <1>7, <2>2 DEF Here
    <3>2. Here(t) \in Pair /\ Runs(Here(t)) <= Allowed(Here(t)) /\ Here(t) # Here(s)
      BY <2>2, <3>1, Running
    <3> QED
      BY <3>1, <3>2 DEF Runs, Allowed
  <2> QED
    BY <2>1, <2>2
<1>8. TypeOK'
  BY <1>1, <1>4 DEF OutboxInv, TypeOK
<1>9. DeliveredMeansDone' /\ DeadLetterExhausted' /\ InOrder'
  BY RowsKept
<1> QED
  BY <1>4, <1>5, <1>6, <1>7, <1>8, <1>9 DEF OutboxInv, RecordsOK, RunsOK

\* A delivery that goes on to the next handler is a well-formed slot.
LEMMA NextHandler ==
    ASSUME NEW s, slots[s] \in Slot, NEW b \in BOOLEAN
    PROVE  /\ Onward(s, b) \in Slot /\ Onward(s, b).op = "next"
           /\ Onward(s, b).e = slots[s].e /\ Onward(s, b).h = slots[s].h + 1
           /\ Onward(s, b).n = slots[s].n /\ Onward(s, b).pending = b
<1>1. slots[s].h + 1 \in Nat
  BY DEF Slot
<1> QED
  BY <1>1 DEF Slot, Onward

\* A handler is claimed only when its record says that nobody runs it; a handler
\* that is passed over is complete, or leaves the delivery pending.
LEMMA StartHandlerKeeps == ASSUME OutboxInv, NEW s \in Slots, StartHandler(s)  PROVE OutboxInv'
<1>1. /\ Here(s) \in Pair /\ slots[s].h \in Handler /\ slots[s].e \in Event
      /\ slots[s].op = "next" /\ slots[s].h <= NHandlers
  BY RunningPair DEF StartHandler
<1>2. slots[s] \in Slot /\ Carries(slots[s], attempts, proc, done) /\ slots[s].n <= attempts[slots[s].e]
  BY <1>1, AtWork
<1>3. /\ UNCHANGED <<status, attempts, lease, newer, old, background, done, purges, overran,
                     refused, late, faults, ops, months>>
      /\ done \in [Pair -> Nat] /\ old \in SUBSET (Event \cup Pair)
      /\ background \in [Pair -> Nat] /\ overran \in [Pair -> 0..MaxOverruns]
      /\ proc \in [Pair -> ProcStatus]
  BY DEF StartHandler, rowVars, history, boundVars, OutboxInv, TypeOK
<1>4. /\ RecordOK(proc[Here(s)], done[Here(s)], Runs(Here(s)), Allowed(Here(s)))
      /\ done[Here(s)] \in Nat /\ background[Here(s)] \in Nat
      /\ purges[Here(s)] \in Nat /\ overran[Here(s)] \in Nat
  BY <1>1, Counters
<1>5. CASE MayRun(s)
  <2> DEFINE x == [slots[s] EXCEPT !.op = "run"]
  <2>1. Goto(s, x) /\ proc' = [proc EXCEPT ![Here(s)] = "PROCESSING"]
    BY <1>5 DEF StartHandler
  <2>2. /\ x \in Slot /\ x.op = "run" /\ x.e = slots[s].e /\ x.h = slots[s].h
        /\ x.n = slots[s].n /\ x.pending = slots[s].pending
    BY <1>2 DEF Slot
  <2> HIDE DEF x
  <2>3. Carries(x, attempts, proc', done')
    <3>1. proc'[<<x.e, x.h>>] = "PROCESSING" /\ x.h >= 1
      BY <1>1, <1>3, <2>1, <2>2 DEF Here, Handler
    <3>2. x.pending = FALSE => \A k \in Handler : k < x.h => done'[<<x.e, k>>] > 0
      BY <1>1, <1>2, <1>3, <2>2 DEF Carries
    <3> QED
      BY <1>1, <1>2, <2>2, <3>1, <3>2 DEF Carries
  <2>4. \A t \in Slots \ {s} : slots[t].op = "run" => Here(t) # Here(s)
    BY <1>5 DEF MayRun, OutboxInv, SlotsOK, Carries, Here
  <2>5. /\ RecordOK("PROCESSING", done[Here(s)], done[Here(s)] + background[Here(s)],
                     purges[Here(s)] + overran[Here(s)])
        /\ Runs(Here(s)) <= Allowed(Here(s)) /\ "PROCESSING" \in ProcStatus
    BY <1>4, <1>5 DEF MayRun, RecordOK, ProcStatus, Runs, Allowed
  <2>6. /\ <<x.e, x.h>> = Here(s) /\ done' \in [Pair -> Nat] /\ old' \in SUBSET (Event \cup Pair)
        /\ background' \in [Pair -> Nat] /\ overran' \in [Pair -> 0..MaxOverruns]
        /\ \A p \in Pair : done[p] <= done'[p]
        /\ UNCHANGED <<done, background, overran>> /\ x.op # "refused"
    BY <1>3, <2>2 DEF Here
  <2> QED
    BY <1>1, <1>3, <2>1, <2>3, <2>4, <2>5, <2>6, RecordStep
<1>6. CASE ~MayRun(s)
  <2> DEFINE b == slots[s].pending \/ InProgress(s)
             x == Onward(s, b)
  <2>1. Goto(s, x) /\ UNCHANGED proc
    BY <1>6 DEF StartHandler
  <2>2. proc[Here(s)] \in {"PROCESSING", "COMPLETED"}
    BY <1>1, <1>3, <1>6 DEF MayRun, ProcStatus
  <2>3. b \in BOOLEAN /\ (b = FALSE => slots[s].pending = FALSE /\ ~InProgress(s))
    BY <1>2 DEF Slot
  <2>4. /\ x \in Slot /\ x.op = "next" /\ x.e = slots[s].e /\ x.h = slots[s].h + 1
        /\ x.n = slots[s].n /\ x.pending = b
    BY <1>2, <2>3, NextHandler
  <2> HIDE DEF x, b
  <2>5. x.pending = FALSE => done[Here(s)] > 0
    BY <1>4, <2>2, <2>3, <2>4 DEF InProgress, RecordOK
  <2>6. x.pending = FALSE => \A k \in Handler : k < x.h => done[<<x.e, k>>] > 0
    <3> SUFFICES ASSUME x.pending = FALSE, NEW k \in Handler, k < x.h  PROVE done[<<x.e, k>>] > 0
      OBVIOUS
    <3>1. CASE k = slots[s].h
      BY <2>4, <2>5, <3>1 DEF Here
    <3>2. CASE k < slots[s].h
      BY <1>1, <1>2, <2>3, <2>4, <3>2 DEF Carries
    <3> QED
      BY <1>1, <2>4, <3>1, <3>2, OutboxAssumption DEF Handler
  <2>7. Carries(x, attempts, proc, done)
    BY <1>1, <1>2, <2>4, <2>6, OutboxAssumption DEF Carries, Handler
  <2>8. /\ status' \in [Event -> Status] /\ lease' \in [Event -> {"none", "held", "lapsed"}]
        /\ old' \in SUBSET (Event \cup Pair) /\ late' \in SUBSET Event /\ faults' \in 0..MaxFaults
        /\ refused' \in SUBSET Event
    BY <1>3 DEF OutboxInv, TypeOK
  <2> QED
    BY <1>3, <2>1, <2>4, <2>7, <2>8, SlotOnly
<1> QED
  BY <1>5, <1>6

\* A handler that ends well is complete, and has run once more than its record was
\* purged.
LEMMA HandlerOkKeeps == ASSUME OutboxInv, NEW s \in Slots, HandlerOk(s)  PROVE OutboxInv'
<1> DEFINE x == Onward(s, slots[s].pending)
<1>1. /\ slots[s].op = "run" /\ proc' = [proc EXCEPT ![Here(s)] = "COMPLETED"]
      /\ old' = old \ {Here(s)} /\ done' = [done EXCEPT ![Here(s)] = @ + 1] /\ Goto(s, x)
      /\ UNCHANGED <<status, attempts, lease, newer, background, purges, overran, refused, late,
                     faults, ops, months>>
  BY DEF HandlerOk, rowVars, boundVars
<1>2. /\ Here(s) \in Pair /\ slots[s].h \in Handler /\ slots[s].e \in Event
      /\ Runs(Here(s)) <= Allowed(Here(s))
      /\ \A t \in Slots \ {s} : slots[t].op = "run" => Here(t) # Here(s)
  BY <1>1, Running
<1>3. slots[s] \in Slot /\ Carries(slots[s], attempts, proc, done) /\ slots[s].n <= attempts[slots[s].e]
  BY <1>1, AtWork
<1>4. /\ done \in [Pair -> Nat] /\ purges \in [Pair -> Nat] /\ old \in SUBSET (Event \cup Pair)
      /\ background \in [Pair -> Nat] /\ overran \in [Pair -> 0..MaxOverruns]
  BY DEF OutboxInv, TypeOK
<1>5. /\ x \in Slot /\ x.op = "next" /\ x.e = slots[s].e /\ x.h = slots[s].h + 1
      /\ x.n = slots[s].n /\ x.pending = slots[s].pending
  <2>1. slots[s].pending \in BOOLEAN
    BY <1>3 DEF Slot
  <2> QED
    BY <1>3, <2>1, NextHandler
<1> HIDE DEF x
<1>6. /\ done' \in [Pair -> Nat] /\ done'[Here(s)] = done[Here(s)] + 1
      /\ \A p \in Pair : p # Here(s) => done'[p] = done[p]
      /\ \A p \in Pair : done[p] <= done'[p]
  BY <1>1, <1>2, <1>4
<1>7. /\ RecordOK("COMPLETED", done'[Here(s)], done'[Here(s)] + background[Here(s)],
                   purges[Here(s)] + overran[Here(s)])
      /\ "COMPLETED" \in ProcStatus
  <2>1. /\ done[Here(s)] \in Nat /\ background[Here(s)] \in Nat
        /\ purges[Here(s)] \in Nat /\ overran[Here(s)] \in Nat
    BY <1>2, Counters
  <2> QED
    BY <1>2, <1>6, <2>1 DEF RecordOK, ProcStatus, Runs, Allowed
<1>8. ASSUME x.pending = FALSE, NEW k \in Handler, k < x.h  PROVE done'[<<x.e, k>>] > 0
  <2>1. <<x.e, k>> \in Pair
    BY <1>2, <1>5 DEF Pair
  <2>2. CASE k = slots[s].h
    BY <1>2, <1>4, <1>5, <1>6, <2>2 DEF Here
  <2>3. CASE k < slots[s].h
    <3>1. done[<<x.e, k>>] > 0
      BY <1>1, <1>3, <1>5, <1>8, <2>3 DEF Carries
    <3> QED
      BY <1>4, <1>6, <2>1, <3>1
  <2> QED
    BY <1>2, <1>5, <1>8, <2>2, <2>3, OutboxAssumption DEF Handler
<1>9. Carries(x, attempts, proc', done')
  <2>1. x.h >= 1 /\ x.e \in Event /\ x.n <= attempts[x.e]
    BY <1>2, <1>3, <1>5, OutboxAssumption DEF Handler
  <2> QED
    BY <1>5, <1>8, <2>1 DEF Carries
<1>10. /\ old' \in SUBSET (Event \cup Pair) /\ x.op \notin {"run", "refused"}
       /\ background' \in [Pair -> Nat] /\ overran' \in [Pair -> 0..MaxOverruns]
  BY <1>1, <1>4, <1>5
<1> QED
  BY <1>1, <1>2, <1>6, <1>7, <1>9, <1>10, RecordStep

\* A handler that fails may be claimed again.
LEMMA HandlerFailedKeeps == ASSUME OutboxInv, NEW s \in Slots, HandlerFailed(s)  PROVE OutboxInv'
<1> DEFINE x == Onward(s, TRUE)
<1>1. /\ slots[s].op = "run" /\ proc' = [proc EXCEPT ![Here(s)] = "FAILED"] /\ Goto(s, x)
      /\ UNCHANGED <<status, attempts, lease, newer, old, background, done, purges, overran, refused,
                     late, faults, ops, months>>
  BY DEF HandlerFailed, rowVars, history, boundVars
<1>2. /\ Here(s) \in Pair /\ slots[s].h \in Handler /\ slots[s].e \in Event
      /\ Runs(Here(s)) <= Allowed(Here(s))
      /\ \A t \in Slots \ {s} : slots[t].op = "run" => Here(t) # Here(s)
  BY <1>1, Running
<1>3. slots[s] \in Slot /\ slots[s].n <= attempts[slots[s].e]
  BY <1>1, AtWork
<1>4. /\ x \in Slot /\ x.op = "next" /\ x.e = slots[s].e /\ x.h = slots[s].h + 1
      /\ x.n = slots[s].n /\ x.pending = TRUE
  BY <1>3, NextHandler
<1> HIDE DEF x
<1>5. Carries(x, attempts, proc', done') /\ x.op \notin {"run", "refused"}
  BY <1>2, <1>3, <1>4, OutboxAssumption DEF Carries, Handler
<1>6. /\ done \in [Pair -> Nat] /\ background \in [Pair -> Nat]
      /\ overran \in [Pair -> 0..MaxOverruns] /\ old' \in SUBSET (Event \cup Pair)
  BY <1>1 DEF OutboxInv, TypeOK
<1>7. /\ done' \in [Pair -> Nat] /\ background' \in [Pair -> Nat]
      /\ overran' \in [Pair -> 0..MaxOverruns] /\ \A p \in Pair : done[p] <= done'[p]
      /\ \A p \in Pair : p # Here(s) =>
             done'[p] = done[p] /\ background'[p] = background[p] /\ overran'[p] = overran[p]
  BY <1>1, <1>2, <1>6, OutboxAssumption
<1>8. /\ RecordOK("FAILED", done'[Here(s)], done'[Here(s)] + background'[Here(s)],
                   purges[Here(s)] + overran'[Here(s)])
      /\ "FAILED" \in ProcStatus
  <2>1. /\ done[Here(s)] \in Nat /\ background[Here(s)] \in Nat
        /\ purges[Here(s)] \in Nat /\ overran[Here(s)] \in Nat
    BY <1>2, Counters
  <2> QED
    BY <1>1, <1>2, <1>6, <2>1 DEF RecordOK, ProcStatus, Runs, Allowed
<1> QED
  BY <1>1, <1>2, <1>5, <1>6, <1>7, <1>8, RecordStep

\* A handler that passes its time limit may be claimed again; its run is accounted for.
LEMMA HandlerTimesOutKeeps == ASSUME OutboxInv, NEW s \in Slots, HandlerTimesOut(s)  PROVE OutboxInv'
<1> DEFINE x == Onward(s, TRUE)
<1>1. /\ slots[s].op = "run" /\ proc' = [proc EXCEPT ![Here(s)] = "FAILED"] /\ Goto(s, x)
      /\ background' = [background EXCEPT ![Here(s)] = @ + 1]
      /\ overran' = [overran EXCEPT ![Here(s)] = @ + 1] /\ overran[Here(s)] < MaxOverruns
      /\ UNCHANGED <<status, attempts, lease, newer, old, done, purges, refused, late,
                     faults, ops, months>>
  BY DEF HandlerTimesOut, rowVars, history, boundVars
<1>2. /\ Here(s) \in Pair /\ slots[s].h \in Handler /\ slots[s].e \in Event
      /\ Runs(Here(s)) <= Allowed(Here(s))
      /\ \A t \in Slots \ {s} : slots[t].op = "run" => Here(t) # Here(s)
  BY <1>1, Running
<1>3. slots[s] \in Slot /\ slots[s].n <= attempts[slots[s].e]
  BY <1>1, AtWork
<1>4. /\ x \in Slot /\ x.op = "next" /\ x.e = slots[s].e /\ x.h = slots[s].h + 1
      /\ x.n = slots[s].n /\ x.pending = TRUE
  BY <1>3, NextHandler
<1> HIDE DEF x
<1>5. Carries(x, attempts, proc', done') /\ x.op \notin {"run", "refused"}
  BY <1>2, <1>3, <1>4, OutboxAssumption DEF Carries, Handler
<1>6. /\ done \in [Pair -> Nat] /\ background \in [Pair -> Nat]
      /\ overran \in [Pair -> 0..MaxOverruns] /\ old' \in SUBSET (Event \cup Pair)
  BY <1>1 DEF OutboxInv, TypeOK
<1>7. /\ done' \in [Pair -> Nat] /\ background' \in [Pair -> Nat]
      /\ overran' \in [Pair -> 0..MaxOverruns] /\ \A p \in Pair : done[p] <= done'[p]
      /\ \A p \in Pair : p # Here(s) =>
             done'[p] = done[p] /\ background'[p] = background[p] /\ overran'[p] = overran[p]
  BY <1>1, <1>2, <1>6, OutboxAssumption
<1>8. /\ RecordOK("FAILED", done'[Here(s)], done'[Here(s)] + background'[Here(s)],
                   purges[Here(s)] + overran'[Here(s)])
      /\ "FAILED" \in ProcStatus
  <2>1. /\ done[Here(s)] \in Nat /\ background[Here(s)] \in Nat
        /\ purges[Here(s)] \in Nat /\ overran[Here(s)] \in Nat
    BY <1>2, Counters
  <2> QED
    BY <1>1, <1>2, <1>6, <2>1 DEF RecordOK, ProcStatus, Runs, Allowed
<1> QED
  BY <1>1, <1>2, <1>5, <1>6, <1>7, <1>8, RecordStep

\* Every step keeps the invariant: one case per action of Next.
LEMMA OutboxStep == OutboxInv /\ [Next]_vars => OutboxInv'
<1> SUFFICES ASSUME OutboxInv, [Next]_vars  PROVE OutboxInv'
  OBVIOUS
<1>1. CASE UNCHANGED vars
  <2>1. UNCHANGED <<status, attempts, lease, newer, proc, old, slots, background, done, purges,
                    overran, refused, late, faults, ops, months>>
    BY <1>1 DEF vars, rowVars, history, boundVars
  <2>2. TypeOK'
    BY <2>1 DEF OutboxInv, TypeOK
  <2> QED
    BY <2>1, <2>2, RowStep
<1>2. ASSUME NEW e \in Event,
             Record(e) \/ LeaseLapses(e) \/ Retry(e) \/ RetryBatch(e) \/ Cancel(e) \/ MarkManualReview(e)
      PROVE  OutboxInv'
  <2>1. CASE Record(e)
    BY <2>1, RecordKeeps
  <2>2. CASE LeaseLapses(e)
    BY <2>2, LeaseLapsesKeeps
  <2>3. CASE Retry(e) \/ RetryBatch(e) \/ Cancel(e) \/ MarkManualReview(e)
    BY <2>3, OperateKeeps DEF Retry, RetryBatch, Cancel, MarkManualReview
  <2> QED
    BY <1>2, <2>1, <2>2, <2>3
<1>3. ASSUME NEW s \in Slots,
             \/ SlotStep(s) \/ StoreError(s) \/ Crash(s)
             \/ AdapterRefuses(s, "refused") \/ AdapterRefuses(s, "review")
      PROVE  OutboxInv'
  <2>1. CASE Deserialize(s)
    BY <2>1, DeserializeKeeps
  <2>2. CASE StartHandler(s)
    BY <2>2, StartHandlerKeeps
  <2>3. CASE HandlerOk(s)
    BY <2>3, HandlerOkKeeps
  <2>4. CASE HandlerFailed(s)
    BY <2>4, HandlerFailedKeeps
  <2>5. CASE Deliver(s)
    BY <2>5, DeliverKeeps
  <2>6. CASE HandleFailure(s)
    BY <2>6, HandleFailureKeeps
  <2>7. CASE StoreError(s)
    BY <2>7, StoreErrorKeeps
  <2>8. CASE Crash(s)
    BY <2>8, CrashKeeps
  <2>9. CASE HandlerTimesOut(s)
    BY <2>9, HandlerTimesOutKeeps
  <2>10. CASE AdapterRefuses(s, "refused") \/ AdapterRefuses(s, "review")
    BY <2>10, AdapterRefusesKeeps
  <2> QED
    BY <1>3, <2>1, <2>2, <2>3, <2>4, <2>5, <2>6, <2>7, <2>8, <2>9, <2>10 DEF SlotStep
<1>4. CASE RecoverStaleLeases
  BY <1>4, RecoverKeeps
<1>5. CASE MonthPasses
  BY <1>5, MonthKeeps
<1>6. CASE PurgeDelivered \/ PurgeDeadLetter
  BY <1>6, PurgeRowsKeeps DEF PurgeDelivered, PurgeDeadLetter
<1>7. CASE PurgeIdempotency
  BY <1>7, PurgeIdempotencyKeeps
<1> QED
  BY <1>1, <1>2, <1>3, <1>4, <1>5, <1>6, <1>7, ClaimKeeps, BackgroundEndsKeeps DEF Next

\* The invariant holds throughout.
LEMMA OutboxInvariant == Spec => []OutboxInv
<1> QED
  BY OutboxInit, OutboxStep, PTL DEF Spec

\* However leases lapse and workers die, no two deliveries await one handler of an
\* event at a time (runs past their time limit are not awaited).
THEOREM HandlerRunByOne == Spec => []OneRunner
<1>1. OutboxInv => OneRunner
  BY DEF OutboxInv
<1> QED
  BY <1>1, OutboxInvariant, PTL

\* A handler that has run to its end runs again only if retention purged its record
\* or a run passed its time limit.
THEOREM HandlerCompletesOnce == Spec => []CompletedOnce
<1>1. OutboxInv => CompletedOnce
  <2> SUFFICES ASSUME OutboxInv, NEW p \in Pair
               PROVE  done[p] + background[p] <= 1 + purges[p] + overran[p]
    BY DEF CompletedOnce
  <2>1. /\ RecordOK(proc[p], done[p], Runs(p), Allowed(p)) /\ proc[p] \in ProcStatus
        /\ done[p] \in Nat /\ background[p] \in Nat /\ purges[p] \in Nat /\ overran[p] \in Nat
    BY Counters
  <2> QED
    BY <2>1 DEF RecordOK, ProcStatus, Runs, Allowed
<1> QED
  BY <1>1, OutboxInvariant, PTL

\* A row says DELIVERED only once every handler of the event has run to its end.
THEOREM DeliveredIsComplete == Spec => []DeliveredMeansDone
<1>1. OutboxInv => DeliveredMeansDone
  BY DEF OutboxInv
<1> QED
  BY <1>1, OutboxInvariant, PTL

\* A row is dead-lettered only after maxAttempts claims or a failure for good.
THEOREM DeadLetterLast == Spec => []DeadLetterExhausted
<1>1. OutboxInv => DeadLetterExhausted
  BY DEF OutboxInv
<1> QED
  BY <1>1, OutboxInvariant, PTL

\* An event is claimed before an earlier sibling has settled only if that sibling
\* was committed, requeued or put back later.
THEOREM SiblingsInOrder == Spec => []InOrder
<1>1. OutboxInv => InOrder
  BY DEF OutboxInv
<1> QED
  BY <1>1, OutboxInvariant, PTL
=============================================================================
