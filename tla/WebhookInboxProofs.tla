------------------------- MODULE WebhookInboxProofs -------------------------
(* Safety of the webhook inbox for any number of events, deliveries and    *)
(* processors.                                                             *)
EXTENDS WebhookInbox, TLAPS

\* What a processor carries stays true of the rows while others work on them:
\* the attempts it read are not more than the row's, and a refund handler is
\* about a refund the provider has made.
RefundOps == {"settleRow", "inFlight", "sibling", "count"}

Carries(x, att, bod, m) ==
    /\ x \in Call
    /\ x.op # "idle" => x.e \in Event
    /\ x.op \in InTry => x.n <= att[x.e]
    /\ x.op \in RefundOps => bod[x.e] \in 1..m
    /\ x.op = "finish" => x.out \in {"PROCESSED", "IGNORED"}

OwnRows == own \in [1..MaxRefunds -> OwnRow] /\ unseen \subseteq 1..MaxRefunds

InboxInv ==
    /\ InboxTypeOK
    /\ \A c \in Slots : Carries(calls[c], attempts, body, made)
    /\ DeadLetterExhausted

\* Later attempts and later events do not invalidate what is carried.
LEMMA CarriesOn ==
    ASSUME NEW x, NEW att \in [Event -> Nat], NEW att2 \in [Event -> Nat],
           NEW bod, NEW bod2, NEW m \in Nat, NEW m2 \in Nat,
           Carries(x, att, bod, m),
           \A e \in Event : att[e] <= att2[e],
           \A e \in Event : bod[e] \in 1..m => bod2[e] = bod[e],
           m <= m2
    PROVE  Carries(x, att2, bod2, m2)
<1>1. x \in Call /\ (x.op # "idle" => x.e \in Event)
  BY DEF Carries
<1>2. x.op \in InTry => x.n <= att2[x.e]
  BY <1>1 DEF Carries, InTry, Call
<1>3. x.op \in RefundOps => bod2[x.e] \in 1..m2
  BY <1>1 DEF Carries, RefundOps
<1> QED
  BY <1>1, <1>2, <1>3 DEF Carries

\* One slot goes to a call that is right, the others keep theirs.
LEMMA SlotMoves ==
    ASSUME InboxInv, NEW c \in Slots, NEW x, calls' = [calls EXCEPT ![c] = x],
           Carries(x, attempts', body', made'),
           attempts' \in [Event -> Nat], made' \in Nat,
           \A e \in Event : attempts[e] <= attempts'[e],
           \A e \in Event : body[e] \in 1..made => body'[e] = body[e],
           made <= made'
    PROVE  /\ calls' \in [Slots -> Call]
           /\ \A d \in Slots : Carries(calls'[d], attempts', body', made')
<1>1. calls' \in [Slots -> Call]
  BY DEF InboxInv, InboxTypeOK, Carries
<1>2. ASSUME NEW d \in Slots  PROVE Carries(calls'[d], attempts', body', made')
  <2>1. CASE d = c
    BY <2>1 DEF InboxInv, InboxTypeOK
  <2>2. CASE d # c
    <3>1. calls'[d] = calls[d] /\ Carries(calls[d], attempts, body, made)
      BY <2>2 DEF InboxInv, InboxTypeOK
    <3>2. attempts \in [Event -> Nat] /\ made \in Nat
      BY InboxAssumption DEF InboxInv, InboxTypeOK
    <3> QED
      BY <3>1, <3>2, CarriesOn
  <2> QED
    BY <2>1, <2>2
<1> QED
  BY <1>1, <1>2

\* No slot moves: the calls stay right if the rows only grow.
LEMMA SlotsStay ==
    ASSUME InboxInv, UNCHANGED calls,
           attempts' \in [Event -> Nat], made' \in Nat,
           \A e \in Event : attempts[e] <= attempts'[e],
           \A e \in Event : body[e] \in 1..made => body'[e] = body[e],
           made <= made'
    PROVE  /\ calls' \in [Slots -> Call]
           /\ \A d \in Slots : Carries(calls'[d], attempts', body', made')
<1>1. calls' \in [Slots -> Call]
  BY DEF InboxInv, InboxTypeOK
<1>2. ASSUME NEW d \in Slots  PROVE Carries(calls'[d], attempts', body', made')
  <2>1. calls'[d] = calls[d] /\ Carries(calls[d], attempts, body, made)
    BY DEF InboxInv
  <2>2. attempts \in [Event -> Nat] /\ made \in Nat
    BY InboxAssumption DEF InboxInv, InboxTypeOK
  <2> QED
    BY <2>1, <2>2, CarriesOn
<1> QED
  BY <1>1, <1>2

\* A slot at rest carries nothing.
LEMMA IdleCarries ==
    ASSUME NEW att, NEW bod, NEW m
    PROVE  Carries(Idle, att, bod, m)
BY DEF Carries, Idle, Call, Op, Status, InTry, RefundOps

\* InboxInv holds of an empty inbox.
LEMMA InboxInit == Init => InboxInv
<1> SUFFICES ASSUME Init  PROVE InboxInv
  OBVIOUS
<1>1. \A c \in Slots : Carries(calls[c], attempts, body, made)
  BY IdleCarries DEF Init
<1>2. calls \in [Slots -> Call]
  BY DEF Init, Idle, Call, Op, Status
<1>3. InboxTypeOK
  BY <1>2, InboxAssumption DEF Init, InboxTypeOK, Status, OwnRow
<1> QED
  BY <1>1, <1>3, InboxAssumption DEF Init, InboxInv, DeadLetterExhausted

\* A processor's step that leaves rows and ledger alone and moves on.
LEMMA MovesOn ==
    ASSUME InboxInv, NEW c \in Slots, NEW x, Goto(c, x),
           UNCHANGED <<rowVars, ledgerVars, made, body>>,
           deliveries' \in [Event -> Nat], OwnRows',
           Carries(x, attempts, body, made)
    PROVE  InboxInv'
<1>1. /\ calls' \in [Slots -> Call]
      /\ \A d \in Slots : Carries(calls'[d], attempts', body', made')
  <2>1. attempts' = attempts /\ body' = body /\ made' = made
    BY DEF rowVars
  <2>2. attempts \in [Event -> Nat] /\ made \in Nat /\ body \in [Event -> {-1} \cup (0..made)]
    BY InboxAssumption DEF InboxInv, InboxTypeOK
  <2>3. /\ Carries(x, attempts', body', made') /\ attempts' \in [Event -> Nat] /\ made' \in Nat
        /\ \A e \in Event : attempts[e] <= attempts'[e] /\ body'[e] = body[e]
        /\ made <= made' /\ calls' = [calls EXCEPT ![c] = x]
    BY <2>1, <2>2 DEF Goto
  <2> QED
    BY <2>3, SlotMoves
<1> QED
  BY <1>1 DEF InboxInv, InboxTypeOK, OwnRows, DeadLetterExhausted, rowVars, ledgerVars

\* A step that writes the status of one row, other than to a dead letter that
\* has attempts left.
LEMMA WritesStatus ==
    ASSUME InboxInv, NEW c \in Slots, NEW x, Goto(c, x), NEW e \in Event, NEW s \in Status,
           st' = [st EXCEPT ![e] = s], s = "DEAD_LETTER" => attempts[e] >= MAX_ATTEMPTS,
           UNCHANGED <<attempts, providerVars, own, ledgerVars, unseen>>,
           Carries(x, attempts, body, made)
    PROVE  InboxInv'
<1>1. attempts' = attempts /\ body' = body /\ made' = made
  BY DEF providerVars
<1>2. attempts \in [Event -> Nat] /\ made \in Nat
  BY InboxAssumption DEF InboxInv, InboxTypeOK
<1>3. /\ calls' \in [Slots -> Call]
      /\ \A d \in Slots : Carries(calls'[d], attempts', body', made')
  <2>1. /\ Carries(x, attempts', body', made') /\ attempts' \in [Event -> Nat] /\ made' \in Nat
        /\ \A f \in Event : attempts[f] <= attempts'[f] /\ body'[f] = body[f]
        /\ made <= made' /\ calls' = [calls EXCEPT ![c] = x]
    BY <1>1, <1>2 DEF Goto
  <2> QED
    BY <2>1, SlotMoves
<1>4. InboxTypeOK'
  BY <1>1, <1>3 DEF InboxInv, InboxTypeOK, providerVars, ledgerVars
<1>5. DeadLetterExhausted'
  BY <1>1 DEF InboxInv, InboxTypeOK, OwnRows, DeadLetterExhausted
<1> QED
  BY <1>1, <1>3, <1>4, <1>5 DEF InboxInv, ledgerVars

\* ingest: the delivery is a duplicate, or goes on to its row; a row is created
\* once, or put back to RECEIVED with its attempts.
LEMMA IngestKeeps ==
    ASSUME InboxInv, NEW c \in Slots,
           (\E e \in Event : IngestRead(c, e)) \/ CreateRow(c) \/ ResetRow(c)
    PROVE  InboxInv'
<1>0. Carries(calls[c], attempts, body, made) /\ calls \in [Slots -> Call]
  BY DEF InboxInv, InboxTypeOK
<1>1. ASSUME NEW e \in Event, IngestRead(c, e)  PROVE InboxInv'
  <2> DEFINE x == [Idle EXCEPT !.op = IF st[e] = "NONE" THEN "create" ELSE "reset", !.e = e]
  <2>1. Carries(x, attempts, body, made)
    BY DEF Carries, Idle, Call, Op, Status, InTry, RefundOps
  <2>2. Goto(c, x) \/ Goto(c, Idle)
    <3>1. CASE calls' = calls
      BY <1>0, <1>1, <3>1 DEF IngestRead, Goto
    <3> QED
      BY <1>1, <3>1 DEF IngestRead
  <2>3. /\ deliveries' \in [Event -> Nat] /\ OwnRows'
        /\ UNCHANGED <<rowVars, ledgerVars, made, body>>
    <3>1. deliveries \in [Event -> Nat] /\ OwnRows
      BY DEF InboxInv, InboxTypeOK, OwnRows
    <3>2. deliveries' = [deliveries EXCEPT ![e] = deliveries[e] + 1]
      BY <1>1 DEF IngestRead
    <3>3. UNCHANGED <<rowVars, body, made, own, ledgerVars, unseen>>
      BY <1>1 DEF IngestRead
    <3>4. deliveries' \in [Event -> Nat]
      BY <3>1, <3>2
    <3> QED
      BY <3>1, <3>3, <3>4 DEF OwnRows
  <2> HIDE DEF x
  <2>4. CASE Goto(c, x)
    BY <2>1, <2>3, <2>4, MovesOn
  <2>5. CASE Goto(c, Idle)
    BY <2>3, <2>5, IdleCarries, MovesOn
  <2> QED
    BY <2>2, <2>4, <2>5
<1>2. CASE CreateRow(c) \/ ResetRow(c)
  <2> DEFINE x == [calls[c] EXCEPT !.op = "claim"]
  <2>1. calls[c].e \in Event
    BY <1>0, <1>2 DEF CreateRow, ResetRow, Carries
  <2>2. Carries(x, attempts, body, made)
    BY <1>0, <2>1 DEF Carries, Call, Op, InTry, RefundOps
  <2>3. CASE st' = [st EXCEPT ![calls[c].e] = "RECEIVED"] /\ Goto(c, x)
    BY <1>2, <2>1, <2>2, <2>3, WritesStatus DEF CreateRow, ResetRow, Status
  <2>4. CASE UNCHANGED st /\ Goto(c, Idle)
    <3>1. /\ deliveries' \in [Event -> Nat] /\ OwnRows'
          /\ UNCHANGED <<rowVars, ledgerVars, made, body>>
      BY <1>2, <2>4 DEF CreateRow, ResetRow, InboxInv, InboxTypeOK, OwnRows, providerVars, rowVars
    <3> QED
      BY <2>4, <3>1, IdleCarries, MovesOn
  <2> QED
    BY <1>2, <2>3, <2>4 DEF CreateRow, ResetRow
<1> QED
  BY <1>1, <1>2

\* The claim is the one step that counts an attempt.
LEMMA ClaimKeeps ==
    ASSUME InboxInv, NEW c \in Slots, Claim(c)
    PROVE  InboxInv'
<1> DEFINE e == calls[c].e
           x == [calls[c] EXCEPT !.op = "record"]
<1>0. /\ Carries(calls[c], attempts, body, made) /\ e \in Event
      /\ attempts \in [Event -> Nat] /\ made \in Nat /\ st \in [Event -> Status]
  BY InboxAssumption DEF InboxInv, InboxTypeOK, Carries, Claim
<1>1. CASE UNCHANGED rowVars /\ Goto(c, Idle)
  <2>1. /\ deliveries' \in [Event -> Nat] /\ OwnRows'
        /\ UNCHANGED <<rowVars, ledgerVars, made, body>>
    BY <1>1 DEF Claim, InboxInv, InboxTypeOK, OwnRows, providerVars
  <2> QED
    BY <1>1, <2>1, IdleCarries, MovesOn
<1>2. CASE /\ st' = [st EXCEPT ![e] = "PROCESSING"] /\ attempts' = [attempts EXCEPT ![e] = @ + 1]
           /\ Goto(c, x)
  <2>1. /\ attempts' \in [Event -> Nat] /\ \A f \in Event : attempts[f] <= attempts'[f]
        /\ body' = body /\ made' = made
    BY <1>0, <1>2 DEF Claim, providerVars
  <2>2. Carries(x, attempts', body', made')
    BY <1>0 DEF Carries, Call, Op, InTry, RefundOps
  <2>3. /\ calls' \in [Slots -> Call]
        /\ \A d \in Slots : Carries(calls'[d], attempts', body', made')
    <3>1. /\ calls' = [calls EXCEPT ![c] = x] /\ made' \in Nat /\ made <= made'
          /\ \A f \in Event : body'[f] = body[f]
      BY <1>0, <1>2, <2>1 DEF Goto
    <3> QED
      BY <2>1, <2>2, <3>1, SlotMoves
  <2>4. st' \in [Event -> Status]
    BY <1>0, <1>2 DEF Status
  <2>5. DeadLetterExhausted'
    <3>1. ASSUME NEW f \in Event, st'[f] = "DEAD_LETTER"  PROVE attempts'[f] >= MAX_ATTEMPTS
      <4>1. st[f] = "DEAD_LETTER"
        BY <1>0, <1>2, <3>1
      <4>2. attempts[f] >= MAX_ATTEMPTS
        BY <4>1 DEF InboxInv, DeadLetterExhausted
      <4> QED
        BY <1>0, <2>1, <4>2, InboxAssumption
    <3> QED
      BY <3>1 DEF DeadLetterExhausted
  <2> QED
    BY <2>1, <2>3, <2>4, <2>5
       DEF Claim, InboxInv, InboxTypeOK, providerVars, ledgerVars
<1> QED
  BY <1>1, <1>2 DEF Claim

\* Steps that only read, and the settling of our own refund row.
LEMMA ReadersKeep ==
    ASSUME InboxInv, NEW c \in Slots,
           \/ \E e \in Event : SweepPick(c, e)
           \/ ReadRecord(c) \/ Dispatch(c) \/ SettleRow(c) \/ CheckInFlight(c) \/ CheckSibling(c) \/ Die(c)
    PROVE  InboxInv'
<1>0. /\ Carries(calls[c], attempts, body, made) /\ attempts \in [Event -> Nat]
      /\ refunded \in Nat /\ body \in [Event -> {-1} \cup (0..made)] /\ made \in Nat
  BY InboxAssumption DEF InboxInv, InboxTypeOK
<1>1. /\ deliveries' \in [Event -> Nat] /\ OwnRows'
      /\ UNCHANGED <<rowVars, ledgerVars, made, body>>
  BY DEF SweepPick, ReadRecord, Dispatch, SettleRow, CheckInFlight, CheckSibling, Die, InboxInv,
         InboxTypeOK, HandleRefundFailed, providerVars, OwnRow, OwnRows
<1>2. SUFFICES ASSUME TRUE
               PROVE  \E x : Goto(c, x) /\ Carries(x, attempts, body, made)
  BY <1>1, MovesOn
<1>3. ASSUME NEW e \in Event, SweepPick(c, e)
      PROVE  \E x : Goto(c, x) /\ Carries(x, attempts, body, made)
  <2>1. Carries([Idle EXCEPT !.op = "claim", !.e = e], attempts, body, made)
    BY DEF Carries, Idle, Call, Op, Status, InTry, RefundOps
  <2> QED
    BY <1>3, <2>1 DEF SweepPick
<1>4. CASE ReadRecord(c)
  <2>1. Carries([calls[c] EXCEPT !.op = "dispatch", !.n = attempts[calls[c].e]],
                attempts, body, made)
    <3> DEFINE k == calls[c]
               x == [k EXCEPT !.op = "dispatch", !.n = attempts[k.e]]
    <3>1. k \in Call /\ k.e \in Event
      BY <1>0, <1>4 DEF ReadRecord, Carries
    <3>2. attempts[k.e] \in Nat
      BY <1>0, <3>1
    <3>3. x \in Call /\ x.op = "dispatch" /\ x.e = k.e /\ x.n = attempts[k.e]
      BY <3>1, <3>2 DEF Call, Op
    <3> HIDE DEF x, k
    <3>4. Carries(x, attempts, body, made)
      BY <3>1, <3>2, <3>3 DEF Carries, RefundOps
    <3> QED
      BY <3>4 DEF x, k
  <2> QED
    BY <1>4, <2>1 DEF ReadRecord
<1>5. CASE Dispatch(c)
  <2>1. ASSUME NEW out \in {"PROCESSED", "IGNORED"}
        PROVE  Carries([calls[c] EXCEPT !.op = "finish", !.out = out], attempts, body, made)
    BY <1>0, <1>5 DEF Dispatch, Carries, Call, Op, Status, InTry, RefundOps
  <2>2. ASSUME body[calls[c].e] > 0, NEW op \in {"settleRow", "count"}
        PROVE  Carries([calls[c] EXCEPT !.seen = refunded, !.op = op], attempts, body, made)
    <3> DEFINE k == calls[c]
               x == [k EXCEPT !.seen = refunded, !.op = op]
    <3>1. k \in Call /\ k.e \in Event /\ k.n <= attempts[k.e]
      BY <1>0, <1>5 DEF Dispatch, Carries, InTry
    <3>2. body[k.e] \in 1..made
      BY <1>0, <2>2, <3>1
    <3>3. x \in Call /\ x.op = op /\ x.e = k.e /\ x.n = k.n
      BY <1>0, <2>2, <3>1 DEF Call, Op
    <3> HIDE DEF x, k
    <3>4. Carries(x, attempts, body, made)
      BY <2>2, <3>1, <3>2, <3>3 DEF Carries
    <3> QED
      BY <3>4 DEF x, k
  <2> QED
    BY <1>5, <2>1, <2>2 DEF Dispatch, HandleRefundFailed, Outcome
<1>6. CASE SettleRow(c) \/ CheckInFlight(c) \/ CheckSibling(c)
  <2>1. ASSUME NEW op \in RefundOps
        PROVE  Carries([calls[c] EXCEPT !.op = op], attempts, body, made)
    BY <1>0, <1>6 DEF SettleRow, CheckInFlight, CheckSibling, Carries, Call, Op, InTry, RefundOps
  <2>2. Carries([calls[c] EXCEPT !.op = "finish", !.out = "PROCESSED"], attempts, body, made)
    BY <1>0, <1>6
       DEF SettleRow, CheckInFlight, CheckSibling, Carries, Call, Op, Status, InTry, RefundOps
  <2> QED
    BY <1>6, <2>1, <2>2 DEF SettleRow, CheckInFlight, CheckSibling, Outcome, RefundOps
<1>7. CASE Die(c)
  BY <1>7, IdleCarries DEF Die
<1> QED
  BY <1>3, <1>4, <1>5, <1>6, <1>7

\* The outcome written is one of the handled ones, and a dead letter is written
\* only when the attempts that were read, and so the row's, are used up.
LEMMA EndingsKeep ==
    ASSUME InboxInv, NEW c \in Slots, FinishEvent(c) \/ Fail(c)
    PROVE  InboxInv'
<1>1. /\ calls[c].e \in Event /\ calls[c].n \in Nat /\ calls[c].n <= attempts[calls[c].e]
      /\ attempts[calls[c].e] \in Nat
  BY DEF InboxInv, InboxTypeOK, Carries, Call, FinishEvent, Fail, InTry
<1>2. CASE FinishEvent(c)
  <2>1. calls[c].out \in {"PROCESSED", "IGNORED"}
    BY <1>2 DEF InboxInv, Carries, FinishEvent
  <2>2. /\ Goto(c, Idle) /\ st' = [st EXCEPT ![calls[c].e] = calls[c].out]
        /\ UNCHANGED <<attempts, providerVars, own, ledgerVars, unseen>>
    BY <1>2 DEF FinishEvent
  <2>3. calls[c].out \in Status /\ calls[c].out # "DEAD_LETTER"
    BY <2>1 DEF Status
  <2> QED
    BY <1>1, <2>2, <2>3, IdleCarries, WritesStatus
<1>3. CASE Fail(c)
  <2> DEFINE s == IF Dead(calls[c].n) THEN "DEAD_LETTER" ELSE "FAILED"
  <2>1. /\ Goto(c, Idle) /\ st' = [st EXCEPT ![calls[c].e] = s]
        /\ UNCHANGED <<attempts, providerVars, own, ledgerVars, unseen>>
    BY <1>3 DEF Fail
  <2>2. s \in Status /\ (s = "DEAD_LETTER" => attempts[calls[c].e] >= MAX_ATTEMPTS)
    BY <1>1, InboxAssumption DEF Status, Dead
  <2> HIDE DEF s
  <2> QED
    BY <1>1, <2>1, <2>2, IdleCarries, WritesStatus
<1> QED
  BY <1>2, <1>3

\* A step that writes the ledger.
LEMMA WritesLedger ==
    ASSUME InboxInv, NEW c \in Slots, NEW x, Goto(c, x),
           UNCHANGED <<rowVars, providerVars, own, unseen>>,
           refunded' \in Nat, deducted' \in Nat,
           Carries(x, attempts, body, made)
    PROVE  InboxInv'
<1>1. attempts' = attempts /\ body' = body /\ made' = made
  BY DEF providerVars, rowVars
<1>2. attempts \in [Event -> Nat] /\ made \in Nat
  BY InboxAssumption DEF InboxInv, InboxTypeOK
<1>3. /\ calls' \in [Slots -> Call]
      /\ \A d \in Slots : Carries(calls'[d], attempts', body', made')
  <2>1. /\ Carries(x, attempts', body', made') /\ attempts' \in [Event -> Nat] /\ made' \in Nat
        /\ \A f \in Event : attempts[f] <= attempts'[f] /\ body'[f] = body[f]
        /\ made <= made' /\ calls' = [calls EXCEPT ![c] = x]
    BY <1>1, <1>2 DEF Goto
  <2> QED
    BY <2>1, SlotMoves
<1> QED
  BY <1>1, <1>3 DEF InboxInv, InboxTypeOK, OwnRows, DeadLetterExhausted, rowVars, providerVars

\* handleRefund and handleChargeRefunded: what is deducted is not negative.
LEMMA LedgerKeeps ==
    ASSUME InboxInv, NEW c \in Slots, Count(c) \/ Deduct(c)
    PROVE  InboxInv'
<1> DEFINE k == calls[c]
<1>1. /\ k \in Call /\ k.e \in Event /\ k.n <= attempts[k.e] /\ k.seen \in Nat /\ k.delta \in Nat
      /\ refunded \in Nat /\ deducted \in Nat
  BY DEF InboxInv, InboxTypeOK, Carries, Call, Count, Deduct, InTry
<1>2. Carries([k EXCEPT !.op = "finish", !.out = "PROCESSED"], attempts, body, made)
  BY <1>1 DEF Carries, Call, Op, Status, InTry, RefundOps
<1>3. CASE Deduct(c)
  <2>1. /\ deducted' = deducted + k.delta /\ refunded' = refunded
        /\ UNCHANGED <<rowVars, providerVars, own, unseen>>
        /\ Goto(c, [k EXCEPT !.op = "finish", !.out = "PROCESSED"])
    BY <1>3 DEF Deduct, Outcome
  <2>2. deducted' \in Nat /\ refunded' \in Nat
    BY <1>1, <2>1
  <2> QED
    BY <1>2, <2>1, <2>2, WritesLedger
<1>4. CASE Count(c)
  <2> DEFINE total == NewTotal(k.seen, body[k.e])
             x == [k EXCEPT !.op = "deduct", !.delta = total - k.seen]
  <2>1. body[k.e] \in 1..made /\ made \in 0..MaxRefunds
    BY <1>4 DEF Count, InboxInv, InboxTypeOK, Carries, RefundOps
  <2>2. total \in Nat
    BY <1>1, <2>1, InboxAssumption DEF NewTotal
  <2>3. UNCHANGED <<rowVars, providerVars, own, unseen>> /\ deducted' \in Nat
    BY <1>1, <1>4 DEF Count
  <2> HIDE DEF total
  <2>4. CASE UNCHANGED refunded /\ Outcome(c, "PROCESSED")
    <3>1. Goto(c, [k EXCEPT !.op = "finish", !.out = "PROCESSED"]) /\ refunded' = refunded
      BY <2>4 DEF Outcome
    <3> QED
      BY <1>1, <1>2, <2>3, <3>1, WritesLedger
  <2>5. CASE total > k.seen /\ refunded' = total /\ Goto(c, x)
    <3>1. total - k.seen \in Nat
      BY <1>1, <2>2, <2>5
    <3>2. x \in Call /\ x.op = "deduct" /\ x.e = k.e /\ x.n = k.n
      BY <1>1, <3>1 DEF Call, Op
    <3>3. Carries(x, attempts, body, made)
      BY <1>1, <3>2 DEF Carries, RefundOps
    <3> HIDE DEF x
    <3> QED
      BY <2>2, <2>3, <2>5, <3>3, WritesLedger
  <2>6. total <= k.seen \/ total > k.seen
    BY <1>1, <2>2
  <2> QED
    BY <1>4, <2>4, <2>5, <2>6 DEF Count, total
<1> QED
  BY <1>3, <1>4

\* The provider and RefundsService: refunds and events are only added.
LEMMA OutsideKeeps ==
    ASSUME InboxInv,
           \/ \E row \in {"none", "recording", "hidden"} : MakeRefund(row)
           \/ \E k \in 1..MaxRefunds, answer \in {"PROCESSING", "COMPLETED"} : RecordRefund(k, answer)
           \/ \E e \in Event, k \in 0..MaxRefunds : Send(e, k)
           \/ UNCHANGED vars
    PROVE  InboxInv'
<1>0. /\ made \in 0..MaxRefunds /\ body \in [Event -> {-1} \cup (0..made)] /\ MaxRefunds \in Nat
      /\ OwnRows /\ attempts \in [Event -> Nat]
  BY InboxAssumption DEF InboxInv, InboxTypeOK, OwnRows
<1>1. /\ UNCHANGED <<calls, deliveries>> /\ UNCHANGED rowVars /\ UNCHANGED ledgerVars
  BY DEF MakeRefund, RecordRefund, Send, vars, providerVars
<1>2. made' \in 0..MaxRefunds /\ made <= made'
  BY <1>0 DEF MakeRefund, RecordRefund, Send, vars, providerVars
<1>3. OwnRows'
  <2>1. ASSUME NEW k \in 1..MaxRefunds, NEW s \in OwnRow, own' = [own EXCEPT ![k] = s],
               unseen' = unseen \/ unseen' = unseen \cup {k}
        PROVE  OwnRows'
    BY <1>0, <2>1 DEF OwnRows
  <2>2. ASSUME NEW r \in {"none", "recording", "hidden"}, MakeRefund(r)  PROVE OwnRows'
    <3>1. made + 1 \in 1..MaxRefunds /\ r \in OwnRow
      BY <1>0, <2>2 DEF MakeRefund, OwnRow
    <3>2. own' = [own EXCEPT ![made + 1] = r] /\ unseen' \in {unseen, unseen \cup {made + 1}}
      BY <2>2 DEF MakeRefund
    <3> QED
      BY <2>1, <3>1, <3>2
  <2>3. ASSUME NEW k \in 1..MaxRefunds, NEW a \in {"PROCESSING", "COMPLETED"}, RecordRefund(k, a)
        PROVE  OwnRows'
    <3>1. /\ own' = [own EXCEPT ![k] = a] /\ unseen' \in {unseen, unseen \cup {k}}
          /\ a \in OwnRow
      BY <2>3 DEF RecordRefund, OwnRow
    <3> QED
      BY <2>1, <3>1
  <2>4. CASE UNCHANGED <<own, unseen>>
    BY <1>0, <2>4 DEF OwnRows
  <2> QED
    BY <2>2, <2>3, <2>4 DEF Send, vars
<1>4. /\ body' \in [Event -> {-1} \cup (0..made')]
      /\ \A e \in Event : body[e] \in 1..made => body'[e] = body[e]
  <2>1. CASE body' = body
    BY <1>0, <1>2, <2>1
  <2>2. ASSUME NEW e \in Event, NEW k \in 0..MaxRefunds, Send(e, k)
        PROVE  /\ body' \in [Event -> {-1} \cup (0..made')]
               /\ \A f \in Event : body[f] \in 1..made => body'[f] = body[f]
    <3>1. body[e] = -1 /\ k \in 0..made /\ made' = made /\ body' = [body EXCEPT ![e] = k]
      BY <1>0, <2>2 DEF Send
    <3> QED
      BY <1>0, <3>1
  <2> QED
    BY <2>1, <2>2 DEF MakeRefund, RecordRefund, vars, providerVars
<1>5. \A d \in Slots : Carries(calls'[d], attempts', body', made')
  BY <1>0, <1>1, <1>2, <1>4, SlotsStay DEF rowVars
<1> QED
  BY <1>1, <1>2, <1>3, <1>4, <1>5
     DEF InboxInv, InboxTypeOK, OwnRows, DeadLetterExhausted, rowVars, ledgerVars

\* InboxInv is inductive.
LEMMA InboxStep == InboxInv /\ [Next]_vars => InboxInv'
<1> SUFFICES ASSUME InboxInv, [Next]_vars  PROVE InboxInv'
  OBVIOUS
<1>1. ASSUME NEW c \in Slots, Work(c)  PROVE InboxInv'
  BY <1>1, IngestKeeps, ClaimKeeps, ReadersKeep, LedgerKeeps, EndingsKeep DEF Work
<1>2. ASSUME NEW c \in Slots, NEW e \in Event, IngestRead(c, e) \/ SweepPick(c, e)
      PROVE  InboxInv'
  BY <1>2, IngestKeeps, ReadersKeep
<1>3. ASSUME NEW c \in Slots, Die(c)  PROVE InboxInv'
  BY <1>3, ReadersKeep
<1> QED
  BY <1>1, <1>2, <1>3, OutsideKeeps DEF Next

\* process: no event is given up before MAX_ATTEMPTS claims were made on it.
THEOREM NoEarlyDeadLetter == Spec => []DeadLetterExhausted
<1>1. InboxInv => DeadLetterExhausted
  BY DEF InboxInv
<1> QED
  BY InboxInit, InboxStep, <1>1, PTL DEF Spec

-----------------------------------------------------------------------------
(* The row of a refund and the event that closes it.                       *)

\* Past settleRefundRow, and so when the event ends as processed, the row was
\* closed or is one that the reads may miss. Between the two reads it has no
\* id yet, or that already holds.
Closed(k) == ~Open(k) \/ k \in unseen

Past == {"sibling", "count", "deduct", "finish"}

SettledCall(x) ==
    /\ x.op # "idle" => body[x.e] >= 0
    /\ x.op = "inFlight" => own[body[x.e]] = "recording" \/ Closed(body[x.e])
    /\ x.op \in Past /\ body[x.e] > 0 => Closed(body[x.e])

ClosedInv ==
    /\ \A k \in 1..MaxRefunds : own[k] = "hidden" => k \in unseen
    /\ \A e \in Event : st[e] # "NONE" => body[e] >= 0
    /\ \A c \in Slots : SettledCall(calls[c])
    /\ \A e \in Event : st[e] = "PROCESSED" /\ body[e] > 0 => Closed(body[e])

\* Nothing reopens a row, and an answer committed between the two reads of a
\* processor is one they may miss.
RowsOnlyClose ==
    /\ \A k \in 1..MaxRefunds : own'[k] = "hidden" => k \in unseen'
    /\ \A k \in 1..made : Closed(k) => Closed(k)'
    /\ \A d \in Slots : calls[d].op = "inFlight" /\ own[body[calls[d].e]] = "recording"
          => own'[body[calls[d].e]] = "recording" \/ body[calls[d].e] \in unseen'

\* A step that leaves the refund rows alone.
LEMMA OwnUnchanged ==
    ASSUME InboxInv, ClosedInv, UNCHANGED <<own, unseen>>
    PROVE  RowsOnlyClose
BY DEF ClosedInv, RowsOnlyClose, Closed, Open

\* A row that has its id is completed or failed.
LEMMA OwnCloses ==
    ASSUME InboxInv, ClosedInv, NEW k \in 1..MaxRefunds, NEW s \in {"COMPLETED", "FAILED"},
           own[k] \notin {"none", "recording"}, own' = [own EXCEPT ![k] = s], UNCHANGED unseen
    PROVE  RowsOnlyClose
<1>0. own \in [1..MaxRefunds -> OwnRow] /\ made \in 0..MaxRefunds /\ MaxRefunds \in Nat
  BY InboxAssumption DEF InboxInv, InboxTypeOK
<1>1. \A j \in 1..MaxRefunds : own'[j] = IF j = k THEN s ELSE own[j]
  BY <1>0
<1>2. \A j \in 1..MaxRefunds : own'[j] = "hidden" => j \in unseen'
  BY <1>1 DEF ClosedInv
<1>3. \A j \in 1..made : Closed(j) => Closed(j)'
  BY <1>0, <1>1 DEF Closed, Open
<1>4. ASSUME NEW d \in Slots, calls[d].op = "inFlight", own[body[calls[d].e]] = "recording"
      PROVE  own'[body[calls[d].e]] = "recording"
  <2>1. body[calls[d].e] \in 1..MaxRefunds
    BY <1>0, <1>4 DEF InboxInv, Carries, RefundOps
  <2> QED
    BY <1>1, <1>4, <2>1
<1> QED
  BY <1>2, <1>3, <1>4 DEF RowsOnlyClose

\* The provider makes a refund: no event is about it yet.
LEMMA OwnMade ==
    ASSUME InboxInv, ClosedInv, NEW r \in {"none", "recording", "hidden"}, MakeRefund(r)
    PROVE  RowsOnlyClose
<1>0. own \in [1..MaxRefunds -> OwnRow] /\ made \in 0..MaxRefunds /\ MaxRefunds \in Nat
  BY InboxAssumption DEF InboxInv, InboxTypeOK
<1>1. /\ made + 1 \in 1..MaxRefunds /\ made + 1 \notin 1..made
      /\ \A j \in 1..MaxRefunds : own'[j] = IF j = made + 1 THEN r ELSE own[j]
      /\ \A j \in 1..made : own'[j] = own[j]
      /\ unseen \subseteq unseen' /\ (r = "hidden" => made + 1 \in unseen')
  BY <1>0 DEF MakeRefund
<1>2. \A j \in 1..MaxRefunds : own'[j] = "hidden" => j \in unseen'
  BY <1>1 DEF ClosedInv
<1>3. \A j \in 1..made : Closed(j) => Closed(j)'
  BY <1>1 DEF Closed, Open
<1>4. ASSUME NEW d \in Slots, calls[d].op = "inFlight", own[body[calls[d].e]] = "recording"
      PROVE  own'[body[calls[d].e]] = "recording"
  <2>1. body[calls[d].e] \in 1..made
    BY <1>4 DEF InboxInv, Carries, RefundOps
  <2> QED
    BY <1>1, <1>4, <2>1
<1> QED
  BY <1>2, <1>3, <1>4 DEF RowsOnlyClose

\* RefundsService commits an answer: processors between their reads may miss it.
LEMMA OwnRecorded ==
    ASSUME InboxInv, ClosedInv, NEW k \in 1..MaxRefunds,
           NEW a \in {"PROCESSING", "COMPLETED"}, RecordRefund(k, a)
    PROVE  RowsOnlyClose
<1>0. own \in [1..MaxRefunds -> OwnRow] /\ made \in 0..MaxRefunds /\ MaxRefunds \in Nat
  BY InboxAssumption DEF InboxInv, InboxTypeOK
<1>1. /\ \A j \in 1..MaxRefunds : own'[j] = IF j = k THEN a ELSE own[j]
      /\ unseen \subseteq unseen' /\ own[k] \in {"recording", "hidden"}
      /\ \A d \in Slots : calls[d].op = "inFlight" /\ body[calls[d].e] = k => k \in unseen'
  BY <1>0 DEF RecordRefund
<1>2. \A j \in 1..MaxRefunds : own'[j] = "hidden" => j \in unseen'
  BY <1>1 DEF ClosedInv
<1>3. ASSUME NEW j \in 1..made, Closed(j)  PROVE Closed(j)'
  <2>1. j \in 1..MaxRefunds
    BY <1>0
  <2>2. CASE j = k
    BY <1>1, <1>3, <2>1, <2>2 DEF Closed, Open
  <2>3. CASE j # k
    BY <1>1, <1>3, <2>1, <2>3 DEF Closed, Open
  <2> QED
    BY <2>2, <2>3
<1>4. ASSUME NEW d \in Slots, calls[d].op = "inFlight", own[body[calls[d].e]] = "recording"
      PROVE  own'[body[calls[d].e]] = "recording" \/ body[calls[d].e] \in unseen'
  <2>1. body[calls[d].e] \in 1..MaxRefunds
    BY <1>0, <1>4 DEF InboxInv, Carries, RefundOps
  <2> QED
    BY <1>1, <1>4, <2>1
<1> QED
  BY <1>2, <1>3, <1>4 DEF RowsOnlyClose

\* What a call carries about its row stays true when rows only close.
LEMMA SettledStays ==
    ASSUME InboxInv, ClosedInv, RowsOnlyClose, NEW c \in Slots, calls'[c] = calls[c],
           \A e \in Event : body[e] >= 0 => body'[e] = body[e]
    PROVE  SettledCall(calls[c])'
<1> DEFINE x == calls[c]
<1>0. SettledCall(x) /\ Carries(x, attempts, body, made) /\ made \in Nat
      /\ body \in [Event -> {-1} \cup (0..made)]
  BY InboxAssumption DEF ClosedInv, InboxInv, InboxTypeOK
<1>1. CASE x.op = "idle"
  BY <1>1 DEF SettledCall, Past
<1>2. CASE x.op # "idle"
  <2>1. x.e \in Event /\ body[x.e] >= 0 /\ body'[x.e] = body[x.e] /\ body[x.e] \in 0..made
    BY <1>0, <1>2 DEF SettledCall, Carries
  <2>2. x.op = "inFlight" =>
          own'[body[x.e]] = "recording" \/ Closed(body[x.e])'
    <3> SUFFICES ASSUME x.op = "inFlight"
                 PROVE  own'[body[x.e]] = "recording" \/ Closed(body[x.e])'
      OBVIOUS
    <3>1. body[x.e] \in 1..made
      BY <1>0 DEF Carries, RefundOps
    <3>2. CASE own[body[x.e]] = "recording"
      BY <2>1, <3>2 DEF RowsOnlyClose, Closed
    <3>3. CASE Closed(body[x.e])
      <4>1. PICK k \in 1..made : k = body[x.e]
        BY <3>1
      <4>2. Closed(k)'
        BY <3>3, <4>1 DEF RowsOnlyClose
      <4> QED
        BY <2>1, <4>1, <4>2 DEF Closed, Open
    <3> QED
      BY <1>0, <3>2, <3>3 DEF SettledCall
  <2>3. x.op \in Past /\ body[x.e] > 0 => Closed(body[x.e])'
    <3> SUFFICES ASSUME x.op \in Past, body[x.e] > 0  PROVE Closed(body[x.e])'
      OBVIOUS
    <3>1. PICK k \in 1..made : k = body[x.e]
      BY <1>0, <2>1
    <3>2. Closed(k)
      BY <1>0, <3>1 DEF SettledCall
    <3>3. Closed(k)'
      BY <3>2 DEF RowsOnlyClose
    <3> QED
      BY <2>1, <3>1, <3>3 DEF Closed, Open
  <2> QED
    BY <2>1, <2>2, <2>3 DEF SettledCall
<1> QED
  BY <1>1, <1>2

\* What a step has to show for ClosedInv.
LEMMA ClosedKept ==
    ASSUME InboxInv, ClosedInv, RowsOnlyClose,
           \A e \in Event : body[e] >= 0 => body'[e] = body[e],
           \A e \in Event : st'[e] # "NONE" => st[e] # "NONE" \/ body[e] >= 0,
           \A e \in Event : st'[e] = "PROCESSED" =>
              st[e] = "PROCESSED" \/ \E c \in Slots : calls[c].op = "finish" /\ calls[c].e = e,
           \A c \in Slots : calls'[c] = calls[c] \/ SettledCall(calls[c])'
    PROVE  ClosedInv'
<1>0. made \in Nat /\ body \in [Event -> {-1} \cup (0..made)]
  BY InboxAssumption DEF InboxInv, InboxTypeOK
<1>1. \A k \in 1..MaxRefunds : own'[k] = "hidden" => k \in unseen'
  BY DEF RowsOnlyClose
<1>2. \A e \in Event : st'[e] # "NONE" => body'[e] >= 0
  BY DEF ClosedInv
<1>3. \A c \in Slots : SettledCall(calls[c])'
  BY SettledStays
<1>4. ASSUME NEW e \in Event, st'[e] = "PROCESSED", body'[e] > 0  PROVE Closed(body[e])'
  <2>1. body[e] >= 0
    <3>1. CASE st[e] = "PROCESSED"
      BY <3>1 DEF ClosedInv
    <3>2. ASSUME NEW c \in Slots, calls[c].op = "finish", calls[c].e = e  PROVE body[e] >= 0
      BY <3>2 DEF ClosedInv, SettledCall
    <3> QED
      BY <1>4, <3>1, <3>2
  <2>2. body'[e] = body[e] /\ body[e] \in 1..made
    BY <1>0, <1>4, <2>1
  <2>3. Closed(body[e])
    <3>1. CASE st[e] = "PROCESSED"
      BY <2>2, <3>1 DEF ClosedInv
    <3>2. ASSUME NEW c \in Slots, calls[c].op = "finish", calls[c].e = e  PROVE Closed(body[e])
      BY <2>2, <3>2 DEF ClosedInv, SettledCall, Past
    <3> QED
      BY <1>4, <3>1, <3>2
  <2>4. PICK k \in 1..made : k = body[e]
    BY <2>2
  <2>5. Closed(k)'
    BY <2>3, <2>4 DEF RowsOnlyClose
  <2> QED
    BY <2>2, <2>4, <2>5 DEF Closed, Open
<1> QED
  BY <1>1, <1>2, <1>3, <1>4 DEF ClosedInv

\* One slot moves to x, with the row that x is about as x needs it.
LEMMA ClosedSlot ==
    ASSUME InboxInv, ClosedInv, RowsOnlyClose, NEW c \in Slots, NEW x, Goto(c, x),
           UNCHANGED body, SettledCall(x)',
           \A e \in Event : st'[e] # "NONE" => st[e] # "NONE" \/ body[e] >= 0,
           \A e \in Event : st'[e] = "PROCESSED" =>
              st[e] = "PROCESSED" \/ (calls[c].op = "finish" /\ calls[c].e = e)
    PROVE  ClosedInv'
<1>1. \A d \in Slots : calls'[d] = IF d = c THEN x ELSE calls[d]
  BY DEF Goto, InboxInv, InboxTypeOK
<1>2. \A d \in Slots : calls'[d] = calls[d] \/ SettledCall(calls[d])'
  BY <1>1 DEF SettledCall, Closed, Open
<1> QED
  BY <1>2, ClosedKept

\* Steps of a slot that leave the refund rows alone, settleRefundRow's first read,
\* and the failing of a row.
LEMMA ClosedWork ==
    ASSUME Provider = "razorpay", InboxInv, ClosedInv, NEW c \in Slots,
           Work(c) \/ Die(c) \/ \E e \in Event : IngestRead(c, e) \/ SweepPick(c, e)
    PROVE  ClosedInv'
<1>0. /\ SettledCall(calls[c]) /\ Carries(calls[c], attempts, body, made) /\ calls[c] \in Call
      /\ st \in [Event -> Status] /\ body \in [Event -> {-1} \cup (0..made)] /\ made \in 0..MaxRefunds
      /\ own \in [1..MaxRefunds -> OwnRow] /\ calls \in [Slots -> Call] /\ MaxRefunds \in Nat
  BY InboxAssumption DEF ClosedInv, InboxInv, InboxTypeOK
<1>1. ASSUME UNCHANGED <<own, unseen, body>>, NEW x, Goto(c, x), SettledCall(x),
             \A e \in Event : st'[e] # "NONE" => st[e] # "NONE" \/ body[e] >= 0,
             \A e \in Event : st'[e] = "PROCESSED" =>
                st[e] = "PROCESSED" \/ (calls[c].op = "finish" /\ calls[c].e = e)
      PROVE  ClosedInv'
  <2>1. SettledCall(x)'
    BY <1>1 DEF SettledCall, Closed, Open
  <2> QED
    BY <1>1, <2>1, OwnUnchanged, ClosedSlot
<1>2. SettledCall(Idle)
  BY DEF SettledCall, Idle, Past
<1>3. CASE Die(c) \/ \E e \in Event : IngestRead(c, e) \/ SweepPick(c, e)
  <2>1. UNCHANGED <<own, unseen, body, st>>
    BY <1>3 DEF Die, IngestRead, SweepPick, rowVars, providerVars
  <2>2. CASE Goto(c, Idle)
    BY <1>1, <1>2, <2>1, <2>2
  <2>3. ASSUME NEW e \in Event, NEW op \in {"create", "reset", "claim"}, body[e] >= 0,
               Goto(c, [Idle EXCEPT !.op = op, !.e = e])
        PROVE  ClosedInv'
    <3>1. SettledCall([Idle EXCEPT !.op = op, !.e = e])
      BY <2>3 DEF SettledCall, Idle, Past
    <3> QED
      BY <1>1, <2>1, <2>3, <3>1
  <2>4. CASE UNCHANGED calls
    BY <2>1, <2>4, OwnUnchanged, ClosedKept
  <2>5. ASSUME NEW e \in Event, SweepPick(c, e)  PROVE ClosedInv'
    <3>1. body[e] >= 0 /\ Goto(c, [Idle EXCEPT !.op = "claim", !.e = e])
      BY <2>5 DEF SweepPick, Due, ClosedInv
    <3> QED
      BY <2>3, <3>1
  <2> QED
    BY <1>3, <2>2, <2>3, <2>4, <2>5 DEF Die, IngestRead
<1>4. CASE CreateRow(c) \/ ResetRow(c) \/ Claim(c) \/ ReadRecord(c)
  <2>1. calls[c].e \in Event /\ body[calls[c].e] >= 0
    BY <1>0, <1>4 DEF CreateRow, ResetRow, Claim, ReadRecord, SettledCall, Carries
  <2>2. /\ UNCHANGED <<own, unseen, body>>
        /\ \A e \in Event : st'[e] # "NONE" => st[e] # "NONE" \/ body[e] >= 0
        /\ \A e \in Event : st'[e] = "PROCESSED" => st[e] = "PROCESSED"
    BY <1>0, <1>4, <2>1 DEF CreateRow, ResetRow, Claim, ReadRecord, rowVars, providerVars
  <2>3. ASSUME NEW op \in {"claim", "record"}
        PROVE  SettledCall([calls[c] EXCEPT !.op = op])
    BY <1>0, <2>1 DEF SettledCall, Past, Call
  <2>4. SettledCall([calls[c] EXCEPT !.op = "dispatch", !.n = attempts[calls[c].e]])
    BY <1>0, <2>1 DEF SettledCall, Past, Call
  <2>5. \E x : Goto(c, x) /\ SettledCall(x)
    BY <1>2, <1>4, <2>3, <2>4 DEF CreateRow, ResetRow, Claim, ReadRecord
  <2> QED
    BY <1>1, <2>2, <2>5
<1>5. CASE CheckInFlight(c) \/ CheckSibling(c) \/ Count(c) \/ Deduct(c)
  <2> DEFINE k == body[calls[c].e]
  <2>1. calls[c].e \in Event /\ k >= 0 /\ (k > 0 => Closed(k))
    BY <1>0, <1>5
       DEF CheckInFlight, CheckSibling, Count, Deduct, SettledCall, Carries, Past, RefundOps
  <2>2. /\ UNCHANGED <<own, unseen, body, st>>
    BY <1>5 DEF CheckInFlight, CheckSibling, Count, Deduct, rowVars, providerVars
  <2>3. ASSUME NEW x, x.e = calls[c].e, x.op \in Past, Goto(c, x)  PROVE ClosedInv'
    <3>1. SettledCall(x)
      BY <2>1, <2>3 DEF SettledCall, Past
    <3> QED
      BY <1>1, <2>2, <2>3, <3>1
  <2>4. ASSUME NEW op \in Past, Goto(c, [calls[c] EXCEPT !.op = op])  PROVE ClosedInv'
    <3>1. PICK x : x = [calls[c] EXCEPT !.op = op]
      OBVIOUS
    <3>2. x.e = calls[c].e /\ x.op = op
      BY <1>0, <3>1 DEF Call
    <3> QED
      BY <2>3, <2>4, <3>1, <3>2
  <2>5. ASSUME Outcome(c, "PROCESSED")  PROVE ClosedInv'
    <3>1. PICK x : x = [calls[c] EXCEPT !.op = "finish", !.out = "PROCESSED"]
      OBVIOUS
    <3>2. x.e = calls[c].e /\ x.op \in Past
      BY <1>0, <3>1 DEF Call, Past
    <3> QED
      BY <2>3, <2>5, <3>1, <3>2 DEF Outcome
  <2>6. ASSUME NEW delta, Goto(c, [calls[c] EXCEPT !.op = "deduct", !.delta = delta])
        PROVE  ClosedInv'
    <3>1. PICK x : x = [calls[c] EXCEPT !.op = "deduct", !.delta = delta]
      OBVIOUS
    <3>2. x.e = calls[c].e /\ x.op \in Past
      BY <1>0, <3>1 DEF Call, Past
    <3> QED
      BY <2>3, <2>6, <3>1, <3>2
  <2>7. "sibling" \in Past /\ "count" \in Past
    BY DEF Past
  <2>8. CASE CheckInFlight(c) \/ CheckSibling(c)
    BY <2>4, <2>5, <2>7, <2>8 DEF CheckInFlight, CheckSibling
  <2>9. CASE Count(c) \/ Deduct(c)
    BY <2>5, <2>6, <2>9 DEF Count, Deduct
  <2> QED
    BY <1>5, <2>8, <2>9
<1>6. CASE FinishEvent(c) \/ Fail(c)
  <2>1. calls[c].e \in Event /\ body[calls[c].e] >= 0
    BY <1>0, <1>6 DEF FinishEvent, Fail, InTry, SettledCall, Carries
  <2>2. /\ UNCHANGED <<own, unseen, body>> /\ Goto(c, Idle)
        /\ \A e \in Event : st'[e] # "NONE" => st[e] # "NONE" \/ body[e] >= 0
        /\ \A e \in Event : st'[e] = "PROCESSED" =>
              st[e] = "PROCESSED" \/ (calls[c].op = "finish" /\ calls[c].e = e)
    BY <1>0, <1>6, <2>1 DEF FinishEvent, Fail, providerVars
  <2> QED
    BY <1>1, <1>2, <2>2
<1>7. CASE Dispatch(c)
  <2>1. /\ calls[c].e \in Event /\ body[calls[c].e] >= 0
        /\ UNCHANGED <<unseen, body, st>>
    BY <1>0, <1>7 DEF Dispatch, SettledCall, Carries, rowVars, providerVars
  <2>2. ASSUME body[calls[c].e] = 0, HandleRefundFailed(c)  PROVE ClosedInv'
    <3>0. PICK x : x = [calls[c] EXCEPT !.op = "finish", !.out = "PROCESSED"]
      OBVIOUS
    <3>1. PICK k \in 1..MaxRefunds : /\ own[k] \in {"PROCESSING", "COMPLETED"}
                                     /\ own' = [own EXCEPT ![k] = "FAILED"]
      BY <2>2 DEF HandleRefundFailed
    <3>2. RowsOnlyClose
      BY <2>1, <3>1, OwnCloses
    <3>3. x.e = calls[c].e /\ x.op = "finish"
      BY <1>0, <3>0 DEF Call
    <3>4. SettledCall(x)'
      BY <1>0, <2>1, <2>2, <3>3 DEF SettledCall, Past
    <3>5. Goto(c, x)
      BY <2>2, <3>0 DEF HandleRefundFailed, Outcome
    <3> QED
      BY <2>1, <3>2, <3>4, <3>5, ClosedSlot
  <2>3. ASSUME body[calls[c].e] = 0, UNCHANGED own, NEW out, Outcome(c, out)  PROVE ClosedInv'
    <3>1. SettledCall([calls[c] EXCEPT !.op = "finish", !.out = out])
      BY <1>0, <2>1, <2>3 DEF SettledCall, Past, Call
    <3> QED
      BY <1>1, <2>1, <2>3, <3>1 DEF Outcome
  <2>4. ASSUME UNCHANGED own, Goto(c, [calls[c] EXCEPT !.seen = refunded, !.op = "settleRow"])
        PROVE  ClosedInv'
    <3>1. SettledCall([calls[c] EXCEPT !.seen = refunded, !.op = "settleRow"])
      BY <1>0, <2>1 DEF SettledCall, Past, Call
    <3> QED
      BY <1>1, <2>1, <2>4, <3>1
  <2> QED
    BY <1>7, <2>2, <2>3, <2>4 DEF Dispatch
<1>8. CASE SettleRow(c)
  <2> DEFINE k == body[calls[c].e]
             y == [calls[c] EXCEPT !.op = "inFlight"]
  <2>1. /\ calls[c].e \in Event /\ k \in 1..MaxRefunds
        /\ UNCHANGED <<unseen, body, st>>
    BY <1>0, <1>8 DEF SettleRow, Carries, RefundOps, rowVars, providerVars
  <2>2. CASE own[k] \in {"PROCESSING", "COMPLETED", "FAILED"}
    <3>0. PICK x : x = [calls[c] EXCEPT !.op = "sibling"]
      OBVIOUS
    <3>1. PICK s \in {"COMPLETED", "FAILED"} : own' = [own EXCEPT ![k] = s]
      BY <1>8, <2>2 DEF SettleRow
    <3>2. RowsOnlyClose
      <4>1. own[k] \notin {"none", "recording"}
        BY <2>2
      <4> HIDE DEF k
      <4> QED
        BY <2>1, <3>1, <4>1, OwnCloses
    <3>3. x.e = calls[c].e /\ x.op = "sibling" /\ Goto(c, x)
      BY <1>0, <1>8, <2>2, <3>0 DEF Call, SettleRow
    <3>4. own'[k] = s
      BY <1>0, <2>1, <3>1
    <3>5. SettledCall(x)'
      BY <2>1, <3>3, <3>4 DEF SettledCall, Past, Closed, Open
    <3> HIDE DEF k
    <3> QED
      BY <2>1, <3>2, <3>3, <3>5, ClosedSlot
  <2>3. CASE own[k] \notin {"PROCESSING", "COMPLETED", "FAILED"}
    <3>1. UNCHANGED own /\ Goto(c, y) /\ y.e = calls[c].e /\ y.op = "inFlight"
      BY <1>0, <1>8, <2>3 DEF SettleRow, Call
    <3>2. own[k] = "recording" \/ Closed(k)
      BY <1>0, <2>1, <2>3 DEF Closed, Open, OwnRow, ClosedInv
    <3>3. SettledCall(y)
      BY <2>1, <3>1, <3>2 DEF SettledCall, Past
    <3> HIDE DEF y, k
    <3> QED
      BY <1>1, <2>1, <3>1, <3>3
  <2> QED
    BY <2>2, <2>3
<1> QED
  BY <1>3, <1>4, <1>5, <1>6, <1>7, <1>8 DEF Work

\* ClosedInv is inductive, for Razorpay, given InboxInv.
LEMMA ClosedStep ==
    ASSUME Provider = "razorpay", InboxInv, ClosedInv, [Next]_vars
    PROVE  ClosedInv'
<1>0. body \in [Event -> {-1} \cup (0..made)] /\ made \in Nat
  BY InboxAssumption DEF InboxInv, InboxTypeOK
<1>1. ASSUME NEW r \in {"none", "recording", "hidden"}, MakeRefund(r)  PROVE ClosedInv'
  <2>1. UNCHANGED <<body, st, calls>>
    BY <1>1 DEF MakeRefund, rowVars
  <2> QED
    BY <1>1, <2>1, OwnMade, ClosedKept
<1>2. ASSUME NEW k \in 1..MaxRefunds, NEW a \in {"PROCESSING", "COMPLETED"}, RecordRefund(k, a)
      PROVE  ClosedInv'
  <2>1. UNCHANGED <<body, st, calls>>
    BY <1>2 DEF RecordRefund, rowVars, providerVars
  <2> QED
    BY <1>2, <2>1, OwnRecorded, ClosedKept
<1>3. ASSUME NEW e \in Event, NEW k \in 0..MaxRefunds, Send(e, k)  PROVE ClosedInv'
  <2>1. UNCHANGED <<own, unseen, st, calls>> /\ \A f \in Event : body[f] >= 0 => body'[f] = body[f]
    BY <1>0, <1>3 DEF Send, rowVars
  <2> QED
    BY <2>1, OwnUnchanged, ClosedKept
<1>4. CASE UNCHANGED vars
  <2>1. UNCHANGED <<own, unseen, st, calls, body>>
    BY <1>4 DEF vars, rowVars, providerVars
  <2> QED
    BY <2>1, OwnUnchanged, ClosedKept
<1> QED
  BY <1>1, <1>2, <1>3, <1>4, ClosedWork DEF Next

\* settleRefundRow: with any number of events, deliveries and processors, a row of ours
\* is closed when the refund.processed event about it counts as handled, unless its
\* answer was committed between the two reads or the second read cannot see it; and
\* the inbox's rows keep their shapes.
THEOREM HandledEventClosesRow == Spec => [](InboxTypeOK /\ ClosedWithEvent)
<1>1. CASE Provider = "razorpay"
  <2>1. Init => ClosedInv
    BY DEF Init, ClosedInv, SettledCall, Past, Idle
  <2>2. InboxInv /\ ClosedInv /\ [Next]_vars => ClosedInv'
    BY <1>1, ClosedStep
  <2>3. InboxInv /\ ClosedInv => InboxTypeOK /\ ClosedWithEvent
    BY DEF InboxInv, ClosedInv, ClosedWithEvent, Closed
  <2> QED
    BY InboxInit, InboxStep, <2>1, <2>2, <2>3, PTL DEF Spec
<1>2. CASE Provider # "razorpay"
  <2>1. InboxInv => InboxTypeOK /\ ClosedWithEvent
    BY <1>2 DEF InboxInv, ClosedWithEvent
  <2> QED
    BY InboxInit, InboxStep, <2>1, PTL DEF Spec
<1> QED
  BY <1>1, <1>2
=============================================================================
