---------------------------- MODULE RefundProofs ----------------------------
(* Proofs about Refund, for any number of rows, tickets, handlers and keys. *)
(*                                                                          *)
(* The argument: a row whose claim was never undone has at most one handler *)
(* that works on it, so its key changes only when that handler moves it,    *)
(* and then the refund under the old key is dead. So at most the current    *)
(* key ever holds money. What a handler read from the provider stays true   *)
(* however its claim was lost, which is what the tickets and the COMPLETED  *)
(* rows rest on.                                                            *)
EXTENDS Refund, FiniteSetTheorems, TLAPS

Accepted == Money \union {"bounced", "returned"}

\* Keys that hold no money, and will not unless they are used again.
Spent == Dead \union {"none"}

\* The statuses of a row that was never claimed.
Unclaimed == {"NONE", "REQUESTED", "REJECTED"}

\* A row that was never claimed has no key and no reference.
Fresh(x) ==
    /\ x.st = "NONE" => x.tix = {}
    /\ x.st \in Unclaimed => x.gen = 0 /\ x.last = "NONE" /\ x.ref = 0

\* What a handler k knows of the row x it works on, whoever else does.
Knows(k, x, p) ==
    /\ x.st \notin Unclaimed
    /\ k.pc \in {"begin", "wait", "lookup"} => k.g \in Gens
    /\ k.pc = "commit" => k.res # "NONE"
    /\ k.pc \in {"claim", "check"} => k.res # "FAILED"
    /\ k.pc \in {"claim", "check", "commit"} /\ k.res \in {"PROCESSING", "COMPLETED"} =>
          /\ k.g \in Gens /\ p[k.g] \in Accepted
          /\ Provider = "razorpay" /\ k.res = "COMPLETED" => p[k.g] \in {"paid", "settled"}

\* Of a row x whose claims were not undone, and the provider's refunds p of it:
\* keys after the current one are unused, those before it are spent; a failed
\* row knows of no refund that was accepted and lives.
RowIs(x, p) ==
    /\ x.last # "NONE" => x.gen # 0
    /\ \A g \in Gens : (g > x.gen => p[g] = "none") /\ (g < x.gen => p[g] \in Spent)
    /\ x.last = "REFUSED" => p[x.gen] \in Spent
    /\ x.st = "FAILED" =>
          /\ x.ref # 0 => p[x.ref] \in Dead
          /\ x.last = "ACCEPTED" => p[x.gen] \in Spent

\* What a handler knows that works on such a row.
Owns(k, x, p) ==
    /\ x.st = "PROCESSING" /\ (x.ref # 0 => p[x.ref] \in Dead)
    /\ k.pc \in {"check", "key", "begin"} => (x.last = "ACCEPTED" => p[x.gen] \in Spent)
    /\ k.pc \in {"begin", "wait", "lookup"} => k.g = x.gen
    /\ k.pc = "wait" => x.last = "SENT"
    /\ k.pc = "lookup" => x.last \in {"SENT", "UNKNOWN"}
    /\ k.pc = "commit" /\ k.res = "FAILED" => k.g \in Gens /\ k.g = x.gen /\ p[k.g] \in Dead

HoldsClaim(w, r) == worker[w].pc \in Holding /\ worker[w].r = r

\* No handler but w holds the claim of r.
FreeFor(w, r) == \A v \in Workers : HoldsClaim(v, r) => v = w

Resting == {"idle", "done"}

RefundInv ==
    /\ TypeOK
    /\ \A r \in Refunds : Fresh(row[r])
    /\ \A w \in Workers : worker[w].pc \notin Resting =>
          worker[w].r \in Refunds /\ Knows(worker[w], row[worker[w].r], prov[worker[w].r])
    /\ \A r \in Refunds \ undone :
          /\ RowIs(row[r], prov[r])
          /\ \A w \in Workers : HoldsClaim(w, r) =>
                Owns(worker[w], row[r], prov[r]) /\ FreeFor(w, r)
    /\ VoidedMeansAccepted
    /\ CompletedMeansPaid

\* What the provider's refunds of a row may turn into.
Evolves(p, q) ==
    \A g \in Gens : /\ p[g] \in Dead => q[g] \in Dead
                    /\ p[g] \in Accepted => q[g] \in Accepted
                    /\ p[g] \in {"paid", "settled"} => q[g] \in {"paid", "settled"}

-----------------------------------------------------------------------------

\* The initial state satisfies the invariant.
LEMMA InitInv == Init => RefundInv
<1> SUFFICES ASSUME Init PROVE RefundInv
  OBVIOUS
<1>1. NoRow \in RowType /\ Idle \in WorkerType /\ "none" \in ProviderStates
  BY RefundAssumption DEF NoRow, RowType, Idle, WorkerType, ProviderStates, Holding
<1>2. TypeOK
  BY <1>1 DEF Init, TypeOK
<1>3. \A r \in Refunds : Fresh(row[r]) /\ RowIs(row[r], prov[r])
  BY RefundAssumption DEF Init, Fresh, RowIs, NoRow, Gens
<1>4. \A w \in Workers : worker[w].pc = "idle"
  BY DEF Init, Idle
<1>5. VoidedMeansAccepted /\ CompletedMeansPaid
  BY DEF Init, VoidedMeansAccepted, CompletedMeansPaid, NoRow
<1> QED
  BY <1>2, <1>3, <1>4, <1>5 DEF RefundInv, Resting, HoldsClaim, Holding

\* A step on row r keeps the invariant when it keeps it for r and for the
\* handlers that work on r.
LEMMA Step ==
  ASSUME RefundInv, NEW r \in Refunds, NEW x \in RowType, NEW p \in [Gens -> ProviderStates],
         row' = [row EXCEPT ![r] = x], prov' = [prov EXCEPT ![r] = p],
         ticket' \in [Tickets -> BOOLEAN], worker' \in [Workers -> WorkerType],
         undone' = undone \/ undone' = undone \union {r},
         Fresh(x), Evolves(prov[r], p), x.tix = row[r].tix \/ row[r].tix = {},
         Provider = "razorpay" /\ x.st = "COMPLETED" =>
            \E g \in Gens : p[g] \in {"paid", "settled"},
         \A t \in Tickets : \/ ticket'[t] \/ ~ticket[t]
                            \/ t \in x.tix /\ \E g \in Gens : p[g] \in Accepted,
         \A v \in Workers : \/ worker'[v].pc \in Resting
                            \/ worker'[v].r = r /\ Knows(worker'[v], x, p)
                            \/ worker'[v] = worker[v] /\ worker[v].r # r,
         \/ r \in undone'
         \/ /\ RowIs(x, p)
            /\ \A v \in Workers : HoldsClaim(v, r)' => Owns(worker'[v], x, p) /\ FreeFor(v, r)'
  PROVE  RefundInv'
<1>1. /\ row'[r] = x /\ prov'[r] = p
      /\ \A q \in Refunds : q # r => row'[q] = row[q] /\ prov'[q] = prov[q]
  BY DEF RefundInv, TypeOK
<1>2. TypeOK'
  BY DEF RefundInv, TypeOK
<1>3. \A q \in Refunds : Fresh(row'[q])
  BY <1>1 DEF RefundInv
<1>4. ASSUME NEW v \in Workers, worker'[v].pc \notin Resting
      PROVE  worker'[v].r \in Refunds
             /\ Knows(worker'[v], row'[worker'[v].r], prov'[worker'[v].r])
  <2>1. CASE worker'[v].r = r /\ Knows(worker'[v], x, p)
    BY <1>1, <2>1
  <2>2. CASE worker'[v] = worker[v] /\ worker[v].r # r
    <3>1. worker[v].r \in Refunds /\ Knows(worker[v], row[worker[v].r], prov[worker[v].r])
      BY <1>4, <2>2 DEF RefundInv
    <3> QED
      BY <1>1, <2>2, <3>1
  <2> QED
    BY <1>4, <2>1, <2>2
<1>5. VoidedMeansAccepted'
  <2> SUFFICES ASSUME NEW t \in Tickets, ~ticket'[t]
               PROVE  \E q \in Refunds : \E g \in Gens :
                         t \in row'[q].tix /\ prov'[q][g] \in Accepted
    BY DEF VoidedMeansAccepted, Accepted
  <2>1. CASE t \in x.tix /\ \E g \in Gens : p[g] \in Accepted
    BY <1>1, <2>1
  <2>2. CASE ~ticket[t]
    <3>1. PICK q \in Refunds, g \in Gens : t \in row[q].tix /\ prov[q][g] \in Accepted
      BY <2>2 DEF RefundInv, VoidedMeansAccepted, Accepted
    <3>2. CASE q = r
      BY <1>1, <3>1, <3>2 DEF Evolves
    <3>3. CASE q # r
      BY <1>1, <3>1, <3>3
    <3> QED
      BY <3>2, <3>3
  <2> QED
    BY <2>1, <2>2
<1>6. CompletedMeansPaid'
  <2> SUFFICES ASSUME NEW q \in Refunds, Provider = "razorpay", row'[q].st = "COMPLETED"
               PROVE  \E g \in Gens : prov'[q][g] \in {"paid", "settled"}
    BY DEF CompletedMeansPaid
  <2> QED
    BY <1>1 DEF RefundInv, CompletedMeansPaid
<1>7. ASSUME NEW q \in Refunds \ undone'
      PROVE  /\ RowIs(row'[q], prov'[q])
             /\ \A w \in Workers : HoldsClaim(w, q)' =>
                   Owns(worker'[w], row'[q], prov'[q]) /\ FreeFor(w, q)'
  <2>1. CASE q = r
    BY <1>1, <1>7, <2>1
  <2>2. CASE q # r
    <3>1. /\ q \in Refunds \ undone /\ row'[q] = row[q] /\ prov'[q] = prov[q]
      BY <1>1, <2>2
    <3>2. ASSUME NEW w \in Workers, HoldsClaim(w, q)'
          PROVE  HoldsClaim(w, q) /\ worker'[w] = worker[w]
      BY <2>2, <3>2 DEF HoldsClaim, Holding, Resting
    <3> QED
      BY <3>1, <3>2 DEF RefundInv, FreeFor
  <2> QED
    BY <2>1, <2>2
<1> QED
  BY <1>2, <1>3, <1>4, <1>5, <1>6, <1>7 DEF RefundInv

\* What the invariant says of the types.
LEMMA OfTypes ==
  ASSUME RefundInv
  PROVE  /\ ticket \in [Tickets -> BOOLEAN] /\ worker \in [Workers -> WorkerType]
         /\ Idle \in WorkerType /\ Idle.pc = "idle" /\ Idle.res = "NONE"
         /\ Ended \in WorkerType /\ Ended.pc = "done"
<1>1. Idle \in WorkerType /\ Idle.pc = "idle" /\ Idle.res = "NONE"
  BY RefundAssumption DEF Idle, WorkerType
<1>2. Ended \in WorkerType /\ Ended.pc = "done"
  BY <1>1 DEF Ended, WorkerType
<1> QED
  BY <1>1, <1>2 DEF RefundInv, TypeOK

\* What the invariant says of a row.
LEMMA OfRow ==
  ASSUME RefundInv, NEW r \in Refunds
  PROVE  /\ row[r] \in RowType /\ prov[r] \in [Gens -> ProviderStates]
         /\ Fresh(row[r]) /\ Evolves(prov[r], prov[r])
         /\ r \notin undone => RowIs(row[r], prov[r])
         /\ prov = [prov EXCEPT ![r] = prov[r]] /\ row = [row EXCEPT ![r] = row[r]]
         /\ Provider = "razorpay" /\ row[r].st = "COMPLETED" =>
               \E g \in Gens : prov[r][g] \in {"paid", "settled"}
  BY DEF RefundInv, TypeOK, Evolves, CompletedMeansPaid

\* What the invariant says of a handler at work.
LEMMA OfWorker ==
  ASSUME RefundInv, NEW w \in Workers, worker[w].pc \notin Resting
  PROVE  /\ worker[w] \in WorkerType /\ worker[w].r \in Refunds
         /\ Knows(worker[w], row[worker[w].r], prov[worker[w].r])
  BY DEF RefundInv, TypeOK

\* What the invariant says of a handler that holds a claim no one undid.
LEMMA Owner ==
  ASSUME RefundInv, NEW w \in Workers, worker[w].pc \in Holding, worker[w].r \notin undone
  PROVE  /\ Owns(worker[w], row[worker[w].r], prov[worker[w].r])
         /\ FreeFor(w, worker[w].r) /\ RowIs(row[worker[w].r], prov[worker[w].r])
<1>1. worker[w].r \in Refunds
  BY OfWorker DEF Holding, Resting
<1> QED
  BY <1>1 DEF RefundInv, HoldsClaim

\* A row that is not claimed has no owner.
LEMMA NoOwner ==
  ASSUME RefundInv, NEW r \in Refunds, r \notin undone, row[r].st # "PROCESSING",
         NEW w \in Workers
  PROVE  ~HoldsClaim(w, r)
  BY DEF RefundInv, Owns

\* A handler's knowledge outlives what others do.
LEMMA KnowsOn ==
  ASSUME NEW k, NEW x, NEW y, NEW p, NEW q, Knows(k, x, p), Evolves(p, q), y.st \notin Unclaimed
  PROVE  Knows(k, y, q)
  BY DEF Knows, Evolves

-----------------------------------------------------------------------------
(* The shapes of a step. *)

\* A step of handler w on row r that leaves other handlers alone.
LEMMA WorkerStep ==
  ASSUME RefundInv, NEW w \in Workers, NEW r \in Refunds,
         NEW x \in RowType, NEW p \in [Gens -> ProviderStates], NEW k \in WorkerType,
         row' = [row EXCEPT ![r] = x], prov' = [prov EXCEPT ![r] = p],
         worker' = [worker EXCEPT ![w] = k], ticket' \in [Tickets -> BOOLEAN],
         undone' = undone \/ undone' = undone \union {r},
         k.pc \in Resting \/ (k.r = r /\ Knows(k, x, p)),
         x.st \notin Unclaimed, Evolves(prov[r], p), x.tix = row[r].tix,
         Provider = "razorpay" /\ x.st = "COMPLETED" =>
            \E g \in Gens : p[g] \in {"paid", "settled"},
         \A t \in Tickets : \/ ticket'[t] \/ ~ticket[t]
                            \/ t \in x.tix /\ \E g \in Gens : p[g] \in Accepted,
         \/ r \in undone'
         \/ /\ RowIs(x, p) /\ FreeFor(w, r)
            /\ k.pc \in Holding => Owns(k, x, p)
         \/ /\ RowIs(x, p) /\ k.pc \notin Holding /\ p = prov[r]
            /\ x.st = row[r].st /\ x.ref = row[r].ref /\ x.gen = row[r].gen
            /\ x.last = row[r].last
  PROVE  RefundInv'
<1>1. /\ worker' \in [Workers -> WorkerType] /\ worker'[w] = k
      /\ \A v \in Workers : v # w => worker'[v] = worker[v]
  BY DEF RefundInv, TypeOK
<1>2. ASSUME NEW v \in Workers
      PROVE  \/ worker'[v].pc \in Resting
             \/ worker'[v].r = r /\ Knows(worker'[v], x, p)
             \/ worker'[v] = worker[v] /\ worker[v].r # r
  <2>1. CASE v = w
    BY <1>1, <2>1
  <2>2. CASE v # w /\ worker[v].r = r /\ worker[v].pc \notin Resting
    <3>1. Knows(worker[v], row[r], prov[r])
      BY <2>2, OfWorker
    <3>2. Knows(worker[v], x, p)
      BY <3>1, KnowsOn
    <3> QED
      BY <1>1, <2>2, <3>2
  <2>3. CASE v # w /\ ~(worker[v].r = r /\ worker[v].pc \notin Resting)
    BY <1>1, <2>3
  <2> QED
    BY <2>1, <2>2, <2>3
<1>3. Fresh(x)
  BY DEF Fresh, Unclaimed
<1>4. ASSUME r \notin undone',
             RowIs(x, p), FreeFor(w, r), k.pc \in Holding => Owns(k, x, p),
             NEW v \in Workers, HoldsClaim(v, r)'
      PROVE  Owns(worker'[v], x, p) /\ FreeFor(v, r)'
  <2>1. \A u \in Workers : HoldsClaim(u, r)' => u = w
    BY <1>1, <1>4 DEF HoldsClaim, FreeFor
  <2> QED
    BY <1>1, <1>4, <2>1 DEF HoldsClaim, FreeFor
<1>5. ASSUME r \notin undone',
             RowIs(x, p), k.pc \notin Holding, p = prov[r],
             x.st = row[r].st, x.ref = row[r].ref, x.gen = row[r].gen, x.last = row[r].last,
             NEW v \in Workers, HoldsClaim(v, r)'
      PROVE  Owns(worker'[v], x, p) /\ FreeFor(v, r)'
  <2>1. \A u \in Workers : HoldsClaim(u, r)' => HoldsClaim(u, r) /\ worker'[u] = worker[u]
    BY <1>1, <1>5 DEF HoldsClaim
  <2>2. Owns(worker[v], row[r], prov[r]) /\ FreeFor(v, r)
    BY <1>5, <2>1 DEF RefundInv
  <2>3. FreeFor(v, r)'
    BY <2>1, <2>2 DEF FreeFor
  <2> QED
    BY <1>5, <2>1, <2>2, <2>3 DEF Owns
<1> HIDE DEF RefundInv
<1> QED
  BY <1>1, <1>2, <1>3, <1>4, <1>5, Step

\* A step of handler w that leaves the provider and the tickets alone.
LEMMA QuietStep ==
  ASSUME RefundInv, NEW w \in Workers, NEW r \in Refunds, NEW x \in RowType,
         NEW k \in WorkerType,
         row' = [row EXCEPT ![r] = x], worker' = [worker EXCEPT ![w] = k],
         UNCHANGED <<ticket, prov, undone>>,
         k.pc \in Resting \/ (k.r = r /\ Knows(k, x, prov[r])),
         x.st \notin Unclaimed, x.tix = row[r].tix,
         Provider = "razorpay" /\ x.st = "COMPLETED" =>
            \E g \in Gens : prov[r][g] \in {"paid", "settled"},
         \/ r \in undone
         \/ /\ RowIs(x, prov[r]) /\ FreeFor(w, r)
            /\ k.pc \in Holding => Owns(k, x, prov[r])
         \/ /\ RowIs(x, prov[r]) /\ k.pc \notin Holding
            /\ x.st = row[r].st /\ x.ref = row[r].ref /\ x.gen = row[r].gen
            /\ x.last = row[r].last
  PROVE  RefundInv'
<1>1. /\ prov[r] \in [Gens -> ProviderStates] /\ Evolves(prov[r], prov[r])
      /\ prov' = [prov EXCEPT ![r] = prov[r]] /\ ticket' \in [Tickets -> BOOLEAN]
      /\ \A t \in Tickets : ticket'[t] \/ ~ticket[t]
  BY OfRow, OfTypes
<1> QED
  BY <1>1, WorkerStep

\* A step of a handler that writes nothing and holds no claim after it.
LEMMA MoveStep ==
  ASSUME RefundInv, NEW w \in Workers, NEW r \in Refunds, NEW k \in WorkerType,
         worker' = [worker EXCEPT ![w] = k], UNCHANGED <<row, ticket, prov, undone>>,
         row[r].st \notin Unclaimed, k.pc \notin Holding,
         k.pc \in Resting \/ (k.r = r /\ Knows(k, row[r], prov[r]))
  PROVE  RefundInv'
<1>1. row[r] \in RowType /\ row' = [row EXCEPT ![r] = row[r]]
      /\ (r \notin undone => RowIs(row[r], prov[r]))
      /\ (Provider = "razorpay" /\ row[r].st = "COMPLETED" =>
               \E g \in Gens : prov[r][g] \in {"paid", "settled"})
  BY OfRow
<1> QED
  BY <1>1, QuietStep

\* A step on a row by no handler, and which no handler holds.
LEMMA RowStep ==
  ASSUME RefundInv, NEW r \in Refunds, NEW x \in RowType, NEW p \in [Gens -> ProviderStates],
         row' = [row EXCEPT ![r] = x], prov' = [prov EXCEPT ![r] = p],
         UNCHANGED <<ticket, worker>>, undone' = undone \/ undone' = undone \union {r},
         Fresh(x), Evolves(prov[r], p), x.tix = row[r].tix \/ row[r].tix = {},
         x.st \in Unclaimed => row[r].st \in Unclaimed,
         Provider = "razorpay" /\ x.st = "COMPLETED" =>
            \E g \in Gens : p[g] \in {"paid", "settled"},
         \/ r \in undone'
         \/ RowIs(x, p) /\ \A v \in Workers : ~HoldsClaim(v, r)
  PROVE  RefundInv'
<1>1. ASSUME NEW v \in Workers
      PROVE  \/ worker'[v].pc \in Resting
             \/ worker'[v].r = r /\ Knows(worker'[v], x, p)
             \/ worker'[v] = worker[v] /\ worker[v].r # r
  <2>1. CASE worker[v].r = r /\ worker[v].pc \notin Resting
    <3>1. Knows(worker[v], row[r], prov[r])
      BY <2>1, OfWorker
    <3>2. Knows(worker[v], x, p)
      BY <3>1, KnowsOn DEF Knows
    <3> QED
      BY <2>1, <3>2
  <2> QED
    BY <2>1
<1>2. /\ ticket' \in [Tickets -> BOOLEAN] /\ worker' \in [Workers -> WorkerType]
      /\ \A t \in Tickets : ticket'[t] \/ ~ticket[t]
  BY OfTypes
<1>3. \A v \in Workers : HoldsClaim(v, r)' <=> HoldsClaim(v, r)
  BY DEF HoldsClaim
<1> QED
  BY <1>1, <1>2, <1>3, Step

\* A step of the provider alone.
LEMMA ProviderStep ==
  ASSUME RefundInv, NEW r \in Refunds, NEW p \in [Gens -> ProviderStates],
         prov' = [prov EXCEPT ![r] = p], UNCHANGED <<row, ticket, worker, undone>>,
         Evolves(prov[r], p), \A g \in Gens : prov[r][g] = "none" => p[g] = "none"
  PROVE  RefundInv'
<1>1. /\ row[r] \in RowType /\ Fresh(row[r]) /\ row' = [row EXCEPT ![r] = row[r]]
      /\ (r \notin undone => RowIs(row[r], prov[r]))
      /\ (Provider = "razorpay" /\ row[r].st = "COMPLETED" =>
               \E g \in Gens : prov[r][g] \in {"paid", "settled"})
  BY OfRow
<1>2. /\ row[r].ref # 0 => row[r].ref \in Gens
      /\ row[r].gen # 0 => row[r].gen \in Gens
  BY <1>1, RefundAssumption DEF RowType, Gens
<1>3. \A g \in Gens : prov[r][g] \in Spent => p[g] \in Spent
  BY DEF Spent, Evolves
<1>4. r \notin undone => RowIs(row[r], p)
  BY <1>1, <1>2, <1>3 DEF RowIs, Evolves
<1>5. ASSUME NEW v \in Workers, worker[v].pc \notin Resting, worker[v].r = r
      PROVE  Knows(worker[v], row[r], p)
  <2>1. Knows(worker[v], row[r], prov[r])
    BY <1>5, OfWorker
  <2>2. row[r].st \notin Unclaimed
    BY <2>1 DEF Knows
  <2> QED
    BY <2>1, <2>2, KnowsOn
<1>6. ASSUME r \notin undone, NEW v \in Workers, HoldsClaim(v, r)
      PROVE  Owns(worker[v], row[r], p) /\ FreeFor(v, r)'
  <2>1. Owns(worker[v], row[r], prov[r]) /\ FreeFor(v, r)
    BY <1>6 DEF RefundInv
  <2>2. FreeFor(v, r)'
    BY <2>1 DEF FreeFor, HoldsClaim
  <2>3. row[r].last = "ACCEPTED" => row[r].gen \in Gens
    BY <1>1, <1>2, <1>6 DEF RowIs
  <2>4. Owns(worker[v], row[r], p)
    BY <1>2, <1>3, <2>1, <2>3 DEF Owns, Evolves
  <2> QED
    BY <2>2, <2>4
<1>7. /\ ticket' \in [Tickets -> BOOLEAN] /\ worker' \in [Workers -> WorkerType]
      /\ \A t \in Tickets : ticket'[t] \/ ~ticket[t]
  BY OfTypes
<1>8. \A v \in Workers : \/ worker'[v].pc \in Resting
                         \/ worker'[v].r = r /\ Knows(worker'[v], row[r], p)
                         \/ worker'[v] = worker[v] /\ worker[v].r # r
  BY <1>5
<1>9. Provider = "razorpay" /\ row[r].st = "COMPLETED" =>
         \E g \in Gens : p[g] \in {"paid", "settled"}
  BY <1>1 DEF Evolves
<1>10. \A v \in Workers : HoldsClaim(v, r)' <=> HoldsClaim(v, r)
  BY DEF HoldsClaim
<1>11. \/ r \in undone'
       \/ /\ RowIs(row[r], p)
          /\ \A v \in Workers : HoldsClaim(v, r)' =>
                Owns(worker'[v], row[r], p) /\ FreeFor(v, r)'
  BY <1>4, <1>6, <1>10
<1> QED
  BY <1>1, <1>7, <1>8, <1>9, <1>11, Step

-----------------------------------------------------------------------------
(* One lemma per action. *)

\* request: a new row has no key and no tickets of its own before.
LEMMA RequestInv ==
  ASSUME RefundInv, NEW r \in Refunds, NEW S \in SUBSET Tickets, Request(r, S)
  PROVE  RefundInv'
<1> DEFINE targets == {t \in S : \A q \in {q \in Refunds : Covering(q)} : t \notin row[q].tix}
           x == [row[r] EXCEPT !.st = "REQUESTED", !.tix = targets]
<1>1. /\ row[r].st = "NONE" /\ row' = [row EXCEPT ![r] = x]
      /\ UNCHANGED <<ticket, prov, worker, undone>>
  BY OfRow DEF Request, RowType
<1>2. /\ x \in RowType /\ x.st = "REQUESTED" /\ x.gen = row[r].gen /\ x.last = row[r].last
      /\ x.ref = row[r].ref
  BY OfRow DEF RowType
<1> HIDE DEF x
<1>3. Fresh(x) /\ row[r].tix = {} /\ row[r].st \in Unclaimed
  BY <1>1, <1>2, OfRow DEF Fresh, Unclaimed
<1>4. r \notin undone => RowIs(x, prov[r]) /\ \A v \in Workers : ~HoldsClaim(v, r)
  BY <1>1, <1>2, OfRow, NoOwner DEF RowIs
<1> QED
  BY <1>1, <1>2, <1>3, <1>4, OfRow, RowStep

\* process, rejected: nothing was sent for the row.
LEMMA RejectInv ==
  ASSUME RefundInv, NEW r \in Refunds, Reject(r)
  PROVE  RefundInv'
<1> DEFINE x == [row[r] EXCEPT !.st = "REJECTED"]
<1>1. /\ row[r].st = "REQUESTED" /\ row' = [row EXCEPT ![r] = x]
      /\ UNCHANGED <<ticket, prov, worker, undone>>
  BY OfRow DEF Reject, RowType
<1>2. /\ x \in RowType /\ x.st = "REJECTED" /\ x.gen = row[r].gen /\ x.last = row[r].last
      /\ x.ref = row[r].ref /\ x.tix = row[r].tix
  BY OfRow DEF RowType
<1> HIDE DEF x
<1>3. Fresh(x) /\ row[r].st \in Unclaimed
  BY <1>1, <1>2, OfRow DEF Fresh, Unclaimed
<1>4. r \notin undone => RowIs(x, prov[r]) /\ \A v \in Workers : ~HoldsClaim(v, r)
  BY <1>1, <1>2, OfRow, NoOwner DEF RowIs
<1> QED
  BY <1>1, <1>2, <1>3, <1>4, OfRow, RowStep

\* process, approved: the claim of a row nobody holds.
LEMMA ApproveInv ==
  ASSUME RefundInv, NEW w \in Workers, NEW r \in Refunds, Approve(w, r)
  PROVE  RefundInv'
<1> DEFINE x == [row[r] EXCEPT !.st = "PROCESSING"]
           k == [Idle EXCEPT !.pc = "check", !.r = r]
<1>1. /\ row[r].st = "REQUESTED" /\ row' = [row EXCEPT ![r] = x]
      /\ worker' = [worker EXCEPT ![w] = k] /\ UNCHANGED <<ticket, prov, undone>>
  BY OfRow DEF Approve, RowType
<1>2. /\ x \in RowType /\ x.st = "PROCESSING" /\ x.gen = row[r].gen /\ x.last = row[r].last
      /\ x.ref = row[r].ref /\ x.tix = row[r].tix
  BY OfRow DEF RowType
<1>3. k \in WorkerType /\ k.pc = "check" /\ k.r = r /\ k.res = "NONE"
  BY OfTypes DEF WorkerType, Holding
<1> HIDE DEF x, k
<1>4. x.ref = 0 /\ x.last = "NONE" /\ x.gen = 0 /\ x.st \notin Unclaimed
  BY <1>1, <1>2, OfRow DEF Fresh, Unclaimed
<1>5. Knows(k, x, prov[r]) /\ Owns(k, x, prov[r])
  BY <1>2, <1>3, <1>4 DEF Knows, Owns
<1>6. r \notin undone => RowIs(x, prov[r]) /\ FreeFor(w, r)
  BY <1>1, <1>2, OfRow, NoOwner DEF RowIs, FreeFor
<1> QED
  BY <1>1, <1>2, <1>3, <1>4, <1>5, <1>6, QuietStep

\* A handler that throws: an approval ends, a retry comes to its catch.
LEMMA ThrowsIs ==
  ASSUME RefundInv, NEW w \in Workers, worker[w].pc \notin Resting,
         NEW res \in {"NONE", "FAILED"}, Throws(w, res)
  PROVE  \E k \in WorkerType :
            /\ worker' = [worker EXCEPT ![w] = k] /\ k.pc \notin Holding
            /\ \/ k.pc \in Resting
               \/ k.r = worker[w].r /\ \A y, p : y.st \notin Unclaimed => Knows(k, y, p)
<1> DEFINE c == [Idle EXCEPT !.pc = "catch", !.r = worker[w].r, !.retry = TRUE, !.res = res]
           k == IF worker[w].retry THEN c ELSE Ended
<1>1. worker[w] \in WorkerType /\ worker[w].r \in Refunds
  BY OfWorker
<1>2. c \in WorkerType /\ c.pc = "catch" /\ c.r = worker[w].r
  BY <1>1, OfTypes DEF WorkerType
<1> HIDE DEF c
<1>3. \A y, p : y.st \notin Unclaimed => Knows(c, y, p)
  BY <1>2 DEF Knows
<1>4. worker' = [worker EXCEPT ![w] = k]
  BY DEF Throws, c
<1>5. k \in WorkerType /\ k.pc \notin Holding
  BY <1>2, OfTypes DEF Holding
<1>6. \/ k.pc \in Resting
      \/ k.r = worker[w].r /\ \A y, p : y.st \notin Unclaimed => Knows(k, y, p)
  BY <1>2, <1>3, OfTypes DEF Resting
<1> QED
  BY <1>4, <1>5, <1>6

\* A handler that fails its row, by id, and throws; of a row whose claim was not
\* undone it knows that no refund lives that it would forget.
LEMMA FailStep ==
  ASSUME RefundInv, NEW w \in Workers, worker[w].pc \in Holding, Throws(w, "NONE"),
         NEW x \in RowType, row' = [row EXCEPT ![worker[w].r] = x],
         x.st = "FAILED", x.gen = row[worker[w].r].gen, x.last = row[worker[w].r].last,
         x.ref = row[worker[w].r].ref, x.tix = row[worker[w].r].tix,
         worker[w].pc \in {"check", "key", "begin", "lookup"},
         UNCHANGED <<ticket, prov, undone>>
  PROVE  RefundInv'
<1> DEFINE r == worker[w].r
<1>1. worker[w].pc \notin Resting /\ r \in Refunds
  BY OfWorker DEF Holding, Resting
<1>2. PICK k \in WorkerType :
         /\ worker' = [worker EXCEPT ![w] = k] /\ k.pc \notin Holding
         /\ \/ k.pc \in Resting
            \/ k.r = worker[w].r /\ \A y, p : y.st \notin Unclaimed => Knows(k, y, p)
  BY <1>1, ThrowsIs
<1>3. x.st \notin Unclaimed
  BY DEF Unclaimed
<1>4. r \notin undone => RowIs(x, prov[r]) /\ FreeFor(w, r)
  <2> SUFFICES ASSUME r \notin undone PROVE RowIs(x, prov[r]) /\ FreeFor(w, r)
    OBVIOUS
  <2>1. Owns(worker[w], row[r], prov[r]) /\ FreeFor(w, r) /\ RowIs(row[r], prov[r])
    BY Owner
  <2> QED
    BY <2>1 DEF RowIs, Owns
<1> QED
  BY <1>1, <1>2, <1>3, <1>4, QuietStep

\* payClaimed's check of the tickets, before any money moves.
LEMMA CheckTicketsInv ==
  ASSUME RefundInv, NEW w \in Workers, CheckTickets(w)
  PROVE  RefundInv'
<1> DEFINE r == worker[w].r
<1>1. /\ worker[w].pc = "check" /\ worker[w] \in WorkerType
      /\ r \in Refunds /\ Knows(worker[w], row[r], prov[r])
  BY OfWorker DEF CheckTickets, At, Resting
<1>2. CASE /\ Goto(w, PayStep(worker[w].res)) /\ UNCHANGED <<row, ticket, prov, undone>>
  <2> DEFINE k == [worker[w] EXCEPT !.pc = PayStep(worker[w].res)]
  <2>1. worker' = [worker EXCEPT ![w] = k]
    BY <1>2, OfTypes DEF Goto
  <2>2. /\ k \in WorkerType /\ k.r = r /\ k.g = worker[w].g /\ k.res = worker[w].res
        /\ k.pc = IF worker[w].res = "NONE" THEN "key" ELSE "commit"
    BY <1>1 DEF WorkerType, PayStep, Holding
  <2> HIDE DEF k
  <2>3. Knows(k, row[r], prov[r]) /\ row[r].st \notin Unclaimed
    BY <1>1, <2>2 DEF Knows, WorkerType
  <2>4. r \notin undone => RowIs(row[r], prov[r]) /\ FreeFor(w, r) /\ Owns(k, row[r], prov[r])
    BY <1>1, <2>2, Owner DEF Owns, Holding, Knows
  <2> QED
    BY <1>1, <1>2, <2>1, <2>2, <2>3, <2>4, OfRow, QuietStep
<1>3. CASE /\ row' = [row EXCEPT ![r] = [@ EXCEPT !.st = "FAILED", !.gone = TRUE]]
           /\ Throws(w, "NONE") /\ UNCHANGED <<ticket, prov, undone>>
  <2> DEFINE x == [row[r] EXCEPT !.st = "FAILED", !.gone = TRUE]
  <2>1. row' = [row EXCEPT ![r] = x]
    BY <1>1, <1>3
  <2>2. /\ x \in RowType /\ x.st = "FAILED" /\ x.gen = row[r].gen /\ x.last = row[r].last
        /\ x.ref = row[r].ref /\ x.tix = row[r].tix
    BY <1>1, OfRow DEF RowType
  <2> HIDE DEF x
  <2> QED
    BY <1>1, <1>3, <2>1, <2>2, FailStep DEF Holding
<1> QED
  BY <1>2, <1>3 DEF CheckTickets

\* keyFor: a new key only after the refund under the old one is dead.
LEMMA KeyForInv ==
  ASSUME RefundInv, NEW w \in Workers, KeyFor(w)
  PROVE  RefundInv'
<1> DEFINE r == worker[w].r
           g == NextGen(r)
           x == [row[r] EXCEPT !.gen = g]
           k == [worker[w] EXCEPT !.pc = "begin", !.g = g]
<1>1. /\ worker[w].pc = "key" /\ worker[w] \in WorkerType
      /\ r \in Refunds /\ Knows(worker[w], row[r], prov[r]) /\ g \in Gens
  BY OfWorker DEF KeyFor, At, Resting
<1>2. row[r] \in RowType /\ g \in 0 .. MaxGen
  BY <1>1, OfRow, RefundAssumption DEF Gens
<1>3. /\ row' = [row EXCEPT ![r] = x] /\ worker' = [worker EXCEPT ![w] = k]
      /\ UNCHANGED <<ticket, prov, undone>>
  BY <1>1 DEF KeyFor
<1>4. g = row[r].gen \/ (g = row[r].gen + 1 /\ (row[r].gen = 0 \/ row[r].last \in {"ACCEPTED", "REFUSED"}))
  BY DEF NextGen
<1>12. g = row[r].gen => row[r].last \notin {"ACCEPTED", "REFUSED"}
  BY <1>2 DEF NextGen, RowType
<1> HIDE DEF g
<1>5. /\ x \in RowType /\ x.st = row[r].st /\ x.gen = g /\ x.last = row[r].last
      /\ x.ref = row[r].ref /\ x.tix = row[r].tix
  BY <1>2 DEF RowType
<1>6. k \in WorkerType /\ k.pc = "begin" /\ k.r = r /\ k.g = g
  BY <1>1, <1>2 DEF WorkerType, Holding
<1> HIDE DEF x, k
<1>7. Knows(k, x, prov[r]) /\ x.st \notin Unclaimed
  BY <1>1, <1>5, <1>6 DEF Knows
<1>8. ASSUME r \notin undone
      PROVE  RowIs(x, prov[r]) /\ FreeFor(w, r) /\ Owns(k, x, prov[r])
  <2>1. Owns(worker[w], row[r], prov[r]) /\ FreeFor(w, r) /\ RowIs(row[r], prov[r])
    BY <1>1, <1>8, Owner DEF Holding
  <2>2. g \in Nat /\ row[r].gen \in Nat /\ g # 0
    BY <1>1, <1>2, RefundAssumption DEF RowType, Gens
  <2>3. g # row[r].gen => row[r].gen = 0 \/ prov[r][row[r].gen] \in Spent
    BY <1>1, <1>4, <2>1 DEF Owns, RowIs
  <2>4. \A h \in Gens : (h > g => prov[r][h] = "none") /\ (h < g => prov[r][h] \in Spent)
    <3> SUFFICES ASSUME NEW h \in Gens
                 PROVE  (h > g => prov[r][h] = "none") /\ (h < g => prov[r][h] \in Spent)
      OBVIOUS
    <3>1. h \in Nat /\ h # 0
      BY RefundAssumption DEF Gens
    <3> QED
      BY <1>4, <2>1, <2>2, <2>3, <3>1 DEF RowIs
  <2>5. g # row[r].gen => prov[r][g] \in Spent
    BY <1>1, <1>4, <2>1, <2>2 DEF RowIs, Spent
  <2>6. x.last \in {"ACCEPTED", "REFUSED"} => prov[r][x.gen] \in Spent
    BY <1>5, <1>12, <2>5
  <2>7. RowIs(x, prov[r])
    BY <1>5, <2>1, <2>2, <2>4, <2>6 DEF RowIs, Owns
  <2>8. Owns(k, x, prov[r])
    BY <1>5, <1>6, <2>1, <2>6 DEF Owns
  <2> QED
    BY <2>1, <2>7, <2>8
<1>9. Provider = "razorpay" /\ x.st = "COMPLETED" =>
         \E h \in Gens : prov[r][h] \in {"paid", "settled"}
  BY <1>1, <1>5, OfRow
<1> QED
  BY <1>1, <1>3, <1>5, <1>6, <1>7, <1>8, <1>9, QuietStep

\* begin: the call goes out under the current key.
LEMMA BeginInv ==
  ASSUME RefundInv, NEW w \in Workers, Begin(w)
  PROVE  RefundInv'
<1>15. worker[w].pc = "begin" /\ worker[w].r \in Refunds
  BY OfWorker DEF Begin, At, Resting
<1>16. PICK r \in Refunds : r = worker[w].r
  BY <1>15
<1> DEFINE g == worker[w].g
           x == [row[r] EXCEPT !.last = "SENT"]
           p == IF prov[r][g] = "none" THEN [prov[r] EXCEPT ![g] = "flying"] ELSE prov[r]
           F(v) == CASE v = w -> [worker[v] EXCEPT !.pc = "wait", !.latest = TRUE]
                     [] v # w /\ worker[v].r = r -> [worker[v] EXCEPT !.latest = FALSE]
                     [] OTHER -> worker[v]
<1>1. /\ worker[w].pc = "begin" /\ worker[w] \in WorkerType
      /\ r \in Refunds /\ Knows(worker[w], row[r], prov[r]) /\ row[r].st = "PROCESSING"
  BY <1>16, OfWorker DEF Begin, At, Resting
<1>2. /\ row[r] \in RowType /\ prov[r] \in [Gens -> ProviderStates] /\ g \in Gens
      /\ prov = [prov EXCEPT ![r] = prov[r]]
  BY <1>1, OfRow DEF Knows
<1>3. /\ row' = [row EXCEPT ![r] = x] /\ prov' = [prov EXCEPT ![r] = p]
      /\ UNCHANGED <<ticket, undone>>
  BY <1>1, <1>2, <1>16 DEF Begin
<1>13. worker' = [v \in Workers |-> F(v)]
  BY <1>16 DEF Begin
<1>4. ASSUME NEW v \in Workers
      PROVE  /\ worker'[v] \in WorkerType /\ worker'[v].r = worker[v].r
             /\ worker'[v].g = worker[v].g /\ worker'[v].res = worker[v].res
             /\ worker'[v].pc = IF v = w THEN "wait" ELSE worker[v].pc
             /\ worker[v].r # r => worker'[v] = worker[v]
  <2>1. worker[v] \in WorkerType /\ worker'[v] = F(v)
    BY OfTypes, <1>13
  <2>2. CASE v = w
    BY <1>16, <2>1, <2>2 DEF WorkerType, Holding
  <2>3. CASE v # w /\ worker[v].r = r
    BY <2>1, <2>3 DEF WorkerType
  <2>4. CASE v # w /\ worker[v].r # r
    BY <2>1, <2>4
  <2> QED
    BY <2>2, <2>3, <2>4
<1> HIDE DEF F
<1>5. worker' \in [Workers -> WorkerType]
  BY <1>4, <1>13
<1>6. /\ x \in RowType /\ x.st = "PROCESSING" /\ x.gen = row[r].gen /\ x.last = "SENT"
      /\ x.ref = row[r].ref /\ x.tix = row[r].tix
  BY <1>1, <1>2 DEF RowType
<1>7. /\ p \in [Gens -> ProviderStates]
      /\ \A h \in Gens : h # g => p[h] = prov[r][h]
      /\ prov[r][g] # "none" => p[g] = prov[r][g]
  BY <1>2 DEF ProviderStates
<1> HIDE DEF x, p
<1>8. Evolves(prov[r], p)
  BY <1>7 DEF Evolves, Dead, Accepted, Money
<1>9. x.st \notin Unclaimed /\ Fresh(x)
  BY <1>6 DEF Fresh, Unclaimed
<1>10. ASSUME NEW v \in Workers
       PROVE  \/ worker'[v].pc \in Resting
              \/ worker'[v].r = r /\ Knows(worker'[v], x, p)
              \/ worker'[v] = worker[v] /\ worker[v].r # r
  <2>1. CASE v = w
    <3>1. Knows(worker'[v], x, p)
      BY <1>16, <1>1, <1>2, <1>4, <1>9, <2>1 DEF Knows
    <3> QED
      BY <1>4, <1>16, <2>1, <3>1
  <2>2. CASE v # w /\ worker[v].r = r /\ worker[v].pc \notin Resting
    <3>1. Knows(worker[v], row[r], prov[r])
      BY <2>2, OfWorker
    <3>2. Knows(worker[v], x, p)
      BY <1>8, <1>9, <3>1, KnowsOn
    <3>3. Knows(worker'[v], x, p)
      BY <1>4, <2>2, <3>2 DEF Knows
    <3> QED
      BY <1>4, <2>2, <3>3
  <2>3. CASE v # w /\ ~(worker[v].r = r /\ worker[v].pc \notin Resting)
    BY <1>4, <2>3
  <2> QED
    BY <2>1, <2>2, <2>3
<1>11. ASSUME r \notin undone
       PROVE  /\ RowIs(x, p)
              /\ \A v \in Workers : HoldsClaim(v, r)' => Owns(worker'[v], x, p) /\ FreeFor(v, r)'
  <2>1. Owns(worker[w], row[r], prov[r]) /\ FreeFor(w, r) /\ RowIs(row[r], prov[r])
    BY <1>1, <1>11, <1>16, Owner DEF Holding
  <2>2. g = row[r].gen /\ row[r].gen \in Nat /\ g # 0
    BY <1>1, <1>2, <2>1, RefundAssumption DEF Owns, RowType, Gens
  <2>3. \A h \in Gens : (h > g => p[h] = "none") /\ (h < g => p[h] \in Spent)
    BY <1>2, <1>7, <2>1, <2>2, RefundAssumption DEF RowIs, Gens
  <2>4. RowIs(x, p)
    BY <1>6, <2>2, <2>3 DEF RowIs
  <2>5. x.ref # 0 => p[x.ref] \in Dead
    <3>1. x.ref # 0 => x.ref \in Gens
      BY <1>2, <1>6, RefundAssumption DEF RowType, Gens
    <3> QED
      BY <1>6, <1>8, <2>1, <3>1 DEF Owns, Evolves
  <2>6. \A v \in Workers : HoldsClaim(v, r)' => v = w
    BY <1>1, <1>4, <1>16, <2>1 DEF HoldsClaim, FreeFor, Holding
  <2>7. Owns(worker'[w], x, p)
    BY <1>4, <1>6, <2>2, <2>5 DEF Owns
  <2> QED
    BY <2>4, <2>6, <2>7 DEF FreeFor
<1>12. /\ ticket' \in [Tickets -> BOOLEAN] /\ \A t \in Tickets : ticket'[t] \/ ~ticket[t]
       /\ (Provider = "razorpay" /\ x.st = "COMPLETED" =>
              \E h \in Gens : p[h] \in {"paid", "settled"})
  BY <1>3, <1>6, OfTypes
<1>14. /\ undone' = undone
       /\ \/ r \in undone'
          \/ /\ RowIs(x, p)
             /\ \A v \in Workers : HoldsClaim(v, r)' =>
                   Owns(worker'[v], x, p) /\ FreeFor(v, r)'
  BY <1>3, <1>11
<1> QED
  BY <1>1, <1>3, <1>5, <1>6, <1>7, <1>8, <1>9, <1>10, <1>12, <1>14, Step

\* alreadySending: the row fails, no call went out.
LEMMA SendThrowsInv ==
  ASSUME RefundInv, NEW w \in Workers, SendThrows(w)
  PROVE  RefundInv'
<1> DEFINE r == worker[w].r
           x == [row[r] EXCEPT !.st = "FAILED"]
<1>1. worker[w].pc \in {"key", "begin"} /\ r \in Refunds /\ row[r] \in RowType
  BY OfWorker, OfRow DEF SendThrows, At, Resting
<1>2. row' = [row EXCEPT ![r] = x] /\ Throws(w, "NONE") /\ UNCHANGED <<ticket, prov, undone>>
  BY DEF SendThrows
<1>3. /\ x \in RowType /\ x.st = "FAILED" /\ x.gen = row[r].gen /\ x.ref = row[r].ref
      /\ x.tix = row[r].tix /\ x.last = row[r].last
  BY <1>1 DEF RowType
<1> HIDE DEF x
<1> QED
  BY <1>1, <1>2, <1>3, FailStep DEF Holding

\* What finish writes: the outcome, or nothing.
LEMMA FinishIs ==
  ASSUME RefundInv, NEW w \in Workers, worker[w].r \in Refunds,
         NEW o \in {"UNKNOWN", "ACCEPTED", "REFUSED"}, Finish(w, o)
  PROVE  \E x \in RowType :
            /\ row' = [row EXCEPT ![worker[w].r] = x]
            /\ x.st = row[worker[w].r].st /\ x.gen = row[worker[w].r].gen
            /\ x.ref = row[worker[w].r].ref /\ x.tix = row[worker[w].r].tix
            /\ x.last \in {o, row[worker[w].r].last}
<1> DEFINE r == worker[w].r
           x == [row[r] EXCEPT !.last = IF worker[w].latest THEN o ELSE @]
<1>1. row[r] \in RowType /\ row = [row EXCEPT ![r] = row[r]]
  BY OfRow
<1>2. CASE row' = [row EXCEPT ![r].last = IF worker[w].latest THEN o ELSE @]
  <2>1. row' = [row EXCEPT ![r] = x]
    BY <1>2
  <2>2. /\ x \in RowType /\ x.st = row[r].st /\ x.gen = row[r].gen
        /\ x.ref = row[r].ref /\ x.tix = row[r].tix /\ x.last \in {o, row[r].last}
    BY <1>1 DEF RowType
  <2> QED
    BY <2>1, <2>2
<1>3. CASE UNCHANGED row
  BY <1>1, <1>3
<1> QED
  BY <1>2, <1>3 DEF Finish

\* What the adapters say of a state.
LEMMA StatusIs ==
  ASSUME NEW state \in Money \union Dead
  PROVE  /\ StatusOf(state) \in {"FAILED", "PROCESSING", "COMPLETED"}
         /\ StatusOf(state) = "FAILED" <=> state \in Dead
         /\ state \in Money => StatusOf(state) \in {"PROCESSING", "COMPLETED"}
         /\ Provider = "razorpay" /\ StatusOf(state) = "COMPLETED" => state \in {"paid", "settled"}
  BY DEF StatusOf, Money, Dead

\* An answer is about the key the handler sent.
LEMMA CallAnsweredInv ==
  ASSUME RefundInv, NEW w \in Workers, CallAnswered(w)
  PROVE  RefundInv'
<1> DEFINE r == worker[w].r
           state == prov[r][worker[w].g]
           o == IF state \in Dead THEN "REFUSED" ELSE "ACCEPTED"
           k == [worker[w] EXCEPT !.pc = "commit", !.res = StatusOf(state), !.latest = FALSE]
<1>1. /\ worker[w].pc = "wait" /\ worker[w] \in WorkerType
      /\ r \in Refunds /\ Knows(worker[w], row[r], prov[r])
      /\ row[r] \in RowType /\ state \in Money \union Dead
  BY OfWorker, OfRow DEF CallAnswered, At, Resting
<1>2. worker[w].g \in Gens
  BY <1>1 DEF Knows
<1>3. /\ StatusOf(state) \in {"FAILED", "PROCESSING", "COMPLETED"}
      /\ StatusOf(state) = "FAILED" <=> state \in Dead
      /\ Provider = "razorpay" /\ StatusOf(state) = "COMPLETED" => state \in {"paid", "settled"}
  BY <1>1, StatusIs
<1>4. Finish(w, o) /\ worker' = [worker EXCEPT ![w] = k] /\ UNCHANGED <<ticket, prov, undone>>
  BY <1>1 DEF CallAnswered
<1>5. PICK x \in RowType :
         /\ row' = [row EXCEPT ![r] = x] /\ x.st = row[r].st /\ x.gen = row[r].gen
         /\ x.ref = row[r].ref /\ x.tix = row[r].tix /\ x.last \in {o, row[r].last}
  BY <1>1, <1>4, FinishIs
<1>6. /\ k \in WorkerType /\ k.pc = "commit" /\ k.r = r /\ k.g = worker[w].g
      /\ k.res = StatusOf(state)
  BY <1>1, <1>3 DEF WorkerType, Holding
<1> HIDE DEF k
<1>7. Knows(k, x, prov[r]) /\ x.st \notin Unclaimed
  BY <1>1, <1>2, <1>3, <1>5, <1>6 DEF Knows, Accepted
<1>8. ASSUME r \notin undone
      PROVE  RowIs(x, prov[r]) /\ FreeFor(w, r) /\ Owns(k, x, prov[r])
  <2>1. Owns(worker[w], row[r], prov[r]) /\ FreeFor(w, r) /\ RowIs(row[r], prov[r])
    BY <1>1, <1>8, Owner DEF Holding
  <2>2. worker[w].g = row[r].gen /\ row[r].gen # 0 /\ row[r].st = "PROCESSING"
        /\ row[r].last = "SENT"
    BY <1>1, <1>2, <2>1, RefundAssumption DEF Owns, Gens
  <2>3. RowIs(x, prov[r])
    BY <1>5, <2>1, <2>2 DEF RowIs, Spent
  <2>4. Owns(k, x, prov[r])
    BY <1>2, <1>3, <1>5, <1>6, <2>1, <2>2 DEF Owns
  <2> QED
    BY <2>1, <2>3, <2>4
<1>9. Provider = "razorpay" /\ x.st = "COMPLETED" =>
         \E h \in Gens : prov[r][h] \in {"paid", "settled"}
  BY <1>1, <1>5, OfRow
<1> QED
  BY <1>1, <1>4, <1>5, <1>6, <1>7, <1>8, <1>9, QuietStep

\* A lost answer leaves the key as it is.
LEMMA CallLostInv ==
  ASSUME RefundInv, NEW w \in Workers, CallLost(w)
  PROVE  RefundInv'
<1> DEFINE r == worker[w].r
           k == [worker[w] EXCEPT !.pc = "lookup", !.latest = FALSE]
<1>1. /\ worker[w].pc = "wait" /\ worker[w] \in WorkerType
      /\ r \in Refunds /\ Knows(worker[w], row[r], prov[r]) /\ row[r] \in RowType
  BY OfWorker, OfRow DEF CallLost, At, Resting
<1>2. /\ Finish(w, "UNKNOWN") /\ worker' = [worker EXCEPT ![w] = k]
      /\ UNCHANGED <<ticket, prov, undone>>
  BY <1>1 DEF CallLost
<1>3. PICK x \in RowType :
         /\ row' = [row EXCEPT ![r] = x] /\ x.st = row[r].st /\ x.gen = row[r].gen
         /\ x.ref = row[r].ref /\ x.tix = row[r].tix /\ x.last \in {"UNKNOWN", row[r].last}
  BY <1>1, <1>2, FinishIs
<1>4. k \in WorkerType /\ k.pc = "lookup" /\ k.r = r /\ k.g = worker[w].g
  BY <1>1 DEF WorkerType, Holding
<1> HIDE DEF k
<1>5. Knows(k, x, prov[r]) /\ x.st \notin Unclaimed
  BY <1>1, <1>3, <1>4 DEF Knows
<1>6. ASSUME r \notin undone
      PROVE  RowIs(x, prov[r]) /\ FreeFor(w, r) /\ Owns(k, x, prov[r])
  <2>1. Owns(worker[w], row[r], prov[r]) /\ FreeFor(w, r) /\ RowIs(row[r], prov[r])
    BY <1>1, <1>6, Owner DEF Holding
  <2>2. worker[w].g = row[r].gen /\ row[r].last = "SENT" /\ row[r].st = "PROCESSING"
        /\ row[r].gen # 0
    BY <1>1, <2>1, RefundAssumption DEF Owns, RowIs
  <2>3. RowIs(x, prov[r])
    BY <1>3, <2>1, <2>2 DEF RowIs
  <2>4. Owns(k, x, prov[r])
    BY <1>3, <1>4, <2>1, <2>2 DEF Owns
  <2> QED
    BY <2>1, <2>3, <2>4
<1>7. Provider = "razorpay" /\ x.st = "COMPLETED" =>
         \E h \in Gens : prov[r][h] \in {"paid", "settled"}
  BY <1>1, <1>3, OfRow
<1> QED
  BY <1>1, <1>2, <1>3, <1>4, <1>5, <1>6, <1>7, QuietStep

\* Money sits under the current key only.
LEMMA LiveIsCurrent ==
  ASSUME RefundInv, NEW r \in Refunds, r \notin undone, NEW g \in Gens, prov[r][g] \in Money
  PROVE  g = row[r].gen
<1>1. RowIs(row[r], prov[r]) /\ row[r].gen \in 0 .. MaxGen
  BY OfRow DEF RowType
<1> QED
  BY <1>1, RefundAssumption DEF RowIs, Money, Dead, Spent, Gens

\* The lookup finds the refund, or the refusal of the key just sent.
LEMMA LookupAnswersInv ==
  ASSUME RefundInv, NEW w \in Workers, LookupAnswers(w)
  PROVE  RefundInv'
<1> DEFINE r == worker[w].r
<1>1. /\ worker[w].pc = "lookup" /\ worker[w] \in WorkerType
      /\ r \in Refunds /\ Knows(worker[w], row[r], prov[r])
  BY OfWorker DEF LookupAnswers, At, Resting
<1>2. PICK g \in Gens :
        /\ \/ LiveGens(r) = {g}
           \/ LiveGens(r) = {} /\ g = worker[w].g /\ prov[r][g] \in Dead
        /\ worker' = [worker EXCEPT ![w] =
             [@ EXCEPT !.pc = "commit", !.g = g, !.res = StatusOf(prov[r][g])]]
        /\ UNCHANGED <<row, ticket, prov, undone>>
  BY DEF LookupAnswers
<1> DEFINE k == [worker[w] EXCEPT !.pc = "commit", !.g = g, !.res = StatusOf(prov[r][g])]
<1>3. prov[r][g] \in Money \/ (g = worker[w].g /\ prov[r][g] \in Dead)
  BY <1>2 DEF LiveGens
<1>4. /\ StatusOf(prov[r][g]) \in {"FAILED", "PROCESSING", "COMPLETED"}
      /\ StatusOf(prov[r][g]) = "FAILED" <=> prov[r][g] \in Dead
      /\ Provider = "razorpay" /\ StatusOf(prov[r][g]) = "COMPLETED" =>
            prov[r][g] \in {"paid", "settled"}
  BY <1>3, StatusIs
<1>5. g \in 0 .. MaxGen
  BY RefundAssumption DEF Gens
<1>6. /\ k \in WorkerType /\ k.pc = "commit" /\ k.r = r /\ k.g = g
      /\ k.res = StatusOf(prov[r][g])
  BY <1>1, <1>4, <1>5 DEF WorkerType, Holding
<1>7. worker' = [worker EXCEPT ![w] = k]
  BY <1>2
<1> HIDE DEF k
<1>8. Knows(k, row[r], prov[r]) /\ row[r].st \notin Unclaimed
  BY <1>1, <1>3, <1>4, <1>6 DEF Knows, Accepted
<1>9. ASSUME r \notin undone
      PROVE  RowIs(row[r], prov[r]) /\ FreeFor(w, r) /\ Owns(k, row[r], prov[r])
  <2>1. Owns(worker[w], row[r], prov[r]) /\ FreeFor(w, r) /\ RowIs(row[r], prov[r])
    BY <1>1, <1>9, Owner DEF Holding
  <2>2. g = row[r].gen
    BY <1>1, <1>3, <1>9, <2>1, LiveIsCurrent DEF Owns
  <2> QED
    BY <1>4, <1>6, <2>1, <2>2 DEF Owns
<1>10. /\ row[r] \in RowType /\ row' = [row EXCEPT ![r] = row[r]]
       /\ (Provider = "razorpay" /\ row[r].st = "COMPLETED" =>
               \E h \in Gens : prov[r][h] \in {"paid", "settled"})
       /\ UNCHANGED <<ticket, prov, undone>>
  BY <1>1, <1>2, OfRow
<1> QED
  BY <1>1, <1>6, <1>7, <1>8, <1>9, <1>10, QuietStep

\* A lookup that does not settle it: the row fails, its answer unknown.
LEMMA LookupFailsInv ==
  ASSUME RefundInv, NEW w \in Workers, LookupHolds(w) \/ LookupBreaks(w)
  PROVE  RefundInv'
<1> DEFINE r == worker[w].r
<1>1. worker[w].pc = "lookup" /\ r \in Refunds /\ row[r] \in RowType
  BY OfWorker, OfRow DEF LookupHolds, LookupBreaks, At, Resting
<1>2. CASE LookupHolds(w)
  <2> DEFINE x == [row[r] EXCEPT !.st = "FAILED", !.hold = TRUE]
  <2>1. row' = [row EXCEPT ![r] = x] /\ Throws(w, "NONE") /\ UNCHANGED <<ticket, prov, undone>>
    BY <1>2 DEF LookupHolds
  <2>2. /\ x \in RowType /\ x.st = "FAILED" /\ x.gen = row[r].gen /\ x.ref = row[r].ref
        /\ x.tix = row[r].tix /\ x.last = row[r].last
    BY <1>1 DEF RowType
  <2> HIDE DEF x
  <2> QED
    BY <1>1, <2>1, <2>2, FailStep DEF Holding
<1>3. CASE LookupBreaks(w)
  <2> DEFINE x == [row[r] EXCEPT !.st = "FAILED"]
  <2>1. row' = [row EXCEPT ![r] = x] /\ Throws(w, "NONE") /\ UNCHANGED <<ticket, prov, undone>>
    BY <1>3 DEF LookupBreaks
  <2>2. /\ x \in RowType /\ x.st = "FAILED" /\ x.gen = row[r].gen /\ x.ref = row[r].ref
        /\ x.tix = row[r].tix /\ x.last = row[r].last
    BY <1>1 DEF RowType
  <2> HIDE DEF x
  <2> QED
    BY <1>1, <2>1, <2>2, FailStep DEF Holding
<1> QED
  BY <1>2, <1>3

\* A refusal is of the current key.
LEMMA CommitRefusalInv ==
  ASSUME RefundInv, NEW w \in Workers, CommitRefusal(w)
  PROVE  RefundInv'
<1> DEFINE r == worker[w].r
           x == [row[r] EXCEPT !.st = "FAILED", !.ref = worker[w].g, !.hold = FALSE]
           k == [worker[w] EXCEPT !.pc = "audit"]
<1>1. /\ worker[w].pc = "commit" /\ worker[w].res = "FAILED" /\ worker[w] \in WorkerType
      /\ r \in Refunds /\ Knows(worker[w], row[r], prov[r]) /\ row[r] \in RowType
  BY OfWorker, OfRow DEF CommitRefusal, At, Resting
<1>2. worker[w].g \in 0 .. MaxGen
  BY <1>1 DEF WorkerType
<1>3. /\ row' = [row EXCEPT ![r] = x] /\ worker' = [worker EXCEPT ![w] = k]
      /\ UNCHANGED <<ticket, prov, undone>>
  BY <1>1 DEF CommitRefusal, Goto
<1>4. /\ x \in RowType /\ x.st = "FAILED" /\ x.gen = row[r].gen
      /\ x.ref = worker[w].g /\ x.tix = row[r].tix /\ x.last = row[r].last
  BY <1>1, <1>2 DEF RowType
<1>5. k \in WorkerType /\ k.pc = "audit" /\ k.r = r
  BY <1>1 DEF WorkerType
<1> HIDE DEF x, k
<1>6. Knows(k, x, prov[r]) /\ x.st \notin Unclaimed /\ k.pc \notin Holding
  BY <1>4, <1>5 DEF Knows, Unclaimed, Holding
<1>7. ASSUME r \notin undone PROVE RowIs(x, prov[r]) /\ FreeFor(w, r)
  <2>1. Owns(worker[w], row[r], prov[r]) /\ FreeFor(w, r) /\ RowIs(row[r], prov[r])
    BY <1>1, <1>7, Owner DEF Holding
  <2>2. RowIs(x, prov[r])
    BY <1>1, <1>4, <2>1 DEF RowIs, Owns, Spent
  <2> QED
    BY <2>1, <2>2
<1> QED
  BY <1>1, <1>3, <1>4, <1>5, <1>6, <1>7, QuietStep

\* An entry of the refund's history changes what lastAnswerOf says, no more.
LEMMA AnswerStep ==
  ASSUME RefundInv, NEW w \in Workers, worker[w].pc \notin Resting,
         NEW a \in {"UNKNOWN", "REFUSED"}, NEW k \in WorkerType,
         row' = [row EXCEPT ![worker[w].r].answer = a],
         worker' = [worker EXCEPT ![w] = k], UNCHANGED <<ticket, prov, undone>>,
         k.pc \notin Holding,
         \/ k.pc \in Resting
         \/ k.r = worker[w].r /\ \A y, p : y.st \notin Unclaimed => Knows(k, y, p)
  PROVE  RefundInv'
<1> DEFINE r == worker[w].r
           x == [row[r] EXCEPT !.answer = a]
<1>1. r \in Refunds /\ Knows(worker[w], row[r], prov[r])
  BY OfWorker
<1>2. /\ row[r] \in RowType /\ (r \notin undone => RowIs(row[r], prov[r]))
      /\ (Provider = "razorpay" /\ row[r].st = "COMPLETED" =>
               \E g \in Gens : prov[r][g] \in {"paid", "settled"})
  BY <1>1, OfRow
<1>3. /\ x \in RowType /\ x.st = row[r].st /\ x.gen = row[r].gen
      /\ x.ref = row[r].ref /\ x.tix = row[r].tix /\ x.last = row[r].last
      /\ row' = [row EXCEPT ![r] = x]
  BY <1>2 DEF RowType
<1> HIDE DEF x
<1>4. x.st \notin Unclaimed /\ (r \notin undone => RowIs(x, prov[r]))
  BY <1>1, <1>2, <1>3 DEF Knows, RowIs
<1> QED
  BY <1>1, <1>2, <1>3, <1>4, QuietStep

\* REFUND_FAILED is written whoever holds the row by then.
LEMMA AuditRefusalInv ==
  ASSUME RefundInv, NEW w \in Workers, AuditRefusal(w)
  PROVE  RefundInv'
<1>1. /\ worker[w].pc \notin Resting /\ Throws(w, "FAILED")
      /\ row' = [row EXCEPT ![worker[w].r].answer = "REFUSED"]
      /\ UNCHANGED <<ticket, prov, undone>>
  BY DEF AuditRefusal, At, Resting
<1>2. PICK k \in WorkerType :
         /\ worker' = [worker EXCEPT ![w] = k] /\ k.pc \notin Holding
         /\ \/ k.pc \in Resting
            \/ k.r = worker[w].r /\ \A y, p : y.st \notin Unclaimed => Knows(k, y, p)
  BY <1>1, ThrowsIs
<1> QED
  BY <1>1, <1>2, AnswerStep

\* REFUND_RETRY_RESULT likewise.
LEMMA RetryResultInv ==
  ASSUME RefundInv, NEW w \in Workers, RetryResult(w)
  PROVE  RefundInv'
<1> DEFINE a == IF worker[w].res = "FAILED" THEN "REFUSED" ELSE "UNKNOWN"
<1>1. /\ worker[w].pc \notin Resting /\ worker' = [worker EXCEPT ![w] = Ended]
      /\ row' = [row EXCEPT ![worker[w].r].answer = a]
      /\ UNCHANGED <<ticket, prov, undone>>
  BY DEF RetryResult, At, Resting, Done
<1>2. a \in {"UNKNOWN", "REFUSED"} /\ Ended.pc \notin Holding /\ Ended.pc \in Resting
      /\ Ended \in WorkerType
  BY OfTypes DEF Holding, Resting
<1> HIDE DEF a
<1> QED
  BY <1>1, <1>2, AnswerStep

\* An acceptance voids tickets for money that moved, or will.
LEMMA CommitAcceptedInv ==
  ASSUME RefundInv, NEW w \in Workers, CommitAccepted(w)
  PROVE  RefundInv'
<1> DEFINE r == worker[w].r
           x == [row[r] EXCEPT !.st = worker[w].res, !.ref = worker[w].g, !.hold = FALSE,
                               !.accepted = TRUE]
           c == [Idle EXCEPT !.pc = "result", !.r = r, !.retry = TRUE]
           k == IF worker[w].retry THEN c ELSE Ended
<1>1. /\ worker[w].pc = "commit" /\ worker[w].res # "FAILED" /\ worker[w] \in WorkerType
      /\ r \in Refunds /\ Knows(worker[w], row[r], prov[r])
      /\ row[r] \in RowType
      /\ prov[r] \in [Gens -> ProviderStates] /\ Evolves(prov[r], prov[r])
  BY OfWorker, OfRow DEF CommitAccepted, At, Resting
<1>2. /\ worker[w].res \in {"PROCESSING", "COMPLETED"} /\ worker[w].g \in Gens
      /\ prov[r][worker[w].g] \in Accepted
      /\ Provider = "razorpay" /\ worker[w].res = "COMPLETED" =>
            prov[r][worker[w].g] \in {"paid", "settled"}
  BY <1>1 DEF Knows, WorkerType
<1>3. /\ row' = [row EXCEPT ![r] = x] /\ worker' = [worker EXCEPT ![w] = k]
      /\ prov' = prov /\ undone' = undone
      /\ ticket' = [t \in Tickets |-> ticket[t] /\ (t \in row[r].tix => worker[w].returned)]
  BY <1>1 DEF CommitAccepted
<1>4. worker[w].g \in 0 .. MaxGen
  BY <1>1 DEF WorkerType
<1>5. /\ x \in RowType /\ x.st = worker[w].res /\ x.gen = row[r].gen
      /\ x.ref = worker[w].g /\ x.tix = row[r].tix /\ x.last = row[r].last
  BY <1>1, <1>2, <1>4 DEF RowType
<1>6. c \in WorkerType /\ c.pc = "result" /\ c.r = r
  BY <1>1, OfTypes DEF WorkerType
<1> HIDE DEF x, c
<1>7. x.st \notin Unclaimed /\ Knows(c, x, prov[r])
  BY <1>2, <1>5, <1>6 DEF Knows, Unclaimed
<1>8. /\ k \in WorkerType /\ k.pc \notin Holding
      /\ k.pc \in Resting \/ (k.r = r /\ Knows(k, x, prov[r]))
  BY <1>6, <1>7, OfTypes DEF Holding, Resting
<1> HIDE DEF k
<1>9. ASSUME r \notin undone PROVE RowIs(x, prov[r]) /\ FreeFor(w, r)
  <2>1. FreeFor(w, r) /\ RowIs(row[r], prov[r])
    BY <1>1, <1>9, Owner DEF Holding
  <2>2. RowIs(x, prov[r])
    BY <1>2, <1>5, <2>1 DEF RowIs
  <2> QED
    BY <2>1, <2>2
<1>10. Provider = "razorpay" /\ x.st = "COMPLETED" =>
          \E g \in Gens : prov[r][g] \in {"paid", "settled"}
  BY <1>2, <1>5
<1>11. ticket' \in [Tickets -> BOOLEAN]
  BY <1>3, Zenon
<1>12. \A t \in Tickets : \/ ticket'[t] \/ ~ticket[t]
                          \/ t \in x.tix /\ \E g \in Gens : prov[r][g] \in Accepted
  <2> SUFFICES ASSUME NEW t \in Tickets
               PROVE  ticket'[t] \/ ~ticket[t] \/ t \in x.tix
    BY <1>2
  <2>1. ticket'[t] = (ticket[t] /\ (t \in row[r].tix => worker[w].returned))
    BY <1>3
  <2> QED
    BY <1>5, <2>1
<1>13. prov' = [prov EXCEPT ![r] = prov[r]]
  BY <1>1, <1>3, OfRow
<1> QED
  BY <1>1, <1>3, <1>5, <1>7, <1>8, <1>9, <1>10, <1>11, <1>12, <1>13, WorkerStep

\* A handler that stops, or throws, and writes nothing.
LEMMA StopsInv ==
  ASSUME RefundInv, NEW w \in Workers, worker[w].pc \notin Resting,
         Done(w) \/ Throws(w, "NONE"), UNCHANGED <<row, ticket, prov, undone>>
  PROVE  RefundInv'
<1>1. worker[w].r \in Refunds /\ row[worker[w].r].st \notin Unclaimed
  BY OfWorker DEF Knows
<1>2. CASE Done(w)
  BY <1>1, <1>2, OfTypes, MoveStep DEF Done, Holding, Resting
<1>3. CASE Throws(w, "NONE")
  <2>1. PICK k \in WorkerType :
           /\ worker' = [worker EXCEPT ![w] = k] /\ k.pc \notin Holding
           /\ \/ k.pc \in Resting
              \/ k.r = worker[w].r /\ \A y, p : y.st \notin Unclaimed => Knows(k, y, p)
    BY <1>3, ThrowsIs
  <2> QED
    BY <1>1, <2>1, MoveStep
<1> QED
  BY <1>2, <1>3

\* retry's assessment: what it found stays accepted at the provider.
LEMMA RetryAssessInv ==
  ASSUME RefundInv, NEW w \in Workers, NEW r \in Refunds, RetryAssess(w, r)
  PROVE  RefundInv'
<1>1. row[r] \in RowType /\ row[r].accepted \in BOOLEAN /\ row[r].st \notin Unclaimed
  BY OfRow DEF RowType, RetryAssess, Retryable, Unclaimed
<1>2. CASE /\ worker' = [worker EXCEPT ![w] =
                           [Idle EXCEPT !.pc = "claim", !.r = r, !.retry = TRUE,
                                        !.returned = row[r].accepted]]
           /\ UNCHANGED <<row, ticket, prov, undone>>
  <2> DEFINE k == [Idle EXCEPT !.pc = "claim", !.r = r, !.retry = TRUE,
                               !.returned = row[r].accepted]
  <2>1. k \in WorkerType /\ k.pc = "claim" /\ k.r = r /\ k.res = "NONE"
    BY <1>1, OfTypes DEF WorkerType
  <2> HIDE DEF k
  <2>2. Knows(k, row[r], prov[r]) /\ k.pc \notin Holding
    BY <1>1, <2>1 DEF Knows, Holding
  <2> QED
    BY <1>1, <1>2, <2>1, <2>2, MoveStep DEF k
<1>3. ASSUME NEW g \in Gens, LiveGens(r) = {g},
             worker' = [worker EXCEPT ![w] =
                          [Idle EXCEPT !.pc = "claim", !.r = r, !.retry = TRUE,
                                       !.returned = row[r].accepted,
                                       !.g = g, !.res = StatusOf(prov[r][g])]],
             UNCHANGED <<row, ticket, prov, undone>>
      PROVE  RefundInv'
  <2> DEFINE k == [Idle EXCEPT !.pc = "claim", !.r = r, !.retry = TRUE,
                               !.returned = row[r].accepted,
                               !.g = g, !.res = StatusOf(prov[r][g])]
  <2>1. prov[r][g] \in Money
    BY <1>3 DEF LiveGens
  <2>2. /\ StatusOf(prov[r][g]) \in {"PROCESSING", "COMPLETED"}
        /\ Provider = "razorpay" /\ StatusOf(prov[r][g]) = "COMPLETED" =>
              prov[r][g] \in {"paid", "settled"}
    BY <2>1, StatusIs
  <2>3. g \in 0 .. MaxGen
    BY RefundAssumption DEF Gens
  <2>4. /\ k \in WorkerType /\ k.pc = "claim" /\ k.r = r /\ k.g = g
        /\ k.res = StatusOf(prov[r][g])
    BY <1>1, <2>2, <2>3, OfTypes DEF WorkerType
  <2> HIDE DEF k
  <2>5. Knows(k, row[r], prov[r]) /\ k.pc \notin Holding
    BY <1>1, <2>1, <2>2, <2>4 DEF Knows, Holding, Accepted
  <2> QED
    BY <1>1, <1>3, <2>4, <2>5, MoveStep DEF k
<1> QED
  BY <1>2, <1>3 DEF RetryAssess

\* retry's claim of a row nobody holds.
LEMMA RetryClaimInv ==
  ASSUME RefundInv, NEW w \in Workers, RetryClaim(w)
  PROVE  RefundInv'
<1> DEFINE r == worker[w].r
           x == [row[r] EXCEPT !.st = "PROCESSING", !.answer = "UNKNOWN"]
           pc == IF worker[w].returned THEN PayStep(worker[w].res) ELSE "check"
           k == [worker[w] EXCEPT !.pc = pc]
<1>1. /\ worker[w].pc = "claim" /\ worker[w] \in WorkerType /\ r \in Refunds
      /\ Knows(worker[w], row[r], prov[r]) /\ row[r].st = "FAILED" /\ row[r] \in RowType
  BY OfWorker, OfRow DEF RetryClaim, At, Resting
<1>2. /\ row' = [row EXCEPT ![r] = x] /\ worker' = [worker EXCEPT ![w] = k]
      /\ UNCHANGED <<ticket, prov, undone>>
  BY DEF RetryClaim, Goto
<1>3. /\ x \in RowType /\ x.st = "PROCESSING" /\ x.gen = row[r].gen
      /\ x.ref = row[r].ref /\ x.tix = row[r].tix /\ x.last = row[r].last
  BY <1>1 DEF RowType
<1>4. /\ pc \in {"check", "key", "commit"}
      /\ pc = "key" => worker[w].res = "NONE"
      /\ pc = "commit" => worker[w].res # "NONE"
  BY DEF PayStep
<1> HIDE DEF pc
<1>5. k \in WorkerType /\ k.pc = pc /\ k.r = r /\ k.g = worker[w].g /\ k.res = worker[w].res
  BY <1>1, <1>4 DEF WorkerType, Holding
<1> HIDE DEF x, k
<1>6. Knows(k, x, prov[r]) /\ x.st \notin Unclaimed
  BY <1>1, <1>3, <1>4, <1>5 DEF Knows, Unclaimed
<1>7. ASSUME r \notin undone
      PROVE  RowIs(x, prov[r]) /\ FreeFor(w, r) /\ Owns(k, x, prov[r])
  <2>1. RowIs(row[r], prov[r]) /\ FreeFor(w, r)
    BY <1>1, <1>7, OfRow, NoOwner DEF FreeFor
  <2>2. RowIs(x, prov[r])
    BY <1>1, <1>3, <2>1 DEF RowIs
  <2>3. k.res # "FAILED"
    BY <1>1, <1>5 DEF Knows
  <2>4. Owns(k, x, prov[r])
    BY <1>1, <1>3, <1>4, <1>5, <2>1, <2>3 DEF Owns, RowIs
  <2> QED
    BY <2>1, <2>2, <2>4
<1> QED
  BY <1>1, <1>2, <1>3, <1>5, <1>6, <1>7, QuietStep

\* retry's catch: what it finds claimed is undone.
LEMMA RetryCatchInv ==
  ASSUME RefundInv, NEW w \in Workers, RetryCatch(w)
  PROVE  RefundInv'
<1> DEFINE r == worker[w].r
           k == [worker[w] EXCEPT !.pc = "result"]
<1>1. /\ worker[w].pc = "catch" /\ worker[w] \in WorkerType /\ r \in Refunds
      /\ Knows(worker[w], row[r], prov[r]) /\ row[r] \in RowType
  BY OfWorker, OfRow DEF RetryCatch, At, Resting
<1>2. worker' = [worker EXCEPT ![w] = k] /\ UNCHANGED <<ticket, prov>>
  BY DEF RetryCatch, Goto
<1>3. k \in WorkerType /\ k.pc = "result" /\ k.r = r
  BY <1>1 DEF WorkerType
<1> HIDE DEF k
<1>4. ASSUME NEW y, y.st \notin Unclaimed PROVE Knows(k, y, prov[r])
  BY <1>3, <1>4 DEF Knows
<1>5. k.pc \notin Holding /\ row[r].st \notin Unclaimed
  BY <1>1, <1>3 DEF Holding, Knows
<1>6. CASE row[r].st = "PROCESSING"
  <2> DEFINE x == [row[r] EXCEPT !.st = "FAILED"]
  <2>1. row' = [row EXCEPT ![r] = x] /\ undone' = undone \union {r}
    BY <1>6 DEF RetryCatch
  <2>2. x \in RowType /\ x.st = "FAILED" /\ x.tix = row[r].tix
    BY <1>1 DEF RowType
  <2> HIDE DEF x
  <2>3. /\ prov[r] \in [Gens -> ProviderStates] /\ Evolves(prov[r], prov[r])
        /\ prov' = [prov EXCEPT ![r] = prov[r]] /\ ticket' \in [Tickets -> BOOLEAN]
        /\ \A t \in Tickets : ticket'[t] \/ ~ticket[t]
    BY <1>1, <1>2, OfRow, OfTypes
  <2>4. x.st \notin Unclaimed /\ Knows(k, x, prov[r]) /\ r \in undone'
    BY <1>4, <2>1, <2>2 DEF Unclaimed
  <2> QED
    BY <1>1, <1>2, <1>3, <2>1, <2>2, <2>3, <2>4, WorkerStep
<1>7. CASE row[r].st # "PROCESSING"
  <2>1. row' = row /\ undone' = undone
    BY <1>1, <1>7, OfRow DEF RetryCatch, RowType
  <2> QED
    BY <1>1, <1>2, <1>3, <1>4, <1>5, <2>1, MoveStep
<1> QED
  BY <1>6, <1>7

\* The provider ends a call, or settles a refund it accepted.
LEMMA ProviderInv ==
  ASSUME RefundInv, NEW r \in Refunds, NEW g \in Gens,
         ProviderAnswers(r, g) \/ ProviderSettles(r, g)
  PROVE  RefundInv'
<1>1. PICK to : /\ \/ prov[r][g] = "flying" /\ to \in {"refused", "none", "pending", "paid"}
                   \/ prov[r][g] = "pending" /\ to \in {"paid", "bounced"}
                /\ prov' = [prov EXCEPT ![r][g] = to]
                /\ UNCHANGED <<row, ticket, worker, undone>>
  BY DEF ProviderAnswers, ProviderSettles
<1> DEFINE p == [prov[r] EXCEPT ![g] = to]
<1>2. prov' = [prov EXCEPT ![r] = p]
  BY <1>1
<1>3. /\ p \in [Gens -> ProviderStates] /\ p[g] = to
      /\ \A h \in Gens : h # g => p[h] = prov[r][h]
  BY <1>1, OfRow DEF ProviderStates, Money, Dead
<1> HIDE DEF p
<1>4. Evolves(prov[r], p) /\ \A h \in Gens : prov[r][h] = "none" => p[h] = "none"
  BY <1>1, <1>3 DEF Evolves, Dead, Accepted, Money
<1> QED
  BY <1>1, <1>2, <1>3, <1>4, ProviderStep

\* refund.processed completes the row that refers to the refund.
LEMMA RefundProcessedInv ==
  ASSUME RefundInv, NEW r \in Refunds, NEW g \in Gens, RefundProcessed(r, g)
  PROVE  RefundInv'
<1> DEFINE p == [prov[r] EXCEPT ![g] = "settled"]
           x == [row[r] EXCEPT !.st = "COMPLETED"]
<1>1. /\ prov[r][g] = "paid" /\ prov' = [prov EXCEPT ![r] = p]
      /\ UNCHANGED <<ticket, worker, undone>>
  BY DEF RefundProcessed
<1>2. /\ p \in [Gens -> ProviderStates] /\ p[g] = "settled"
      /\ \A h \in Gens : h # g => p[h] = prov[r][h]
  BY OfRow DEF ProviderStates, Money
<1> HIDE DEF p
<1>3. Evolves(prov[r], p) /\ \A h \in Gens : prov[r][h] = "none" => p[h] = "none"
  BY <1>1, <1>2 DEF Evolves, Dead, Accepted, Money
<1>4. CASE UNCHANGED row
  BY <1>1, <1>2, <1>3, <1>4, ProviderStep
<1>5. CASE row[r].ref = g /\ row' = [row EXCEPT ![r].st = "COMPLETED"] /\ row[r].st = "PROCESSING"
  <2>1. row' = [row EXCEPT ![r] = x]
    BY <1>5
  <2>2. row[r] \in RowType
    BY OfRow
  <2>3. /\ x \in RowType /\ x.st = "COMPLETED" /\ x.gen = row[r].gen
        /\ x.ref = row[r].ref /\ x.tix = row[r].tix /\ x.last = row[r].last
    BY <2>2 DEF RowType
  <2> HIDE DEF x
  <2>4. Fresh(x) /\ x.st \notin Unclaimed /\ g # 0
    BY <2>3, RefundAssumption DEF Fresh, Unclaimed, Gens
  <2>5. ASSUME r \notin undone
        PROVE  RowIs(x, p) /\ \A v \in Workers : ~HoldsClaim(v, r)
    <3>1. RowIs(row[r], prov[r]) /\ (row[r].gen # 0 => row[r].gen \in Gens)
      BY <2>2, <2>5, OfRow, RefundAssumption DEF RowType, Gens
    <3>2. \A h \in Gens : prov[r][h] \in Spent => p[h] \in Spent
      BY <1>3 DEF Spent, Evolves
    <3>3. RowIs(x, p)
      BY <1>3, <2>3, <3>1, <3>2 DEF RowIs
    <3>4. ASSUME NEW v \in Workers, HoldsClaim(v, r) PROVE FALSE
      <4>1. Owns(worker[v], row[r], prov[r])
        BY <2>5, <3>4 DEF RefundInv
      <4> QED
        BY <1>1, <1>5, <2>4, <4>1 DEF Owns, Dead
    <3> QED
      BY <3>3, <3>4
  <2>6. \E h \in Gens : p[h] \in {"paid", "settled"}
    BY <1>2
  <2> QED
    BY <1>1, <1>2, <1>3, <2>1, <2>3, <2>4, <2>5, <2>6, RowStep
<1> QED
  BY <1>4, <1>5 DEF RefundProcessed

\* refund.failed fails the row that refers to the refund; the claim is undone if
\* the row has gone on to another key, or a handler holds it.
LEMMA RefundFailedInv ==
  ASSUME RefundInv, NEW r \in Refunds, NEW g \in Gens, RefundFailed(r, g)
  PROVE  RefundInv'
<1> DEFINE p == [prov[r] EXCEPT ![g] = "returned"]
           x == [row[r] EXCEPT !.st = "FAILED", !.accepted = TRUE, !.answer = "REFUSED"]
<1>1. prov[r][g] = "bounced" /\ prov' = [prov EXCEPT ![r] = p] /\ UNCHANGED <<ticket, worker>>
  BY DEF RefundFailed
<1>2. /\ p \in [Gens -> ProviderStates] /\ p[g] = "returned"
      /\ \A h \in Gens : h # g => p[h] = prov[r][h]
  BY OfRow DEF ProviderStates, Dead
<1> HIDE DEF p
<1>3. Evolves(prov[r], p) /\ \A h \in Gens : prov[r][h] = "none" => p[h] = "none"
  BY <1>1, <1>2 DEF Evolves, Dead, Accepted, Money
<1>4. CASE ~(row[r].ref = g /\ row[r].st \in OpenStatuses)
  <2>1. UNCHANGED <<row, undone>>
    BY <1>4 DEF RefundFailed
  <2> QED
    BY <1>1, <1>2, <1>3, <2>1, ProviderStep
<1>5. CASE row[r].ref = g /\ row[r].st \in OpenStatuses
  <2>1. row' = [row EXCEPT ![r] = x]
    BY <1>5 DEF RefundFailed
  <2>2. row[r] \in RowType /\ g # 0
    BY OfRow, RefundAssumption DEF Gens
  <2>3. /\ x \in RowType /\ x.st = "FAILED" /\ x.gen = row[r].gen
        /\ x.ref = row[r].ref /\ x.tix = row[r].tix /\ x.last = row[r].last
    BY <2>2 DEF RowType
  <2> HIDE DEF x
  <2>4. Fresh(x) /\ x.st \notin Unclaimed /\ x.st # "COMPLETED"
    BY <2>3 DEF Fresh, Unclaimed
  <2>5. CASE row[r].gen # g \/ Holders(r) # {}
    <3>1. undone' = undone \union {r}
      BY <1>5, <2>5 DEF RefundFailed
    <3> QED
      BY <1>1, <1>2, <1>3, <2>1, <2>3, <2>4, <3>1, RowStep
  <2>6. CASE row[r].gen = g /\ Holders(r) = {}
    <3>1. undone' = undone
      BY <1>5, <2>6 DEF RefundFailed
    <3>2. \A v \in Workers : ~HoldsClaim(v, r)
      BY <2>6 DEF Holders, HoldsClaim
    <3>3. ASSUME r \notin undone PROVE RowIs(x, p)
      <4>1. RowIs(row[r], prov[r])
        BY <3>3, OfRow
      <4>2. p[g] \in Dead /\ p[g] \in Spent
        BY <1>2 DEF Dead, Spent
      <4>3. \A h \in Gens : prov[r][h] \in Spent => p[h] \in Spent
        BY <1>3 DEF Spent, Evolves
      <4> QED
        BY <1>3, <1>5, <2>3, <2>6, <4>1, <4>2, <4>3 DEF RowIs
    <3> QED
      BY <1>1, <1>2, <1>3, <2>1, <2>3, <2>4, <3>1, <3>2, <3>3, RowStep
  <2> QED
    BY <2>5, <2>6
<1> QED
  BY <1>4, <1>5

-----------------------------------------------------------------------------

\* Every step keeps the invariant.
LEMMA NextInv ==
  ASSUME RefundInv, [Next]_vars
  PROVE  RefundInv'
<1>1. CASE UNCHANGED vars
  BY <1>1 DEF vars, RefundInv, TypeOK, HoldsClaim, FreeFor, VoidedMeansAccepted, CompletedMeansPaid
<1>2. CASE Next
  <2>1. ASSUME NEW r \in Refunds, NEW S \in SUBSET Tickets, Request(r, S) PROVE RefundInv'
    BY <2>1, RequestInv
  <2>2. ASSUME NEW r \in Refunds, Reject(r) PROVE RefundInv'
    BY <2>2, RejectInv
  <2>3. ASSUME NEW r \in Refunds, NEW g \in Gens,
               \/ ProviderAnswers(r, g) \/ ProviderSettles(r, g)
               \/ RefundProcessed(r, g) \/ RefundFailed(r, g)
        PROVE  RefundInv'
    BY <2>3, ProviderInv, RefundProcessedInv, RefundFailedInv
  <2>4. ASSUME NEW w \in Workers, NEW r \in Refunds, Approve(w, r) \/ RetryAssess(w, r)
        PROVE  RefundInv'
    BY <2>4, ApproveInv, RetryAssessInv
  <2>5. ASSUME NEW w \in Workers,
               \/ CheckTickets(w) \/ KeyFor(w) \/ Begin(w) \/ SendThrows(w)
               \/ CallAnswered(w) \/ CallLost(w)
               \/ LookupAnswers(w) \/ LookupHolds(w) \/ LookupBreaks(w)
        PROVE  RefundInv'
    BY <2>5, CheckTicketsInv, KeyForInv, BeginInv, SendThrowsInv, CallAnsweredInv,
       CallLostInv, LookupAnswersInv, LookupFailsInv
  <2>6. ASSUME NEW w \in Workers,
               \/ CommitRefusal(w) \/ AuditRefusal(w) \/ CommitAccepted(w)
               \/ RetryClaim(w) \/ RetryCatch(w) \/ RetryResult(w)
        PROVE  RefundInv'
    BY <2>6, CommitRefusalInv, AuditRefusalInv, CommitAcceptedInv, RetryClaimInv,
       RetryCatchInv, RetryResultInv
  <2>7. ASSUME NEW w \in Workers, Die(w) \/ RetryLoses(w) \/ CommitBreaks(w) PROVE RefundInv'
    <3>1. /\ Done(w) \/ (Throws(w, "NONE") /\ worker[w].pc \notin Resting)
          /\ UNCHANGED <<row, ticket, prov, undone>>
      BY <2>7 DEF Die, RetryLoses, CommitBreaks, At, Resting
    <3>2. worker[w].pc \notin Resting
      BY <2>7 DEF Die, RetryLoses, CommitBreaks, At, Resting
    <3> QED
      BY <3>1, <3>2, StopsInv
  <2> QED
    BY <1>2, <2>1, <2>2, <2>3, <2>4, <2>5, <2>6, <2>7 DEF Next
<1> QED
  BY <1>1, <1>2

\* The invariant holds for ever.
LEMMA Invariance == Spec => []RefundInv
<1>1. RefundInv /\ [Next]_vars => RefundInv'
  BY NextInv
<1> QED
  BY <1>1, InitInv, PTL DEF Spec

\* refund-provider-call.ts, retry: whatever answers are lost, whichever handlers
\* die and however often a refund is tried again, the provider makes one refund
\* for it, unless its claim was undone by a retry's catch or by the late event of
\* an earlier key.
THEOREM OneRefundIsPaid == Spec => []PaidOncePerRefund
<1>1. RefundInv => PaidOncePerRefund
  <2> SUFFICES ASSUME RefundInv, NEW r \in Refunds \ undone
               PROVE  Cardinality(LiveGens(r)) <= 1
    BY DEF PaidOncePerRefund
  <2>1. LiveGens(r) \subseteq {row[r].gen}
    BY LiveIsCurrent DEF LiveGens
  <2>2. IsFiniteSet({row[r].gen}) /\ Cardinality({row[r].gen}) = 1
    BY FS_Singleton
  <2>3. Cardinality(LiveGens(r)) <= Cardinality({row[r].gen})
    BY <2>1, <2>2, FS_Subset
  <2> QED
    BY <2>2, <2>3
<1> QED
  BY <1>1, Invariance, PTL

\* payClaimed: tickets go back only for a refund the provider accepted.
THEOREM VoidedOnlyIfAccepted == Spec => []VoidedMeansAccepted
<1>1. RefundInv => VoidedMeansAccepted
  BY DEF RefundInv
<1> QED
  BY <1>1, Invariance, PTL

\* payClaimed, settleRefundRow: a Razorpay refund that reads COMPLETED was paid.
THEOREM CompletedOnlyIfPaid == Spec => []CompletedMeansPaid
<1>1. RefundInv => CompletedMeansPaid
  BY DEF RefundInv
<1> QED
  BY <1>1, Invariance, PTL
=============================================================================
