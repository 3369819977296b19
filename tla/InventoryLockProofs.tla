------------------------ MODULE InventoryLockProofs ------------------------
(* Safety of the inventory-lock engine for every number of locks, seats,    *)
(* keys and concurrent calls and every choice of times that satisfies       *)
(* TimesAssumption.                                                         *)
EXTENDS InventoryLock, TLAPS

-----------------------------------------------------------------------------
(* The inductive invariant. *)

\* What a call in flight may rely on: its lock was asked for; a script's clock
\* reading is recent; an acquire is the only call that knows its lock; a
\* renewal stays within the lifetime; a release has a final status, and marks
\* CONFIRMED only a booking that is.
CallOK(c) ==
    LET l == call[c].lock
    IN  /\ call[c].op = "idle" => l = NoLock
        /\ call[c].op # "idle" => l \in Locks /\ req[l].key \in Keys
        /\ call[c].op \in {"acquire", "renew"} =>
               call[c].at <= now /\ now <= call[c].at + Lag
        /\ call[c].op = "acquire" =>
               lock[l].st = "GONE" /\ \A d \in Calls : d # c => call[d].lock # l
        /\ call[c].op = "renew" /\ Held(l) =>
               call[c].at + call[c].ttl <= lock[l].acq + Longest
        /\ call[c].op = "release" =>
               /\ call[c].final # "ACTIVE" /\ call[c].final # "GONE"
               /\ call[c].final = "CONFIRMED" => booking[l] = "CONFIRMED"

\* What is known of a lock: it was asked for, and while it is held it is
\* younger than its longest life and, if fences outlive locks, behind a fence
\* that outlives it.
LockOK(l) ==
    /\ lock[l].st # "GONE" => req[l].key \in Keys
    /\ lock[l].st = "GONE" => lock[l].until = 0
    /\ Held(l) => /\ lock[l].acq <= now
                  /\ lock[l].until <= lock[l].acq + Longest + Lag
                  /\ FenceOutlives => /\ lock[l].token <= fence.n
                                      /\ lock[l].acq + Longest + Lag < fence.until

\* The seat keys of a held lock lapse at the moment its lock key does.
SeatsOK(l) ==
    Held(l) => \A s \in req[l].seats :
                  seat[s].by = l /\ seat[s].until = lock[l].until

LockInv ==
    /\ TypeOK
    /\ \A c \in Calls : CallOK(c)
    /\ \A l \in Locks : LockOK(l)
    /\ \A l \in Locks : SeatsOK(l)
    /\ ConfirmedAfterCommit

\* A lock id that was asked for and that no acquire is still carrying.
Known(l) ==
    /\ req[l].key \in Keys
    /\ \A d \in Calls : call[d].op = "acquire" => call[d].lock # l

-----------------------------------------------------------------------------

\* The engine starts in the invariant.
LEMMA InitInv == Init => LockInv
  BY TimesAssumption, NamesAssumption
     DEF Init, LockInv, TypeOK, CallOK, LockOK, SeatsOK, Held, Live, Idle, Gone,
         Free, Unasked, ConfirmedAfterCommit

\* A lock that was written is known.
LEMMA WrittenIsKnown ==
  ASSUME LockInv, NEW l \in Locks, lock[l].st # "GONE"
  PROVE  Known(l)
  BY DEF LockInv, LockOK, CallOK, Known

\* A step that only moves call c, to a state it may be in, keeps the invariant.
LEMMA CallMoves ==
  ASSUME LockInv, NEW c \in Calls, NEW k,
         call' = [call EXCEPT ![c] = k],
         k \in [op : {"idle", "renew", "release", "work", "classify"},
                lock : Locks \union {NoLock}, at : Nat, ttl : Nat,
                final : {"ACTIVE", "RELEASED", "EXPIRED", "CONFIRMED"}],
         CallOK(c)',
         k.op # "idle" => Known(k.lock),
         k.op = "idle" => k.lock = NoLock,
         UNCHANGED <<now, req, lock, seat, idem, score, hash, fence, booking>>
  PROVE  LockInv'
<1>1. TypeOK'
  BY DEF LockInv, TypeOK
<1>2. ASSUME NEW d \in Calls PROVE CallOK(d)'
  <2>1. CASE d = c
    BY <2>1
  <2>2. CASE d # c
    <3>1. call'[d] = call[d] /\ call'[c] = k
      BY <2>2 DEF LockInv, TypeOK
    <3>2. CallOK(d)
      BY DEF LockInv
    <3>3. call[d].op = "acquire" => call'[c].lock # call[d].lock
      BY <3>1, <3>2, NamesAssumption DEF CallOK, Known
    <3> QED
      BY <2>2, <3>1, <3>2, <3>3 DEF CallOK, Held, Live, LockInv, TypeOK
  <2> QED
    BY <2>1, <2>2
<1>3. (\A l \in Locks : LockOK(l) /\ SeatsOK(l))' /\ ConfirmedAfterCommit'
  BY DEF LockInv, LockOK, SeatsOK, Held, Live, ConfirmedAfterCommit
<1> QED
  BY <1>1, <1>2, <1>3 DEF LockInv

\* A call that returns without having written anything keeps the invariant.
LEMMA CallReturns ==
  ASSUME LockInv, NEW c \in Calls, Return(c),
         UNCHANGED <<now, req, lock, seat, idem, score, hash, fence, booking>>
  PROVE  LockInv'
<1>1. call' = [call EXCEPT ![c] = Idle] /\ call'[c] = Idle
  BY DEF Return, LockInv, TypeOK
<1>2. CallOK(c)'
  BY <1>1 DEF CallOK, Idle
<1>3. Idle \in [op : {"idle", "renew", "release", "work", "classify"},
                lock : Locks \union {NoLock}, at : Nat, ttl : Nat,
                final : {"ACTIVE", "RELEASED", "EXPIRED", "CONFIRMED"}]
  BY DEF Idle
<1>4. Idle.op = "idle" /\ Idle.lock = NoLock
  BY DEF Idle
<1> QED
  BY <1>1, <1>2, <1>3, <1>4, CallMoves

\* A call that goes on with a lock that exists, and releases it as CONFIRMED
\* only when its booking is, keeps the invariant.
LEMMA CallGoesOn ==
  ASSUME LockInv, NEW c \in Calls, NEW l \in Locks,
         NEW op \in {"release", "work", "classify"},
         NEW final \in {"ACTIVE", "RELEASED", "EXPIRED", "CONFIRMED"},
         Known(l),
         op = "release" => final # "ACTIVE",
         op = "release" /\ final = "CONFIRMED" => booking[l] = "CONFIRMED",
         Then(c, op, l, final),
         UNCHANGED <<now, req, lock, seat, idem, score, hash, fence, booking>>
  PROVE  LockInv'
<1> DEFINE k == [Idle EXCEPT !.op = op, !.lock = l, !.final = final]
<1>1. call' = [call EXCEPT ![c] = k] /\ call'[c] = k
  BY DEF Then, LockInv, TypeOK
<1>2. /\ k \in [op : {"idle", "renew", "release", "work", "classify"},
                lock : Locks \union {NoLock}, at : Nat, ttl : Nat,
                final : {"ACTIVE", "RELEASED", "EXPIRED", "CONFIRMED"}]
      /\ k.op = op /\ k.lock = l /\ k.final = final
  BY DEF Idle
<1>3. req[l].key \in Keys
  BY DEF Known
<1> HIDE DEF k
<1>4. CallOK(c)'
  BY <1>1, <1>2, <1>3 DEF CallOK
<1> QED
  BY <1>1, <1>2, <1>4, CallMoves

\* The longest life is a number, at least a term and at least the cap and the part
\* of a second below the next whole one.
LEMMA LongestLife ==
  Longest \in Nat /\ Ttl <= Longest /\ MaxLife + Second - 1 <= Longest
  BY TimesAssumption DEF Longest

\* floor takes off less than a second, and nothing below zero.
LEMMA Floor ==
  ASSUME NEW d \in Nat PROVE WholeSeconds(d) \in Int /\ WholeSeconds(d) <= d
<1>1. d % Second \in 0..(Second - 1)
  BY TimesAssumption
<1> QED
  BY <1>1, TimesAssumption DEF WholeSeconds

\* renew's read grants less than a second more than what is left of the lifetime.
LEMMA RenewReadInv ==
  ASSUME LockInv, NEW c \in Calls, NEW l \in Locks, RenewRead(c, l)
  PROVE  LockInv'
<1> DEFINE k == [Idle EXCEPT !.op = "renew", !.lock = l, !.at = now, !.ttl = GrantedTtl(l)]
<1>1. call' = [call EXCEPT ![c] = k] /\ call'[c] = k
  BY DEF RenewRead, Send, LockInv, TypeOK
<1>2. GrantedTtl(l) \in Nat /\ now + GrantedTtl(l) <= lock[l].acq + Longest /\ now \in Nat
  <2> DEFINE d == lock[l].acq + MaxLife - now
  <2>1. now \in Nat /\ lock[l].acq \in Nat /\ d \in Nat /\ d >= 1
    BY TimesAssumption DEF RenewRead, LockInv, TypeOK
  <2>2. WholeSeconds(d) \in Int /\ WholeSeconds(d) <= d
    BY <2>1, Floor
  <2>3. GrantedTtl(l) = IF WholeSeconds(d) < Second THEN Second
                        ELSE IF WholeSeconds(d) < Ttl THEN WholeSeconds(d) ELSE Ttl
    BY DEF GrantedTtl
  <2>4. /\ GrantedTtl(l) \in Nat
        /\ GrantedTtl(l) <= d \/ (GrantedTtl(l) = Second /\ d >= 1)
    BY <2>1, <2>2, <2>3, TimesAssumption
  <2> QED
    BY <2>1, <2>4, LongestLife, TimesAssumption
<1>3. /\ k \in [op : {"idle", "renew", "release", "work", "classify"},
                lock : Locks \union {NoLock}, at : Nat, ttl : Nat,
                final : {"ACTIVE", "RELEASED", "EXPIRED", "CONFIRMED"}]
      /\ k.op = "renew" /\ k.lock = l /\ k.at = now /\ k.ttl = GrantedTtl(l)
  BY <1>2 DEF Idle
<1>4. req[l].key \in Keys /\ Known(l)
  BY WrittenIsKnown DEF RenewRead, Held, Known
<1>5. UNCHANGED <<now, req, lock, seat, idem, score, hash, fence, booking>>
  BY DEF RenewRead
<1> HIDE DEF k
<1>6. CallOK(c)'
  BY <1>1, <1>2, <1>3, <1>4, <1>5, TimesAssumption DEF CallOK
<1> QED
  BY <1>1, <1>3, <1>4, <1>5, <1>6, CallMoves

\* A new request names a lock nobody knows yet.
LEMMA AcquireSendInv ==
  ASSUME LockInv, NEW c \in Calls, NEW l \in Locks, NEW k \in Keys,
         NEW S \in SUBSET Seats, AcquireSend(c, l, k, S)
  PROVE  LockInv'
<1>1. /\ call[c].op = "idle" /\ req[l].key = NoKey /\ req[l].key \notin Keys
      /\ lock[l].st = "GONE" /\ ~Held(l)
  BY NamesAssumption DEF AcquireSend, At, Unasked, LockInv, LockOK, Held
<1>2. /\ req' = [req EXCEPT ![l] = [key |-> k, seats |-> S]]
      /\ call'[c].op = "acquire" /\ call'[c].lock = l /\ call'[c].at = now
      /\ \A d \in Calls : d # c => call'[d] = call[d]
      /\ UNCHANGED <<now, lock, seat, idem, score, hash, fence, booking>>
  BY DEF AcquireSend, Send, Idle, LockInv, TypeOK
<1>3. TypeOK'
  BY TimesAssumption DEF AcquireSend, Send, Idle, LockInv, TypeOK
<1>4. \A d \in Calls : d # c => call[d].lock # l
  <2> SUFFICES ASSUME NEW d \in Calls, d # c, call[d].lock = l PROVE FALSE
    OBVIOUS
  <2>1. CallOK(d)
    BY DEF LockInv
  <2> QED
    BY <1>1, <2>1, NamesAssumption DEF CallOK
<1>5. \A d \in Calls : CallOK(d)'
  <2> SUFFICES ASSUME NEW d \in Calls PROVE CallOK(d)'
    OBVIOUS
  <2>1. CASE d = c
    BY <1>1, <1>2, <1>3, <1>4, <2>1, TimesAssumption DEF CallOK, TypeOK, LockInv
  <2>2. CASE d # c
    <3>1. CallOK(d) /\ call'[d] = call[d] /\ call[d].lock # l
      BY <1>2, <1>4, <2>2 DEF LockInv
    <3>2. call[d].op # "idle" => req'[call[d].lock] = req[call[d].lock]
      BY <1>2, <3>1 DEF CallOK, LockInv, TypeOK
    <3> QED
      BY <1>1, <1>2, <2>2, <3>1, <3>2 DEF CallOK, Held, Live
  <2> QED
    BY <2>1, <2>2
<1>6. \A m \in Locks : (LockOK(m) /\ SeatsOK(m))'
  <2> SUFFICES ASSUME NEW m \in Locks PROVE (LockOK(m) /\ SeatsOK(m))'
    OBVIOUS
  <2>1. LockOK(m) /\ SeatsOK(m)
    BY DEF LockInv
  <2>2. CASE m = l
    BY <1>1, <1>2, <2>2 DEF LockOK, SeatsOK, Held, Live, LockInv, TypeOK
  <2>3. CASE m # l
    <3>1. req'[m] = req[m]
      BY <1>2, <2>3 DEF LockInv, TypeOK
    <3> QED
      BY <1>2, <2>1, <3>1 DEF LockOK, SeatsOK, Held, Live
  <2> QED
    BY <2>2, <2>3
<1>7. ConfirmedAfterCommit'
  BY <1>2 DEF LockInv, ConfirmedAfterCommit
<1> QED
  BY <1>3, <1>5, <1>6, <1>7 DEF LockInv

\* A granted lock is new, behind every lock that is held, and on recent time.
LEMMA GrantInv ==
  ASSUME LockInv, NEW c \in Calls, At(c, "acquire"), Grant(c),
         UNCHANGED <<now, req, booking>>, TypeOK',
         NEW l \in Locks, l = call[c].lock, SeatsOK(l)',
         \A m \in Locks : m # l /\ Held(m) =>
            \A s \in req[m].seats : seat'[s] = seat[s]
  PROVE  LockInv'
<1>1. /\ req[l].key \in Keys /\ lock[l].st = "GONE" /\ ~Held(l)
      /\ call[c].at <= now /\ now <= call[c].at + Lag
      /\ \A d \in Calls : d # c => call[d].lock # l
      /\ l # NoLock
  BY NamesAssumption DEF LockInv, CallOK, At, Held
<1>2. /\ lock'[l] = [st |-> "ACTIVE", until |-> now + Ttl, exp |-> call[c].at + Ttl,
                     acq |-> call[c].at, token |-> fence'.n]
      /\ \A m \in Locks : m # l => lock'[m] = lock[m]
      /\ call'[c] = Idle /\ \A d \in Calls : d # c => call'[d] = call[d]
      /\ fence'.until = now + 4 * MaxLife
      /\ fence'.n = IF Live(fence) THEN fence.n + 1 ELSE 1
  BY <1>1 DEF Grant, Return, FenceTtl, LockInv, TypeOK
<1>3. \A d \in Calls : CallOK(d)'
  <2> SUFFICES ASSUME NEW d \in Calls PROVE CallOK(d)'
    OBVIOUS
  <2>1. CASE d = c
    BY <1>2, <2>1 DEF CallOK, Idle
  <2>2. CASE d # c
    <3>1. CallOK(d) /\ call'[d] = call[d] /\ call[d].lock # l
      BY <1>1, <1>2, <2>2 DEF LockInv
    <3>2. call[d].op # "idle" => lock'[call[d].lock] = lock[call[d].lock]
      BY <1>2, <3>1 DEF CallOK
    <3>3. call[d].op = "acquire" => \A e \in Calls : e # d => call'[e].lock # call[d].lock
      BY <1>2, <3>1, NamesAssumption DEF CallOK, Idle
    <3> QED
      BY <1>1, <1>2, <2>2, <3>1, <3>2, <3>3 DEF CallOK, Held, Live
  <2> QED
    BY <2>1, <2>2
<1>4. ASSUME NEW m \in Locks PROVE (LockOK(m) /\ SeatsOK(m))'
  <2>1. LockOK(m) /\ SeatsOK(m)
    BY DEF LockInv
  <2>2. CASE m = l
    <3>1. lock'[m].until <= lock'[m].acq + Longest + Lag /\ lock'[m].acq <= now
          /\ (FenceOutlives => lock'[m].acq + Longest + Lag < fence'.until)
      BY <1>1, <1>2, <2>2, LongestLife, TimesAssumption DEF FenceOutlives, FenceTtl, LockInv, TypeOK
    <3>2. lock'[m].token <= fence'.n /\ lock'[m].st = "ACTIVE"
      BY <1>2, <2>2 DEF TypeOK
    <3> QED
      BY <1>1, <2>2, <3>1, <3>2 DEF LockOK, TypeOK
  <2>3. CASE m # l
    <3>1. lock'[m] = lock[m] /\ (Held(m) => \A s \in req[m].seats : seat'[s] = seat[s])
      BY <1>2, <2>3
    <3>2. SeatsOK(m)'
      BY <2>1, <3>1 DEF SeatsOK, Held, Live
    <3>3. FenceOutlives /\ Held(m) => lock[m].token <= fence'.n
      BY <1>2, <2>1, LongestLife, TimesAssumption DEF LockOK, Held, Live, LockInv, TypeOK
    <3>4. FenceOutlives /\ Held(m) => lock[m].acq + Longest + Lag < fence'.until
      BY <1>2, <2>1, LongestLife, TimesAssumption DEF LockOK, FenceOutlives, FenceTtl, LockInv, TypeOK
    <3> QED
      BY <2>1, <3>1, <3>2, <3>3, <3>4 DEF LockOK, Held, Live
  <2> QED
    BY <2>2, <2>3
<1>5. ConfirmedAfterCommit'
  BY <1>1, <1>2 DEF LockInv, ConfirmedAfterCommit
<1> QED
  BY <1>3, <1>4, <1>5 DEF LockInv

\* Granting seats touches no seat of a lock that is held.
LEMMA AcquireSeatsInv ==
  ASSUME LockInv, NEW c \in Calls, AcquireSeats(c)
  PROVE  LockInv'
<1>0. PICK l \in Locks : l = call[c].lock
  BY DEF AcquireSeats, At, LockInv, CallOK
<1>1. /\ At(c, "acquire") /\ Grant(c) /\ UNCHANGED <<now, req, booking>>
      /\ req[l].key \in Keys
  BY <1>0 DEF AcquireSeats, At, LockInv, CallOK
<1>2. /\ \A s \in req[l].seats : ~SeatTaken(c, s)
      /\ seat' = [s \in Seats |-> IF s \in req[l].seats
                                  THEN [by |-> l, until |-> now + Ttl] ELSE seat[s]]
  BY <1>0 DEF AcquireSeats
<1>3. TypeOK'
  BY <1>0, <1>1, <1>2, TimesAssumption
     DEF AcquireSeats, Grant, Return, Idle, FenceTtl, LockInv, TypeOK
<1>4. SeatsOK(l)'
  BY <1>0, <1>1, <1>2 DEF SeatsOK, Grant, LockInv, TypeOK
<1>5. ASSUME NEW m \in Locks, m # l, Held(m), NEW s \in req[m].seats
      PROVE  seat'[s] = seat[s]
  <2>1. s \in Seats /\ seat[s].by = m /\ Live(seat[s])
    BY <1>5 DEF LockInv, SeatsOK, TypeOK, Held, Live
  <2>2. s \notin req[l].seats
    BY <1>0, <1>2, <1>5, <2>1 DEF SeatTaken
  <2> QED
    BY <1>2, <2>1, <2>2
<1> QED
  BY <1>0, <1>1, <1>3, <1>4, <1>5, GrantInv

\* Granting a quantity leaves every seat alone.
LEMMA AcquireQuantityInv ==
  ASSUME LockInv, NEW c \in Calls, AcquireQuantity(c)
  PROVE  LockInv'
<1>0. PICK l \in Locks : l = call[c].lock
  BY DEF AcquireQuantity, At, LockInv, CallOK
<1>1. /\ At(c, "acquire") /\ Grant(c) /\ UNCHANGED <<now, req, seat, booking>>
      /\ req[l].key \in Keys /\ req[l].seats = {}
  BY <1>0 DEF AcquireQuantity, At, LockInv, CallOK
<1>2. TypeOK'
  BY <1>0, <1>1, TimesAssumption
     DEF AcquireQuantity, Grant, Return, Idle, FenceTtl, LockInv, TypeOK, Lapsed
<1>3. SeatsOK(l)'
  BY <1>1 DEF SeatsOK
<1> QED
  BY <1>0, <1>1, <1>2, <1>3, GrantInv

\* The purge of a full pool touches the quantity records only.
LEMMA AcquireFullInv ==
  ASSUME LockInv, NEW c \in Calls, AcquireFull(c)
  PROVE  LockInv'
<1>1. /\ call' = [call EXCEPT ![c] = Idle] /\ call'[c] = Idle
      /\ UNCHANGED <<now, req, lock, seat, idem, fence, booking>>
  BY DEF AcquireFull, Return, LockInv, TypeOK
<1>2. TypeOK'
  BY <1>1 DEF AcquireFull, Idle, LockInv, TypeOK, Lapsed
<1>3. ASSUME NEW d \in Calls PROVE CallOK(d)'
  <2>1. CASE d = c
    BY <1>1, <2>1 DEF CallOK, Idle
  <2>2. CASE d # c
    <3>1. CallOK(d) /\ call'[d] = call[d]
      BY <1>1, <2>2 DEF LockInv, TypeOK
    <3>2. call[d].op = "acquire" => call'[c].lock # call[d].lock
      BY <1>1, <3>1, NamesAssumption DEF CallOK, Idle
    <3> QED
      BY <1>1, <2>2, <3>1, <3>2 DEF CallOK, Held, Live, LockInv, TypeOK
  <2> QED
    BY <2>1, <2>2
<1>4. (\A l \in Locks : LockOK(l) /\ SeatsOK(l))' /\ ConfirmedAfterCommit'
  BY <1>1 DEF LockInv, LockOK, SeatsOK, Held, Live, ConfirmedAfterCommit
<1> QED
  BY <1>2, <1>3, <1>4 DEF LockInv

\* A renewal moves the lock and its seats together and stays in the lifetime.
LEMMA RenewExecInv ==
  ASSUME LockInv, NEW c \in Calls, RenewExec(c)
  PROVE  LockInv'
<1>1. PICK l \in Locks : l = call[c].lock
  BY DEF RenewExec, At, LockInv, CallOK
<1>2. /\ call[c].op = "renew" /\ Held(l) /\ CallOK(c)
      /\ lock' = [lock EXCEPT ![l] = [lock[l] EXCEPT !.exp = call[c].at + call[c].ttl,
                                                    !.until = now + call[c].ttl]]
      /\ seat' = [s \in Seats |->
                    IF s \in req[l].seats /\ Live(seat[s])
                    THEN [seat[s] EXCEPT !.until = now + call[c].ttl] ELSE seat[s]]
      /\ call'[c] = Idle /\ \A d \in Calls : d # c => call'[d] = call[d]
      /\ UNCHANGED <<now, req, idem, hash, fence, booking>>
  BY <1>1 DEF RenewExec, At, SeatsRenewed, Return, LockInv, TypeOK
<1>3. TypeOK'
  <2>1. lock' \in [Locks -> [st : {"GONE", "ACTIVE", "RELEASED", "EXPIRED", "CONFIRMED"},
                            until : Nat, exp : Nat, acq : Nat, token : Nat]]
    <3>1. now + call[c].ttl \in Nat /\ call[c].at + call[c].ttl \in Nat
      BY DEF LockInv, TypeOK
    <3> DEFINE r == [lock[l] EXCEPT !.exp = call[c].at + call[c].ttl,
                                    !.until = now + call[c].ttl]
    <3>0. lock[l] \in [st : {"GONE", "ACTIVE", "RELEASED", "EXPIRED", "CONFIRMED"},
                       until : Nat, exp : Nat, acq : Nat, token : Nat]
      BY DEF LockInv, TypeOK
    <3>2. r \in [st : {"GONE", "ACTIVE", "RELEASED", "EXPIRED", "CONFIRMED"},
                 until : Nat, exp : Nat, acq : Nat, token : Nat]
      BY <3>0, <3>1
    <3>3. lock' = [lock EXCEPT ![l] = r]
      BY <1>2
    <3> HIDE DEF r
    <3> QED
      BY <3>2, <3>3 DEF LockInv, TypeOK
  <2>2. seat' \in [Seats -> [by : Locks \union {NoLock}, until : Nat]]
    <3>1. now + call[c].ttl \in Nat
      BY DEF LockInv, TypeOK
    <3>2. \A s \in Seats : [seat[s] EXCEPT !.until = now + call[c].ttl]
                              \in [by : Locks \union {NoLock}, until : Nat]
      BY <3>1 DEF LockInv, TypeOK
    <3> QED
      BY <1>2, <3>2 DEF LockInv, TypeOK
  <2>3. score' \in [Locks -> Int]
    BY <1>1 DEF RenewExec, LockInv, TypeOK
  <2> QED
    BY <1>2, <2>1, <2>2, <2>3 DEF RenewExec, Return, Idle, LockInv, TypeOK
<1>4. /\ lock'[l].st = lock[l].st /\ lock'[l].acq = lock[l].acq
      /\ lock'[l].token = lock[l].token /\ lock'[l].until = now + call[c].ttl
      /\ \A m \in Locks : m # l => lock'[m] = lock[m]
      /\ \A m \in Locks : lock'[m].st = lock[m].st /\ lock'[m].acq = lock[m].acq
  BY <1>2 DEF LockInv, TypeOK
<1>5. ASSUME NEW m \in Locks, Held(m)' PROVE Held(m)
  BY <1>2, <1>4, <1>5 DEF Held, Live
<1>6. ASSUME NEW d \in Calls PROVE CallOK(d)'
  <2>1. CASE d = c
    BY <1>2, <2>1 DEF CallOK, Idle
  <2>2. CASE d # c
    <3>1. CallOK(d) /\ call'[d] = call[d]
      BY <1>2, <2>2 DEF LockInv
    <3>2. call[d].op = "acquire" => \A e \in Calls : e # d => call'[e].lock # call[d].lock
      BY <1>2, <3>1, NamesAssumption DEF CallOK, Idle
    <3>3. call[d].op = "renew" =>
             lock'[call[d].lock].acq = lock[call[d].lock].acq
             /\ (Held(call[d].lock)' => Held(call[d].lock))
      BY <1>2, <1>4, <3>1 DEF CallOK, Held, Live
    <3>4. call[d].op = "acquire" => lock'[call[d].lock].st = "GONE"
      BY <1>4, <3>1 DEF CallOK
    <3> QED
      BY <1>2, <3>1, <3>2, <3>3, <3>4 DEF CallOK
  <2> QED
    BY <2>1, <2>2
<1>7. ASSUME NEW m \in Locks PROVE (LockOK(m) /\ SeatsOK(m))'
  <2>1. LockOK(m) /\ SeatsOK(m) /\ LockOK(l) /\ SeatsOK(l)
    BY DEF LockInv
  <2>2. CASE m = l
    <3>1. lock'[l].until <= lock[l].acq + Longest + Lag
      BY <1>1, <1>2, <1>4, LongestLife, TimesAssumption DEF CallOK, LockInv, TypeOK
    <3>2. LockOK(l)'
      BY <1>2, <1>4, <2>1, <3>1 DEF LockOK, Held
    <3>3. \A s \in req[l].seats : s \in Seats /\ seat[s].by = l /\ Live(seat[s])
      BY <1>2, <2>1 DEF SeatsOK, Held, Live, LockInv, TypeOK
    <3>4. SeatsOK(l)'
      BY <1>2, <1>4, <3>3 DEF SeatsOK, LockInv, TypeOK
    <3> QED
      BY <2>2, <3>2, <3>4
  <2>3. CASE m # l
    <3>1. Held(m) => \A s \in req[m].seats : s \in Seats /\ s \notin req[l].seats
      BY <1>2, <2>1, <2>3 DEF SeatsOK, LockInv, TypeOK
    <3> QED
      BY <1>2, <1>4, <2>1, <2>3, <3>1 DEF LockOK, SeatsOK, Held, Live
  <2> QED
    BY <2>2, <2>3
<1>8. ConfirmedAfterCommit'
  BY <1>2, <1>4 DEF LockInv, ConfirmedAfterCommit
<1> QED
  BY <1>3, <1>6, <1>7, <1>8 DEF LockInv

\* A release frees only its own seats, and a mark follows the commit.
LEMMA ReleaseExecInv ==
  ASSUME LockInv, NEW c \in Calls, ReleaseExec(c)
  PROVE  LockInv'
<1>1. PICK l \in Locks : l = call[c].lock
  BY DEF ReleaseExec, At, LockInv, CallOK
<1>2. /\ call[c].op = "release" /\ CallOK(c)
      /\ lock' = IF Live(lock[l])
                 THEN [lock EXCEPT ![l] = [lock[l] EXCEPT !.st = call[c].final,
                                                          !.until = now + Tombstone]]
                 ELSE lock
      /\ seat' = [s \in Seats |-> IF s \in req[l].seats /\ seat[s].by = l
                                  THEN Free ELSE seat[s]]
      /\ call'[c] = Idle /\ \A d \in Calls : d # c => call'[d] = call[d]
      /\ UNCHANGED <<now, req, idem, fence, booking>>
  BY <1>1 DEF ReleaseExec, At, SeatsFreed, Return, LockInv, TypeOK
<1>3. TypeOK'
  <2>1. lock' \in [Locks -> [st : {"GONE", "ACTIVE", "RELEASED", "EXPIRED", "CONFIRMED"},
                            until : Nat, exp : Nat, acq : Nat, token : Nat]]
    <3> DEFINE r == [lock[l] EXCEPT !.st = call[c].final, !.until = now + Tombstone]
    <3>0. /\ lock[l] \in [st : {"GONE", "ACTIVE", "RELEASED", "EXPIRED", "CONFIRMED"},
                          until : Nat, exp : Nat, acq : Nat, token : Nat]
          /\ call[c].final \in {"ACTIVE", "RELEASED", "EXPIRED", "CONFIRMED"}
          /\ now + Tombstone \in Nat
      BY TimesAssumption DEF LockInv, TypeOK
    <3>1. r \in [st : {"GONE", "ACTIVE", "RELEASED", "EXPIRED", "CONFIRMED"},
                 until : Nat, exp : Nat, acq : Nat, token : Nat]
      BY <3>0
    <3>2. lock' = lock \/ lock' = [lock EXCEPT ![l] = r]
      BY <1>2
    <3> HIDE DEF r
    <3> QED
      BY <3>1, <3>2 DEF LockInv, TypeOK
  <2>2. seat' \in [Seats -> [by : Locks \union {NoLock}, until : Nat]]
    BY <1>2 DEF LockInv, TypeOK, Free
  <2>3. score' \in [Locks -> Int] /\ hash' \in SUBSET Locks
    BY <1>1 DEF ReleaseExec, LockInv, TypeOK
  <2> QED
    BY <1>2, <2>1, <2>2, <2>3 DEF ReleaseExec, Return, Idle, LockInv, TypeOK
<1>4. /\ \A m \in Locks : m # l => lock'[m] = lock[m]
      /\ \/ lock'[l] = lock[l]
         \/ lock'[l].st = call[c].final /\ call[c].final \notin {"ACTIVE", "GONE"}
      /\ req[l].key \in Keys
  BY <1>1, <1>2 DEF LockInv, TypeOK, CallOK
<1>5. ~Held(l)'
  <2>1. CASE Live(lock[l])
    BY <1>1, <1>2, <2>1 DEF CallOK, LockInv, TypeOK, Held
  <2>2. CASE ~Live(lock[l])
    BY <1>2, <2>2 DEF Held, Live
  <2> QED
    BY <2>1, <2>2
<1>6. ASSUME NEW d \in Calls PROVE CallOK(d)'
  <2>1. CASE d = c
    BY <1>2, <2>1 DEF CallOK, Idle
  <2>2. CASE d # c
    <3>1. CallOK(d) /\ call'[d] = call[d]
      BY <1>2, <2>2 DEF LockInv
    <3>2. call[d].op = "acquire" =>
             /\ \A e \in Calls : e # d => call'[e].lock # call[d].lock
             /\ call[d].lock # l
      BY <1>1, <1>2, <2>2, <3>1, NamesAssumption DEF CallOK, Idle
    <3>3. call[d].op = "renew" /\ Held(call[d].lock)' =>
             lock'[call[d].lock] = lock[call[d].lock] /\ Held(call[d].lock)
      BY <1>2, <1>4, <1>5, <3>1 DEF CallOK, Held, Live
    <3>4. call[d].op = "renew" => call'[d].op = "renew" /\ call'[d].lock = call[d].lock
      BY <3>1
    <3> QED
      BY <1>2, <1>4, <3>1, <3>2, <3>3 DEF CallOK, Held, Live
  <2> QED
    BY <2>1, <2>2
<1>7. ASSUME NEW m \in Locks PROVE (LockOK(m) /\ SeatsOK(m))'
  <2>1. LockOK(m) /\ SeatsOK(m)
    BY DEF LockInv
  <2>2. CASE m = l
    BY <1>2, <1>4, <1>5, <2>1, <2>2 DEF LockOK, SeatsOK
  <2>3. CASE m # l
    <3>1. Held(m) => \A s \in req[m].seats : s \in Seats /\ seat'[s] = seat[s]
      BY <1>2, <2>1, <2>3 DEF SeatsOK, LockInv, TypeOK
    <3> QED
      BY <1>2, <1>4, <2>1, <2>3, <3>1 DEF LockOK, SeatsOK, Held, Live
  <2> QED
    BY <2>2, <2>3
<1>8. ConfirmedAfterCommit'
  <2>1. lock'[l].st = "CONFIRMED" => booking[l] = "CONFIRMED"
    BY <1>1, <1>2, <1>4 DEF LockInv, ConfirmedAfterCommit, CallOK
  <2> QED
    BY <1>2, <1>4, <2>1 DEF LockInv, ConfirmedAfterCommit
<1> QED
  BY <1>3, <1>6, <1>7, <1>8 DEF LockInv

\* The commit moves the booking and the call together.
LEMMA WorkCommitsInv ==
  ASSUME LockInv, NEW c \in Calls, WorkCommits(c)
  PROVE  LockInv'
<1>1. PICK l \in Locks : l = call[c].lock
  BY DEF WorkCommits, At, LockInv, CallOK
<1>2. /\ call[c].op = "work" /\ CallOK(c)
      /\ booking' = [booking EXCEPT ![l] = "CONFIRMED"]
      /\ call'[c] = [Idle EXCEPT !.op = "release", !.lock = l, !.final = "CONFIRMED"]
      /\ \A d \in Calls : d # c => call'[d] = call[d]
      /\ UNCHANGED <<now, req, lock, seat, idem, score, hash, fence>>
  BY <1>1 DEF WorkCommits, At, Then, LockInv, TypeOK
<1>3. TypeOK'
  <2> DEFINE k == [Idle EXCEPT !.op = "release", !.lock = l, !.final = "CONFIRMED"]
  <2>1. k \in [op : {"idle", "acquire", "renew", "release", "work", "classify"},
               lock : Locks \union {NoLock}, at : Nat, ttl : Nat,
               final : {"ACTIVE", "RELEASED", "EXPIRED", "CONFIRMED"}]
    BY DEF Idle
  <2>2. call' = [call EXCEPT ![c] = k]
    BY <1>1 DEF WorkCommits, Then
  <2> HIDE DEF k
  <2> QED
    BY <1>2, <2>1, <2>2 DEF LockInv, TypeOK
<1>4. ASSUME NEW d \in Calls PROVE CallOK(d)'
  <2>1. CASE d = c
    BY <1>1, <1>2, <2>1 DEF CallOK, Idle, LockInv, TypeOK
  <2>2. CASE d # c
    <3>1. CallOK(d) /\ call'[d] = call[d]
      BY <1>2, <2>2 DEF LockInv
    <3>2. call[d].op = "acquire" => \A e \in Calls : e # d => call'[e].lock # call[d].lock
      <4>1. call'[c].lock = l /\ (call[d].op = "acquire" => call[d].lock # l)
        BY <1>1, <1>2, <2>2, <3>1 DEF CallOK, Idle
      <4> QED
        BY <1>2, <3>1, <4>1 DEF CallOK
    <3>3. call[d].op = "release" /\ call[d].final = "CONFIRMED" =>
             booking'[call[d].lock] = "CONFIRMED"
      BY <1>2, <3>1 DEF CallOK, LockInv, TypeOK
    <3> QED
      BY <1>2, <3>1, <3>2, <3>3 DEF CallOK, Held, Live
  <2> QED
    BY <2>1, <2>2
<1>5. (\A m \in Locks : LockOK(m) /\ SeatsOK(m))' /\ ConfirmedAfterCommit'
  BY <1>2 DEF LockInv, LockOK, SeatsOK, Held, Live, ConfirmedAfterCommit, TypeOK
<1> QED
  BY <1>3, <1>4, <1>5 DEF LockInv

\* A booking that ends was not confirmed.
LEMMA BookingEndsInv ==
  ASSUME LockInv, NEW l \in Locks, BookingEnds(l)
  PROVE  LockInv'
<1>1. TypeOK'
  BY DEF BookingEnds, LockInv, TypeOK
<1>2. ASSUME NEW d \in Calls PROVE CallOK(d)'
  <2>1. CallOK(d)
    BY DEF LockInv
  <2>2. call[d].op = "release" /\ call[d].final = "CONFIRMED" =>
           booking'[call[d].lock] = "CONFIRMED"
    BY <2>1 DEF BookingEnds, CallOK, LockInv, TypeOK
  <2> QED
    BY <2>1, <2>2 DEF CallOK, Held, Live, BookingEnds
<1>3. (\A m \in Locks : LockOK(m) /\ SeatsOK(m))' /\ ConfirmedAfterCommit'
  BY DEF BookingEnds, LockInv, LockOK, SeatsOK, Held, Live, ConfirmedAfterCommit, TypeOK
<1> QED
  BY <1>1, <1>2, <1>3 DEF LockInv

\* Time takes a lock and its seats at once, and the fence after them.
LEMMA TickInv ==
  ASSUME LockInv, Tick
  PROVE  LockInv'
<1>1. TypeOK'
  <2>1. now' \in Nat
    BY DEF Tick, LockInv, TypeOK
  <2>2. lock' \in [Locks -> [st : {"GONE", "ACTIVE", "RELEASED", "EXPIRED", "CONFIRMED"},
                            until : Nat, exp : Nat, acq : Nat, token : Nat]]
    BY DEF Tick, LockInv, TypeOK, Gone
  <2>3. /\ seat' \in [Seats -> [by : Locks \union {NoLock}, until : Nat]]
        /\ idem' \in [Keys -> [until : Nat]] /\ fence' \in [n : Nat, until : Nat]
    BY DEF Tick, LockInv, TypeOK, Free
  <2> QED
    BY <2>1, <2>2, <2>3 DEF Tick, LockInv, TypeOK
<1>2. ASSUME NEW m \in Locks
      PROVE  /\ lock'[m] = lock[m] \/ lock'[m] = Gone
             /\ Held(m)' => Held(m) /\ lock'[m] = lock[m] /\ now + 1 < lock[m].until
  BY DEF Tick, Gone, Held, Live, LockInv, TypeOK
<1>3. ASSUME NEW d \in Calls PROVE CallOK(d)'
  <2>1. CallOK(d) /\ call' = call
    BY DEF LockInv, Tick
  <2>2. call[d].op \in {"acquire", "renew"} =>
           call[d].at <= now' /\ now' <= call[d].at + Lag
    BY <2>1, TimesAssumption DEF Tick, CallOK, LockInv, TypeOK
  <2>3. call[d].op = "acquire" => lock'[call[d].lock].st = "GONE"
    BY <1>2, <2>1 DEF CallOK, Gone
  <2>4. call[d].op = "renew" /\ Held(call[d].lock)' =>
           Held(call[d].lock) /\ lock'[call[d].lock] = lock[call[d].lock]
    BY <1>2, <2>1 DEF CallOK, Held, Live
  <2> QED
    BY <2>1, <2>2, <2>3, <2>4 DEF CallOK, Tick
<1>4. ASSUME NEW m \in Locks PROVE (LockOK(m) /\ SeatsOK(m))'
  <2>1. LockOK(m) /\ SeatsOK(m) /\ req' = req
    BY DEF LockInv, Tick
  <2>2. Held(m)' => lock[m].acq <= now' /\ (FenceOutlives => fence' = fence)
    BY <1>2, <2>1, LongestLife, TimesAssumption DEF LockOK, Tick, LockInv, TypeOK
  <2>3. LockOK(m)'
    BY <1>2, <2>1, <2>2 DEF LockOK, Gone
  <2>4. Held(m)' => \A s \in req[m].seats : seat'[s] = seat[s]
    BY <1>2, <2>1 DEF SeatsOK, Tick, LockInv, TypeOK
  <2>5. SeatsOK(m)'
    BY <1>2, <2>1, <2>4 DEF SeatsOK
  <2> QED
    BY <2>3, <2>5
<1>5. ConfirmedAfterCommit'
  BY <1>2 DEF ConfirmedAfterCommit, LockInv, Tick, Gone
<1> QED
  BY <1>1, <1>3, <1>4, <1>5 DEF LockInv

\* A lock key that exists was written.
LEMMA GoneIsNotLive ==
  ASSUME LockInv, NEW l \in Locks, Live(lock[l])
  PROVE  lock[l].st # "GONE"
  BY DEF LockInv, LockOK, Live, TypeOK

\* The reconciliation releases a lock it read, as its booking says.
LEMMA ClassifyGoesOn ==
  ASSUME LockInv, NEW c \in Calls, Classify(c), ~Return(c)
  PROVE  LockInv'
<1>1. PICK l \in Locks : l = call[c].lock
  BY DEF Classify, At, LockInv, CallOK
<1>2. Known(l)
  BY <1>1 DEF Known, Classify, At, LockInv, CallOK
<1>3. CASE booking[l] = "EXPIRED" /\ Then(c, "release", l, "EXPIRED")
  BY <1>2, <1>3, CallGoesOn DEF Classify
<1>4. CASE booking[l] = "CONFIRMED" /\ Then(c, "release", l, "CONFIRMED")
  BY <1>2, <1>4, CallGoesOn DEF Classify
<1> QED
  BY <1>1, <1>3, <1>4 DEF Classify

\* In every step other than a grant a lock that is held was held before.
LEMMA OnlyGrantsHold ==
  ASSUME LockInv, [Next]_vars, NEW l \in Locks, ~Held(l), Held(l)'
  PROVE  \E c \in Calls : AcquireSeats(c) \/ AcquireQuantity(c)
<1> SUFFICES ASSUME \A c \in Calls : ~AcquireSeats(c) /\ ~AcquireQuantity(c)
             PROVE  FALSE
  OBVIOUS
<1>1. ASSUME UNCHANGED <<now, lock>> PROVE FALSE
  BY <1>1 DEF Held, Live
<1>2. ASSUME NEW c \in Calls, RenewExec(c) PROVE FALSE
  <2>1. lock'[l].st = lock[l].st /\ (l # call[c].lock => lock'[l] = lock[l])
        /\ Held(call[c].lock) /\ now' = now
    BY <1>2 DEF RenewExec, LockInv, TypeOK
  <2> QED
    BY <2>1 DEF Held, Live
<1>3. ASSUME NEW c \in Calls, ReleaseExec(c) PROVE FALSE
  <2>1. call[c].op = "release" /\ call[c].final # "ACTIVE" /\ now' = now
    BY <1>3 DEF ReleaseExec, At, LockInv, CallOK
  <2>2. lock'[l] = lock[l] \/ lock'[l].st = call[c].final
    BY <1>3 DEF ReleaseExec, LockInv, TypeOK
  <2> QED
    BY <2>1, <2>2 DEF Held, Live
<1>4. ASSUME Tick PROVE FALSE
  BY <1>4 DEF Tick, Held, Live, Gone, LockInv, TypeOK
<1>5. ASSUME NEW c \in Calls, NEW k \in Locks,
             \/ \E q \in Keys, S \in SUBSET Seats : AcquireSend(c, k, q, S)
             \/ RenewRead(c, k) \/ ReleaseRead(c, k) \/ ConfirmValidate(c, k)
             \/ ReconcileRead(c, k)
      PROVE  FALSE
  BY <1>1, <1>5 DEF AcquireSend, RenewRead, ReleaseRead, ConfirmValidate, ReconcileRead
<1>6. ASSUME NEW c \in Calls,
             \/ AcquireReplayed(c) \/ AcquireConflict(c) \/ AcquireFull(c)
             \/ RenewRejected(c) \/ WorkCommits(c) \/ WorkFails(c) \/ Classify(c)
             \/ Lost(c)
      PROVE  FALSE
  BY <1>1, <1>6 DEF AcquireReplayed, AcquireConflict, AcquireFull, RenewRejected,
                    WorkCommits, WorkFails, Classify, Lost
<1>7. ASSUME NEW k \in Locks, BookingEnds(k) PROVE FALSE
  BY <1>1, <1>7 DEF BookingEnds
<1> QED
  BY <1>1, <1>2, <1>3, <1>4, <1>5, <1>6, <1>7 DEF Next, vars

-----------------------------------------------------------------------------

\* Every step of the engine keeps the invariant.
LEMMA NextInv == LockInv /\ [Next]_vars => LockInv'
<1> SUFFICES ASSUME LockInv, [Next]_vars PROVE LockInv'
  OBVIOUS
<1>1. ASSUME NEW c \in Calls, NEW l \in Locks,
             RenewRead(c, l) \/ ReleaseRead(c, l) \/ ConfirmValidate(c, l)
             \/ ReconcileRead(c, l)
      PROVE  LockInv'
  <2>1. CASE RenewRead(c, l)
    BY <2>1, RenewReadInv
  <2>2. CASE ReleaseRead(c, l)
    <3>1. lock[l].st # "GONE"
      BY <2>2, GoneIsNotLive DEF ReleaseRead
    <3> QED
      BY <2>2, <3>1, WrittenIsKnown, CallGoesOn DEF ReleaseRead
  <2>3. CASE ConfirmValidate(c, l)
    BY <2>3, WrittenIsKnown, CallGoesOn DEF ConfirmValidate, Held
  <2>4. CASE ReconcileRead(c, l)
    BY <2>4, WrittenIsKnown, CallGoesOn DEF ReconcileRead, Held
  <2> QED
    BY <1>1, <2>1, <2>2, <2>3, <2>4
<1>2. ASSUME NEW c \in Calls, Classify(c) PROVE LockInv'
  <2>1. CASE Return(c)
    BY <1>2, <2>1, CallReturns DEF Classify
  <2>2. CASE ~Return(c)
    BY <1>2, <2>2, ClassifyGoesOn
  <2> QED
    BY <2>1, <2>2
<1>3. ASSUME NEW c \in Calls,
             AcquireReplayed(c) \/ AcquireConflict(c) \/ RenewRejected(c)
             \/ WorkFails(c) \/ Lost(c)
      PROVE  LockInv'
  BY <1>3, CallReturns DEF AcquireReplayed, AcquireConflict, RenewRejected, WorkFails, Lost
<1>4. ASSUME UNCHANGED vars PROVE LockInv'
  BY <1>4 DEF vars, LockInv, TypeOK, CallOK, LockOK, SeatsOK, ConfirmedAfterCommit,
              Held, Live
<1> QED
  BY <1>1, <1>2, <1>3, <1>4, AcquireSendInv, AcquireSeatsInv, AcquireQuantityInv,
     AcquireFullInv, RenewExecInv, ReleaseExecInv, WorkCommitsInv, BookingEndsInv,
     TickInv DEF Next

\* The invariant gives the promises about seats, lifetime and marks.
LEMMA InvImplies ==
  LockInv => SeatsHeld /\ SeatExclusive /\ LifetimeBound /\ ConfirmedAfterCommit
<1> SUFFICES ASSUME LockInv
             PROVE  SeatsHeld /\ SeatExclusive /\ LifetimeBound /\ ConfirmedAfterCommit
  OBVIOUS
<1>1. SeatsHeld
  BY DEF LockInv, SeatsOK, SeatsHeld, Held, Live
<1>2. SeatExclusive
  BY <1>1 DEF SeatsHeld, SeatExclusive
<1>3. LifetimeBound
  BY LongestLife, TimesAssumption DEF LockInv, LockOK, LifetimeBound, Held, Live, TypeOK
<1> QED
  BY <1>1, <1>2, <1>3 DEF LockInv

\* A lock becomes held only by a grant, whose token is ahead of all that are.
LEMMA TokenStep ==
  ASSUME FenceOutlives, LockInv, [Next]_vars, NEW l \in Locks, NEW m \in Locks, l # m,
         ~Held(l), Held(l)', Held(m)
  PROVE  lock[m].token < lock'[l].token
<1>1. PICK c \in Calls : AcquireSeats(c) \/ AcquireQuantity(c)
  BY OnlyGrantsHold
<1>2. Grant(c) /\ At(c, "acquire") /\ UNCHANGED now
  BY <1>1 DEF AcquireSeats, AcquireQuantity
<1>3. call[c].lock = l
  BY <1>2 DEF Grant, Held, Live, LockInv, TypeOK
<1>4. lock'[l].token = fence.n + 1
  BY <1>2, <1>3, LongestLife, TimesAssumption DEF Grant, LockInv, LockOK, Held, Live, TypeOK
<1> QED
  BY <1>4 DEF LockInv, LockOK, TypeOK

\* SEAT_ACQUIRE, SEAT_RENEW and SEAT_RELEASE: a held lock owns its seats, so no
\* two held locks share one, for any number of callers and any delays.
THEOREM SeatsOfOneLock == Spec => [](SeatsHeld /\ SeatExclusive)
<1>1. Init => LockInv
  BY InitInv
<1>2. LockInv /\ [Next]_vars => LockInv'
  BY NextInv
<1>3. LockInv => SeatsHeld /\ SeatExclusive
  BY InvImplies
<1> QED
  BY <1>1, <1>2, <1>3, PTL DEF Spec

\* renew: whatever the renewals, a lock ends less than a second after its maximum
\* lifetime, or with its first term where that is longer.
THEOREM LifetimeIsBounded == Spec => []LifetimeBound
<1>1. Init => LockInv
  BY InitInv
<1>2. LockInv /\ [Next]_vars => LockInv'
  BY NextInv
<1>3. LockInv => LifetimeBound
  BY InvImplies
<1> QED
  BY <1>1, <1>2, <1>3, PTL DEF Spec

\* confirm and reconcile: Redis says CONFIRMED only after PostgreSQL does.
THEOREM CommitComesFirst == Spec => []ConfirmedAfterCommit
<1>1. Init => LockInv
  BY InitInv
<1>2. LockInv /\ [Next]_vars => LockInv'
  BY NextInv
<1>3. LockInv => ConfirmedAfterCommit
  BY InvImplies
<1> QED
  BY <1>1, <1>2, <1>3, PTL DEF Spec

\* The fence: a new token is larger than that of every lock still held, provided that
\* the configuration lets fences outlive locks.
THEOREM TokensAreFenced ==
  ASSUME FenceOutlives
  PROVE  Spec => TokensGrow
<1>1. Init => LockInv
  BY InitInv
<1>2. LockInv /\ [Next]_vars => LockInv'
  BY NextInv
<1>3. LockInv /\ [Next]_vars =>
        [\A l, m \in Locks : l # m /\ ~Held(l) /\ Held(l)' /\ Held(m) =>
            lock[m].token < lock'[l].token]_vars
  BY TokenStep
<1> QED
  BY <1>1, <1>2, <1>3, PTL DEF Spec, TokensGrow
=============================================================================
