--------------------------- MODULE InventoryLock ---------------------------
(* The Redis inventory-lock engine (apps/api/src/inventory/locking) for one *)
(* inventory scope: atomic Lua scripts over keys with a time to live, the   *)
(* service that reads a lock, decides and calls a script later, the         *)
(* confirmation seam around the PostgreSQL commit and the reconciliation.   *)
(*                                                                          *)
(* The clock counts fractions of a second, as the service's counts          *)
(* milliseconds. A script is one action; everything a caller did            *)
(* before its EVAL (a GET, a clock reading) is an earlier action, so a call *)
(* may act on what is no longer true. A lock id is a fresh UUID: an element *)
(* of Locks serves one acquire call. A request with no seats is a QUANTITY  *)
(* request for one unit. Only callers that present their own token and      *)
(* owner are modelled: any other call writes nothing. The sorted set and    *)
(* the hash live FenceTtl from the last acquire, longer than every member   *)
(* if FenceOutlives, so their own time to live is not kept. The per-owner   *)
(* index that caps one customer's locks is left out.                        *)
EXTENDS Integers, FiniteSets

CONSTANTS Locks,      \* lock ids
          Seats,      \* seat ids of the scope
          Keys,       \* idempotency keys callers use
          Calls,      \* service calls in flight
          Capacity,   \* capacity snapshot of QUANTITY requests
          Second,     \* ticks of the clock in a second
          Ttl,        \* INVENTORY_LOCK_TTL_SECONDS, in ticks like all that follow
          Window,     \* INVENTORY_LOCK_RENEWAL_WINDOW_SECONDS
          MaxLife,    \* INVENTORY_LOCK_MAX_LIFETIME_SECONDS
          Tombstone,  \* life of a lock key after its release
          Lag,        \* bound: from a caller's clock reading to its EVAL
          MaxNow,     \* bound: the clock
          NoLock, NoKey

ASSUME TimesAssumption ==
    /\ Second \in Nat \ {0} /\ Ttl \in Nat /\ Second <= Ttl
    /\ MaxLife \in Nat /\ Lag \in Nat
    /\ Window \in Nat /\ Tombstone \in Nat \ {0}
    /\ Capacity \in Nat /\ MaxNow \in Nat
ASSUME NamesAssumption ==
    NoLock \notin Locks /\ NoKey \notin Keys /\ IsFiniteSet(Locks)

VARIABLES
    now,      \* the clock of Redis and of the service
    req,      \* req[l]: the request lock id l was minted for
    lock,     \* lock[l]: the lock key, gone from `until` on
    seat,     \* seat[s]: the seat key and the lock that owns it
    idem,     \* idem[k]: the idempotency key
    score,    \* score[l]: expiry of member l of the sorted set, -1: none
    hash,     \* members of the hash lockId -> quantity
    fence,    \* the fencing counter
    call,     \* call[c]: what call c does next
    booking   \* booking[l]: PostgreSQL's booking of lock l

vars == <<now, req, lock, seat, idem, score, hash, fence, call, booking>>

Unasked == [key |-> NoKey, seats |-> {}]
Gone == [st |-> "GONE", until |-> 0, exp |-> 0, acq |-> 0, token |-> 0]
Free == [by |-> NoLock, until |-> 0]
Idle == [op |-> "idle", lock |-> NoLock, at |-> 0, ttl |-> 0, final |-> "ACTIVE"]

\* A Redis key exists until its time to live has run out.
Live(entry) == now < entry.until

\* A lock the engine treats as held.
Held(l) == Live(lock[l]) /\ lock[l].st = "ACTIVE"

\* Mutant: the fence lives no longer than a lock that is not renewed.
FenceTtlOfLock == Ttl

\* The fence is given four times the life of a lock.
FenceTtl == 4 * MaxLife

\* The longest life of a lock: its first term, or what renewals stretch to, less
\* than a second past the cap.
Longest == IF MaxLife + Second - 1 < Ttl THEN Ttl ELSE MaxLife + Second - 1

\* The fence outlives every lock; so with the defaults, but the configuration does
\* not demand it.
FenceOutlives == Longest + Lag < FenceTtl

Init ==
    /\ now = 0
    /\ req = [l \in Locks |-> Unasked]
    /\ lock = [l \in Locks |-> Gone]
    /\ seat = [s \in Seats |-> Free]
    /\ idem = [k \in Keys |-> [until |-> 0]]
    /\ score = [l \in Locks |-> -1]
    /\ hash = {}
    /\ fence = [n |-> 0, until |-> 0]
    /\ call = [c \in Calls |-> Idle]
    /\ booking = [l \in Locks |-> "PENDING"]

\* Call c sends a script with its clock reading and a time to live.
Send(c, op, l, ttl) ==
    call' = [call EXCEPT ![c] = [Idle EXCEPT !.op = op, !.lock = l, !.at = now, !.ttl = ttl]]

\* Call c goes on with op; final is the status a release writes.
Then(c, op, l, final) ==
    call' = [call EXCEPT ![c] = [Idle EXCEPT !.op = op, !.lock = l, !.final = final]]

Return(c) == call' = [call EXCEPT ![c] = Idle]

At(c, op) == call[c].op = op

-----------------------------------------------------------------------------
(* Acquire. *)

AcquireSend(c, l, k, S) ==
    /\ At(c, "idle") /\ req[l] = Unasked
    /\ req' = [req EXCEPT ![l] = [key |-> k, seats |-> S]]
    /\ Send(c, "acquire", l, Ttl)
    /\ UNCHANGED <<now, lock, seat, idem, score, hash, fence, booking>>

\* REPLAY or IDEMPOTENCY_CONFLICT: the key is known, nothing is written.
Replayed(c) == Live(idem[req[call[c].lock].key])

AcquireReplayed(c) ==
    /\ At(c, "acquire") /\ Replayed(c)
    /\ Return(c)
    /\ UNCHANGED <<now, req, lock, seat, idem, score, hash, fence, booking>>

\* The fence is incremented, the lock and its idempotency record written.
Grant(c) ==
    LET l == call[c].lock
        n == IF Live(fence) THEN fence.n + 1 ELSE 1
    IN  /\ fence' = [n |-> n, until |-> now + FenceTtl]
        /\ lock' = [lock EXCEPT ![l] =
                      [st |-> "ACTIVE", until |-> now + Ttl,
                       exp |-> call[c].at + Ttl, acq |-> call[c].at, token |-> n]]
        /\ idem' = [idem EXCEPT ![req[l].key].until = now + Ttl]
        /\ Return(c)

SeatTaken(c, s) == Live(seat[s]) /\ seat[s].by # call[c].lock

AcquireSeats(c) ==
    LET l == call[c].lock
    IN  /\ At(c, "acquire") /\ req[l].seats # {} /\ ~Replayed(c)
        /\ \A s \in req[l].seats : ~SeatTaken(c, s)
        /\ Grant(c)
        /\ seat' = [s \in Seats |-> IF s \in req[l].seats
                                    THEN [by |-> l, until |-> now + Ttl]
                                    ELSE seat[s]]
        /\ UNCHANGED <<now, req, score, hash, booking>>

AcquireConflict(c) ==
    /\ At(c, "acquire") /\ ~Replayed(c)
    /\ \E s \in req[call[c].lock].seats : SeatTaken(c, s)
    /\ Return(c)
    /\ UNCHANGED <<now, req, lock, seat, idem, score, hash, fence, booking>>

\* Members whose expiry is before the caller's clock reading are dropped.
Lapsed(c) == {m \in Locks : score[m] >= 0 /\ score[m] < call[c].at}

AcquireQuantity(c) ==
    LET l == call[c].lock
    IN  /\ At(c, "acquire") /\ req[l].seats = {} /\ ~Replayed(c)
        /\ Cardinality(hash \ Lapsed(c)) + 1 <= Capacity
        /\ Grant(c)
        /\ score' = [m \in Locks |-> IF m = l THEN call[c].at + Ttl
                                     ELSE IF m \in Lapsed(c) THEN -1 ELSE score[m]]
        /\ hash' = (hash \ Lapsed(c)) \union {l}
        /\ UNCHANGED <<now, req, seat, booking>>

\* CAPACITY is answered after the purge.
AcquireFull(c) ==
    /\ At(c, "acquire") /\ req[call[c].lock].seats = {} /\ ~Replayed(c)
    /\ Cardinality(hash \ Lapsed(c)) + 1 > Capacity
    /\ Return(c)
    /\ score' = [m \in Locks |-> IF m \in Lapsed(c) THEN -1 ELSE score[m]]
    /\ hash' = hash \ Lapsed(c)
    /\ UNCHANGED <<now, req, lock, seat, idem, fence, booking>>

-----------------------------------------------------------------------------
(* Renew. *)

\* Math.floor(d / 1000) seconds.
WholeSeconds(d) == d - (d % Second)

\* The service reads the lock and the clock, and grants the whole seconds that are
\* left of the lock's lifetime, but at least one second.
GrantedTtl(l) ==
    LET left == WholeSeconds(lock[l].acq + MaxLife - now)
    IN  IF left < Second THEN Second ELSE IF left < Ttl THEN left ELSE Ttl

\* Mutant: a renewal does not look at the lock's age.
RenewReadUncapped(c, l) ==
    /\ At(c, "idle") /\ Held(l)
    /\ lock[l].exp - now <= Window
    /\ Send(c, "renew", l, GrantedTtl(l))
    /\ UNCHANGED <<now, req, lock, seat, idem, score, hash, fence, booking>>

RenewRead(c, l) ==
    /\ At(c, "idle") /\ Held(l)
    /\ now - lock[l].acq < MaxLife
    /\ lock[l].exp - now <= Window
    /\ Send(c, "renew", l, GrantedTtl(l))
    /\ UNCHANGED <<now, req, lock, seat, idem, score, hash, fence, booking>>

\* EXPIRE touches a seat key that exists, whoever owns it.
SeatsRenewed(c) ==
    seat' = [s \in Seats |->
               IF s \in req[call[c].lock].seats /\ Live(seat[s])
               THEN [seat[s] EXCEPT !.until = now + call[c].ttl]
               ELSE seat[s]]

RenewExec(c) ==
    LET l == call[c].lock
    IN  /\ At(c, "renew") /\ Held(l)
        /\ lock' = [lock EXCEPT ![l] = [lock[l] EXCEPT !.exp = call[c].at + call[c].ttl,
                                                      !.until = now + call[c].ttl]]
        /\ SeatsRenewed(c)
        /\ score' = IF req[l].seats = {}
                    THEN [score EXCEPT ![l] = call[c].at + call[c].ttl]
                    ELSE score
        /\ Return(c)
        /\ UNCHANGED <<now, req, idem, hash, fence, booking>>

RenewRejected(c) ==
    /\ At(c, "renew") /\ ~Held(call[c].lock)
    /\ Return(c)
    /\ UNCHANGED <<now, req, lock, seat, idem, score, hash, fence, booking>>

-----------------------------------------------------------------------------
(* Release, by the customer or by an internal caller; confirm and the *)
(* reconciliation end in the same script with another final status.   *)

ReleaseRead(c, l) ==
    /\ At(c, "idle") /\ Live(lock[l])
    /\ Then(c, "release", l, "RELEASED")
    /\ UNCHANGED <<now, req, lock, seat, idem, score, hash, fence, booking>>

\* Mutant: the lock's seat keys are deleted whoever owns them.
SeatsFreedBlindly(l) ==
    seat' = [s \in Seats |->
               IF s \in req[l].seats THEN Free ELSE seat[s]]

\* Only seat keys this lock still owns are deleted.
SeatsFreed(l) ==
    seat' = [s \in Seats |->
               IF s \in req[l].seats /\ seat[s].by = l
               THEN Free
               ELSE seat[s]]

ReleaseExec(c) ==
    LET l == call[c].lock
    IN  /\ At(c, "release")
        /\ SeatsFreed(l)
        /\ score' = [score EXCEPT ![l] = -1]
        /\ hash' = hash \ {l}
        /\ lock' = IF Live(lock[l])
                   THEN [lock EXCEPT ![l] = [lock[l] EXCEPT !.st = call[c].final,
                                                            !.until = now + Tombstone]]
                   ELSE lock
        /\ Return(c)
        /\ UNCHANGED <<now, req, idem, fence, booking>>

-----------------------------------------------------------------------------
(* Confirm: validate, commit in PostgreSQL, then mark the lock. *)

\* Mutant: the lock is marked before the PostgreSQL transaction.
ConfirmMarksFirst(c, l) ==
    /\ At(c, "idle") /\ Held(l) /\ now < lock[l].exp
    /\ Then(c, "release", l, "CONFIRMED")
    /\ UNCHANGED <<now, req, lock, seat, idem, score, hash, fence, booking>>

ConfirmValidate(c, l) ==
    /\ At(c, "idle") /\ Held(l) /\ now < lock[l].exp
    /\ Then(c, "work", l, "ACTIVE")
    /\ UNCHANGED <<now, req, lock, seat, idem, score, hash, fence, booking>>

WorkCommits(c) ==
    LET l == call[c].lock
    IN  /\ At(c, "work") /\ booking[l] = "PENDING"
        /\ booking' = [booking EXCEPT ![l] = "CONFIRMED"]
        /\ Then(c, "release", l, "CONFIRMED")
        /\ UNCHANGED <<now, req, lock, seat, idem, score, hash, fence>>

WorkFails(c) ==
    /\ At(c, "work")
    /\ Return(c)
    /\ UNCHANGED <<now, req, lock, seat, idem, score, hash, fence, booking>>

-----------------------------------------------------------------------------
(* Reconcile: the scan reads a lock, its booking is read later. *)

ReconcileRead(c, l) ==
    /\ At(c, "idle") /\ Held(l)
    /\ Then(c, "classify", l, "ACTIVE")
    /\ UNCHANGED <<now, req, lock, seat, idem, score, hash, fence, booking>>

Classify(c) ==
    LET l == call[c].lock
    IN  /\ At(c, "classify")
        /\ \/ booking[l] = "PENDING" /\ Return(c)
           \/ booking[l] = "EXPIRED" /\ Then(c, "release", l, "EXPIRED")
           \/ booking[l] = "CONFIRMED" /\ Then(c, "release", l, "CONFIRMED")
        /\ UNCHANGED <<now, req, lock, seat, idem, score, hash, fence, booking>>

-----------------------------------------------------------------------------
(* The environment. *)

\* Redis or the database is unavailable to a call, or its process dies.
Lost(c) ==
    /\ call[c].op \in {"acquire", "renew", "release", "classify"}
    /\ Return(c)
    /\ UNCHANGED <<now, req, lock, seat, idem, score, hash, fence, booking>>

\* PostgreSQL's sweep expires the booking, or its customer cancels it.
BookingEnds(l) ==
    /\ booking[l] = "PENDING" /\ req[l] # Unasked
    /\ booking' = [booking EXCEPT ![l] = "EXPIRED"]
    /\ UNCHANGED <<now, req, lock, seat, idem, score, hash, fence, call>>

\* Time passes: keys whose time to live has run out are gone. A script that
\* was sent reaches Redis within Lag.
Tick ==
    /\ now < MaxNow
    /\ \A c \in Calls : call[c].op \in {"acquire", "renew"} => now < call[c].at + Lag
    /\ now' = now + 1
    /\ lock' = [l \in Locks |-> IF lock[l].until <= now + 1 THEN Gone ELSE lock[l]]
    /\ seat' = [s \in Seats |-> IF seat[s].until <= now + 1 THEN Free ELSE seat[s]]
    /\ idem' = [k \in Keys |-> IF idem[k].until <= now + 1 THEN [until |-> 0] ELSE idem[k]]
    /\ fence' = IF fence.until <= now + 1 THEN [n |-> 0, until |-> 0] ELSE fence
    /\ UNCHANGED <<req, score, hash, call, booking>>

Next ==
    \/ \E c \in Calls :
         \/ \E l \in Locks :
              \/ \E k \in Keys, S \in SUBSET Seats : AcquireSend(c, l, k, S)
              \/ RenewRead(c, l)
              \/ ReleaseRead(c, l)
              \/ ConfirmValidate(c, l)
              \/ ReconcileRead(c, l)
         \/ AcquireReplayed(c) \/ AcquireSeats(c) \/ AcquireConflict(c)
         \/ AcquireQuantity(c) \/ AcquireFull(c)
         \/ RenewExec(c) \/ RenewRejected(c)
         \/ ReleaseExec(c)
         \/ WorkCommits(c) \/ WorkFails(c)
         \/ Classify(c)
         \/ Lost(c)
    \/ \E l \in Locks : BookingEnds(l)
    \/ Tick

Spec == Init /\ [][Next]_vars

-----------------------------------------------------------------------------
(* Properties. *)

TypeOK ==
    /\ now \in Nat
    /\ req \in [Locks -> [key : Keys \union {NoKey}, seats : SUBSET Seats]]
    /\ lock \in [Locks -> [st : {"GONE", "ACTIVE", "RELEASED", "EXPIRED", "CONFIRMED"},
                           until : Nat, exp : Nat, acq : Nat, token : Nat]]
    /\ seat \in [Seats -> [by : Locks \union {NoLock}, until : Nat]]
    /\ idem \in [Keys -> [until : Nat]]
    /\ score \in [Locks -> Int]
    /\ hash \in SUBSET Locks
    /\ fence \in [n : Nat, until : Nat]
    /\ call \in [Calls -> [op : {"idle", "acquire", "renew", "release", "work",
                                 "classify"},
                           lock : Locks \union {NoLock}, at : Nat, ttl : Nat,
                           final : {"ACTIVE", "RELEASED", "EXPIRED", "CONFIRMED"}]]
    /\ booking \in [Locks -> {"PENDING", "EXPIRED", "CONFIRMED"}]

\* SEAT_RENEW and SEAT_RELEASE: as long as a lock is held its seat keys exist
\* and name it, although a renewal or a release of a lock that lapsed in the
\* meantime may reach seats another lock has taken.
SeatsHeld ==
    \A l \in Locks : Held(l) =>
        \A s \in req[l].seats : Live(seat[s]) /\ seat[s].by = l

\* SEAT_ACQUIRE, SEAT_RENEW and SEAT_RELEASE together: two locks the engine
\* treats as held never cover the same seat, whatever late renewals and late
\* releases of lapsed locks still arrive.
SeatExclusive ==
    \A l, m \in Locks :
        l # m /\ Held(l) /\ Held(m) => req[l].seats \intersect req[m].seats = {}

\* The fencing counter: a lock granted now carries a larger token than every
\* lock that is still held, however often that one was renewed and whether or
\* not the counter itself lapsed in between.
TokensGrow ==
    [][\A l, m \in Locks :
          l # m /\ ~Held(l) /\ Held(l)' /\ Held(m) => lock[m].token < lock'[l].token]_vars

\* renew: no sequence of renewals carries a lock a second or more past its maximum
\* lifetime, counted from the first acquisition, or past its first term where that
\* is longer, up to the delay of one script. "Hard cap on total lock lifetime"
\* (configuration.ts) holds but for that last second.
LifetimeBound ==
    \A l \in Locks : Held(l) => now < lock[l].acq + Longest + Lag

\* The cap as configuration.ts words it, for a lock that was renewed in time.
HardCap == \A l \in Locks : Held(l) => now < lock[l].acq + MaxLife + Lag

\* confirm and the reconciliation: a lock reads CONFIRMED only after its
\* booking was confirmed in PostgreSQL, whichever of them marks it.
ConfirmedAfterCommit ==
    \A l \in Locks : lock[l].st = "CONFIRMED" => booking[l] = "CONFIRMED"

\* QUANTITY_ACQUIRE: the locks that validate accepts never jointly exceed the
\* capacity.
QuantityBounded ==
    Cardinality({l \in Locks : Held(l) /\ now < lock[l].exp /\ req[l].key # NoKey
                                /\ req[l].seats = {}}) <= Capacity
=============================================================================
