------------------------------ MODULE Semaphore ------------------------------
(***************************************************************************)
(* Semaphores that limit concurrent sessions: SemaphoreLock of             *)
(* lib/services/semaphore.go in the processes that hold a lease, next to   *)
(* AcquireSemaphore, KeepAliveSemaphoreLease, CancelSemaphoreLease and     *)
(* DeleteSemaphore of lib/services/local/presence.go, which read the       *)
(* semaphore, change it and compare-and-swap it (api/types/semaphore.go).  *)
(*                                                                         *)
(* One semaphore.  A lock is one call of AcquireSemaphoreLock, with the    *)
(* lease identifier drawn for it.  A call is a handler in an auth server:  *)
(* it reads and writes in two steps, its answer can be lost, and it can go *)
(* on after its caller has given up on it.                                 *)
(***************************************************************************)
EXTENDS Naturals, FiniteSets

CONSTANTS
    Locks,          \* attempts to take the semaphore
    MaxLeases,      \* leases it allows
    Expiry,         \* how long a lease lasts
    TickRate,       \* how often a holder renews it
    CancelTimeout,  \* how long a holder waits for a cancellation
    Attempts,       \* times the server tries to acquire under contention
    MaxFaults,      \* bound: answers lost and semaphores deleted
    MaxTime         \* bound: the last instant of the clock

\* TickRate is Expiry / 2 wherever the configuration leaves it open.
ASSUME SemaphoreAssumption ==
    /\ IsFiniteSet(Locks)
    /\ MaxLeases \in Nat \ {0} /\ Attempts \in Nat \ {0}
    /\ Expiry \in Nat /\ TickRate \in Nat \ {0} /\ CancelTimeout \in Nat
    /\ TickRate < Expiry /\ Expiry <= 2 * TickRate
    /\ MaxFaults \in Nat /\ MaxTime \in Nat \ {0}

VARIABLES
    now,        \* the clock
    store,      \* the semaphore in the backend
    locks,      \* what each holder knows
    calls,      \* handlers at work
    revoked,    \* history: locks whose lease was deleted with the semaphore
    faults      \* faults so far

vars == <<now, store, locks, calls, revoked, faults>>

-----------------------------------------------------------------------------
\* The expiry of the item and of each lease; 0 is a lease that is not there.
Sem == [expires : Nat, leases : [Locks -> Nat]]
NoSem == [expires |-> 0, leases |-> [l \in Locks |-> 0]]

\* ticker: the next tick; tick: one that waits in the ticker's channel, or 0;
\* next: the expiry a renewal asks for.
Lock == [pc : {"idle", "acquiring", "held", "renewing", "dropping",
               "failed", "ended", "released"},
         lease : Nat, next : Nat, ticker : Nat, tick : Nat]

\* waited: the caller waits for the answer; deadline: of the caller's context;
\* old, new: what a handler that has read compares and swaps.
Call == [lock : Locks, op : {"acquire", "keepalive", "cancel"},
         expires : Nat, deadline : Nat, tries : 0..(Attempts - 1),
         waited : BOOLEAN, read : BOOLEAN, old : Sem, new : Sem]

TypeOK ==
    /\ now \in 0..MaxTime
    /\ store \in Sem
    /\ locks \in [Locks -> Lock]
    /\ calls \subseteq Call
    /\ revoked \subseteq Locks
    /\ faults \in 0..MaxFaults

Request(l, op, expires, deadline) ==
    [lock |-> l, op |-> op, expires |-> expires, deadline |-> deadline,
     tries |-> 0, waited |-> TRUE, read |-> FALSE, old |-> NoSem, new |-> NoSem]

Holding(sem) == {l \in Locks : sem.leases[l] > 0}

\* RemoveExpiredLeases.
Unexpired(sem) ==
    [sem EXCEPT !.leases = [l \in Locks |-> IF @[l] > now THEN @[l] ELSE 0]]

\* Acquire and KeepAlive set the lease and push the expiry of the item.
WithLease(sem, l, expires) ==
    [expires |-> IF expires > sem.expires THEN expires ELSE sem.expires,
     leases |-> [sem.leases EXCEPT ![l] = expires]]

\* Cancel.
WithoutLease(sem, l) == [sem EXCEPT !.leases[l] = 0]

SemaphoreInit ==
    /\ now = 1
    /\ store = NoSem
    /\ locks = [l \in Locks |-> [pc |-> "idle", lease |-> 0, next |-> 0,
                                 ticker |-> 0, tick |-> 0]]
    /\ calls = {}
    /\ revoked = {}
    /\ faults = 0

-----------------------------------------------------------------------------
\* The answer to a call, for whoever still waits for it.

\* AcquireSemaphoreLock starts the ticker when the lease is there.
AnswerAcquire(lock, c, result) ==
    IF result = "ok"
      THEN [lock EXCEPT !.pc = "held", !.lease = c.expires,
                        !.ticker = now + TickRate]
      ELSE [lock EXCEPT !.pc = "failed"]

\* KeepAlive stops if the lease is not found, and goes on trying after any
\* other error.
AnswerKeepAlive(lock, c, result) ==
    CASE result = "ok"       -> [lock EXCEPT !.pc = "held", !.lease = c.expires]
      [] result = "notfound" -> [lock EXCEPT !.pc = "ended"]
      [] result = "error"    -> lock

AnswerCancel(lock, result) ==
    [lock EXCEPT !.pc = IF result = "ok" THEN "released" ELSE "ended"]

Answered(c, result) ==
    IF ~c.waited THEN locks
    ELSE [locks EXCEPT ![c.lock] =
            CASE c.op = "acquire"   -> AnswerAcquire(@, c, result)
              [] c.op = "keepalive" -> AnswerKeepAlive(@, c, result)
              [] c.op = "cancel"    -> AnswerCancel(@, result)]

Finish(c, result) ==
    /\ calls' = calls \ {c}
    /\ locks' = Answered(c, result)

Proceed(c, d) ==
    /\ calls' = (calls \ {c}) \cup {d}
    /\ UNCHANGED locks

-----------------------------------------------------------------------------
\* The handlers.

\* Mutant: one lease more than allowed.
FullLate(sem) == Cardinality(Holding(sem)) > MaxLeases

\* Acquire: leaseCount against MaxLeases.
Full(sem) == Cardinality(Holding(sem)) >= MaxLeases

\* A request that arrives expired is refused; a retry is not checked again.
Refused(c) == c.tries = 0 /\ c.expires < now

ReadAcquire(c) ==
    LET sem == Unexpired(store)
    IN  /\ c.op = "acquire"
        /\ IF Refused(c) \/ Full(sem) THEN Finish(c, "error")
           ELSE Proceed(c, [c EXCEPT !.read = TRUE, !.old = store,
                              !.new = WithLease(sem, c.lock, c.expires)])

ReadKeepAlive(c) ==
    LET sem == Unexpired(store)
    IN  /\ c.op = "keepalive"
        /\ CASE c.expires < now -> Finish(c, "error")
             [] c.expires >= now /\ sem.leases[c.lock] = 0 -> Finish(c, "notfound")
             [] OTHER -> Proceed(c, [c EXCEPT !.read = TRUE, !.old = store,
                                       !.new = WithLease(sem, c.lock, c.expires)])

ReadCancel(c) ==
    /\ c.op = "cancel"
    /\ IF c.expires < now \/ store.leases[c.lock] = 0 THEN Finish(c, "error")
       ELSE Proceed(c, [c EXCEPT !.read = TRUE, !.old = store,
                          !.new = WithoutLease(store, c.lock)])

\* Get; a handler whose context is over gets nothing.
Read(c) ==
    /\ ~c.read /\ now < c.deadline
    /\ ReadAcquire(c) \/ ReadKeepAlive(c) \/ ReadCancel(c)
    /\ UNCHANGED <<now, store, revoked, faults>>

\* Mutant: the semaphore is put without a comparison.
WriteBlindly(c) ==
    /\ c.read
    /\ store' = c.new
    /\ Finish(c, "ok")
    /\ UNCHANGED <<now, revoked, faults>>

\* CompareAndSwap, or Create for a semaphore that was not found.
Write(c) ==
    /\ c.read /\ store = c.old
    /\ store' = c.new
    /\ Finish(c, "ok")
    /\ UNCHANGED <<now, revoked, faults>>

\* Only AcquireSemaphore tries again.
TriesAgain(c) == c.op = "acquire" /\ c.tries + 1 < Attempts

WriteFails(c) ==
    /\ c.read /\ store # c.old
    /\ IF TriesAgain(c)
         THEN Proceed(c, [Request(c.lock, c.op, c.expires, c.deadline)
                            EXCEPT !.tries = c.tries + 1, !.waited = c.waited])
         ELSE Finish(c, "error")
    /\ UNCHANGED <<now, store, revoked, faults>>

\* The context of the caller is over before the handler has read anything.
Expired(c) ==
    /\ ~c.read /\ now >= c.deadline
    /\ Finish(c, "error")
    /\ UNCHANGED <<now, store, revoked, faults>>

\* The caller gets an error while the handler goes on, or never started.
Lost(c) ==
    /\ c.waited /\ faults < MaxFaults
    /\ calls' \in {calls \ {c}, (calls \ {c}) \cup {[c EXCEPT !.waited = FALSE]}}
    /\ locks' = Answered(c, "error")
    /\ faults' = faults + 1
    /\ UNCHANGED <<now, store, revoked>>

-----------------------------------------------------------------------------
\* The holders.
Become(l, lock) == locks' = [locks EXCEPT ![l] = lock]

\* Nobody waits for a call of l any more; its handlers go on.
Orphaned(l) ==
    {IF c.lock = l THEN [c EXCEPT !.waited = FALSE] ELSE c : c \in calls}

Waits(l) == \E c \in calls : c.lock = l /\ c.waited

\* AcquireSemaphoreLock; the context of the connection has no deadline.
Acquire(l) ==
    /\ locks[l].pc = "idle"
    /\ Become(l, [locks[l] EXCEPT !.pc = "acquiring"])
    /\ calls' = calls \cup {Request(l, "acquire", now + Expiry, MaxTime + 1)}
    /\ UNCHANGED <<now, store, revoked, faults>>

\* Mutant: the renewal has no deadline.
Patient(lock) == MaxTime + 1

\* leaseContext: a renewal is over when the lease is.
LeaseDeadline(lock) == lock.lease

\* nextLease: from the time of the tick, which may have waited.
NextExpiry(lock) == lock.tick + Expiry

Renew(l) ==
    LET lock == locks[l]
    IN  /\ lock.pc = "held" /\ lock.tick # 0
        /\ Become(l, [lock EXCEPT !.pc = "renewing", !.tick = 0,
                                  !.next = NextExpiry(lock)])
        /\ calls' = calls \cup
             {Request(l, "keepalive", NextExpiry(lock), LeaseDeadline(lock))}
        /\ UNCHANGED <<now, store, revoked, faults>>

Retry(l) ==
    LET lock == locks[l]
    IN  /\ lock.pc = "renewing" /\ ~Waits(l) /\ now < lock.lease
        /\ calls' = calls \cup
             {Request(l, "keepalive", lock.next, LeaseDeadline(lock))}
        /\ UNCHANGED <<now, store, locks, revoked, faults>>

\* Mutant: the holder waits for the expiry it has asked for.
GiveUpLate(l) ==
    LET lock == locks[l]
    IN  /\ lock.pc = "renewing" /\ ~Waits(l) /\ now >= lock.next
        /\ Become(l, [lock EXCEPT !.pc = "ended"])
        /\ UNCHANGED <<now, store, calls, revoked, faults>>

\* leaseContext.Done: the lease has run out, there is nothing to cancel.
GiveUp(l) ==
    LET lock == locks[l]
    IN  /\ lock.pc = "renewing" /\ ~Waits(l) /\ now >= lock.lease
        /\ Become(l, [lock EXCEPT !.pc = "ended"])
        /\ UNCHANGED <<now, store, calls, revoked, faults>>

\* The connection is over, or Stop was called.
Release(l) ==
    LET lock == locks[l]
        cancel == Request(l, "cancel", lock.lease, now + CancelTimeout)
    IN  /\ lock.pc \in {"held", "renewing"}
        /\ IF now < lock.lease
             THEN /\ Become(l, [lock EXCEPT !.pc = "dropping"])
                  /\ calls' = Orphaned(l) \cup {cancel}
             ELSE /\ Become(l, [lock EXCEPT !.pc = "ended"])
                  /\ calls' = Orphaned(l)
        /\ UNCHANGED <<now, store, revoked, faults>>

-----------------------------------------------------------------------------
\* time.Ticker: one tick waits in its channel, further ones are dropped.
Ticked(lock, t) ==
    IF lock.pc \in {"held", "renewing"} /\ lock.ticker = t
      THEN [lock EXCEPT !.ticker = t + TickRate, !.tick = IF @ = 0 THEN t ELSE @]
      ELSE lock

Tick ==
    /\ now < MaxTime
    /\ now' = now + 1
    /\ locks' = [l \in Locks |-> Ticked(locks[l], now + 1)]
    /\ UNCHANGED <<store, calls, revoked, faults>>

\* The backend removes an expired item, sooner or later.
ExpireItem ==
    /\ store # NoSem /\ store.expires <= now
    /\ store' = NoSem
    /\ UNCHANGED <<now, locks, calls, revoked, faults>>

\* DeleteSemaphore.
Delete ==
    /\ store # NoSem /\ faults < MaxFaults
    /\ store' = NoSem
    /\ revoked' = revoked \cup Holding(store)
    /\ faults' = faults + 1
    /\ UNCHANGED <<now, locks, calls>>

Handler(c) == Read(c) \/ Write(c) \/ WriteFails(c) \/ Expired(c)
Holder(l) == Renew(l) \/ Retry(l) \/ GiveUp(l)

SemaphoreNext ==
    \/ \E c \in calls : Handler(c) \/ Lost(c)
    \/ \E l \in Locks : Acquire(l) \/ Holder(l) \/ Release(l)
    \/ Tick \/ ExpireItem \/ Delete

SemaphoreSpec == SemaphoreInit /\ [][SemaphoreNext]_vars

\* Handlers and holders go on and the clock runs; nobody is obliged to start
\* or to release a lock.
SemaphoreFairness ==
    /\ WF_vars(\E c \in calls : Handler(c))
    /\ \A l \in Locks : WF_vars(Holder(l))
    /\ WF_vars(Tick)

FairSemaphoreSpec == SemaphoreSpec /\ SemaphoreFairness

-----------------------------------------------------------------------------
\* The session of the lock goes on: its lease has not run out for the holder.
Live(l) == locks[l].pc \in {"held", "renewing"} /\ now < locks[l].lease

\* A lease lasts in the backend for as long as its holder believes, whatever
\* handlers of earlier renewals, of other holders or of the backend's own
\* expiry do meanwhile.
LeaseCovered ==
    \A l \in Locks :
        Live(l) /\ l \notin revoked => store.leases[l] >= locks[l].lease

\* What a semaphore is for: there are never more sessions than leases, but
\* for those whose semaphore an administrator has deleted.
BoundedHolders ==
    Cardinality({l \in Locks : Live(l) /\ l \notin revoked}) <= MaxLeases

\* A lease that was cancelled, or deleted with its semaphore, does not come
\* back: a renewal on its way loses against the cancellation, and the next one
\* does not find it, so that the session ends.
GoneStays ==
    \A l \in Locks :
        locks[l].pc = "released" \/ l \in revoked => store.leases[l] = 0

\* Nobody hangs: an attempt ends, a renewal succeeds or the lock is given up,
\* and whoever waits for the release (Wait) is woken.
NoneStuck ==
    \A l \in Locks :
        locks[l].pc \in {"acquiring", "renewing", "dropping"}
            ~> locks[l].pc \in {"held", "failed", "ended", "released"}
=============================================================================
