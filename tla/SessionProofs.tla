---------------------------- MODULE SessionProofs ---------------------------
(***************************************************************************)
(* What decides whether a session may be open, in two parts that share no  *)
(* state.                                                                  *)
(*                                                                         *)
(* What the semaphores of lib/services/semaphore.go and                    *)
(* lib/services/local/presence.go guarantee for every set of locks, every  *)
(* number of leases, every expiry with a tick rate of at least half of it, *)
(* and every number of faults.                                             *)
(*                                                                         *)
(* What lib/services/watcher.go and lib/srv/monitor.go guarantee of the    *)
(* locks that end a session, for every set of locks and sessions, every    *)
(* length of the queues and of the waits, and every number of writes and   *)
(* outages.                                                                *)
(***************************************************************************)
EXTENDS Semaphore, LockWatcher, FiniteSetTheorems, WellFoundedInduction, TLAPS

-----------------------------------------------------------------------------
\* The semaphores.

Active(l) == locks[l].pc \in {"held", "renewing"}

\* The expiry that a holder has or has asked for.
Target(l) == IF locks[l].pc = "renewing" THEN locks[l].next ELSE locks[l].lease

\* Renewals are a TickRate apart.
Spaced(l) ==
    Active(l) =>
        /\ locks[l].ticker + Expiry >= Target(l) + TickRate
        /\ locks[l].tick # 0 =>
             /\ locks[l].tick + Expiry >= Target(l) + TickRate
             /\ locks[l].ticker >= locks[l].tick + TickRate
             /\ locks[l].tick <= now
        /\ locks[l].pc = "renewing" => locks[l].next >= locks[l].lease + TickRate
        /\ store.leases[l] <= Target(l)

\* A lock has no lease before it asks for one.
Fresh(l) ==
    /\ locks[l].pc = "idle" => store.leases[l] = 0 /\ l \notin revoked
    /\ locks[l].pc \in {"idle", "acquiring"} => locks[l].tick = 0

StoreInv ==
    /\ \A l \in Locks : store.leases[l] <= store.expires
    /\ Cardinality(Holding(store)) <= MaxLeases

\* Who may still have calls of which kind, and who waits for them.
Phased(c) ==
    /\ c.op = "acquire" =>
         /\ locks[c.lock].pc \in {"acquiring", "failed"}
         /\ store.leases[c.lock] = 0 /\ c.lock \notin revoked
         /\ c.expires <= now + Expiry
    /\ c.op = "keepalive" =>
         locks[c.lock].pc \in {"held", "renewing", "dropping", "ended", "released"}
    /\ c.op = "cancel" => locks[c.lock].pc \in {"dropping", "ended", "released"}
    /\ c.waited =>
         /\ c.op = "acquire" => locks[c.lock].pc = "acquiring"
         /\ c.op = "keepalive" => locks[c.lock].pc = "renewing"
         /\ c.op = "cancel" => locks[c.lock].pc = "dropping"

\* A renewal that has not been read belongs to the last tick, or it is late.
Timely(c) ==
    c.op = "keepalive" /\ Active(c.lock) =>
        /\ c.expires <= Target(c.lock)
        /\ c.waited => c.expires = locks[c.lock].next
        /\ ~c.read =>
             \/ c.deadline <= now
             \/ /\ c.expires = Target(c.lock)
                /\ IF locks[c.lock].pc = "renewing"
                     THEN c.deadline <= locks[c.lock].lease
                     ELSE c.deadline + TickRate <= locks[c.lock].lease
        /\ c.read => c.old.leases[c.lock] <= c.expires

\* What a handler that has read is going to write.
Prepared(c) ==
    c.read =>
        /\ \A l \in Locks \ {c.lock} :
             \/ c.new.leases[l] = c.old.leases[l]
             \/ c.new.leases[l] = 0 /\ c.old.leases[l] <= now
        /\ \A l \in Locks : c.new.leases[l] <= c.new.expires
        /\ c.op \in {"acquire", "keepalive"} => c.new.leases[c.lock] = c.expires
        /\ c.op = "cancel" => c.new.leases[c.lock] = 0
        /\ c.op \in {"keepalive", "cancel"} =>
             c.old.leases[c.lock] > 0 /\ Holding(c.new) \subseteq Holding(c.old)
        /\ c.op = "acquire" => Cardinality(Holding(c.new)) <= MaxLeases

Alone ==
    \A c, d \in calls :
        c.lock = d.lock /\ (c.op = "acquire" \/ (c.waited /\ d.waited)) => c = d

IInv ==
    /\ TypeOK /\ StoreInv /\ LeaseCovered /\ GoneStays /\ Alone
    /\ \A l \in Locks : Spaced(l) /\ Fresh(l)
    /\ \A c \in calls : Phased(c) /\ Timely(c) /\ Prepared(c)

-----------------------------------------------------------------------------
\* What the assumption says of the constants.
LEMMA Bounds ==
    /\ MaxLeases \in Nat /\ MaxLeases >= 1 /\ Attempts \in Nat /\ Attempts >= 1
    /\ Expiry \in Nat /\ Expiry >= 1 /\ TickRate \in Nat /\ CancelTimeout \in Nat
    /\ Expiry <= 2 * TickRate /\ MaxFaults \in Nat /\ MaxTime \in Nat /\ MaxTime >= 1
BY SemaphoreAssumption

\* A semaphore without leases is one.
LEMMA NoSemType == NoSem \in Sem
BY DEF NoSem, Sem

\* A request to a handler is a call.
LEMMA RequestType ==
    ASSUME NEW l \in Locks, NEW op \in {"acquire", "keepalive", "cancel"},
           NEW e \in Nat, NEW d \in Nat
    PROVE  Request(l, op, e, d) \in Call
BY NoSemType, Bounds DEF Request, Call

\* Adding and removing leases makes a semaphore.
LEMMA WithLeaseType ==
    ASSUME NEW sem \in Sem, NEW l \in Locks, NEW e \in Nat
    PROVE  /\ WithLease(sem, l, e) \in Sem
           /\ WithoutLease(sem, l) \in Sem
           /\ Unexpired(sem) \in Sem
BY DEF WithLease, WithoutLease, Unexpired, Sem

\* The holders of a lease are finitely many, and no more if some are dropped.
LEMMA HoldingFinite ==
    ASSUME NEW sem, NEW other, Holding(other) \subseteq Holding(sem)
    PROVE  /\ IsFiniteSet(Holding(sem)) /\ Cardinality(Holding(sem)) \in Nat
           /\ Cardinality(Holding(other)) <= Cardinality(Holding(sem))
<1>1. IsFiniteSet(Holding(sem))
  BY FS_Subset, SemaphoreAssumption DEF Holding
<1> QED BY <1>1, FS_Subset, FS_CardinalityType

\* An answer leaves a lock of its type and the other locks alone.
LEMMA AnswerType ==
    ASSUME TypeOK, NEW c \in calls, NEW result \in {"ok", "error", "notfound"}
    PROVE  Answered(c, result) \in [Locks -> Lock]
<1> DEFINE k == locks[c.lock]
<1>1. /\ c \in Call /\ c.lock \in Locks /\ c.expires \in Nat
      /\ now + TickRate \in Nat /\ k \in Lock
  BY Bounds DEF TypeOK, Call
<1>2. AnswerAcquire(k, c, result) \in Lock
  <2>1. CASE result = "ok"
    BY <2>1, <1>1 DEF Lock, AnswerAcquire
  <2>2. CASE result # "ok"
    BY <2>2, <1>1 DEF Lock, AnswerAcquire
  <2> QED BY <2>1, <2>2
<1>3. AnswerKeepAlive(k, c, result) \in Lock
  BY <1>1 DEF Lock, AnswerKeepAlive
<1>4. AnswerCancel(k, result) \in Lock
  BY <1>1 DEF Lock, AnswerCancel
<1>5. c.op \in {"acquire", "keepalive", "cancel"}
  BY <1>1 DEF Call
<1> QED BY <1>1, <1>2, <1>3, <1>4, <1>5 DEF Answered, TypeOK

\* A handler that answers changes the holder and the calls only.
LEMMA FinishType ==
    ASSUME TypeOK, NEW c \in calls, NEW result \in {"ok", "error", "notfound"},
           Finish(c, result)
    PROVE  locks' \in [Locks -> Lock] /\ calls' \subseteq Call
BY AnswerType DEF TypeOK, Finish

LEMMA ProceedType ==
    ASSUME TypeOK, NEW c \in calls, NEW d \in Call, Proceed(c, d)
    PROVE  locks' \in [Locks -> Lock] /\ calls' \subseteq Call
BY DEF TypeOK, Proceed

\* The call of a handler that has read.
LEMMA ReadType ==
    ASSUME TypeOK, NEW c \in calls, NEW new \in Sem
    PROVE  [c EXCEPT !.read = TRUE, !.old = store, !.new = new] \in Call
BY DEF TypeOK, Call

\* Type correctness, step by step.
LEMMA ReadKeepsType ==
    ASSUME TypeOK, NEW c \in calls, Read(c)
    PROVE  TypeOK'
<1> DEFINE sem == Unexpired(store)
<1>1. c \in Call /\ c.lock \in Locks /\ c.expires \in Nat /\ store \in Sem
  BY DEF TypeOK, Call
<1>2. /\ sem \in Sem /\ WithLease(sem, c.lock, c.expires) \in Sem
      /\ WithoutLease(store, c.lock) \in Sem
  BY <1>1, WithLeaseType
<1>3. locks' \in [Locks -> Lock] /\ calls' \subseteq Call
  <2>1. CASE ReadAcquire(c)
    BY <2>1, <1>2, ReadType, ProceedType, FinishType DEF ReadAcquire
  <2>2. CASE ReadKeepAlive(c)
    BY <2>2, <1>2, ReadType, ProceedType, FinishType DEF ReadKeepAlive
  <2>3. CASE ReadCancel(c)
    BY <2>3, <1>2, ReadType, ProceedType, FinishType DEF ReadCancel
  <2> QED BY <2>1, <2>2, <2>3 DEF Read
<1> QED BY <1>3 DEF Read, TypeOK

LEMMA HandlerKeepsType ==
    ASSUME TypeOK, NEW c \in calls, Handler(c) \/ Lost(c)
    PROVE  TypeOK'
<1>1. CASE Read(c)
  BY <1>1, ReadKeepsType
<1>2. CASE Write(c)
  <2>1. c \in Call
    BY DEF TypeOK
  <2>2. c.new \in Sem
    BY <2>1 DEF Call
  <2> QED BY <1>2, <2>2, FinishType DEF Write, TypeOK
<1>3. CASE WriteFails(c)
  <2>1. CASE c.op = "acquire" /\ c.tries + 1 < Attempts
    <3> DEFINE e == Request(c.lock, c.op, c.expires, c.deadline)
               d == [e EXCEPT !.tries = c.tries + 1, !.waited = c.waited]
    <3>1. d \in Call
      <4>1. c \in Call
        BY DEF TypeOK
      <4>2. c.tries + 1 \in 0..(Attempts - 1) /\ c.waited \in BOOLEAN
        BY <4>1, <2>1, Bounds DEF Call
      <4>3. e \in Call
        BY <4>1, RequestType DEF Call
      <4> HIDE DEF e
      <4> QED BY <4>2, <4>3 DEF Call
    <3>2. Proceed(c, d)
      BY <1>3, <2>1 DEF WriteFails, TriesAgain
    <3> QED BY <1>3, <3>1, <3>2, ProceedType DEF WriteFails, TriesAgain, TypeOK
  <2>2. CASE ~(c.op = "acquire" /\ c.tries + 1 < Attempts)
    BY <1>3, <2>2, FinishType DEF WriteFails, TriesAgain, TypeOK
  <2> QED BY <2>1, <2>2
<1>4. CASE Expired(c)
  BY <1>4, FinishType DEF Expired, TypeOK
<1>5. CASE Lost(c)
  <2>1. [c EXCEPT !.waited = FALSE] \in Call
    BY DEF TypeOK, Call
  <2>2. locks' \in [Locks -> Lock]
    BY <1>5, AnswerType DEF Lost
  <2>3. calls' \subseteq Call
    BY <1>5, <2>1 DEF Lost, TypeOK
  <2>4. faults' \in 0..MaxFaults
    BY <1>5, Bounds DEF Lost, TypeOK
  <2> QED BY <1>5, <2>2, <2>3, <2>4 DEF Lost, TypeOK
<1> QED BY <1>1, <1>2, <1>3, <1>4, <1>5 DEF Handler

LEMMA HolderKeepsType ==
    ASSUME TypeOK, NEW l \in Locks, Acquire(l) \/ Holder(l) \/ Release(l)
    PROVE  TypeOK'
<1>1. /\ locks[l] \in Lock /\ now \in Nat /\ now + Expiry \in Nat /\ MaxTime + 1 \in Nat
      /\ locks[l].tick + Expiry \in Nat /\ now + CancelTimeout \in Nat
      /\ locks[l].lease \in Nat /\ locks[l].next \in Nat
  BY Bounds DEF TypeOK, Lock
<1>2. CASE Acquire(l)
  <2>1. locks' \in [Locks -> Lock]
    BY <1>1, <1>2 DEF Acquire, Become, TypeOK, Lock
  <2>2. calls' \subseteq Call
    BY <1>1, <1>2, RequestType DEF Acquire, TypeOK
  <2> QED BY <1>2, <2>1, <2>2 DEF Acquire, TypeOK
<1>3. CASE Renew(l)
  <2>1. locks' \in [Locks -> Lock]
    BY <1>1, <1>3 DEF Renew, Become, NextExpiry, TypeOK, Lock
  <2>2. calls' \subseteq Call
    BY <1>1, <1>3, RequestType DEF Renew, NextExpiry, LeaseDeadline, TypeOK
  <2> QED BY <1>3, <2>1, <2>2 DEF Renew, TypeOK
<1>4. CASE Retry(l)
  BY <1>1, <1>4, RequestType DEF Retry, LeaseDeadline, TypeOK
<1>5. CASE GiveUp(l)
  BY <1>1, <1>5 DEF GiveUp, Become, TypeOK, Lock
<1>6. CASE Release(l)
  <2>1. Orphaned(l) \subseteq Call
    BY DEF Orphaned, TypeOK, Call
  <2>2. locks' \in [Locks -> Lock]
    BY <1>1, <1>6 DEF Release, Become, TypeOK, Lock
  <2>3. calls' \subseteq Call
    BY <1>1, <1>6, <2>1, RequestType DEF Release
  <2> QED BY <1>6, <2>2, <2>3 DEF Release, TypeOK
<1> QED BY <1>2, <1>3, <1>4, <1>5, <1>6 DEF Holder

LEMMA TickType ==
    ASSUME TypeOK, Tick
    PROVE  TypeOK'
<1>1. ASSUME NEW k \in Lock
      PROVE  Ticked(k, now + 1) \in Lock
  <2>1. now + 1 \in Nat /\ now + 1 + TickRate \in Nat
    BY Bounds DEF TypeOK
  <2> QED BY <2>1 DEF Ticked, Lock
<1>2. now' \in 0..MaxTime
  BY Bounds DEF Tick, TypeOK
<1> QED BY <1>1, <1>2 DEF Tick, TypeOK

\* The state of semaphores, holders and handlers is well typed.
LEMMA StepKeepsType ==
    ASSUME TypeOK, [SemaphoreNext]_vars
    PROVE  TypeOK'
<1>1. CASE ExpireItem
  BY <1>1, NoSemType DEF ExpireItem, TypeOK
<1>2. CASE Delete
  BY <1>2, NoSemType, Bounds DEF Delete, TypeOK, Holding
<1>3. CASE UNCHANGED vars
  BY <1>3 DEF vars, TypeOK
<1> QED BY <1>1, <1>2, <1>3, HandlerKeepsType, HolderKeepsType, TickType DEF SemaphoreNext

-----------------------------------------------------------------------------
\* A call that ends without a change of the semaphore, or goes on without its
\* caller, keeps the invariant.
LEMMA NoChange ==
    ASSUME IInv, TypeOK', NEW c \in calls, NEW result \in {"error", "notfound"},
           result = "notfound" => c.op = "keepalive",
           calls' \in {calls \ {c}, (calls \ {c}) \cup {[c EXCEPT !.waited = FALSE]}},
           locks' = Answered(c, result),
           UNCHANGED <<now, store, revoked>>
    PROVE  IInv'
<1> DEFINE u == [c EXCEPT !.waited = FALSE]
<1>1. /\ c \in Call /\ c.lock \in Locks /\ locks \in [Locks -> Lock] /\ calls \subseteq Call
      /\ c.op \in {"acquire", "keepalive", "cancel"}
  BY DEF IInv, TypeOK, Call
<1>2. /\ u.lock = c.lock /\ u.op = c.op /\ u.expires = c.expires
      /\ u.deadline = c.deadline /\ u.read = c.read /\ u.old = c.old
      /\ u.new = c.new /\ ~u.waited
  BY <1>1 DEF Call
<1> HIDE DEF u
<1>3. calls' \subseteq (calls \ {c}) \cup {u}
  BY DEF u
<1>4. ASSUME NEW l \in Locks
      PROVE  /\ locks'[l] = locks[l] \/ (l = c.lock /\ c.waited)
             /\ locks'[l].pc # locks[l].pc =>
                  /\ l = c.lock /\ c.waited
                  /\ c.op = "acquire" => locks'[l].pc = "failed"
                  /\ c.op # "acquire" => locks'[l].pc = "ended"
             /\ locks'[l].lease = locks[l].lease /\ locks'[l].next = locks[l].next
             /\ locks'[l].tick = locks[l].tick /\ locks'[l].ticker = locks[l].ticker
  BY <1>1 DEF Answered, AnswerAcquire, AnswerKeepAlive, AnswerCancel, Lock
<1>5. ASSUME NEW l \in Locks
      PROVE  /\ Active(l)' => Active(l) /\ locks'[l].pc = locks[l].pc /\ Target(l)' = Target(l)
             /\ locks'[l].pc \in {"idle", "released"} => locks'[l].pc = locks[l].pc
  BY <1>4 DEF Active, Target
<1>6. StoreInv' /\ LeaseCovered' /\ GoneStays'
  BY <1>4, <1>5 DEF IInv, StoreInv, LeaseCovered, GoneStays, Live, Active, Holding
<1>7. Alone'
  BY <1>2, <1>3 DEF IInv, Alone
<1>8. ASSUME NEW l \in Locks PROVE Spaced(l)' /\ Fresh(l)'
  BY <1>4, <1>5 DEF IInv, Spaced, Fresh
<1>9. ASSUME NEW e \in calls' PROVE Phased(e)' /\ Timely(e)' /\ Prepared(e)'
  <2>1. CASE e = u
    <3>1. Phased(u)'
      BY <1>1, <1>2, <1>4 DEF IInv, Phased
    <3>2. Timely(u)'
      <4>1. Timely(c)
        BY DEF IInv
      <4>2. Active(c.lock)' => Active(c.lock) /\ Target(c.lock)' = Target(c.lock)
        BY <1>1, <1>5
      <4>3. locks'[c.lock].lease = locks[c.lock].lease /\ now' = now
        BY <1>1, <1>4
      <4>4. Active(c.lock)' => locks'[c.lock].pc = locks[c.lock].pc
        BY <1>1, <1>5
      <4> QED BY <1>2, <4>1, <4>2, <4>3, <4>4 DEF Timely
    <3>3. Prepared(u)'
      BY <1>2 DEF IInv, Prepared, Holding
    <3> QED BY <2>1, <3>1, <3>2, <3>3
  <2>2. CASE e \in calls \ {c}
    <3>1. e \in Call /\ e.lock \in Locks /\ Phased(e) /\ Timely(e) /\ Prepared(e)
      BY <2>2, <1>1 DEF IInv, Call
    <3>2. e.lock = c.lock => c.op # "acquire" /\ e.op # "acquire" /\ ~(e.waited /\ c.waited)
      BY <2>2 DEF IInv, Alone
    <3>3. Phased(e)'
      BY <3>1, <3>2, <1>4 DEF Phased
    <3>4. Timely(e)'
      BY <3>1, <1>4, <1>5 DEF Timely
    <3>5. Prepared(e)'
      BY <3>1 DEF Prepared, Holding
    <3> QED BY <3>3, <3>4, <3>5
  <2> QED BY <1>3, <2>1, <2>2
<1> QED BY <1>6, <1>7, <1>8, <1>9 DEF IInv

\* A call replaced by its next step, while nothing else changes.
LEMMA OneCall ==
    ASSUME IInv, TypeOK', NEW c \in calls, NEW d \in Call, Proceed(c, d),
           UNCHANGED <<now, store, revoked>>,
           d.lock = c.lock, d.op = c.op, d.waited = c.waited, d.expires = c.expires,
           Timely(d), Prepared(d)
    PROVE  IInv'
<1>1. calls' = (calls \ {c}) \cup {d} /\ locks' = locks /\ now' = now
      /\ store' = store /\ revoked' = revoked
  BY DEF Proceed
<1>2. \A l \in Locks : Spaced(l)' /\ Fresh(l)'
  BY <1>1 DEF IInv, Spaced, Fresh, Active, Target
<1>3. StoreInv' /\ LeaseCovered' /\ GoneStays'
  BY <1>1 DEF IInv, StoreInv, LeaseCovered, GoneStays, Live, Holding
<1>4. Alone'
  BY <1>1 DEF IInv, Alone
<1>5. Phased(d)
  BY DEF IInv, Phased
<1>6. ASSUME NEW e \in calls' PROVE Phased(e)' /\ Timely(e)' /\ Prepared(e)'
  <2>1. Phased(e) /\ Timely(e) /\ Prepared(e)
    BY <1>1, <1>5 DEF IInv
  <2>2. (Active(e.lock)' <=> Active(e.lock)) /\ Target(e.lock)' = Target(e.lock)
    BY <1>1 DEF Active, Target
  <2>3. Phased(e)' /\ Prepared(e)'
    BY <2>1, <1>1 DEF Phased, Prepared, Holding
  <2>4. Timely(e)'
    BY <2>1, <2>2, <1>1 DEF Timely
  <2> QED BY <2>3, <2>4
<1> QED BY <1>2, <1>3, <1>4, <1>6 DEF IInv

\* A handler that has read has prepared its write.
LEMMA HasRead ==
    ASSUME IInv, TypeOK', NEW c \in calls, ~c.read, now < c.deadline,
           UNCHANGED <<now, store, revoked>>, NEW new \in Sem,
           Proceed(c, [c EXCEPT !.read = TRUE, !.old = store, !.new = new]),
           \A l \in Locks \ {c.lock} :
             \/ new.leases[l] = store.leases[l]
             \/ new.leases[l] = 0 /\ store.leases[l] <= now,
           \A l \in Locks : new.leases[l] <= new.expires,
           c.op \in {"acquire", "keepalive"} => new.leases[c.lock] = c.expires,
           c.op = "cancel" => new.leases[c.lock] = 0,
           c.op \in {"keepalive", "cancel"} =>
             store.leases[c.lock] > 0 /\ Holding(new) \subseteq Holding(store),
           c.op = "acquire" => Cardinality(Holding(new)) <= MaxLeases
    PROVE  IInv'
<1> DEFINE d == [c EXCEPT !.read = TRUE, !.old = store, !.new = new]
<1>1. c \in Call /\ c.lock \in Locks
  BY DEF IInv, TypeOK, Call
<1>2. /\ d.lock = c.lock /\ d.op = c.op /\ d.expires = c.expires
      /\ d.deadline = c.deadline /\ d.waited = c.waited
      /\ d.read /\ d.old = store /\ d.new = new
  BY <1>1 DEF Call
<1>3. d \in Call
  BY ReadType DEF IInv
<1>4. Proceed(c, d)
  OBVIOUS
<1> HIDE DEF d
<1>5. Prepared(d)
  BY <1>2 DEF Prepared
<1>6. Timely(d)
  <2>1. Timely(c) /\ Spaced(c.lock) /\ c.deadline \in Nat /\ now \in Nat
    BY <1>1 DEF IInv, Call, TypeOK
  <2> QED BY <1>1, <1>2, <2>1 DEF Timely, Spaced
<1> QED BY <1>2, <1>3, <1>4, <1>5, <1>6, OneCall

\* The invariant of semaphores, step by step.
LEMMA ReadStep ==
    ASSUME IInv, TypeOK', NEW c \in calls, Read(c)
    PROVE  IInv'
<1> DEFINE sem == Unexpired(store)
           more == WithLease(sem, c.lock, c.expires)
           less == WithoutLease(store, c.lock)
<1>1. /\ c \in Call /\ c.lock \in Locks /\ c.expires \in Nat /\ store \in Sem
      /\ now \in Nat /\ ~c.read /\ now < c.deadline
      /\ UNCHANGED <<now, store, revoked>>
  BY DEF IInv, TypeOK, Call, Read
<1>2. sem \in Sem /\ more \in Sem /\ less \in Sem
  BY <1>1, WithLeaseType
<1>3. /\ sem.expires = store.expires
      /\ \A l \in Locks : sem.leases[l] =
           IF store.leases[l] > now THEN store.leases[l] ELSE 0
  BY <1>1 DEF Unexpired, Sem
<1>4. /\ more.leases[c.lock] = c.expires
      /\ \A l \in Locks \ {c.lock} : more.leases[l] = sem.leases[l]
      /\ more.expires >= c.expires /\ more.expires >= sem.expires
  BY <1>1, <1>2 DEF WithLease, Sem
<1>5. /\ less.leases[c.lock] = 0 /\ less.expires = store.expires
      /\ \A l \in Locks \ {c.lock} : less.leases[l] = store.leases[l]
  BY <1>1, <1>2 DEF WithoutLease, Sem
<1>6. \A l \in Locks : store.leases[l] <= store.expires /\ store.leases[l] \in Nat
  BY <1>1 DEF IInv, StoreInv, Sem
<1> HIDE DEF sem, more, less
<1>7. \A l \in Locks : more.leases[l] <= more.expires /\ less.leases[l] <= less.expires
  BY <1>1, <1>2, <1>3, <1>4, <1>5, <1>6 DEF Sem
<1>8. \A l \in Locks \ {c.lock} :
        \/ more.leases[l] = store.leases[l]
        \/ more.leases[l] = 0 /\ store.leases[l] <= now
  BY <1>1, <1>3, <1>4, <1>6
<1>9. CASE ReadAcquire(c)
  <2>1. CASE Finish(c, "error")
    BY <2>1, <1>1, NoChange DEF Finish
  <2>2. CASE ~Full(sem) /\ Proceed(c, [c EXCEPT !.read = TRUE, !.old = store, !.new = more])
    <3>1. Cardinality(Holding(more)) <= MaxLeases
      <4>1. Holding(more) \subseteq Holding(sem) \cup {c.lock}
        BY <1>4 DEF Holding
      <4>2. IsFiniteSet(Holding(sem)) /\ Cardinality(Holding(sem)) \in Nat
        BY HoldingFinite
      <4>3. /\ IsFiniteSet(Holding(sem) \cup {c.lock})
            /\ Cardinality(Holding(sem) \cup {c.lock}) <= Cardinality(Holding(sem)) + 1
        BY <4>2, FS_AddElement
      <4>4. /\ Cardinality(Holding(more)) <= Cardinality(Holding(sem) \cup {c.lock})
            /\ Cardinality(Holding(more)) \in Nat
            /\ Cardinality(Holding(sem) \cup {c.lock}) \in Nat
        BY <4>1, <4>3, FS_Subset, FS_CardinalityType
      <4> QED BY <2>2, <4>2, <4>3, <4>4, Bounds DEF Full
    <3>2. c.op = "acquire"
      BY <1>9 DEF ReadAcquire
    <3> QED BY <1>1, <1>2, <1>4, <1>7, <1>8, <2>2, <3>1, <3>2, HasRead
  <2> QED BY <1>9, <2>1, <2>2 DEF ReadAcquire, sem, more
<1>10. CASE ReadKeepAlive(c)
  <2>1. c.op = "keepalive"
    BY <1>10 DEF ReadKeepAlive
  <2>2. CASE Finish(c, "error") \/ Finish(c, "notfound")
    BY <2>1, <2>2, <1>1, NoChange DEF Finish
  <2>3. CASE /\ sem.leases[c.lock] # 0
             /\ Proceed(c, [c EXCEPT !.read = TRUE, !.old = store, !.new = more])
    <3>1. store.leases[c.lock] > 0
      BY <2>3, <1>1, <1>3, <1>6
    <3>2. Holding(more) \subseteq Holding(store)
      BY <3>1, <1>8, <1>6 DEF Holding
    <3> QED BY <1>1, <1>2, <1>4, <1>7, <1>8, <2>1, <2>3, <3>1, <3>2, HasRead
  <2>4. \/ Finish(c, "error") \/ Finish(c, "notfound")
        \/ /\ ~(c.expires >= now /\ sem.leases[c.lock] = 0) /\ ~(c.expires < now)
           /\ Proceed(c, [c EXCEPT !.read = TRUE, !.old = store, !.new = more])
    BY <1>10 DEF ReadKeepAlive, sem, more
  <2> QED BY <1>1, <2>2, <2>3, <2>4
<1>11. CASE ReadCancel(c)
  <2>1. c.op = "cancel"
    BY <1>11 DEF ReadCancel
  <2>2. CASE Finish(c, "error")
    BY <2>2, <1>1, NoChange DEF Finish
  <2>3. CASE /\ store.leases[c.lock] # 0
             /\ Proceed(c, [c EXCEPT !.read = TRUE, !.old = store, !.new = less])
    <3>1. store.leases[c.lock] > 0
      BY <2>3, <1>1, <1>6
    <3>2. Holding(less) \subseteq Holding(store)
      BY <1>5, <3>1 DEF Holding
    <3> QED BY <1>1, <1>2, <1>5, <1>7, <2>1, <2>3, <3>1, <3>2, HasRead
  <2> QED BY <1>11, <2>2, <2>3 DEF ReadCancel, less
<1> QED BY <1>9, <1>10, <1>11 DEF Read

\* CompareAndSwap: the write of a renewal that is late, or of somebody who has
\* not seen a live lease, does not succeed.
LEMMA WriteStep ==
    ASSUME IInv, TypeOK', NEW c \in calls, Write(c)
    PROVE  IInv'
<1>1. /\ c \in Call /\ c.lock \in Locks /\ c.expires \in Nat /\ store \in Sem
      /\ c.new \in Sem /\ now \in Nat /\ c.op \in {"acquire", "keepalive", "cancel"}
      /\ locks \in [Locks -> Lock]
  BY DEF IInv, TypeOK, Call
<1>2. /\ c.read /\ store = c.old /\ store' = c.new /\ now' = now /\ revoked' = revoked
      /\ calls' = calls \ {c} /\ locks' = Answered(c, "ok")
  BY DEF Write, Finish
<1>3. Phased(c) /\ Timely(c) /\ Prepared(c) /\ Spaced(c.lock)
  BY <1>1 DEF IInv
<1>4. ASSUME NEW l \in Locks
      PROVE  /\ locks[l] \in Lock /\ store.leases[l] \in Nat /\ c.new.leases[l] \in Nat
             /\ l # c.lock \/ ~c.waited => locks'[l] = locks[l]
             /\ l # c.lock => \/ store'.leases[l] = store.leases[l]
                              \/ store'.leases[l] = 0 /\ store.leases[l] <= now
  BY <1>1, <1>2, <1>3 DEF Answered, Prepared, Sem
<1>5. c.waited /\ c.op = "acquire" =>
        /\ locks'[c.lock].pc = "held" /\ locks'[c.lock].lease = c.expires
        /\ locks'[c.lock].ticker = now + TickRate
        /\ locks'[c.lock].tick = locks[c.lock].tick
  BY <1>1, <1>2 DEF Answered, AnswerAcquire, Lock
<1>6. c.waited /\ c.op = "keepalive" =>
        /\ locks'[c.lock].pc = "held" /\ locks'[c.lock].lease = c.expires
        /\ locks'[c.lock].ticker = locks[c.lock].ticker
        /\ locks'[c.lock].tick = locks[c.lock].tick
  BY <1>1, <1>2 DEF Answered, AnswerKeepAlive, Lock
<1>7. c.waited /\ c.op = "cancel" => locks'[c.lock].pc = "released"
  BY <1>1, <1>2 DEF Answered, AnswerCancel, Lock
<1>8. StoreInv'
  <2>1. Cardinality(Holding(c.new)) <= MaxLeases
    <3>1. CASE c.op = "acquire"
      BY <3>1, <1>2, <1>3 DEF Prepared
    <3>2. CASE c.op # "acquire"
      <4>1. Holding(c.new) \subseteq Holding(store)
        BY <3>2, <1>1, <1>2, <1>3 DEF Prepared
      <4>2. /\ Cardinality(Holding(c.new)) <= Cardinality(Holding(store))
            /\ Cardinality(Holding(store)) \in Nat
            /\ Cardinality(Holding(c.new)) \in Nat
        BY <4>1, HoldingFinite
      <4> QED BY <4>2, Bounds DEF IInv, StoreInv
    <3> QED BY <3>1, <3>2
  <2> QED BY <2>1, <1>2, <1>3 DEF StoreInv, Prepared, Holding
<1>9. LeaseCovered'
  <2> SUFFICES ASSUME NEW l \in Locks, Live(l)', l \notin revoked
               PROVE  store'.leases[l] >= locks'[l].lease
    BY <1>2 DEF LeaseCovered
  <2>1. CASE locks'[l] = locks[l]
    <3>1. Live(l) /\ store.leases[l] >= locks[l].lease /\ locks[l].lease > now
      BY <2>1, <1>2 DEF Live, IInv, LeaseCovered
    <3>2. CASE l # c.lock
      BY <2>1, <3>1, <3>2, <1>1, <1>4 DEF Lock
    <3>3. CASE l = c.lock
      <4>1. c.op = "keepalive"
        BY <3>1, <3>3, <1>1, <1>3 DEF Phased, Live
      <4>2. c.old.leases[l] <= c.expires /\ store'.leases[l] = c.expires
        BY <4>1, <3>1, <3>3, <1>2, <1>3 DEF Timely, Prepared, Active, Live
      <4> QED BY <4>2, <3>1, <2>1, <1>1, <1>2, <1>4 DEF Lock
    <3> QED BY <3>2, <3>3
  <2>2. CASE locks'[l] # locks[l]
    <3>1. l = c.lock /\ c.waited
      BY <2>2, <1>4
    <3>2. c.op # "cancel"
      BY <3>1, <1>7, <1>4 DEF Live, Lock
    <3>3. store'.leases[l] = c.expires
      BY <3>1, <3>2, <1>1, <1>2, <1>3 DEF Prepared
    <3>4. locks'[l].lease = c.expires
      BY <3>1, <3>2, <1>1, <1>5, <1>6
    <3> QED BY <3>3, <3>4, <1>1
  <2> QED BY <2>1, <2>2
<1>10. GoneStays'
  <2> SUFFICES ASSUME NEW l \in Locks, locks'[l].pc = "released" \/ l \in revoked
               PROVE  store'.leases[l] = 0
    BY <1>2 DEF GoneStays
  <2>1. CASE store.leases[l] = 0 /\ l # c.lock
    BY <2>1, <1>4
  <2>2. CASE l = c.lock /\ c.op = "cancel"
    BY <2>2, <1>2, <1>3 DEF Prepared
  <2>3. CASE l = c.lock /\ c.op = "keepalive"
    <3>1. store.leases[l] > 0
      BY <2>3, <1>2, <1>3 DEF Prepared
    <3>2. locks[l].pc # "released" /\ l \notin revoked
      BY <3>1, <1>4 DEF IInv, GoneStays
    <3>3. locks'[l].pc # "released"
      BY <2>3, <3>2, <1>4, <1>6 DEF Lock
    <3> QED BY <3>2, <3>3
  <2>4. CASE l = c.lock /\ c.op = "acquire"
    <3>1. locks[l].pc # "released" /\ l \notin revoked
      BY <2>4, <1>3 DEF Phased
    <3>2. locks'[l].pc # "released"
      BY <2>4, <3>1, <1>4, <1>5 DEF Lock
    <3> QED BY <3>1, <3>2
  <2>5. l # c.lock => store.leases[l] = 0
    BY <1>4 DEF IInv, GoneStays
  <2> QED BY <2>1, <2>2, <2>3, <2>4, <2>5, <1>1
<1>11. Alone'
  BY <1>2 DEF IInv, Alone
<1>12. ASSUME NEW l \in Locks PROVE Spaced(l)' /\ Fresh(l)'
  <2>1. CASE l # c.lock
    BY <2>1, <1>2, <1>4 DEF IInv, Spaced, Fresh, Active, Target, Lock
  <2>2. CASE l = c.lock /\ ~c.waited
    <3>1. Fresh(l)'
      BY <2>2, <1>1, <1>3, <1>4 DEF IInv, Fresh, Phased
    <3>2. Spaced(l)'
      <4>1. Active(l) => store'.leases[l] <= Target(l)
        BY <2>2, <1>1, <1>2, <1>3 DEF Timely, Prepared, Phased, Active
      <4> QED BY <2>2, <4>1, <1>2, <1>3, <1>4 DEF Spaced, Active, Target
    <3> QED BY <3>1, <3>2
  <2>3. CASE l = c.lock /\ c.waited /\ c.op = "acquire"
    <3>1. store'.leases[l] = c.expires
      BY <2>3, <1>2, <1>3 DEF Prepared
    <3>2. locks[l].tick = 0 /\ c.expires <= now + Expiry
      BY <2>3, <1>1, <1>3 DEF IInv, Fresh, Phased
    <3> QED BY <2>3, <3>1, <3>2, <1>1, <1>2, <1>5, Bounds DEF Spaced, Fresh, Active, Target
  <2>4. CASE l = c.lock /\ c.waited /\ c.op = "keepalive"
    <3>1. store'.leases[l] = c.expires /\ c.expires = locks[l].next /\ locks[l].pc = "renewing"
      BY <2>4, <1>2, <1>3 DEF Prepared, Timely, Phased, Active
    <3>2. Fresh(l)'
      BY <2>4, <1>6 DEF Fresh
    <3>3. /\ Target(l) = locks[l].next /\ Active(l)
          /\ Target(l)' = locks[l].next
      BY <2>4, <3>1, <1>6 DEF Active, Target
    <3>4. Spaced(l)'
      BY <2>4, <3>1, <3>3, <1>6, <1>1, <1>2, <1>3, <1>4 DEF Spaced, Lock
    <3> QED BY <3>2, <3>4
  <2>5. CASE l = c.lock /\ c.waited /\ c.op = "cancel"
    BY <2>5, <1>4, <1>7 DEF Spaced, Fresh, Active, Lock
  <2> QED BY <1>1, <2>1, <2>2, <2>3, <2>4, <2>5
<1>13. ASSUME NEW e \in calls' PROVE Phased(e)' /\ Timely(e)' /\ Prepared(e)'
  <2>1. e \in calls /\ e # c /\ e \in Call /\ e.lock \in Locks /\ Phased(e) /\ Timely(e) /\ Prepared(e)
        /\ e.op \in {"acquire", "keepalive", "cancel"}
    BY <1>2 DEF IInv, TypeOK, Call
  <2>2. Prepared(e)'
    BY <2>1, <1>2 DEF Prepared, Holding
  <2>3. e.lock = c.lock => e.op # "acquire" /\ c.op # "acquire" /\ ~(e.waited /\ c.waited)
    BY <2>1 DEF IInv, Alone
  <2>4. CASE e.lock # c.lock \/ ~c.waited
    <3>1. locks'[e.lock] = locks[e.lock]
      BY <2>1, <2>4, <1>4
    <3>2. e.op = "acquire" => store'.leases[e.lock] = 0
      BY <2>1, <2>3, <1>4 DEF Phased
    <3>3. Phased(e)'
      BY <2>1, <3>1, <3>2, <1>2 DEF Phased
    <3>4. Timely(e)'
      BY <2>1, <3>1, <1>2 DEF Timely, Active, Target
    <3> QED BY <2>2, <3>3, <3>4
  <2>5. CASE e.lock = c.lock /\ c.waited
    <3>1. e.op # "acquire" /\ c.op # "acquire" /\ ~e.waited
      BY <2>3, <2>5
    <3>2. CASE c.op = "cancel"
      BY <2>1, <2>2, <2>5, <3>1, <3>2, <1>3, <1>4, <1>7 DEF Phased, Timely, Active, Lock
    <3>3. CASE c.op = "keepalive"
      <4>1. c.expires = locks[c.lock].next /\ locks[c.lock].pc = "renewing"
        BY <3>3, <2>5, <1>3 DEF Timely, Phased, Active
      <4>2. locks'[c.lock].pc = "held" /\ locks'[c.lock].lease = c.expires
        BY <3>3, <2>5, <1>6
      <4>3. e.op = "keepalive"
        BY <2>1, <2>5, <3>1, <4>1 DEF Phased
      <4>4. Phased(e)'
        BY <2>5, <3>1, <4>2, <4>3 DEF Phased
      <4>5. Timely(e)'
        <5>1. locks[c.lock].next >= locks[c.lock].lease + TickRate /\ locks[c.lock] \in Lock
          BY <1>1, <1>3, <1>4, <4>1 DEF Spaced, Active
        <5>2. e.deadline \in Nat /\ e.expires \in Nat
          BY <2>1 DEF Call
        <5> QED BY <2>1, <2>5, <3>1, <4>1, <4>2, <4>3, <5>1, <5>2, <1>1, <1>2, Bounds
                DEF Timely, Active, Target, Lock
      <4> QED BY <2>2, <4>4, <4>5
    <3> QED BY <3>1, <3>2, <3>3, <1>1
  <2> QED BY <2>4, <2>5
<1> QED BY <1>8, <1>9, <1>10, <1>11, <1>12, <1>13 DEF IInv

\* CompareFailed: an error for the caller, or another attempt of the server.
LEMMA WriteFailsStep ==
    ASSUME IInv, TypeOK', NEW c \in calls, WriteFails(c)
    PROVE  IInv'
<1> DEFINE e == Request(c.lock, c.op, c.expires, c.deadline)
           d == [e EXCEPT !.tries = c.tries + 1, !.waited = c.waited]
<1>1. /\ c \in Call /\ c.lock \in Locks /\ calls \subseteq Call
      /\ c.op \in {"acquire", "keepalive", "cancel"} /\ c.waited \in BOOLEAN
      /\ c.expires \in Nat /\ c.deadline \in Nat
      /\ UNCHANGED <<now, store, revoked>>
  BY DEF IInv, TypeOK, Call, WriteFails
<1>2. CASE Finish(c, "error")
  BY <1>1, <1>2, NoChange DEF Finish
<1>3. CASE c.op = "acquire" /\ Proceed(c, d)
  <2>1. /\ d.lock = c.lock /\ d.op = c.op /\ d.waited = c.waited
        /\ d.expires = c.expires /\ ~d.read
    BY DEF Request
  <2>2. d \in Call
    BY <1>3 DEF Proceed, TypeOK
  <2>3. Timely(d) /\ Prepared(d)
    BY <2>1, <1>3 DEF Timely, Prepared
  <2> HIDE DEF d
  <2> QED BY <2>1, <2>2, <2>3, <1>1, <1>3, OneCall
<1> QED BY <1>2, <1>3 DEF WriteFails, TriesAgain

LEMMA HandlerStep ==
    ASSUME IInv, TypeOK', NEW c \in calls, Handler(c) \/ Lost(c)
    PROVE  IInv'
<1>1. CASE Read(c)
  BY <1>1, ReadStep
<1>2. CASE Write(c)
  BY <1>2, WriteStep
<1>3. CASE WriteFails(c)
  BY <1>3, WriteFailsStep
<1>4. CASE Expired(c)
  BY <1>4, NoChange DEF Expired, Finish
<1>5. CASE Lost(c)
  BY <1>5, NoChange DEF Lost
<1> QED BY <1>1, <1>2, <1>3, <1>4, <1>5 DEF Handler

-----------------------------------------------------------------------------
\* Time passes: a tick that arrives is a TickRate after the one before.
LEMMA TickStep ==
    ASSUME IInv, TypeOK', Tick
    PROVE  IInv'
<1>1. /\ now' = now + 1 /\ now \in Nat /\ store' = store /\ calls' = calls
      /\ revoked' = revoked /\ calls \subseteq Call /\ locks \in [Locks -> Lock]
      /\ store \in Sem
  BY DEF Tick, IInv, TypeOK
<1>2. ASSUME NEW l \in Locks
      PROVE  /\ locks'[l].pc = locks[l].pc /\ locks'[l].lease = locks[l].lease
             /\ locks'[l].next = locks[l].next
             /\ \/ locks'[l] = locks[l]
                \/ /\ locks'[l].ticker = now + 1 + TickRate /\ locks[l].ticker = now + 1
                   /\ Active(l)
                   /\ locks'[l].tick = IF locks[l].tick = 0 THEN now + 1 ELSE locks[l].tick
  BY <1>1 DEF Tick, Ticked, Lock, Active
<1>3. \A l \in Locks : (Active(l)' <=> Active(l)) /\ Target(l)' = Target(l)
  BY <1>2 DEF Active, Target
<1>4. StoreInv' /\ GoneStays' /\ Alone'
  BY <1>1, <1>2 DEF IInv, StoreInv, GoneStays, Alone, Holding
<1>5. LeaseCovered'
  BY <1>1, <1>2 DEF IInv, LeaseCovered, Live, Lock
<1>6. ASSUME NEW l \in Locks PROVE Spaced(l)' /\ Fresh(l)'
  <2>1. locks[l] \in Lock /\ Spaced(l) /\ Fresh(l)
    BY <1>1 DEF IInv
  <2>2. Target(l) \in Nat
    BY <2>1 DEF Target, Lock
  <2>3. Fresh(l)'
    BY <2>1, <1>1, <1>2 DEF Fresh, Active
  <2>4. CASE locks'[l] = locks[l]
    BY <2>1, <2>3, <2>4, <1>1, <1>3 DEF Spaced, Lock
  <2>5. CASE locks'[l] # locks[l]
    BY <2>1, <2>2, <2>3, <2>5, <1>1, <1>2, <1>3, Bounds DEF Spaced, Lock
  <2> QED BY <2>4, <2>5
<1>7. ASSUME NEW e \in calls PROVE Phased(e)' /\ Timely(e)' /\ Prepared(e)'
  <2>1. e \in Call /\ e.lock \in Locks /\ e.deadline \in Nat /\ e.expires \in Nat
    BY <1>1 DEF Call
  <2>2. Phased(e) /\ Timely(e) /\ Prepared(e)
    BY DEF IInv
  <2>3. Phased(e)'
    BY <2>1, <2>2, <1>1, <1>2, Bounds DEF Phased
  <2>4. Timely(e)'
    BY <2>1, <2>2, <1>1, <1>2, <1>3 DEF Timely
  <2>5. Prepared(e)'
    <3>1. e.read => \A l \in Locks : e.old.leases[l] \in Nat
      BY <2>1 DEF Call, Sem
    <3> QED BY <2>2, <1>1, <3>1 DEF Prepared, Holding
  <2> QED BY <2>3, <2>4, <2>5
<1> QED BY <1>1, <1>4, <1>5, <1>6, <1>7 DEF IInv

\* The item goes: nobody lives on a lease in it, or all of them are revoked.
LEMMA GoneStep ==
    ASSUME IInv, TypeOK', ExpireItem \/ Delete
    PROVE  IInv'
<1>1. /\ store' = NoSem /\ UNCHANGED <<now, locks, calls>> /\ now \in Nat /\ store \in Sem
      /\ locks \in [Locks -> Lock] /\ calls \subseteq Call
      /\ \A l \in Locks : store'.leases[l] = 0
  BY DEF ExpireItem, Delete, IInv, TypeOK, NoSem
<1>2. \A l \in Locks : l \in revoked' => l \in revoked \/ (Delete /\ store.leases[l] > 0)
  BY DEF ExpireItem, Delete, Holding
<1>3. StoreInv'
  <2>1. Holding(NoSem) = {}
    BY DEF Holding, NoSem
  <2>2. Cardinality(Holding(NoSem)) = 0
    BY <2>1, FS_EmptySet
  <2>3. Cardinality(Holding(store)') <= MaxLeases
    BY <1>1, <2>2, Bounds DEF Holding
  <2>4. \A l \in Locks : store'.leases[l] <= store'.expires
    BY <1>1 DEF NoSem
  <2> QED BY <2>3, <2>4 DEF StoreInv
<1>4. LeaseCovered'
  <2> SUFFICES ASSUME NEW l \in Locks, Live(l)', l \notin revoked'
               PROVE  FALSE
    BY DEF LeaseCovered
  <2>1. Live(l) /\ l \notin revoked /\ (Delete => ~(store.leases[l] > 0))
    BY <1>1 DEF Live, ExpireItem, Delete, Holding
  <2>2. store.leases[l] >= locks[l].lease /\ locks[l].lease > now
        /\ store.leases[l] <= store.expires
    BY <2>1, <1>1 DEF IInv, LeaseCovered, StoreInv, Live, Lock
  <2>3. locks[l].lease \in Nat /\ store.leases[l] \in Nat /\ store.expires \in Nat
    BY <1>1 DEF Lock, Sem
  <2> QED BY <1>1, <2>1, <2>2, <2>3 DEF ExpireItem
<1>5. GoneStays' /\ Alone'
  BY <1>1 DEF IInv, GoneStays, Alone
<1>6. ASSUME NEW l \in Locks PROVE Spaced(l)' /\ Fresh(l)'
  <2>1. Spaced(l) /\ Fresh(l) /\ locks[l] \in Lock
    BY <1>1 DEF IInv
  <2>2. Target(l) \in Nat /\ Target(l)' = Target(l)
    BY <2>1, <1>1 DEF Target, Lock
  <2> QED BY <2>1, <2>2, <1>1, <1>2 DEF Spaced, Fresh, Active
<1>7. ASSUME NEW e \in calls PROVE Phased(e)' /\ Timely(e)' /\ Prepared(e)'
  <2>1. Phased(e) /\ Timely(e) /\ Prepared(e) /\ e.lock \in Locks
    BY <1>1 DEF IInv, Call
  <2>2. Phased(e)'
    BY <2>1, <1>1, <1>2 DEF Phased
  <2>3. Timely(e)'
    BY <2>1, <1>1 DEF Timely, Active, Target
  <2>4. Prepared(e)'
    BY <2>1, <1>1 DEF Prepared, Holding
  <2> QED BY <2>2, <2>3, <2>4
<1> QED BY <1>1, <1>3, <1>4, <1>5, <1>6, <1>7 DEF IInv

-----------------------------------------------------------------------------
\* A holder that sends a call: f is the lock, and q the call.
LEMMA SendStep ==
    ASSUME IInv, TypeOK', NEW l \in Locks, Acquire(l) \/ Renew(l) \/ Retry(l)
    PROVE  IInv'
<1> DEFINE k == locks[l]
           q == CASE Acquire(l) -> Request(l, "acquire", now + Expiry, MaxTime + 1)
                  [] Renew(l)   -> Request(l, "keepalive", k.tick + Expiry, k.lease)
                  [] Retry(l)   -> Request(l, "keepalive", k.next, k.lease)
<1>1. /\ now \in Nat /\ locks \in [Locks -> Lock] /\ calls \subseteq Call /\ k \in Lock
      /\ k.lease \in Nat /\ k.next \in Nat /\ k.tick \in Nat /\ k.ticker \in Nat
      /\ store \in Sem /\ UNCHANGED <<now, store, revoked>>
  BY DEF IInv, TypeOK, Lock, Acquire, Renew, Retry
<1>2. /\ Acquire(l) => k.pc = "idle"
      /\ Renew(l) => k.pc = "held"
      /\ Retry(l) => k.pc = "renewing"
  BY DEF Acquire, Renew, Retry
<1>3. calls' = calls \cup {q}
  BY <1>2 DEF Acquire, Renew, Retry, NextExpiry, LeaseDeadline
<1>4. /\ q.lock = l /\ q.waited /\ ~q.read
      /\ Acquire(l) => q.op = "acquire" /\ q.expires = now + Expiry
      /\ Renew(l) => q.op = "keepalive" /\ q.expires = k.tick + Expiry /\ q.deadline = k.lease
      /\ Retry(l) => q.op = "keepalive" /\ q.expires = k.next /\ q.deadline = k.lease
  BY <1>2 DEF Request
<1> HIDE DEF q
<1>5. \A j \in Locks : j # l => locks'[j] = locks[j]
  BY <1>1 DEF Acquire, Renew, Retry, Become
<1>6. /\ locks'[l].lease = k.lease /\ locks'[l].ticker = k.ticker
      /\ Acquire(l) => locks'[l].pc = "acquiring" /\ locks'[l].tick = k.tick
      /\ Renew(l) => /\ locks'[l].pc = "renewing" /\ locks'[l].tick = 0
                     /\ locks'[l].next = k.tick + Expiry /\ k.tick # 0
      /\ Retry(l) => locks' = locks
  <2>1. CASE Acquire(l)
    BY <1>1, <1>2, <2>1 DEF Acquire, Renew, Retry, Become, Lock
  <2>2. CASE Renew(l)
    BY <1>1, <1>2, <2>2 DEF Acquire, Renew, Retry, Become, NextExpiry, Lock
  <2>3. CASE Retry(l)
    BY <1>1, <1>2, <2>3 DEF Acquire, Renew, Retry
  <2> QED BY <2>1, <2>2, <2>3
<1>7. Spaced(l) /\ Fresh(l)
  BY DEF IInv
<1>8. StoreInv' /\ LeaseCovered' /\ GoneStays'
  <2>1. StoreInv'
    BY <1>1 DEF IInv, StoreInv, Holding
  <2>2. ASSUME NEW j \in Locks
        PROVE  /\ Live(j)' => Live(j)
               /\ locks'[j].lease = locks[j].lease
               /\ locks'[j].pc = "released" => locks[j].pc = "released"
    BY <1>1, <1>2, <1>5, <1>6 DEF Live
  <2> QED BY <1>1, <2>1, <2>2 DEF IInv, LeaseCovered, GoneStays
<1>9. ASSUME NEW e \in calls, e.lock = l
      PROVE  ~Acquire(l) /\ ~e.waited /\ e.op # "acquire"
  <2>1. Phased(e) /\ e.op \in {"acquire", "keepalive", "cancel"}
    BY <1>1 DEF IInv, Call
  <2>2. Retry(l) => ~e.waited
    BY <1>9 DEF Retry, Waits
  <2> QED BY <1>2, <1>9, <2>1, <2>2 DEF Phased
<1>10. Alone'
  BY <1>3, <1>4, <1>9 DEF IInv, Alone
<1>11. ASSUME NEW j \in Locks PROVE Spaced(j)' /\ Fresh(j)'
  <2>1. CASE j # l
    BY <2>1, <1>1, <1>5 DEF IInv, Spaced, Fresh, Active, Target
  <2>2. CASE j = l
    <3>1. Fresh(l)'
      BY <1>1, <1>2, <1>6, <1>7 DEF Fresh
    <3>2. CASE Acquire(l)
      BY <2>2, <3>1, <3>2, <1>6 DEF Spaced, Active
    <3>3. CASE Retry(l)
      BY <2>2, <3>1, <3>3, <1>1, <1>6, <1>7 DEF Spaced, Active, Target
    <3>4. CASE Renew(l)
      <4>1. store.leases[l] \in Nat
        BY <1>1 DEF Sem
      <4>2. /\ k.tick + Expiry >= k.lease + TickRate
            /\ k.ticker >= k.tick + TickRate /\ store.leases[l] <= k.lease
        BY <3>4, <1>2, <1>6, <1>7 DEF Spaced, Active, Target
      <4>3. /\ locks'[l].next = k.tick + Expiry /\ locks'[l].tick = 0
            /\ locks'[l].ticker = k.ticker /\ locks'[l].lease = k.lease
            /\ Target(l)' = k.tick + Expiry /\ store' = store
        BY <3>4, <1>1, <1>6 DEF Target
      <4> QED BY <2>2, <3>1, <4>1, <4>2, <4>3, <1>1, Bounds DEF Spaced
    <3> QED BY <2>2, <3>1, <3>2, <3>3, <3>4
  <2> QED BY <2>1, <2>2
<1>12. ASSUME NEW e \in calls' PROVE Phased(e)' /\ Timely(e)' /\ Prepared(e)'
  <2>1. CASE e = q
    <3>0. /\ e.lock = l /\ e.waited /\ ~e.read
          /\ Acquire(l) => e.op = "acquire" /\ e.expires = now + Expiry
          /\ Renew(l) => e.op = "keepalive" /\ e.expires = k.tick + Expiry /\ e.deadline = k.lease
          /\ Retry(l) => e.op = "keepalive" /\ e.expires = k.next /\ e.deadline = k.lease
      BY <2>1, <1>4
    <3>1. Phased(e)'
      <4>1. CASE Acquire(l)
        BY <4>1, <3>0, <1>1, <1>2, <1>6, <1>7, Bounds DEF Phased, Fresh
      <4>2. CASE Renew(l)
        BY <4>2, <3>0, <1>6 DEF Phased
      <4>3. CASE Retry(l)
        BY <4>3, <3>0, <1>2, <1>6 DEF Phased
      <4> QED BY <4>1, <4>2, <4>3
    <3>2. Timely(e)'
      <4>1. CASE Acquire(l)
        BY <4>1, <3>0 DEF Timely
      <4>2. CASE Renew(l)
        BY <4>2, <3>0, <1>1, <1>6, Bounds DEF Timely, Target
      <4>3. CASE Retry(l)
        BY <4>3, <3>0, <1>1, <1>2, <1>6 DEF Timely, Target
      <4> QED BY <4>1, <4>2, <4>3
    <3>3. Prepared(e)'
      BY <3>0 DEF Prepared
    <3> QED BY <3>1, <3>2, <3>3
  <2>2. CASE e \in calls
    <3>1. /\ e \in Call /\ e.lock \in Locks /\ e.deadline \in Nat /\ e.expires \in Nat
          /\ Phased(e) /\ Timely(e) /\ Prepared(e)
      BY <2>2, <1>1 DEF IInv, Call
    <3>2. Prepared(e)'
      BY <3>1, <1>1 DEF Prepared, Holding
    <3>3. CASE e.lock # l
      BY <3>1, <3>2, <3>3, <1>1, <1>5 DEF Phased, Timely, Active, Target
    <3>4. CASE e.lock = l /\ Retry(l)
      <4>1. locks' = locks
        BY <3>4 DEF Retry
      <4> QED BY <3>1, <3>2, <4>1, <1>1 DEF Phased, Timely, Active, Target
    <3>5. CASE e.lock = l /\ Renew(l)
      <4>1. ~e.waited /\ e.op # "acquire"
        BY <2>2, <3>5, <1>9
      <4>2. Phased(e)'
        BY <3>1, <3>5, <4>1, <1>2, <1>6 DEF Phased
      <4>3. Timely(e)'
        <5>1. k.tick + Expiry >= k.lease + TickRate /\ k.tick <= now
          BY <3>5, <1>2, <1>6, <1>7 DEF Spaced, Active, Target
        <5> QED BY <3>1, <3>5, <4>1, <5>1, <1>1, <1>2, <1>6, Bounds
                DEF Timely, Active, Target
      <4> QED BY <3>2, <4>2, <4>3
    <3>6. CASE e.lock = l /\ Acquire(l)
      BY <2>2, <3>6, <1>9
    <3> QED BY <3>3, <3>4, <3>5, <3>6
  <2> QED BY <2>1, <2>2, <1>3
<1> QED BY <1>8, <1>10, <1>11, <1>12 DEF IInv

\* A holder that is done: its calls go on without it.
LEMMA EndStep ==
    ASSUME IInv, TypeOK', NEW l \in Locks, GiveUp(l) \/ Release(l)
    PROVE  IInv'
<1> DEFINE q == Request(l, "cancel", locks[l].lease, now + CancelTimeout)
<1>1. /\ now \in Nat /\ locks \in [Locks -> Lock] /\ calls \subseteq Call
      /\ UNCHANGED <<now, store, revoked>> /\ locks[l] \in Lock
  BY DEF IInv, TypeOK, GiveUp, Release
<1>2. /\ locks[l].pc \in {"held", "renewing"}
      /\ \A j \in Locks : j # l => locks'[j] = locks[j]
      /\ locks'[l].pc \in {"dropping", "ended"} /\ locks'[l].lease = locks[l].lease
  BY <1>1 DEF GiveUp, Release, Become, Lock
<1>3. /\ q.lock = l /\ q.op = "cancel" /\ q.waited /\ ~q.read
  BY DEF Request
<1> HIDE DEF q
<1>4. ASSUME NEW e \in calls'
      PROVE  \/ e = q /\ locks'[l].pc = "dropping"
             \/ \E c \in calls : /\ e.lock = c.lock /\ e.op = c.op /\ e.expires = c.expires
                                 /\ e.deadline = c.deadline /\ e.read = c.read
                                 /\ e.old = c.old /\ e.new = c.new
                                 /\ e.waited => c.waited /\ e.lock # l
                                 /\ c.lock # l => e = c
  <2>1. CASE GiveUp(l)
    BY <2>1 DEF GiveUp, Waits
  <2>2. CASE Release(l)
    <3>1. (e = q /\ locks'[l].pc = "dropping") \/ e \in Orphaned(l)
      BY <2>2, <1>1 DEF Release, Become, Lock, q
    <3>2. ASSUME e \in Orphaned(l)
          PROVE  \E c \in calls : e = IF c.lock = l THEN [c EXCEPT !.waited = FALSE] ELSE c
      BY <3>2 DEF Orphaned
    <3> QED BY <2>2, <3>1, <3>2, <1>1 DEF Call
  <2> QED BY <2>1, <2>2
<1>5. StoreInv' /\ LeaseCovered' /\ GoneStays'
  BY <1>1, <1>2 DEF IInv, StoreInv, LeaseCovered, GoneStays, Live, Holding
<1>6. ASSUME NEW j \in Locks PROVE Spaced(j)' /\ Fresh(j)'
  BY <1>1, <1>2 DEF IInv, Spaced, Fresh, Active, Target
<1>7. Alone'
  <2> SUFFICES ASSUME NEW e \in calls', NEW f \in calls', e.lock = f.lock,
                      e.op = "acquire" \/ (e.waited /\ f.waited)
               PROVE  e = f
    BY DEF Alone
  <2>1. \A c \in calls : c.lock = l => c.op # "acquire"
    BY <1>2 DEF IInv, Phased
  <2>2. CASE e = q \/ f = q
    BY <2>1, <2>2, <1>3, <1>4
  <2>3. CASE e # q /\ f # q
    <3>1. e \in calls /\ f \in calls /\ e.lock # l
      BY <2>1, <2>3, <1>4
    <3> QED BY <3>1 DEF IInv, Alone
  <2> QED BY <2>2, <2>3
<1>8. ASSUME NEW e \in calls' PROVE Phased(e)' /\ Timely(e)' /\ Prepared(e)'
  <2>1. CASE e = q /\ locks'[l].pc = "dropping"
    BY <2>1, <1>3 DEF Phased, Timely, Prepared
  <2>2. CASE e # q \/ locks'[l].pc # "dropping"
    <3>1. PICK c \in calls : /\ e.lock = c.lock /\ e.op = c.op /\ e.expires = c.expires
                             /\ e.deadline = c.deadline /\ e.read = c.read
                             /\ e.old = c.old /\ e.new = c.new
                             /\ e.waited => c.waited /\ e.lock # l
      BY <2>2, <1>4
    <3>2. c \in Call /\ c.lock \in Locks /\ Phased(c) /\ Timely(c) /\ Prepared(c)
      BY <1>1 DEF IInv, Call
    <3>3. Phased(e)'
      BY <3>1, <3>2, <1>1, <1>2 DEF Phased
    <3>4. Timely(e)'
      BY <3>1, <3>2, <1>1, <1>2 DEF Timely, Active, Target
    <3>5. Prepared(e)'
      BY <3>1, <3>2, <1>1 DEF Prepared, Holding
    <3> QED BY <3>3, <3>4, <3>5
  <2> QED BY <2>1, <2>2
<1> QED BY <1>5, <1>6, <1>7, <1>8 DEF IInv

-----------------------------------------------------------------------------
LEMMA IInvStarts == SemaphoreInit => IInv
<1> SUFFICES ASSUME SemaphoreInit PROVE IInv
  OBVIOUS
<1>1. TypeOK
  <2>1. 1 \in 0..MaxTime
    BY Bounds DEF SemaphoreInit
  <2> QED BY <2>1, NoSemType, Bounds DEF SemaphoreInit, TypeOK, Lock
<1>2. StoreInv
  <2>1. Holding(NoSem) = {}
    BY DEF Holding, NoSem
  <2> QED BY <2>1, FS_EmptySet, Bounds DEF SemaphoreInit, StoreInv, NoSem
<1>3. LeaseCovered /\ GoneStays /\ Alone
  BY DEF SemaphoreInit, LeaseCovered, GoneStays, Alone, Live
<1>4. \A l \in Locks : Spaced(l) /\ Fresh(l)
  BY DEF SemaphoreInit, Spaced, Fresh, Active, NoSem
<1> QED BY <1>1, <1>2, <1>3, <1>4 DEF SemaphoreInit, IInv

LEMMA IInvStep == IInv /\ [SemaphoreNext]_vars => IInv'
<1> SUFFICES ASSUME IInv, [SemaphoreNext]_vars PROVE IInv'
  OBVIOUS
<1>1. TypeOK'
  BY StepKeepsType DEF IInv
<1>2. CASE UNCHANGED vars
  BY <1>2, <1>1 DEF vars, IInv, StoreInv, LeaseCovered, GoneStays, Alone, Live, Holding,
                    Spaced, Fresh, Phased, Timely, Prepared, Active, Target
<1>3. CASE \E c \in calls : Handler(c) \/ Lost(c)
  BY <1>1, <1>3, HandlerStep
<1>4. CASE \E l \in Locks : Acquire(l) \/ Holder(l) \/ Release(l)
  BY <1>1, <1>4, SendStep, EndStep DEF Holder
<1> QED BY <1>1, <1>2, <1>3, <1>4, TickStep, GoneStep DEF SemaphoreNext

\* The invariant holds in every reachable state.
LEMMA IInvHolds == SemaphoreSpec => []IInv
BY IInvStarts, IInvStep, PTL DEF SemaphoreSpec

\* The state of semaphores, holders and handlers is well typed, and so is every
\* semaphore that a handler is about to write.
THEOREM SemaphoreTypes == SemaphoreSpec => []TypeOK
BY IInvHolds, PTL DEF IInv

\* A lease lasts in the backend for as long as its holder believes.
THEOREM LeasesCovered == SemaphoreSpec => []LeaseCovered
BY IInvHolds, PTL DEF IInv

\* A lease that was cancelled or deleted does not come back.
THEOREM GoneLeasesStay == SemaphoreSpec => []GoneStays
BY IInvHolds, PTL DEF IInv

\* There are never more sessions than leases.
THEOREM HoldersBounded == SemaphoreSpec => []BoundedHolders
<1>1. IInv => BoundedHolders
  <2> SUFFICES ASSUME IInv PROVE BoundedHolders
    OBVIOUS
  <2> DEFINE live == {l \in Locks : Live(l) /\ l \notin revoked}
  <2>1. live \subseteq Holding(store)
    <3> SUFFICES ASSUME NEW l \in Locks, Live(l), l \notin revoked
                 PROVE  store.leases[l] > 0
      BY DEF Holding
    <3>1. store.leases[l] >= locks[l].lease /\ locks[l].lease > now
      BY DEF IInv, LeaseCovered, Live, TypeOK, Lock
    <3> QED BY <3>1 DEF IInv, TypeOK, Lock, Sem
  <2>2. /\ Cardinality(live) <= Cardinality(Holding(store))
        /\ Cardinality(Holding(store)) \in Nat /\ Cardinality(live) \in Nat
    BY <2>1, HoldingFinite, FS_Subset, FS_CardinalityType
  <2> QED BY <2>2, Bounds DEF BoundedHolders, IInv, StoreInv
<1> QED BY <1>1, IInvHolds, PTL

-----------------------------------------------------------------------------
\* The locks and the monitors of the sessions.

\* What the loop has of a stream by where it is: one that is open, and one
\* whose OpInit has not been read, belongs to a loop that waits for it.
StreamInv ==
    LET events == stream.events
    IN  /\ stream.state \in {"none", "opened"} => events = <<>>
        /\ pc \in {"start", "retry", "stale", "mark"} => stream.state = "none"
        /\ stream.state = "opened" => pc = "init"
        /\ pc = "init" /\ stream.state = "live" => events # <<>>
        /\ \A i \in DOMAIN events :
             /\ events[i].op = "init" <=> pc = "init" /\ i = 1
             /\ events[i].op = "delete" => events[i].version = 0

\* Versions a session cannot tell apart.
Same(v, w, past) == v = w \/ (v \in {0} \cup past /\ w \in {0} \cup past)

LastAbout(i, n, events) ==
    i \in About(n, events) /\ \A j \in About(n, events) : j <= i

\* The last event in a live stream about a lock is what the source has of it;
\* a lock without one is in the view as it is at the source.
InStream(n, events, current) ==
    \A i \in DOMAIN events :
        LastAbout(i, n, events) => events[i].version = current
FollowInv ==
    stream.state = "live" =>
        \A n \in Names :
            /\ InStream(n, stream.events, stored[n])
            /\ pc \in {"emit", "loop"} /\ About(n, stream.events) = {} =>
                   Same(view[n], stored[n], lapsed)

\* How long a watch may be on when it ends or the view is fetched.
Longest == MaxStaleness + RetryPeriod + RefetchPeriod

\* How long ago a watch ended with an error by then, while the view counts as
\* current.
ClockInv ==
    /\ pc = "start" /\ ~isStale => overdue <= MaxStaleness + RetryPeriod
    /\ pc = "init" /\ ~isStale => overdue + refetch <= Longest
    /\ pc = "fetch" /\ ~isStale => overdue <= Longest
    /\ pc = "emit" /\ ~inited => overdue <= Longest
    /\ pc = "loop" => overdue = NotOverdue
    /\ pc = "retry" /\ ~isStale => overdue + retry <= StaleLimit
    /\ pc \in {"stale", "mark", "panicked"} /\ ~isStale => overdue <= StaleLimit
    /\ isStale \/ pc = "mark" => inited

\* The code starts to count one wait late, and not before the wait is over.
LagInv ==
    /\ failing = NotFailing =>
         IF pc = "retry" /\ failed THEN overdue + retry <= RetryPeriod
                                   ELSE overdue = NotOverdue
    /\ failing # NotFailing /\ failing <= MaxStaleness => overdue <= failing + RetryPeriod
    /\ pc = "loop" => failing = NotFailing

\* A session has nothing in its queue before it subscribes, and from its check
\* on nothing that concerns it passes it by.
Attends(s) == monitor[s] \in {"checked", "watching"} /\ ~over[s]
Known(s) == gap[s] \cup ToSet(queue[s])
Owed(s) == {n \in Targets[s] \ todo : InForce(view[n])}
Doubted == isStale \/ pc = "mark"
Informed(s) ==
    /\ monitor[s] # "none" => inited
    /\ monitor[s] \in {"none", "checked"} => queue[s] = <<>> /\ ~over[s]
    /\ Attends(s) =>
         /\ \A n \in Owed(s) : Put(n) \in Known(s)
         /\ Doubted /\ strict[s] => Unreliable \in Known(s)

MonitorInv == \A s \in Sessions : Informed(s)

WatcherInv ==
    /\ WatcherTypeOK /\ StreamInv /\ FollowInv /\ ClockInv /\ LagInv
    /\ MonitorInv

-----------------------------------------------------------------------------
\* The bounds are numbers.
LEMMA WatcherBounds ==
    /\ MaxStaleness \in Nat \ {0} /\ RefetchPeriod \in Nat \ {0}
    /\ RetryPeriod \in Nat \ {0} /\ QueueSize \in Nat \ {0}
    /\ MaxWrites \in Nat /\ MaxOutages \in Nat
    /\ StaleLimit \in Nat /\ NotFailing = -1 /\ NotOverdue = -1
    /\ Longest \in Nat /\ StaleLimit = Longest + RetryPeriod
    /\ MaxStaleness + RetryPeriod \in Nat
    /\ Longest = (MaxStaleness + RetryPeriod) + RefetchPeriod
BY WatcherAssumption DEF StaleLimit, NotFailing, NotOverdue, Longest

\* Notices of different kinds are told apart.
LEMMA Notices ==
    /\ \A n \in Names : Put(n) \in Notice /\ Deleted(n) \in Notice
    /\ Unreliable \in Notice
    /\ \A n \in Names : Put(n).op = "put" /\ Put(n).name = n /\ Deleted(n).op = "delete"
    /\ Unreliable.op = "unreliable"
BY DEF Notice, Put, Deleted, Unreliable

\* What ToSet makes of a queue that gains or loses an element.
LEMMA QueueSet ==
    ASSUME NEW S, NEW q \in Seq(S)
    PROVE  /\ \A e \in S : ToSet(Append(q, e)) = ToSet(q) \cup {e}
           /\ q # <<>> => ToSet(q) \subseteq ToSet(Tail(q)) \cup {Head(q)}
           /\ ToSet(<<>>) = {}
<1>1. ASSUME NEW e \in S PROVE ToSet(Append(q, e)) = ToSet(q) \cup {e}
  <2> DEFINE r == Append(q, e)
  <2>1. /\ DOMAIN r = 1..(Len(q) + 1) /\ DOMAIN q = 1..Len(q) /\ Len(q) \in Nat
        /\ r[Len(q) + 1] = e /\ \A i \in DOMAIN q : r[i] = q[i]
    OBVIOUS
  <2> HIDE DEF r
  <2>2. {r[i] : i \in DOMAIN r} = {q[i] : i \in DOMAIN q} \cup {e}
    <3>1. ASSUME NEW i \in DOMAIN r PROVE r[i] \in {q[j] : j \in DOMAIN q} \cup {e}
      <4>1. i \in DOMAIN q \/ i = Len(q) + 1
        BY <2>1
      <4>2. QED
        BY <2>1, <4>1
    <3>2. ASSUME NEW i \in DOMAIN q PROVE q[i] \in {r[j] : j \in DOMAIN r}
      <4>1. i \in DOMAIN r /\ r[i] = q[i]
        BY <2>1
      <4>2. QED
        BY <4>1
    <3>3. e \in {r[j] : j \in DOMAIN r}
      <4>1. Len(q) + 1 \in DOMAIN r
        BY <2>1
      <4>2. QED
        BY <2>1, <4>1
    <3>4. QED
      BY <3>1, <3>2, <3>3
  <2>3. QED
    BY <2>2 DEF ToSet, r
<1>2. ASSUME q # <<>> PROVE ToSet(q) \subseteq ToSet(Tail(q)) \cup {Head(q)}
  <2>1. /\ DOMAIN q = 1..Len(q) /\ Len(q) \in Nat
        /\ DOMAIN Tail(q) = 1..(Len(q) - 1) /\ Head(q) = q[1]
        /\ \A i \in DOMAIN Tail(q) : Tail(q)[i] = q[i + 1]
    BY <1>2
  <2>2. ASSUME NEW i \in DOMAIN q PROVE q[i] \in ToSet(Tail(q)) \cup {Head(q)}
    <3>1. CASE i = 1
      BY <2>1, <3>1
    <3>2. CASE i # 1
      <4>1. i - 1 \in DOMAIN Tail(q) /\ Tail(q)[i - 1] = q[(i - 1) + 1] /\ (i - 1) + 1 = i
        BY <2>1, <2>2, <3>2
      <4>2. QED
        BY <4>1 DEF ToSet
    <3>3. QED
      BY <3>1, <3>2
  <2>3. QED
    BY <2>2 DEF ToSet
<1>3. ToSet(<<>>) = {}
  BY DEF ToSet
<1>4. QED
  BY <1>1, <1>2, <1>3

\* Fanout.Emit: whoever an event concerns has it, or has lost its subscription;
\* whoever has not subscribed could not be told.
LEMMA EmitTells ==
    ASSUME WatcherTypeOK, NEW e \in Notice, Emit(e)
    PROVE  /\ queue' \in [Sessions -> Seq(Notice)]
           /\ gap' \in [Sessions -> SUBSET Notice] /\ over' \in [Sessions -> BOOLEAN]
           /\ \A s \in Sessions : Len(queue'[s]) <= QueueSize
           /\ monitor' = monitor /\ strict' = strict
           /\ \A s \in Sessions :
                /\ ~over'[s] => ~over[s]
                /\ monitor[s] # "watching" => queue'[s] = queue[s] /\ over'[s] = over[s]
                /\ Attends(s) /\ ~over'[s] =>
                     /\ Known(s) \subseteq gap'[s] \cup ToSet(queue'[s])
                     /\ Concerns(e, s) => e \in gap'[s] \cup ToSet(queue'[s])
<1>1. /\ queue \in [Sessions -> Seq(Notice)] /\ gap \in [Sessions -> SUBSET Notice]
      /\ over \in [Sessions -> BOOLEAN] /\ \A s \in Sessions : Len(queue[s]) <= QueueSize
      /\ QueueSize \in Nat
  BY WatcherBounds DEF WatcherTypeOK
<1>2. /\ queue' = [s \in Sessions |->
             IF Told(e, s) /\ Len(queue[s]) < QueueSize THEN Append(queue[s], e)
                                                        ELSE queue[s]]
      /\ over' = [s \in Sessions |->
             over[s] \/ (Told(e, s) /\ Len(queue[s]) = QueueSize)]
      /\ gap' = [s \in Sessions |->
             IF monitor[s] = "checked" /\ Concerns(e, s) THEN gap[s] \cup {e} ELSE gap[s]]
      /\ monitor' = monitor /\ strict' = strict
  BY DEF Emit
<1>3. ASSUME NEW s \in Sessions
      PROVE  /\ queue'[s] \in Seq(Notice) /\ gap'[s] \in SUBSET Notice
             /\ over'[s] \in BOOLEAN /\ Len(queue'[s]) <= QueueSize
  <2>1. Len(Append(queue[s], e)) = Len(queue[s]) + 1 /\ Append(queue[s], e) \in Seq(Notice)
        /\ Len(queue[s]) \in Nat
    BY <1>1
  <2>2. over'[s] \in BOOLEAN /\ gap'[s] \in SUBSET Notice
    BY <1>1, <1>2
  <2>3. queue'[s] = queue[s] \/ (Len(queue[s]) < QueueSize /\ queue'[s] = Append(queue[s], e))
    BY <1>2
  <2>4. CASE queue'[s] = queue[s]
    BY <1>1, <2>2, <2>4
  <2>5. CASE Len(queue[s]) < QueueSize /\ queue'[s] = Append(queue[s], e)
    <3>1. Len(queue'[s]) = Len(queue[s]) + 1 /\ queue'[s] \in Seq(Notice)
      BY <2>1, <2>5
    <3>2. QED
      BY <1>1, <2>1, <2>2, <2>5, <3>1
  <2>6. QED
    BY <2>3, <2>4, <2>5
<1>4. ASSUME NEW s \in Sessions
      PROVE  /\ ~over'[s] => ~over[s]
             /\ monitor[s] # "watching" => queue'[s] = queue[s] /\ over'[s] = over[s]
  BY <1>1, <1>2, <1>3 DEF Told
<1>5. ASSUME NEW s \in Sessions, Attends(s), ~over'[s]
      PROVE  /\ Known(s) \subseteq gap'[s] \cup ToSet(queue'[s])
             /\ Concerns(e, s) => e \in gap'[s] \cup ToSet(queue'[s])
  <2>1. CASE Told(e, s)
    <3>1. Len(queue[s]) # QueueSize
      BY <1>2, <1>5, <2>1
    <3>2. Len(queue[s]) < QueueSize
      BY <1>1, <3>1
    <3>3. queue'[s] = Append(queue[s], e)
      BY <1>2, <2>1, <3>2
    <3>4. ToSet(queue'[s]) = ToSet(queue[s]) \cup {e}
      BY <1>1, <3>3, QueueSet
    <3>5. gap[s] \subseteq gap'[s]
      BY <1>2
    <3>6. QED
      BY <3>4, <3>5 DEF Known
  <2>2. CASE ~Told(e, s)
    <3>1. queue'[s] = queue[s] /\ gap[s] \subseteq gap'[s]
      BY <1>2, <2>2
    <3>2. Concerns(e, s) => monitor[s] = "checked"
      BY <1>5, <2>2 DEF Told, Attends
    <3>3. Concerns(e, s) => e \in gap'[s]
      BY <1>2, <3>2
    <3>4. QED
      BY <3>1, <3>3 DEF Known
  <2>3. QED
    BY <2>1, <2>2
<1>6. /\ queue' \in [Sessions -> Seq(Notice)]
      /\ gap' \in [Sessions -> SUBSET Notice] /\ over' \in [Sessions -> BOOLEAN]
  BY <1>2, <1>3
<1>7. QED
  BY <1>2, <1>3, <1>4, <1>5, <1>6

-----------------------------------------------------------------------------
\* Types.

\* Sequences of events that gain or lose one.
LEMMA EventSeq ==
    ASSUME NEW S, NEW q \in Seq(S)
    PROVE  /\ \A e \in S : Append(q, e) \in Seq(S)
           /\ q # <<>> => Tail(q) \in Seq(S) /\ Head(q) \in S
           /\ <<>> \in Seq(S)
OBVIOUS

\* An event that a live stream gets.
LEMMA WriteType ==
    ASSUME WatcherTypeOK, NEW n \in Names, NEW v \in 0..MaxWrites,
           NEW op \in {"put", "delete"}, WriteLock(n, v, op)
    PROVE  /\ stored' \in [Names -> 0..MaxWrites]
           /\ stream' \in [state : {"none", "opened", "live", "closed"},
                           events : Seq(StreamEvent)]
<1> DEFINE e == [op |-> op, name |-> n, version |-> v]
<1>1. e \in StreamEvent
  BY DEF StreamEvent
<1>2. stream.events \in Seq(StreamEvent)
  BY DEF WatcherTypeOK
<1>3. Append(stream.events, e) \in Seq(StreamEvent)
  BY <1>1, <1>2, EventSeq
<1> HIDE DEF e
<1>4. stream' = stream \/ stream' = [stream EXCEPT !.events = Append(stream.events, e)]
  BY DEF WriteLock, e
<1>5. stream' \in [state : {"none", "opened", "live", "closed"},
                   events : Seq(StreamEvent)]
  BY <1>3, <1>4 DEF WatcherTypeOK
<1>6. QED
  BY <1>5 DEF WriteLock, WatcherTypeOK

\* The source.
LEMMA SourceType ==
    ASSUME WatcherTypeOK, Source
    PROVE  WatcherTypeOK'
<1>1. UNCHANGED <<pc, failed, clockVars, eager, viewVars, inited, monitorVars>>
  BY DEF Source
<1>2. SUFFICES /\ stored' \in [Names -> 0..MaxWrites]
               /\ written' \in 0..MaxWrites /\ lapsed' \subseteq 1..MaxWrites
               /\ up' \in BOOLEAN /\ outages' \in 0..MaxOutages
               /\ stream' \in [state : {"none", "opened", "live", "closed"},
                               events : Seq(StreamEvent)]
  BY <1>1 DEF WatcherTypeOK, clockVars, viewVars, monitorVars
<1>3. ASSUME NEW n \in Names, UpsertLock(n) PROVE <1>2!1
  <2>1. written' \in 0..MaxWrites /\ WriteLock(n, written', "put")
    BY <1>3, WatcherBounds DEF UpsertLock, WatcherTypeOK
  <2>2. QED
    BY <1>3, <2>1, WriteType DEF UpsertLock, WatcherTypeOK
<1>4. ASSUME NEW n \in Names, DeleteLock(n) PROVE <1>2!1
  <2>1. WriteLock(n, 0, "delete") /\ 0 \in 0..MaxWrites
    BY <1>4, WatcherBounds DEF DeleteLock
  <2>2. QED
    BY <1>4, <2>1, WriteType DEF DeleteLock, WatcherTypeOK
<1>5. CASE Lapse
  <2>1. lapsed' \subseteq 1..MaxWrites
    BY <1>5, WatcherBounds DEF Lapse, WatcherTypeOK
  <2>2. QED
    BY <1>5, <2>1 DEF Lapse, WatcherTypeOK
<1>6. CASE Break
  <2>1. outages' \in 0..MaxOutages /\ up' \in BOOLEAN
    <3>1. outages \in 0..MaxOutages /\ up \in BOOLEAN
      BY DEF WatcherTypeOK
    <3>2. outages' \in 0..MaxOutages
      BY <1>6, <3>1, WatcherBounds DEF Break
    <3>3. up' \in BOOLEAN
      BY <1>6, <3>1, Zenon DEF Break
    <3>4. QED
      BY <3>2, <3>3
  <2>2. stream' = stream \/ stream' = [stream EXCEPT !.state = "closed"]
    BY <1>6 DEF Break
  <2>3. stream' \in [state : {"none", "opened", "live", "closed"},
                     events : Seq(StreamEvent)]
    BY <2>2 DEF WatcherTypeOK
  <2>4. QED
    BY <1>6, <2>1, <2>3 DEF Break, WatcherTypeOK
<1>7. CASE BreakAgain
  BY <1>7 DEF BreakAgain, WatcherTypeOK
<1>8. CASE Recover
  BY <1>8 DEF Recover, WatcherTypeOK
<1>9. CASE Establish
  <2>1. <<[op |-> "init"]>> \in Seq(StreamEvent)
    BY DEF StreamEvent
  <2>2. QED
    BY <1>9, <2>1 DEF Establish, WatcherTypeOK
<1>10. QED
  BY <1>3, <1>4, <1>5, <1>6, <1>7, <1>8, <1>9 DEF Source

\* The steps of the loop that touch neither the view nor the monitors.
LoopType ==
    /\ stream \in [state : {"none", "opened", "live", "closed"},
                   events : Seq(StreamEvent)]
    /\ pc \in {"start", "init", "fetch", "emit", "loop", "retry", "stale",
               "mark", "panicked"}
    /\ failed \in BOOLEAN /\ eager \in BOOLEAN
    /\ failing \in NotFailing..(MaxStaleness + 1)
    /\ overdue \in NotOverdue..(StaleLimit + 1)
    /\ refetch \in 0..RefetchPeriod /\ retry \in 0..RetryPeriod

\* A watch that ends keeps the fields of the loop typed.
LEMMA ReturnType ==
    ASSUME WatcherTypeOK, NEW error \in BOOLEAN, Return(error)
    PROVE  LoopType'
<1>1. stream' = [state |-> "none", events |-> <<>>]
  BY DEF Return, NoStream
<1>2. retry' \in 0..RetryPeriod /\ refetch' \in 0..RefetchPeriod
  BY WatcherBounds DEF Return
<1>3. overdue' \in NotOverdue..(StaleLimit + 1)
  BY WatcherBounds DEF Return, WatcherTypeOK
<1>4. QED
  BY <1>1, <1>2, <1>3, EventSeq DEF Return, LoopType, WatcherTypeOK

\* The loop takes the next event of its stream.
LEMMA TailType ==
    ASSUME WatcherTypeOK, stream.events # <<>>,
           stream' = [stream EXCEPT !.events = Tail(@)]
    PROVE  /\ stream' \in [state : {"none", "opened", "live", "closed"},
                           events : Seq(StreamEvent)]
           /\ Head(stream.events) \in StreamEvent
           /\ Head(stream.events) = stream.events[1] /\ 1 \in DOMAIN stream.events
<1>1. stream.events \in Seq(StreamEvent)
  BY DEF WatcherTypeOK
<1>2. Tail(stream.events) \in Seq(StreamEvent)
  BY <1>1
<1>3. Head(stream.events) = stream.events[1] /\ 1 \in DOMAIN stream.events
  BY <1>1
<1>4. Head(stream.events) \in StreamEvent
  BY <1>1
<1>5. stream' = [stream EXCEPT !.events = Tail(stream.events)]
  OBVIOUS
<1>6. stream' \in [state : {"none", "opened", "live", "closed"},
                   events : Seq(StreamEvent)]
  BY <1>2, <1>5 DEF WatcherTypeOK
<1>7. QED
  BY <1>3, <1>4, <1>6

\* The types of the watch loop.
LEMMA LoopTypeKeeps ==
    ASSUME WatcherTypeOK,
           NewWatcher \/ ReceiveInit \/ Interrupted \/ FetchFails \/ Updated \/ Restart
    PROVE  LoopType'
<1>1. CASE NewWatcher
  <2>1. CASE stream' = [state |-> "opened", events |-> <<>>]
    <3>1. CASE Return(TRUE)
      BY <3>1, ReturnType
    <3>2. CASE ~Return(TRUE)
      <4>1. /\ pc' = "init" /\ refetch' = RefetchPeriod
            /\ UNCHANGED <<failed, failing, retry, eager, overdue>>
        BY <1>1, <3>2, Zenon DEF NewWatcher
      <4>2. RefetchPeriod \in 0..RefetchPeriod
        BY WatcherBounds
      <4>3. stream' \in [state : {"none", "opened", "live", "closed"},
                         events : Seq(StreamEvent)]
        BY <2>1, EventSeq
      <4>4. QED
        BY <4>1, <4>2, <4>3 DEF LoopType, WatcherTypeOK
    <3>3. QED
      BY <3>1, <3>2
  <2>2. CASE Return(TRUE)
    BY <2>2, ReturnType
  <2>3. QED
    BY <1>1, <2>1, <2>2 DEF NewWatcher
<1>2. CASE ReceiveInit
  BY <1>2, TailType DEF ReceiveInit, Goto, clockVars, LoopType, WatcherTypeOK
<1>3. CASE Interrupted
  BY <1>3, ReturnType DEF Interrupted
<1>4. CASE FetchFails
  BY <1>4, ReturnType DEF FetchFails
<1>5. CASE Updated
  BY <1>5, WatcherBounds DEF Updated, LoopType, WatcherTypeOK
<1>6. CASE Restart
  <2>1. FailureSince \in NotFailing..(MaxStaleness + 1)
    BY WatcherBounds DEF FailureSince, WatcherTypeOK
  <2>2. QED
    BY <1>6, <2>1 DEF Restart, LoopType, WatcherTypeOK
<1>7. QED
  BY <1>1, <1>2, <1>3, <1>4, <1>5, <1>6

\* An event that a fetch, a stream or a failure is the reason for.
LEMMA EmitType ==
    ASSUME WatcherTypeOK, (\E e \in Notice : Emit(e)) \/ UNCHANGED monitorVars
    PROVE  /\ monitor' \in [Sessions -> {"none", "checked", "watching", "gone"}]
           /\ queue' \in [Sessions -> Seq(Notice)] /\ gap' \in [Sessions -> SUBSET Notice]
           /\ \A s \in Sessions : Len(queue'[s]) <= QueueSize
           /\ strict' \in [Sessions -> BOOLEAN] /\ over' \in [Sessions -> BOOLEAN]
<1>1. CASE UNCHANGED monitorVars
  BY <1>1 DEF monitorVars, WatcherTypeOK
<1>2. ASSUME NEW e \in Notice, Emit(e)
      PROVE  /\ monitor' = monitor /\ strict' = strict
             /\ queue' \in [Sessions -> Seq(Notice)] /\ gap' \in [Sessions -> SUBSET Notice]
             /\ \A s \in Sessions : Len(queue'[s]) <= QueueSize
             /\ over' \in [Sessions -> BOOLEAN]
  BY <1>2, EmitTells
<1>3. QED
  BY <1>1, <1>2 DEF WatcherTypeOK

\* What an event of a stream makes of a lock.
Taken(e) == e.op = "put" /\ InForce(e.version)
Passed(e) == IF Taken(e) THEN Put(e.name) ELSE Deleted(e.name)

\* The event that is taken from the stream.
LEMMA ProcessedEvent ==
    ASSUME WatcherTypeOK, StreamInv, ProcessEvent
    PROVE  LET e == Head(stream.events)
           IN  /\ e.op \in {"put", "delete"} /\ e.name \in Names
               /\ e.version \in 0..MaxWrites /\ e = stream.events[1]
               /\ 1 \in DOMAIN stream.events /\ Passed(e) \in Notice
               /\ view' = [view EXCEPT ![e.name] = IF Taken(e) THEN e.version ELSE 0]
               /\ IF (Taken(e) \/ e.op = "delete") /\ inited
                    THEN Emit(Passed(e)) ELSE UNCHANGED monitorVars
               /\ Goto(IF (Taken(e) \/ e.op = "delete") /\ ~inited
                         THEN "panicked" ELSE "loop")
               /\ stream' = [stream EXCEPT !.events = Tail(@)]
<1> DEFINE e == Head(stream.events)
<1>1. /\ pc = "loop" /\ stream.events # <<>>
      /\ stream' = [stream EXCEPT !.events = Tail(@)]
  BY DEF ProcessEvent
<1>2. e \in StreamEvent /\ e = stream.events[1] /\ 1 \in DOMAIN stream.events
  BY <1>1, TailType
<1>3. stream.events[1].op # "init"
  BY <1>1, <1>2 DEF StreamInv
<1>4. e.op \in {"put", "delete"} /\ e.name \in Names /\ e.version \in 0..MaxWrites
  BY <1>2, <1>3 DEF StreamEvent
<1>5. Passed(e) \in Notice
  BY <1>4, Notices DEF Passed
<1>6. QED
  BY <1>1, <1>2, <1>4, <1>5 DEF ProcessEvent, Taken, Passed

\* The loop.
LEMMA WatchLoopType ==
    ASSUME WatcherTypeOK, StreamInv, WatchLoop
    PROVE  WatcherTypeOK'
<1>1. UNCHANGED <<sourceVars, inited>>
  BY DEF WatchLoop
<1>2. SUFFICES /\ LoopType' /\ view' \in [Names -> 0..MaxWrites]
               /\ isStale' \in BOOLEAN /\ todo' \subseteq Names
               /\ (\E e \in Notice : Emit(e)) \/ UNCHANGED monitorVars
  BY <1>1, EmitType DEF LoopType, WatcherTypeOK, sourceVars
<1>3. CASE NewWatcher \/ ReceiveInit \/ Interrupted \/ FetchFails \/ Updated \/ Restart
  <2>1. UNCHANGED <<viewVars, monitorVars>>
    BY <1>3 DEF NewWatcher, ReceiveInit, Interrupted, FetchFails, Updated, Restart
  <2>2. QED
    BY <1>3, <2>1, LoopTypeKeeps DEF viewVars, WatcherTypeOK
<1>4. CASE Fetch
  <2>1. view' \in [Names -> 0..MaxWrites]
    BY <1>4, WatcherBounds DEF Fetch, WatcherTypeOK
  <2>2. LoopType' /\ todo' \subseteq Names /\ isStale' \in BOOLEAN
    BY <1>4 DEF Fetch, Goto, clockVars, LoopType, WatcherTypeOK
  <2>3. QED
    BY <1>4, <2>1, <2>2 DEF Fetch
<1>5. CASE EmitFetched
  <2>1. PICK n \in todo :
          IF inited THEN Emit(Put(n)) /\ todo' = todo \ {n} /\ Goto("emit")
                    ELSE Goto("panicked") /\ UNCHANGED <<todo, monitorVars>>
    BY <1>5 DEF EmitFetched
  <2>2. n \in Names /\ Put(n) \in Notice
    BY Notices DEF WatcherTypeOK
  <2>3. todo' \subseteq Names /\ LoopType'
    BY <1>5, <2>1 DEF EmitFetched, Goto, clockVars, LoopType, WatcherTypeOK
  <2>4. QED
    BY <1>5, <2>1, <2>2, <2>3 DEF EmitFetched, WatcherTypeOK
<1>6. CASE ProcessEvent
  <2> DEFINE e == Head(stream.events)
  <2>1. /\ e.name \in Names /\ e.version \in 0..MaxWrites /\ Passed(e) \in Notice
        /\ view' = [view EXCEPT ![e.name] = IF Taken(e) THEN e.version ELSE 0]
        /\ Emit(Passed(e)) \/ UNCHANGED monitorVars
        /\ Goto("panicked") \/ Goto("loop")
    BY <1>6, ProcessedEvent
  <2>2. view' \in [Names -> 0..MaxWrites]
    BY <2>1, WatcherBounds DEF WatcherTypeOK
  <2>3. LoopType'
    BY <1>6, <2>1, TailType DEF ProcessEvent, Goto, clockVars, LoopType, WatcherTypeOK
  <2>4. QED
    BY <1>6, <2>1, <2>2, <2>3 DEF ProcessEvent, WatcherTypeOK
<1>7. CASE NotifyStale
  <2>1. LoopType' /\ UNCHANGED viewVars
    BY <1>7 DEF NotifyStale, Goto, clockVars, LoopType, WatcherTypeOK
  <2>2. (\E e \in Notice : Emit(e)) \/ UNCHANGED monitorVars
    BY <1>7, Notices DEF NotifyStale
  <2>3. QED
    BY <2>1, <2>2 DEF viewVars, WatcherTypeOK
<1>8. CASE MarkStale
  BY <1>8 DEF MarkStale, Goto, clockVars, LoopType, WatcherTypeOK
<1>9. QED
  BY <1>3, <1>4, <1>5, <1>6, <1>7, <1>8 DEF WatchLoop

\* The monitors.
LEMMA MonitorType ==
    ASSUME WatcherTypeOK, NEW s \in Sessions, Monitor(s)
    PROVE  WatcherTypeOK'
<1>1. UNCHANGED <<sourceVars, loopVars, inited>>
  BY DEF Monitor
<1>2. SUFFICES /\ monitor' \in [Sessions -> {"none", "checked", "watching", "gone"}]
               /\ queue' \in [Sessions -> Seq(Notice)]
               /\ gap' \in [Sessions -> SUBSET Notice]
               /\ \A t \in Sessions : Len(queue'[t]) <= QueueSize
               /\ strict' \in [Sessions -> BOOLEAN] /\ over' \in [Sessions -> BOOLEAN]
  BY <1>1 DEF sourceVars, loopVars, viewVars, WatcherTypeOK
<1>3. CASE Check(s)
  <2>1. Unreliable \in Notice
    BY Notices
  <2>2. gap' \in [Sessions -> SUBSET Notice] /\ strict' \in [Sessions -> BOOLEAN]
    BY <1>3, <2>1 DEF Check, WatcherTypeOK
  <2>3. QED
    BY <1>3, <2>2 DEF Check, WatcherTypeOK
<1>4. CASE Subscribe(s) \/ LoseSubscription(s)
  BY <1>4 DEF Subscribe, LoseSubscription, WatcherTypeOK
<1>5. CASE Leave(s)
  <2>1. <<>> \in Seq(Notice) /\ Len(<<>>) <= QueueSize
    BY WatcherBounds
  <2>2. QED
    BY <1>5, <2>1 DEF Leave, WatcherTypeOK
<1>6. CASE Handle(s) /\ ~Leave(s)
  <2>1. queue[s] \in Seq(Notice) /\ queue[s] # <<>>
    BY <1>6 DEF Handle, WatcherTypeOK
  <2>2. Tail(queue[s]) \in Seq(Notice) /\ Len(Tail(queue[s])) = Len(queue[s]) - 1
        /\ Len(queue[s]) \in Nat
    BY <2>1
  <2>3. /\ queue' = [queue EXCEPT ![s] = Tail(queue[s])]
        /\ UNCHANGED <<monitor, strict, over, gap>>
    BY <1>6 DEF Handle
  <2>4. Len(queue[s]) <= QueueSize
    BY DEF WatcherTypeOK
  <2>5. Len(Tail(queue[s])) <= QueueSize
    BY <2>2, <2>4, WatcherBounds
  <2>6. QED
    BY <2>2, <2>3, <2>5 DEF WatcherTypeOK
<1>7. QED
  BY <1>3, <1>4, <1>5, <1>6 DEF Monitor, End

\* The clock.
LEMMA WatcherTickType ==
    ASSUME WatcherTypeOK, WatcherTick
    PROVE  WatcherTypeOK'
<1>1. refetch' \in 0..RefetchPeriod /\ retry' \in 0..RetryPeriod
  BY WatcherBounds DEF WatcherTick, Dec, WatcherTypeOK
<1>2. failing' \in NotFailing..(MaxStaleness + 1) /\ overdue' \in NotOverdue..(StaleLimit + 1)
  BY WatcherBounds DEF WatcherTick, Counted, WatcherTypeOK
<1>3. QED
  BY <1>1, <1>2
     DEF WatcherTick, WatcherTypeOK, sourceVars, viewVars, monitorVars

LEMMA TypeKeeps ==
    ASSUME WatcherTypeOK, StreamInv, [Next]_watcherVars
    PROVE  WatcherTypeOK'
<1>1. CASE SetInit
  BY <1>1 DEF SetInit, WatcherTypeOK, sourceVars, loopVars, viewVars, monitorVars
<1>2. CASE UNCHANGED watcherVars
  BY <1>2 DEF watcherVars, WatcherTypeOK, sourceVars, loopVars, viewVars, monitorVars
<1>3. QED
  BY <1>1, <1>2, SourceType, WatchLoopType, MonitorType, WatcherTickType DEF Next

-----------------------------------------------------------------------------
\* The stream.

\* Where the events are once the first one has been taken.
LEMMA TailAt ==
    ASSUME NEW S, NEW q \in Seq(S), q # <<>>
    PROVE  /\ Len(q) \in Nat /\ DOMAIN q = 1..Len(q) /\ 1 \in DOMAIN q
           /\ DOMAIN Tail(q) = 1..(Len(q) - 1)
           /\ \A i \in DOMAIN Tail(q) : i + 1 \in DOMAIN q /\ Tail(q)[i] = q[i + 1]
OBVIOUS

\* Where they are when there is another one.
LEMMA AppendAt ==
    ASSUME NEW S, NEW q \in Seq(S), NEW e
    PROVE  /\ Len(q) \in Nat /\ DOMAIN q = 1..Len(q)
           /\ DOMAIN Append(q, e) = 1..(Len(q) + 1)
           /\ Append(q, e)[Len(q) + 1] = e
           /\ \A i \in DOMAIN q : Append(q, e)[i] = q[i]
           /\ q # <<>> => Len(q) >= 1
OBVIOUS

\* A write that a live stream is told of.
LEMMA StreamWrite ==
    ASSUME WatcherTypeOK, StreamInv, NEW n \in Names, NEW v, NEW op \in {"put", "delete"},
           op = "delete" => v = 0, WriteLock(n, v, op), UNCHANGED pc
    PROVE  StreamInv'
<1> DEFINE e == [op |-> op, name |-> n, version |-> v]
           q == stream.events
<1>1. CASE stream.state # "live"
  <2>1. UNCHANGED stream
    BY <1>1 DEF WriteLock
  <2>2. QED
    BY <2>1 DEF StreamInv
<1>2. CASE stream.state = "live"
  <2>1. stream' = [stream EXCEPT !.events = Append(q, e)]
    BY <1>2 DEF WriteLock
  <2>2. stream'.state = "live" /\ stream'.events = Append(q, e) /\ q \in Seq(StreamEvent)
    BY <1>2, <2>1 DEF WatcherTypeOK
  <2>3. e.op = op /\ e.version = v
    OBVIOUS
  <2> HIDE DEF e
  <2> DEFINE r == Append(q, e)
  <2>4. /\ Len(q) \in Nat /\ DOMAIN q = 1..Len(q)
        /\ DOMAIN r = 1..(Len(q) + 1)
        /\ r[Len(q) + 1] = e
        /\ \A i \in DOMAIN q : r[i] = q[i]
        /\ pc = "init" => Len(q) >= 1
    BY <1>2, <2>2, AppendAt DEF StreamInv
  <2> HIDE DEF r
  <2>5. ASSUME NEW i \in DOMAIN r
        PROVE  /\ r[i].op = "init" <=> pc = "init" /\ i = 1
               /\ r[i].op = "delete" => r[i].version = 0
    <3>1. CASE i \in DOMAIN q
      BY <2>4, <3>1 DEF StreamInv
    <3>2. CASE i = Len(q) + 1
      <4>1. i = 1 => pc # "init"
        BY <2>4, <3>2
      <4>2. r[i] = e
        BY <2>4, <3>2
      <4>3. QED
        BY <2>3, <4>1, <4>2
    <3>3. QED
      BY <2>4, <3>1, <3>2
  <2>6. r # <<>>
    BY <2>4
  <2>7. QED
    BY <1>2, <2>2, <2>5, <2>6 DEF StreamInv, r
<1>3. QED
  BY <1>1, <1>2

\* The order of the events in the stream, step by step.
LEMMA SourceStream ==
    ASSUME WatcherTypeOK, StreamInv, Source
    PROVE  StreamInv'
<1>1. UNCHANGED pc
  BY DEF Source
<1>2. ASSUME NEW n \in Names, UpsertLock(n) \/ DeleteLock(n) PROVE StreamInv'
  BY <1>1, <1>2, StreamWrite DEF UpsertLock, DeleteLock
<1>3. CASE Lapse \/ Recover
  BY <1>1, <1>3 DEF Lapse, Recover, StreamInv
<1>4. CASE Break \/ BreakAgain
  <2>1. \/ UNCHANGED stream
        \/ stream.state # "none" /\ stream' = [stream EXCEPT !.state = "closed"]
    BY <1>4 DEF Break, BreakAgain
  <2>2. \/ UNCHANGED stream
        \/ /\ stream.state # "none" /\ stream'.state = "closed"
           /\ stream'.events = stream.events
    BY <2>1 DEF WatcherTypeOK
  <2>3. QED
    BY <1>1, <2>2 DEF StreamInv
<1>5. CASE Establish
  <2>1. /\ stream'.state = "live" /\ pc = "init"
        /\ stream'.events = <<[op |-> "init"]>>
    BY <1>5 DEF Establish, StreamInv
  <2>2. /\ DOMAIN stream'.events = {1} /\ stream'.events[1].op = "init"
        /\ stream'.events # <<>>
    BY <2>1
  <2>3. QED
    BY <1>1, <2>1, <2>2 DEF StreamInv
<1>6. QED
  BY <1>2, <1>3, <1>4, <1>5 DEF Source

\* The loop goes on with the stream it has.
LEMMA StreamStays ==
    ASSUME StreamInv, UNCHANGED stream, pc # "init", pc' # "init",
           pc' \in {"start", "retry", "stale", "mark"} =>
               pc \in {"start", "retry", "stale", "mark"}
    PROVE  StreamInv'
BY DEF StreamInv

LEMMA ReturnStream ==
    ASSUME NEW error, Return(error)
    PROVE  StreamInv'
<1>1. stream'.state = "none" /\ stream'.events = <<>> /\ pc' = "retry"
  BY DEF Return, NoStream
<1>2. DOMAIN stream'.events = {}
  BY <1>1
<1>3. QED
  BY <1>1, <1>2 DEF StreamInv

\* The loop takes an event.
LEMMA StreamTail ==
    ASSUME WatcherTypeOK, StreamInv, stream.events # <<>>,
           stream' = [stream EXCEPT !.events = Tail(@)],
           pc \in {"init", "loop"}, pc' \in {"fetch", "loop", "panicked"}
    PROVE  StreamInv'
<1> DEFINE q == stream.events
           r == Tail(q)
<1>1. stream'.state = stream.state /\ stream'.events = r /\ q \in Seq(StreamEvent)
  BY DEF WatcherTypeOK
<1>2. /\ Len(q) \in Nat /\ DOMAIN q = 1..Len(q)
      /\ DOMAIN r = 1..(Len(q) - 1)
      /\ \A i \in DOMAIN r : i + 1 \in DOMAIN q /\ r[i] = q[i + 1]
  BY <1>1, TailAt
<1> HIDE DEF r
<1>3. ASSUME NEW i \in DOMAIN r
      PROVE  r[i].op # "init" /\ (r[i].op = "delete" => r[i].version = 0)
  <2>1. i + 1 # 1 /\ i + 1 \in DOMAIN q /\ r[i] = q[i + 1]
    BY <1>2
  <2>2. QED
    BY <2>1 DEF StreamInv
<1>4. stream.state \notin {"none", "opened"}
  BY DEF StreamInv
<1>5. QED
  BY <1>1, <1>3, <1>4 DEF StreamInv

LEMMA WatchLoopStream ==
    ASSUME WatcherTypeOK, StreamInv, WatchLoop
    PROVE  StreamInv'
<1>1. CASE NewWatcher
  <2>1. CASE stream' = [state |-> "opened", events |-> <<>>] /\ pc' = "init"
    <3>1. /\ stream'.state = "opened" /\ stream'.events = <<>>
          /\ DOMAIN stream'.events = {}
      BY <2>1
    <3>2. QED
      BY <2>1, <3>1 DEF StreamInv
  <2>2. CASE Return(TRUE)
    BY <2>2, ReturnStream
  <2>3. QED
    BY <1>1, <2>1, <2>2 DEF NewWatcher
<1>2. CASE ReceiveInit
  BY <1>2, StreamTail DEF ReceiveInit, Goto
<1>3. CASE Interrupted \/ FetchFails
  BY <1>3, ReturnStream DEF Interrupted, FetchFails
<1>4. CASE Fetch
  BY <1>4, StreamStays DEF Fetch, Goto
<1>5. CASE EmitFetched
  <2>1. pc = "emit" /\ UNCHANGED stream /\ pc' \in {"emit", "panicked"}
    BY <1>5 DEF EmitFetched, Goto
  <2>2. QED
    BY <2>1, StreamStays
<1>6. CASE Updated
  BY <1>6, StreamStays DEF Updated
<1>7. CASE ProcessEvent
  <2>1. pc' \in {"loop", "panicked"}
    BY <1>7, ProcessedEvent DEF Goto
  <2>2. QED
    BY <1>7, <2>1, StreamTail DEF ProcessEvent
<1>8. CASE Restart
  BY <1>8, StreamStays DEF Restart
<1>9. CASE NotifyStale
  <2>1. pc = "stale" /\ UNCHANGED stream /\ pc' \in {"mark", "panicked"}
    BY <1>9 DEF NotifyStale, Goto
  <2>2. QED
    BY <2>1, StreamStays
<1>10. CASE MarkStale
  BY <1>10, StreamStays DEF MarkStale, Goto
<1>11. QED
  BY <1>1, <1>2, <1>3, <1>4, <1>5, <1>6, <1>7, <1>8, <1>9, <1>10 DEF WatchLoop

LEMMA StreamKeeps ==
    ASSUME WatcherTypeOK, StreamInv, [Next]_watcherVars
    PROVE  StreamInv'
<1>1. CASE SetInit \/ (\E s \in Sessions : Monitor(s)) \/ WatcherTick \/ UNCHANGED watcherVars
  <2>1. UNCHANGED <<stream, pc>>
    BY <1>1 DEF SetInit, Monitor, WatcherTick, watcherVars, loopVars
  <2>2. QED
    BY <2>1 DEF StreamInv
<1>2. QED
  BY <1>1, SourceStream, WatchLoopStream DEF Next

-----------------------------------------------------------------------------
\* The clock.

\* Sums of numbers that are bounded.
LEMMA Sums ==
    /\ \A a, b, c, d \in Int : a <= c /\ b <= d => a + b <= c + d
    /\ \A a, b, c, d \in Int : a + b <= d /\ c <= a + 1 => c + (b - 1) <= d
    /\ \A a, b, c \in Int : a = 0 /\ b <= c => a + b <= c
OBVIOUS

\* How long ago the error was, step by step: a watch that ends starts the wait.
LEMMA ReturnClock ==
    ASSUME WatcherTypeOK, NEW error, Return(error), UNCHANGED <<viewVars, inited>>,
           isStale => inited,
           ~isStale => overdue <= Longest
    PROVE  ClockInv'
<1>1. /\ pc' = "retry" /\ retry' \in IF eager THEN {0} ELSE 1..RetryPeriod
      /\ overdue' = overdue \/ overdue' = 0
  BY DEF Return
<1>2. /\ overdue \in Int /\ Longest \in Nat /\ RetryPeriod \in Nat
      /\ StaleLimit = Longest + RetryPeriod
  BY WatcherBounds DEF WatcherTypeOK
<1>3. retry' \in Int /\ retry' <= RetryPeriod
  BY <1>1, <1>2
<1>4. ASSUME ~isStale PROVE overdue' + retry' <= StaleLimit
  <2>1. overdue' \in Int /\ overdue' <= Longest
    BY <1>1, <1>2, <1>4
  <2>2. Longest \in Int /\ RetryPeriod \in Int
    BY <1>2
  <2>3. overdue' + retry' <= Longest + RetryPeriod
    BY <1>3, <2>1, <2>2, Sums
  <2>4. QED
    BY <1>2, <2>3
<1>5. QED
  BY <1>1, <1>4 DEF ClockInv, viewVars

LEMMA WatchLoopClock ==
    ASSUME WatcherTypeOK, StreamInv, ClockInv, LagInv, WatchLoop
    PROVE  ClockInv'
<1>1. UNCHANGED inited /\ overdue \in Int /\ failing \in Int
      /\ refetch \in Nat /\ retry \in Nat
  BY WatcherBounds DEF WatchLoop, WatcherTypeOK
<1>2. /\ Longest <= StaleLimit /\ MaxStaleness + RetryPeriod <= Longest
      /\ NotOverdue <= Longest /\ NotOverdue <= StaleLimit
      /\ NotOverdue <= MaxStaleness + RetryPeriod
  BY WatcherBounds
<1>3. CASE NewWatcher
  <2>1. pc = "start" /\ UNCHANGED viewVars
    BY <1>3 DEF NewWatcher
  <2>2. CASE Return(TRUE)
    <3>1. isStale => inited
      BY DEF ClockInv
    <3>2. ASSUME ~isStale PROVE overdue <= Longest
      <4>1. overdue <= MaxStaleness + RetryPeriod
        BY <2>1, <3>2 DEF ClockInv
      <4>2. QED
        BY <1>1, <1>2, <4>1, WatcherBounds
    <3>3. QED
      BY <1>1, <2>1, <2>2, <3>1, <3>2, ReturnClock
  <2>3. CASE pc' = "init" /\ refetch' = RefetchPeriod /\ UNCHANGED overdue
    <3>1. ASSUME ~isStale PROVE overdue + RefetchPeriod <= Longest
      <4>1. overdue <= MaxStaleness + RetryPeriod
        BY <2>1, <3>1 DEF ClockInv
      <4>2. QED
        BY <1>1, <4>1, WatcherBounds
    <3>2. QED
      BY <1>1, <2>1, <2>3, <3>1 DEF ClockInv, viewVars
  <2>4. QED
    BY <1>3, <2>2, <2>3 DEF NewWatcher
<1>4. CASE ReceiveInit
  <2>1. pc = "init" /\ pc' = "fetch" /\ UNCHANGED <<overdue, viewVars>>
    BY <1>4 DEF ReceiveInit, Goto, clockVars
  <2>2. ASSUME ~isStale PROVE overdue <= Longest
    <3>1. overdue + refetch <= Longest
      BY <2>1, <2>2 DEF ClockInv
    <3>2. QED
      BY <1>1, <3>1, WatcherBounds
  <2>3. QED
    BY <1>1, <2>1, <2>2 DEF ClockInv, viewVars
<1>5. CASE Interrupted
  <2>1. UNCHANGED viewVars /\ (\E error \in BOOLEAN : Return(error))
    BY <1>5 DEF Interrupted
  <2>2. ASSUME ~isStale PROVE overdue <= Longest
    <3>1. CASE pc = "init"
      <4>1. overdue + refetch <= Longest
        BY <2>2, <3>1 DEF ClockInv
      <4>2. QED
        BY <1>1, <4>1, WatcherBounds
    <3>2. CASE pc = "loop"
      BY <1>2, <3>2 DEF ClockInv
    <3>3. QED
      BY <1>5, <3>1, <3>2 DEF Interrupted
  <2>3. QED
    BY <1>1, <2>1, <2>2, ReturnClock DEF ClockInv
<1>6. CASE FetchFails
  BY <1>1, <1>6, ReturnClock DEF FetchFails, ClockInv
<1>7. CASE Fetch
  <2>1. pc = "fetch" /\ pc' = "emit" /\ UNCHANGED overdue /\ isStale' = FALSE
    BY <1>7 DEF Fetch, Goto, clockVars
  <2>2. ~inited => overdue <= Longest
    BY <2>1 DEF ClockInv
  <2>3. QED
    BY <1>1, <2>1, <2>2 DEF ClockInv
<1>8. CASE EmitFetched
  <2>1. /\ pc = "emit" /\ UNCHANGED <<overdue, isStale>>
        /\ pc' = "emit" \/ (pc' = "panicked" /\ ~inited)
    BY <1>8 DEF EmitFetched, Goto, clockVars
  <2>2. QED
    BY <1>1, <1>2, <2>1, WatcherBounds DEF ClockInv
<1>9. CASE Updated
  BY <1>1, <1>9 DEF Updated, ClockInv, viewVars
<1>10. CASE ProcessEvent
  <2>1. /\ pc = "loop" /\ pc' \in {"loop", "panicked"} /\ UNCHANGED <<overdue, isStale>>
    BY <1>10 DEF ProcessEvent, Goto, clockVars
  <2>2. QED
    BY <1>1, <1>2, <2>1 DEF ClockInv
<1>11. CASE Restart
  <2>1. /\ pc = "retry" /\ retry = 0 /\ UNCHANGED <<overdue, viewVars>>
        /\ failing' = FailureSince
        /\ pc' = IF failing' > MaxStaleness THEN "stale" ELSE "start"
    BY <1>11 DEF Restart
  <2>2. failing' \in Int
    BY <1>1, <2>1 DEF FailureSince
  <2>3. CASE failing' > MaxStaleness
    <3>1. ~isStale => overdue <= StaleLimit
      <4>1. ~isStale => overdue + 0 <= StaleLimit
        BY <2>1 DEF ClockInv
      <4>2. QED
        BY <1>1, <4>1
    <3>2. QED
      BY <1>1, <2>1, <2>3, <3>1 DEF ClockInv, viewVars
  <2>4. CASE ~(failing' > MaxStaleness)
    <3>1. failing' <= MaxStaleness /\ pc' = "start"
      BY <2>1, <2>2, <2>4, WatcherBounds
    <3>2. overdue <= MaxStaleness + RetryPeriod
      <4>1. CASE failing = NotFailing /\ failed
        <5>1. overdue + 0 <= RetryPeriod
          BY <2>1, <4>1 DEF LagInv
        <5>2. QED
          BY <1>1, <5>1, WatcherBounds
      <4>2. CASE failing = NotFailing /\ ~failed
        BY <1>2, <4>2 DEF LagInv
      <4>3. CASE failing # NotFailing
        <5>1. failing <= MaxStaleness
          BY <2>1, <3>1, <4>3 DEF FailureSince
        <5>2. overdue <= failing + RetryPeriod
          BY <4>3, <5>1 DEF LagInv
        <5>3. QED
          BY <1>1, <5>1, <5>2, WatcherBounds
      <4>4. QED
        BY <4>1, <4>2, <4>3 DEF WatcherTypeOK
    <3>3. QED
      BY <1>1, <2>1, <3>1, <3>2 DEF ClockInv, viewVars
  <2>5. QED
    BY <2>3, <2>4
<1>12. CASE NotifyStale
  <2>1. /\ pc = "stale" /\ UNCHANGED <<overdue, viewVars>>
        /\ (pc' = "mark" /\ inited) \/ pc' = "panicked"
    BY <1>12 DEF NotifyStale, Goto, clockVars
  <2>2. QED
    BY <1>1, <2>1 DEF ClockInv, viewVars
<1>13. CASE MarkStale
  <2>1. pc = "mark" /\ pc' = "start" /\ isStale' = TRUE
    BY <1>13 DEF MarkStale, Goto
  <2>2. QED
    BY <1>1, <2>1 DEF ClockInv
<1>14. QED
  BY <1>3, <1>4, <1>5, <1>6, <1>7, <1>8, <1>9, <1>10, <1>11, <1>12, <1>13 DEF WatchLoop

\* A watch that ends starts the history, and the code's count one wait later.
LEMMA ReturnLag ==
    ASSUME WatcherTypeOK, LagInv, NEW error \in BOOLEAN, Return(error), pc # "retry"
    PROVE  LagInv'
<1>1. /\ pc' = "retry" /\ failed' = error /\ UNCHANGED failing
      /\ retry' \in IF eager THEN {0} ELSE 1..RetryPeriod
      /\ overdue' = IF error /\ overdue = NotOverdue THEN 0 ELSE overdue
  BY DEF Return
<1>2. /\ overdue \in Int /\ failing \in Int /\ RetryPeriod \in Nat /\ NotFailing = -1
      /\ failing >= NotFailing
  BY WatcherBounds DEF WatcherTypeOK
<1>3. retry' \in Int /\ retry' <= RetryPeriod
  BY <1>1, <1>2
<1>4. CASE failing = NotFailing
  <2>1. overdue = NotOverdue
    BY <1>4 DEF LagInv
  <2>2. CASE error
    <3>1. overdue' = 0
      BY <1>1, <2>1, <2>2
    <3>2. overdue' + retry' <= RetryPeriod
      <4>1. overdue' \in Int /\ RetryPeriod \in Int
        BY <1>2, <3>1
      <4>2. QED
        BY <1>3, <3>1, <4>1, Sums
    <3>3. QED
      BY <1>1, <1>4, <2>2, <3>1, <3>2 DEF LagInv, NotFailing
  <2>3. CASE ~error
    BY <1>1, <1>4, <2>1, <2>3 DEF LagInv, NotOverdue, NotFailing
  <2>4. QED
    BY <2>2, <2>3
<1>5. CASE failing # NotFailing
  <2>1. failing >= 0
    BY <1>2, <1>5
  <2>2. failing <= MaxStaleness => overdue' <= failing + RetryPeriod
    BY <1>1, <1>2, <1>5, <2>1 DEF LagInv
  <2>3. QED
    BY <1>1, <1>5, <2>2 DEF LagInv, NotFailing
<1>6. QED
  BY <1>4, <1>5

LEMMA WatchLoopLag ==
    ASSUME WatcherTypeOK, LagInv, WatchLoop
    PROVE  LagInv'
<1>1. CASE NewWatcher \/ Interrupted \/ FetchFails
  <2>1. pc # "retry"
    BY <1>1 DEF NewWatcher, Interrupted, FetchFails
  <2>2. CASE \E error \in BOOLEAN : Return(error)
    BY <2>1, <2>2, ReturnLag
  <2>3. CASE pc' = "init" /\ UNCHANGED <<failing, overdue>>
    BY <2>1, <2>3 DEF LagInv, NotFailing, NotOverdue
  <2>4. QED
    BY <1>1, <2>2, <2>3 DEF NewWatcher, Interrupted, FetchFails
<1>2. CASE ReceiveInit \/ Fetch \/ EmitFetched \/ ProcessEvent \/ NotifyStale \/ MarkStale
  <2>1. /\ pc # "retry" /\ pc' # "retry" /\ UNCHANGED <<failing, overdue>>
        /\ pc' = "loop" => pc = "loop"
    BY <1>2 DEF ReceiveInit, Fetch, EmitFetched, ProcessEvent, NotifyStale, MarkStale,
                Goto, clockVars
  <2>2. QED
    BY <2>1 DEF LagInv, NotFailing, NotOverdue
<1>3. CASE Updated
  BY <1>3 DEF Updated, LagInv, NotFailing, NotOverdue
<1>4. CASE Restart
  <2>1. /\ pc = "retry" /\ retry = 0 /\ UNCHANGED overdue /\ pc' \in {"stale", "start"}
        /\ failing' = FailureSince
    BY <1>4 DEF Restart
  <2>2. /\ overdue \in Int /\ RetryPeriod \in Nat /\ NotFailing = -1
    BY WatcherBounds DEF WatcherTypeOK
  <2>3. CASE failing = NotFailing /\ failed
    <3>1. overdue + 0 <= RetryPeriod /\ failing' = 0
      BY <2>1, <2>3 DEF LagInv, FailureSince
    <3>2. overdue <= 0 + RetryPeriod
      BY <2>2, <3>1
    <3>3. QED
      BY <2>1, <2>2, <3>1, <3>2 DEF LagInv, NotFailing
  <2>4. CASE ~(failing = NotFailing /\ failed)
    <3>1. failing' = failing
      BY <2>1, <2>4 DEF FailureSince
    <3>2. QED
      BY <2>1, <2>4, <3>1 DEF LagInv, NotFailing, NotOverdue
  <2>5. QED
    BY <2>3, <2>4
<1>5. QED
  BY <1>1, <1>2, <1>3, <1>4 DEF WatchLoop

\* A tick goes by while the loop waits, and the time it can wait grows shorter.
LEMMA TickClock ==
    ASSUME WatcherTypeOK, ClockInv, LagInv, WatcherTick
    PROVE  ClockInv' /\ LagInv'
<1>1. /\ UNCHANGED <<pc, failed, isStale, inited>>
      /\ refetch' = Dec(refetch) /\ retry' = Dec(retry)
      /\ pc \notin {"start", "fetch", "emit", "stale", "mark", "panicked"}
      /\ pc = "retry" => retry # 0
      /\ pc = "init" => refetch # 0
  BY DEF WatcherTick, Due, viewVars
<1>2. /\ refetch \in Nat /\ retry \in Nat /\ overdue \in Int /\ overdue' \in Int
      /\ overdue' <= overdue + 1
      /\ overdue = NotOverdue => overdue' = NotOverdue
  BY WatcherBounds DEF WatcherTick, Counted, WatcherTypeOK
<1>3. /\ failing \in Int /\ failing' \in Int /\ failing >= -1
      /\ failing = NotFailing => failing' = NotFailing
      /\ failing # NotFailing =>
           /\ failing' # NotFailing
           /\ failing' <= MaxStaleness => failing' = failing + 1
  BY WatcherBounds DEF WatcherTick, Counted, WatcherTypeOK
<1>a. Longest \in Int /\ StaleLimit \in Int /\ RetryPeriod \in Int /\ MaxStaleness \in Int
  BY WatcherBounds
<1>4. ASSUME NEW limit \in Int, NEW wait \in Nat, wait # 0, overdue + wait <= limit
      PROVE  overdue' + Dec(wait) <= limit
  <2>1. Dec(wait) = wait - 1
    BY <1>4 DEF Dec
  <2>2. overdue \in Int /\ wait \in Int /\ overdue' \in Int /\ overdue' <= overdue + 1
    BY <1>2, <1>4
  <2>3. overdue' + (wait - 1) <= limit
    BY <1>4, <2>2, Sums
  <2>4. QED
    BY <2>1, <2>3
<1>5. CASE pc = "init"
  <2>1. ~isStale => overdue' + refetch' <= Longest
    BY <1>1, <1>2, <1>a, <1>4, <1>5 DEF ClockInv
  <2>2. QED
    <3>1. ClockInv'
      BY <1>1, <1>5, <2>1 DEF ClockInv, Longest
    <3>2. CASE failing = NotFailing
      <4>1. failing' = NotFailing /\ pc' = "init" /\ overdue' = NotOverdue
        BY <1>1, <1>2, <1>3, <1>5, <3>2 DEF LagInv
      <4>2. QED
        BY <3>1, <4>1 DEF LagInv, NotFailing, NotOverdue
    <3>3. CASE failing # NotFailing
      <4>1. ASSUME failing' <= MaxStaleness PROVE overdue' <= failing' + RetryPeriod
        <5>1. failing' = failing + 1 /\ failing <= MaxStaleness
          BY <1>3, <1>a, <3>3, <4>1
        <5>2. overdue <= failing + RetryPeriod
          BY <3>3, <5>1 DEF LagInv
        <5>3. QED
          BY <1>2, <1>3, <1>a, <5>1, <5>2
      <4>2. failing' # NotFailing /\ pc' = "init"
        BY <1>1, <1>3, <1>5, <3>3
      <4>3. QED
        BY <3>1, <4>1, <4>2 DEF LagInv, NotFailing
    <3>4. QED
      BY <3>1, <3>2, <3>3
<1>6. CASE pc = "retry"
  <2>1. ~isStale => overdue' + retry' <= StaleLimit
    BY <1>1, <1>2, <1>a, <1>4, <1>6 DEF ClockInv
  <2>2. ClockInv'
    BY <1>1, <1>6, <2>1 DEF ClockInv
  <2>3. CASE failing = NotFailing
    <3>1. CASE failed
      <4>1. overdue' + retry' <= RetryPeriod
        BY <1>1, <1>2, <1>a, <1>4, <1>6, <2>3, <3>1 DEF LagInv
      <4>2. QED
        BY <1>1, <1>3, <1>6, <2>2, <2>3, <3>1, <4>1 DEF LagInv, NotFailing
    <3>2. CASE ~failed
      BY <1>1, <1>2, <1>3, <1>6, <2>2, <2>3, <3>2 DEF LagInv, NotFailing, NotOverdue
    <3>3. QED
      BY <3>1, <3>2
  <2>4. CASE failing # NotFailing
    <3>1. ASSUME failing' <= MaxStaleness PROVE overdue' <= failing' + RetryPeriod
      <4>1. failing' = failing + 1 /\ failing <= MaxStaleness
        BY <1>3, <1>a, <2>4, <3>1
      <4>2. overdue <= failing + RetryPeriod
        BY <2>4, <4>1 DEF LagInv
      <4>3. QED
        BY <1>2, <1>3, <1>a, <4>1, <4>2
    <3>2. QED
      BY <1>1, <1>3, <1>6, <2>2, <2>4, <3>1 DEF LagInv, NotFailing
  <2>5. QED
    BY <2>3, <2>4
<1>7. CASE pc = "loop"
  <2>1. ClockInv'
    BY <1>1, <1>2, <1>7 DEF ClockInv, NotOverdue
  <2>2. QED
    BY <1>1, <1>2, <1>3, <1>7, <2>1 DEF LagInv, NotFailing, NotOverdue
<1>8. QED
  BY <1>1, <1>5, <1>6, <1>7 DEF WatcherTypeOK

LEMMA ClockKeeps ==
    ASSUME WatcherTypeOK, StreamInv, ClockInv, LagInv, [Next]_watcherVars
    PROVE  ClockInv' /\ LagInv'
<1>1. CASE Source
  BY <1>1 DEF Source, clockVars, viewVars, ClockInv, LagInv, NotFailing, NotOverdue
<1>2. CASE SetInit
  BY <1>2 DEF SetInit, loopVars, viewVars, ClockInv, LagInv, NotFailing, NotOverdue
<1>3. CASE (\E s \in Sessions : Monitor(s)) \/ UNCHANGED watcherVars
  BY <1>3 DEF Monitor, watcherVars, loopVars, viewVars, ClockInv, LagInv, NotFailing,
              NotOverdue
<1>4. QED
  BY <1>1, <1>2, <1>3, WatchLoopClock, WatchLoopLag, TickClock DEF Next

-----------------------------------------------------------------------------
\* What the view will be.

\* The events about a lock once the first one has been taken.
LEMMA TailAbout ==
    ASSUME NEW q \in Seq(StreamEvent), q # <<>>, NEW n
    PROVE  /\ \A c : InStream(n, q, c) => InStream(n, Tail(q), c)
           /\ About(n, Tail(q)) = {} =>
                IF 1 \in About(n, q) THEN LastAbout(1, n, q) ELSE About(n, q) = {}
<1> DEFINE r == Tail(q)
<1>1. /\ Len(q) \in Nat /\ DOMAIN q = 1..Len(q) /\ 1 \in DOMAIN q
      /\ DOMAIN r = 1..(Len(q) - 1)
      /\ \A i \in DOMAIN r : i + 1 \in DOMAIN q /\ r[i] = q[i + 1]
  BY TailAt
<1> HIDE DEF r
<1>2. ASSUME NEW i \in About(n, r) PROVE i \in DOMAIN r /\ i \in Nat /\ i + 1 \in About(n, q)
  <2>1. i \in DOMAIN r /\ r[i].op # "init" /\ r[i].name = n
    BY DEF About
  <2>2. i + 1 \in DOMAIN q /\ r[i] = q[i + 1] /\ i \in Nat
    BY <1>1, <2>1
  <2>3. QED
    BY <2>1, <2>2 DEF About
<1>3. ASSUME NEW j \in About(n, q), j # 1 PROVE j \in Nat /\ j - 1 \in Nat /\ j - 1 \in About(n, r)
  <2>1. j \in DOMAIN q /\ q[j].op # "init" /\ q[j].name = n
    BY DEF About
  <2>2. j \in Nat /\ j - 1 \in Nat /\ j - 1 \in DOMAIN r /\ (j - 1) + 1 = j
    BY <1>1, <1>3, <2>1
  <2>3. r[j - 1] = q[j]
    BY <1>1, <2>2
  <2>4. QED
    BY <2>1, <2>2, <2>3 DEF About
<1>4. ASSUME NEW c, InStream(n, q, c), NEW i \in DOMAIN r, LastAbout(i, n, r)
      PROVE  r[i].version = c
  <2>1. i \in About(n, r) /\ \A j \in About(n, r) : j <= i
    BY <1>4 DEF LastAbout
  <2>2. i \in Nat /\ i + 1 \in About(n, q) /\ i + 1 \in DOMAIN q /\ r[i] = q[i + 1]
    BY <1>1, <1>2, <2>1
  <2>3. ASSUME NEW j \in About(n, q) PROVE j <= i + 1
    <3>1. CASE j = 1
      BY <2>2, <3>1
    <3>2. CASE j # 1
      <4>1. j \in Nat /\ j - 1 \in Nat /\ j - 1 <= i
        BY <1>3, <2>1, <3>2
      <4>2. QED
        BY <2>2, <4>1
    <3>3. QED
      BY <3>1, <3>2
  <2>4. LastAbout(i + 1, n, q)
    BY <2>2, <2>3 DEF LastAbout
  <2>5. QED
    BY <1>4, <2>2, <2>4 DEF InStream
<1>5. ASSUME About(n, r) = {}
      PROVE  IF 1 \in About(n, q) THEN LastAbout(1, n, q) ELSE About(n, q) = {}
  <2>1. \A j \in About(n, q) : j = 1
    BY <1>3, <1>5
  <2>2. QED
    BY <2>1 DEF LastAbout
<1>6. QED
  BY <1>4, <1>5 DEF InStream, r

\* And when there is another one.
LEMMA AppendAbout ==
    ASSUME NEW q \in Seq(StreamEvent), NEW e, e.op # "init", NEW n
    PROVE  /\ e.name # n => /\ About(n, Append(q, e)) = About(n, q)
                            /\ \A c : InStream(n, q, c) => InStream(n, Append(q, e), c)
           /\ e.name = n => /\ About(n, Append(q, e)) # {}
                            /\ InStream(n, Append(q, e), e.version)
<1> DEFINE r == Append(q, e)
<1>1. /\ Len(q) \in Nat /\ DOMAIN q = 1..Len(q)
      /\ DOMAIN r = 1..(Len(q) + 1)
      /\ r[Len(q) + 1] = e
      /\ \A i \in DOMAIN q : r[i] = q[i]
  BY AppendAt
<1> HIDE DEF r
<1> DEFINE k == Len(q) + 1
<1>2. k \in DOMAIN r /\ k \notin DOMAIN q /\ r[k] = e /\ DOMAIN r = DOMAIN q \cup {k}
      /\ \A j \in DOMAIN r : j <= k
  BY <1>1
<1> HIDE DEF k
<1>3. ASSUME e.name # n
      PROVE  /\ About(n, r) = About(n, q)
             /\ \A c : InStream(n, q, c) => InStream(n, r, c)
  <2>1. About(n, r) \subseteq About(n, q)
    BY <1>1, <1>2, <1>3 DEF About
  <2>2. About(n, q) \subseteq About(n, r)
    BY <1>1, <1>2 DEF About
  <2>3. About(n, r) = About(n, q)
    BY <2>1, <2>2
  <2>4. ASSUME NEW c, InStream(n, q, c), NEW i \in DOMAIN r, LastAbout(i, n, r)
        PROVE  r[i].version = c
    <3>1. LastAbout(i, n, q)
      BY <2>3, <2>4 DEF LastAbout
    <3>2. i \in DOMAIN q
      BY <3>1 DEF LastAbout, About
    <3>3. q[i].version = c
      BY <2>4, <3>1, <3>2 DEF InStream
    <3>4. QED
      BY <1>1, <3>2, <3>3
  <2>5. QED
    BY <2>3, <2>4 DEF InStream
<1>4. ASSUME e.name = n
      PROVE  About(n, r) # {} /\ InStream(n, r, e.version)
  <2>1. k \in About(n, r)
    BY <1>2, <1>4 DEF About
  <2>2. ASSUME NEW i \in DOMAIN r, LastAbout(i, n, r) PROVE r[i].version = e.version
    <3>1. k <= i /\ i <= k
      BY <1>2, <2>1, <2>2 DEF LastAbout
    <3>2. i \in Int /\ k \in Int
      BY <1>1 DEF k
    <3>3. i = k
      BY <3>1, <3>2
    <3>4. QED
      BY <1>2, <3>3
  <2>3. QED
    BY <2>1, <2>2 DEF InStream
<1>5. QED
  BY <1>3, <1>4 DEF r

\* A write is the last event about its lock.
LEMMA FollowWrite ==
    ASSUME WatcherTypeOK, FollowInv, NEW n \in Names, NEW v, NEW op \in {"put", "delete"},
           WriteLock(n, v, op), UNCHANGED <<pc, view, lapsed>>
    PROVE  FollowInv'
<1> DEFINE e == [op |-> op, name |-> n, version |-> v]
           q == stream.events
<1>1. e.op # "init" /\ e.name = n /\ e.version = v
  OBVIOUS
<1> HIDE DEF e
<1>2. CASE stream.state # "live"
  <2>1. UNCHANGED stream
    BY <1>2 DEF WriteLock
  <2>2. QED
    BY <1>2, <2>1 DEF FollowInv
<1>3. CASE stream.state = "live"
  <2>1. stream' = [stream EXCEPT !.events = Append(q, e)] /\ stored' = [stored EXCEPT ![n] = v]
    BY <1>3 DEF WriteLock, e
  <2>2. stream'.events = Append(q, e) /\ q \in Seq(StreamEvent)
    BY <2>1 DEF WatcherTypeOK
  <2>3. stored'[n] = v /\ \A m \in Names \ {n} : stored'[m] = stored[m]
    BY <2>1 DEF WatcherTypeOK
  <2>4. ASSUME NEW m \in Names
        PROVE  /\ InStream(m, stream'.events, stored'[m])
               /\ pc \in {"emit", "loop"} /\ About(m, stream'.events) = {} =>
                    Same(view[m], stored'[m], lapsed)
    <3>1. CASE m = n
      BY <1>1, <2>2, <2>3, <3>1, AppendAbout
    <3>2. CASE m # n
      <4>1. /\ InStream(m, q, stored[m])
            /\ pc \in {"emit", "loop"} /\ About(m, q) = {} => Same(view[m], stored[m], lapsed)
        BY <1>3 DEF FollowInv
      <4>2. /\ About(m, stream'.events) = About(m, q)
            /\ InStream(m, stream'.events, stored[m])
        BY <1>1, <2>2, <3>2, <4>1, AppendAbout
      <4>3. stored'[m] = stored[m]
        BY <2>3, <3>2
      <4>4. QED
        BY <4>1, <4>2, <4>3
    <3>3. QED
      BY <3>1, <3>2
  <2>5. QED
    BY <2>4 DEF FollowInv
<1>4. QED
  BY <1>2, <1>3

\* View and stream make up the locks, step by step.
LEMMA SourceFollow ==
    ASSUME WatcherTypeOK, StreamInv, FollowInv, Source
    PROVE  FollowInv'
<1>1. UNCHANGED <<pc, view>>
  BY DEF Source, viewVars
<1>2. ASSUME NEW n \in Names, UpsertLock(n) \/ DeleteLock(n) PROVE FollowInv'
  BY <1>1, <1>2, FollowWrite DEF UpsertLock, DeleteLock
<1>3. CASE Lapse \/ Recover
  <2>1. UNCHANGED <<stored, stream>> /\ lapsed \subseteq lapsed'
    BY <1>3 DEF Lapse, Recover
  <2>2. \A v, w : Same(v, w, lapsed) => Same(v, w, lapsed')
    BY <2>1 DEF Same
  <2>3. QED
    BY <1>1, <2>1, <2>2 DEF FollowInv
<1>4. CASE Break \/ BreakAgain
  <2>1. \/ UNCHANGED <<stream, stored, lapsed>>
        \/ stream' = [stream EXCEPT !.state = "closed"]
    BY <1>4 DEF Break, BreakAgain
  <2>2. UNCHANGED <<stream, stored, lapsed>> \/ stream'.state = "closed"
    BY <2>1 DEF WatcherTypeOK
  <2>3. QED
    BY <1>1, <2>2 DEF FollowInv
<1>5. CASE Establish
  <2>1. stream'.events = <<[op |-> "init"]>> /\ pc = "init"
    BY <1>5 DEF Establish, StreamInv
  <2>2. /\ DOMAIN stream'.events = {1} /\ stream'.events[1].op = "init"
    BY <2>1
  <2>3. \A n : About(n, stream'.events) = {}
    BY <2>2 DEF About
  <2>4. \A n, c : InStream(n, stream'.events, c)
    BY <2>3 DEF InStream, LastAbout
  <2>5. QED
    BY <1>1, <2>1, <2>4 DEF FollowInv
<1>6. QED
  BY <1>2, <1>3, <1>4, <1>5 DEF Source

\* The loop takes the first event and does with it what it says.
LEMMA FollowEvent ==
    ASSUME WatcherTypeOK, StreamInv, FollowInv, ProcessEvent, UNCHANGED sourceVars
    PROVE  FollowInv'
<1> DEFINE q == stream.events
           e == Head(q)
<1>1. /\ e.op \in {"put", "delete"} /\ e.name \in Names /\ e = q[1] /\ 1 \in DOMAIN q
      /\ view' = [view EXCEPT ![e.name] = IF Taken(e) THEN e.version ELSE 0]
  BY ProcessedEvent
<1>2. /\ pc = "loop" /\ q # <<>> /\ q \in Seq(StreamEvent)
      /\ stream'.state = stream.state /\ stream'.events = Tail(q)
  BY DEF ProcessEvent, WatcherTypeOK
<1>3. UNCHANGED <<stored, lapsed>>
  BY DEF sourceVars
<1>4. e.op = "delete" => e.version = 0
  BY <1>1 DEF StreamInv
<1> HIDE DEF e
<1>5. SUFFICES ASSUME stream.state = "live", NEW n \in Names
               PROVE  /\ InStream(n, Tail(q), stored[n])
                      /\ About(n, Tail(q)) = {} => Same(view'[n], stored[n], lapsed)
  BY <1>2, <1>3 DEF FollowInv
<1>6. /\ InStream(n, q, stored[n])
      /\ About(n, q) = {} => Same(view[n], stored[n], lapsed)
  BY <1>2, <1>5 DEF FollowInv
<1>7. ASSUME About(n, Tail(q)) = {} PROVE Same(view'[n], stored[n], lapsed)
  <2>1. CASE e.name = n
    <3>1. 1 \in About(n, q)
      BY <1>1, <2>1 DEF About
    <3>2. LastAbout(1, n, q)
      BY <1>2, <1>7, <3>1, TailAbout
    <3>3. e.version = stored[n]
      BY <1>1, <1>6, <3>2 DEF InStream
    <3>4. view'[n] = IF Taken(e) THEN e.version ELSE 0
      BY <1>1, <2>1 DEF WatcherTypeOK
    <3>5. Taken(e) \/ e.version \in {0} \cup lapsed
      BY <1>1, <1>4 DEF Taken, InForce
    <3>6. QED
      BY <3>3, <3>4, <3>5 DEF Same
  <2>2. CASE e.name # n
    <3>1. 1 \notin About(n, q)
      BY <1>1, <2>2 DEF About
    <3>2. About(n, q) = {}
      BY <1>2, <1>7, <3>1, TailAbout
    <3>3. view'[n] = view[n]
      BY <1>1, <2>2 DEF WatcherTypeOK
    <3>4. QED
      BY <1>6, <3>2, <3>3
  <2>3. QED
    BY <2>1, <2>2
<1>8. QED
  BY <1>2, <1>6, <1>7, TailAbout

LEMMA WatchLoopFollow ==
    ASSUME WatcherTypeOK, StreamInv, FollowInv, WatchLoop
    PROVE  FollowInv'
<1>1. UNCHANGED <<stored, lapsed>> /\ UNCHANGED sourceVars
  BY DEF WatchLoop, sourceVars
<1>2. CASE NewWatcher \/ Interrupted \/ FetchFails
  <2>1. stream'.state \in {"opened", "none"}
    BY <1>2 DEF NewWatcher, Interrupted, FetchFails, Return, NoStream
  <2>2. QED
    BY <2>1 DEF FollowInv
<1>3. CASE ReceiveInit
  <2>1. /\ stream.events # <<>> /\ stream.events \in Seq(StreamEvent) /\ pc' = "fetch"
        /\ stream'.state = stream.state /\ stream'.events = Tail(stream.events)
    BY <1>3 DEF ReceiveInit, Goto, WatcherTypeOK
  <2>2. QED
    BY <1>1, <2>1, TailAbout DEF FollowInv
<1>4. CASE Fetch
  <2>1. UNCHANGED stream /\ \A n \in Names : view'[n] = IF InForce(stored[n]) THEN stored[n] ELSE 0
    BY <1>4 DEF Fetch
  <2>2. \A n \in Names : Same(view'[n], stored[n], lapsed)
    BY <2>1 DEF Same, InForce
  <2>3. QED
    BY <1>1, <2>1, <2>2 DEF FollowInv
<1>5. CASE EmitFetched
  BY <1>1, <1>5 DEF EmitFetched, FollowInv
<1>6. CASE Updated
  BY <1>1, <1>6 DEF Updated, viewVars, FollowInv
<1>7. CASE ProcessEvent
  BY <1>1, <1>7, FollowEvent
<1>8. CASE Restart \/ NotifyStale \/ MarkStale
  <2>1. UNCHANGED stream /\ pc' \notin {"emit", "loop"}
    BY <1>8 DEF Restart, NotifyStale, MarkStale, Goto
  <2>2. QED
    BY <1>1, <2>1 DEF FollowInv
<1>9. QED
  BY <1>2, <1>3, <1>4, <1>5, <1>6, <1>7, <1>8 DEF WatchLoop

LEMMA FollowKeeps ==
    ASSUME WatcherTypeOK, StreamInv, FollowInv, [Next]_watcherVars
    PROVE  FollowInv'
<1>1. CASE SetInit \/ (\E s \in Sessions : Monitor(s)) \/ WatcherTick \/ UNCHANGED watcherVars
  <2>1. UNCHANGED <<stream, pc, view, stored, lapsed>>
    BY <1>1 DEF SetInit, Monitor, WatcherTick, watcherVars, loopVars, sourceVars, viewVars
  <2>2. QED
    BY <2>1 DEF FollowInv
<1>2. QED
  BY <1>1, SourceFollow, WatchLoopFollow DEF Next

-----------------------------------------------------------------------------
\* What the monitors know.

\* Nothing new applies to anybody.
LEMMA InformedStill ==
    ASSUME MonitorInv, UNCHANGED monitorVars, inited => inited',
           \A s \in Sessions : Owed(s)' \subseteq Owed(s), Doubted' => Doubted
    PROVE  MonitorInv'
<1>1. UNCHANGED <<monitor, strict, queue, over, gap>>
  BY DEF monitorVars
<1>2. SUFFICES ASSUME NEW s \in Sessions PROVE Informed(s)'
  BY DEF MonitorInv
<1>3. Informed(s) /\ Owed(s)' \subseteq Owed(s)
  BY DEF MonitorInv
<1>4. Known(s)' = Known(s) /\ (Attends(s)' <=> Attends(s))
  BY <1>1 DEF Known, Attends
<1>5. QED
  BY <1>1, <1>3, <1>4 DEF Informed

\* Whatever new applies to somebody is what is emitted.
LEMMA InformedByEmit ==
    ASSUME WatcherTypeOK, MonitorInv, NEW e \in Notice, Emit(e), UNCHANGED inited,
           \A s \in Sessions : \A n \in Owed(s)' : n \in Owed(s) \/ e = Put(n),
           Doubted' => Doubted \/ e = Unreliable
    PROVE  MonitorInv'
<1>1. SUFFICES ASSUME NEW s \in Sessions PROVE Informed(s)'
  BY DEF MonitorInv
<1>2. Informed(s)
  BY DEF MonitorInv
<1>3. /\ monitor' = monitor /\ strict' = strict
      /\ ~over'[s] => ~over[s]
      /\ monitor[s] # "watching" => queue'[s] = queue[s] /\ over'[s] = over[s]
      /\ Attends(s) /\ ~over'[s] =>
           /\ Known(s) \subseteq Known(s)'
           /\ Concerns(e, s) => e \in Known(s)'
  BY EmitTells DEF Known
<1>4. ASSUME Attends(s)'
      PROVE  /\ \A n \in Owed(s)' : Put(n) \in Known(s)'
             /\ Doubted' /\ strict'[s] => Unreliable \in Known(s)'
  <2>1. Attends(s) /\ ~over'[s]
    BY <1>3, <1>4 DEF Attends
  <2>2. Known(s) \subseteq Known(s)' /\ (Concerns(e, s) => e \in Known(s)')
    BY <1>3, <2>1
  <2>3. ASSUME NEW n \in Owed(s)' PROVE Put(n) \in Known(s)'
    <3>1. CASE n \in Owed(s)
      BY <1>2, <2>1, <2>2, <3>1 DEF Informed
    <3>2. CASE e = Put(n)
      <4>1. n \in Targets[s]
        BY <2>3 DEF Owed
      <4>2. Concerns(e, s)
        BY <3>2, <4>1 DEF Concerns, Put
      <4>3. QED
        BY <2>2, <3>2, <4>2
    <3>3. QED
      BY <2>3, <3>1, <3>2
  <2>4. ASSUME Doubted', strict'[s] PROVE Unreliable \in Known(s)'
    <3>1. CASE Doubted
      BY <1>2, <1>3, <2>1, <2>2, <2>4, <3>1 DEF Informed
    <3>2. CASE e = Unreliable
      <4>1. Concerns(e, s)
        BY <3>2 DEF Concerns, Unreliable
      <4>2. QED
        BY <2>2, <3>2, <4>1
    <3>3. QED
      BY <2>4, <3>1, <3>2
  <2>5. QED
    BY <2>3, <2>4
<1>5. monitor'[s] # "none" => inited'
  BY <1>2, <1>3 DEF Informed
<1>6. monitor'[s] \in {"none", "checked"} => queue'[s] = <<>> /\ ~over'[s]
  BY <1>2, <1>3 DEF Informed
<1>7. QED
  BY <1>4, <1>5, <1>6 DEF Informed

\* Monitors are told, step by step.
LEMMA WatchLoopMonitor ==
    ASSUME WatcherTypeOK, StreamInv, MonitorInv, WatchLoop
    PROVE  MonitorInv'
<1>1. UNCHANGED <<inited, lapsed>>
  BY DEF WatchLoop, sourceVars
<1>2. ASSUME UNCHANGED view, todo \subseteq todo' PROVE \A s \in Sessions : Owed(s)' \subseteq Owed(s)
  BY <1>1, <1>2 DEF Owed, InForce
<1>3. ASSUME ~inited, UNCHANGED monitorVars PROVE MonitorInv'
  BY <1>1, <1>3 DEF MonitorInv, Informed, Attends, monitorVars
<1>4. CASE NewWatcher \/ ReceiveInit \/ Interrupted \/ FetchFails \/ Updated \/ Restart
  <2>1. UNCHANGED <<viewVars, monitorVars>> /\ pc' # "mark"
    BY <1>4 DEF NewWatcher, ReceiveInit, Interrupted, FetchFails, Updated, Restart,
                Return, Goto
  <2>2. UNCHANGED <<view, isStale, todo, monitorVars>>
    BY <2>1 DEF viewVars
  <2>3. Doubted' => Doubted
    BY <2>1, <2>2 DEF Doubted
  <2>4. QED
    BY <1>1, <1>2, <2>2, <2>3, InformedStill
<1>5. CASE Fetch
  <2>1. /\ isStale' = FALSE /\ pc' = "emit" /\ UNCHANGED monitorVars
        /\ todo' = {n \in Names : view'[n] # 0}
    BY <1>5 DEF Fetch, Goto
  <2>2. \A s \in Sessions : Targets[s] \subseteq Names
    BY WatcherAssumption
  <2>3. \A s \in Sessions : Owed(s)' = {}
    BY <2>1, <2>2 DEF Owed, InForce
  <2>4. ~Doubted'
    BY <2>1 DEF Doubted
  <2>5. QED
    BY <1>1, <2>1, <2>3, <2>4, InformedStill
<1>6. CASE EmitFetched
  <2>1. UNCHANGED <<view, isStale>> /\ pc = "emit"
    BY <1>6 DEF EmitFetched
  <2>2. PICK n \in todo :
           IF inited THEN Emit(Put(n)) /\ todo' = todo \ {n} /\ Goto("emit")
                     ELSE Goto("panicked") /\ UNCHANGED <<todo, monitorVars>>
    BY <1>6 DEF EmitFetched
  <2>3. CASE inited
    <3>1. Emit(Put(n)) /\ todo' = todo \ {n} /\ pc' = "emit" /\ Put(n) \in Notice
      BY <2>2, <2>3, Notices DEF Goto, WatcherTypeOK
    <3>2. \A s \in Sessions : \A m \in Owed(s)' : m \in Owed(s) \/ Put(n) = Put(m)
      BY <1>1, <2>1, <3>1 DEF Owed, InForce
    <3>3. Doubted' => Doubted
      BY <2>1, <3>1 DEF Doubted
    <3>4. QED
      BY <1>1, <3>1, <3>2, <3>3, InformedByEmit
  <2>4. CASE ~inited
    BY <1>3, <2>2, <2>4
  <2>5. QED
    BY <2>3, <2>4
<1>7. CASE ProcessEvent
  <2> DEFINE e == Head(stream.events)
  <2>1. /\ e.name \in Names /\ Passed(e) \in Notice
        /\ view' = [view EXCEPT ![e.name] = IF Taken(e) THEN e.version ELSE 0]
        /\ IF (Taken(e) \/ e.op = "delete") /\ inited
             THEN Emit(Passed(e)) ELSE UNCHANGED monitorVars
    BY <1>7, ProcessedEvent
  <2>2. UNCHANGED <<isStale, todo>> /\ pc' \in {"loop", "panicked"}
    BY <1>7, ProcessedEvent DEF ProcessEvent, Goto
  <2>3. Doubted' => Doubted
    BY <2>2 DEF Doubted
  <2> HIDE DEF e
  <2>4. view \in [Names -> 0..MaxWrites] /\ \A s \in Sessions : Targets[s] \subseteq Names
    BY WatcherAssumption DEF WatcherTypeOK
  <2>5. \A m \in Names \ {e.name} : view'[m] = view[m]
    BY <2>1, <2>4
  <2>6. view'[e.name] = IF Taken(e) THEN e.version ELSE 0
    BY <2>1, <2>4
  <2>7. ASSUME NEW s \in Sessions, NEW m \in Owed(s)'
        PROVE  m \in Owed(s) \/ (Taken(e) /\ m = e.name)
    <3>1. m \in Targets[s] \ todo /\ m \in Names /\ view'[m] # 0 /\ view'[m] \notin lapsed
      BY <1>1, <2>2, <2>4, <2>7 DEF Owed, InForce
    <3>2. CASE m = e.name
      BY <2>6, <3>1, <3>2
    <3>3. CASE m # e.name
      BY <2>5, <3>1, <3>3 DEF Owed, InForce
    <3>4. QED
      BY <3>2, <3>3
  <2>8. CASE ~inited
    BY <1>3, <2>1, <2>8
  <2>9. CASE inited /\ (Taken(e) \/ e.op = "delete")
    <3>1. Emit(Passed(e))
      BY <2>1, <2>9
    <3>2. \A s \in Sessions : \A m \in Owed(s)' : m \in Owed(s) \/ Passed(e) = Put(m)
      BY <2>7 DEF Passed
    <3>3. QED
      BY <1>1, <2>1, <2>3, <3>1, <3>2, InformedByEmit
  <2>10. CASE inited /\ ~(Taken(e) \/ e.op = "delete")
    BY <1>1, <2>1, <2>3, <2>7, <2>10, InformedStill
  <2>11. QED
    BY <2>8, <2>9, <2>10
<1>8. CASE NotifyStale
  <2>1. UNCHANGED <<view, isStale, todo>>
    BY <1>8 DEF NotifyStale, viewVars
  <2>2. CASE inited
    <3>1. Emit(Unreliable) /\ Unreliable \in Notice
      BY <1>8, <2>2, Notices DEF NotifyStale
    <3>2. QED
      BY <1>1, <1>2, <2>1, <3>1, InformedByEmit
  <2>3. CASE ~inited
    BY <1>3, <1>8, <2>3 DEF NotifyStale
  <2>4. QED
    BY <2>2, <2>3
<1>9. CASE MarkStale
  <2>1. UNCHANGED <<view, todo, monitorVars>> /\ Doubted
    BY <1>9 DEF MarkStale, Doubted
  <2>2. QED
    BY <1>1, <1>2, <2>1, InformedStill
<1>10. QED
  BY <1>4, <1>5, <1>6, <1>7, <1>8, <1>9 DEF WatchLoop

\* What a session does is about itself.
LEMMA OwnMonitor ==
    ASSUME MonitorInv, NEW s \in Sessions, Informed(s)', UNCHANGED <<loopVars, inited>>,
           \A t \in Sessions \ {s} :
             /\ monitor'[t] = monitor[t] /\ strict'[t] = strict[t]
             /\ queue'[t] = queue[t] /\ over'[t] = over[t] /\ gap'[t] = gap[t],
           UNCHANGED lapsed
    PROVE  MonitorInv'
<1>1. SUFFICES ASSUME NEW t \in Sessions, t # s PROVE Informed(t)'
  BY DEF MonitorInv
<1>2. Informed(t)
  BY DEF MonitorInv
<1>3. Known(t)' = Known(t) /\ (Attends(t)' <=> Attends(t))
  BY <1>1 DEF Known, Attends
<1>4. Owed(t)' = Owed(t) /\ (Doubted' <=> Doubted)
  BY DEF loopVars, viewVars, Owed, InForce, Doubted
<1>5. QED
  BY <1>1, <1>2, <1>3, <1>4 DEF Informed

\* A slot that is free again.
LEMMA LeaveInformed ==
    ASSUME WatcherTypeOK, NEW s \in Sessions, Leave(s)
    PROVE  Informed(s)'
<1>1. monitor'[s] = "none" /\ queue'[s] = <<>> /\ over'[s] = FALSE
  BY DEF Leave, WatcherTypeOK
<1>2. QED
  BY <1>1 DEF Informed, Attends

LEMMA MonitorMonitor ==
    ASSUME WatcherTypeOK, MonitorInv, NEW s \in Sessions, Monitor(s)
    PROVE  MonitorInv'
<1>1. UNCHANGED <<loopVars, inited>> /\ UNCHANGED lapsed
  BY DEF Monitor, sourceVars
<1>2. Informed(s)
  BY DEF MonitorInv
<1>3. Owed(s)' = Owed(s) /\ (Doubted' <=> Doubted)
  BY <1>1 DEF loopVars, viewVars, Owed, InForce, Doubted
<1>4. /\ monitor \in [Sessions -> {"none", "checked", "watching", "gone"}]
      /\ strict \in [Sessions -> BOOLEAN] /\ over \in [Sessions -> BOOLEAN]
      /\ queue \in [Sessions -> Seq(Notice)] /\ gap \in [Sessions -> SUBSET Notice]
  BY DEF WatcherTypeOK
<1>5. \A t \in Sessions \ {s} :
        /\ monitor'[t] = monitor[t] /\ strict'[t] = strict[t]
        /\ queue'[t] = queue[t] /\ over'[t] = over[t] /\ gap'[t] = gap[t]
  BY <1>4 DEF Monitor, Check, Subscribe, Handle, LoseSubscription, End, Leave
<1>6. SUFFICES Informed(s)'
  BY <1>1, <1>5, OwnMonitor
<1>7. CASE Check(s)
  <2>1. PICK mode \in BOOLEAN :
           ~LockedOut(s, mode) /\ strict' = [strict EXCEPT ![s] = mode]
    BY <1>7 DEF Check
  <2>2. /\ inited /\ monitor[s] = "none" /\ UNCHANGED <<queue, over>>
        /\ gap'[s] = IF pc = "mark" THEN {Unreliable} ELSE {}
        /\ strict'[s] = mode
    BY <1>4, <1>7, <2>1 DEF Check
  <2>3. Owed(s) = {}
    BY <2>1 DEF LockedOut, Owed
  <2>4. Doubted /\ mode => pc = "mark"
    BY <2>1 DEF LockedOut, Doubted
  <2>5. Known(s)' = gap'[s] \cup ToSet(queue'[s])
    BY DEF Known
  <2>6. Doubted' /\ strict'[s] => Unreliable \in Known(s)'
    BY <1>3, <2>2, <2>4, <2>5
  <2>7. inited' /\ queue'[s] = <<>> /\ ~over'[s]
    BY <1>1, <1>2, <2>2 DEF Informed
  <2>8. QED
    BY <1>3, <2>3, <2>6, <2>7 DEF Informed
<1>8. CASE Subscribe(s)
  <2>1. monitor[s] = "checked" /\ monitor'[s] = "watching" /\ UNCHANGED <<strict, queue, over, gap>>
    BY <1>4, <1>8 DEF Subscribe
  <2>2. Known(s)' = Known(s) /\ (Attends(s)' <=> Attends(s))
    BY <2>1 DEF Known, Attends
  <2>3. QED
    BY <1>1, <1>2, <1>3, <2>1, <2>2 DEF Informed
<1>9. CASE Handle(s)
  <2> DEFINE e == Head(queue[s])
  <2>1. monitor[s] = "watching" /\ queue[s] # <<>> /\ queue[s] \in Seq(Notice) /\ e \in Notice
    BY <1>4, <1>9, EventSeq DEF Handle
  <2>2. CASE e.op = "put" \/ (e.op = "unreliable" /\ strict[s])
    BY <1>9, <2>2, LeaveInformed DEF Handle
  <2>3. CASE ~(e.op = "put" \/ (e.op = "unreliable" /\ strict[s]))
    <3>1. queue'[s] = Tail(queue[s]) /\ UNCHANGED <<monitor, strict, over, gap>>
      BY <1>4, <1>9, <2>3 DEF Handle
    <3> HIDE DEF e
    <3>2. Known(s) \subseteq Known(s)' \cup {e}
      BY <2>1, <3>1, QueueSet DEF Known, e
    <3>3. \A n \in Names : Put(n) # e
      BY <2>3, Notices
    <3>4. strict[s] => Unreliable # e
      BY <2>3, Notices
    <3>5. \A n \in Owed(s) : n \in Names
      BY WatcherAssumption DEF Owed
    <3>6. Attends(s)' <=> Attends(s)
      BY <3>1 DEF Attends
    <3>7. ASSUME Attends(s)' PROVE \A n \in Owed(s)' : Put(n) \in Known(s)'
      BY <1>2, <1>3, <3>2, <3>3, <3>5, <3>6, <3>7 DEF Informed
    <3>8. ASSUME Attends(s)', Doubted', strict'[s] PROVE Unreliable \in Known(s)'
      BY <1>2, <1>3, <3>1, <3>2, <3>4, <3>6, <3>8 DEF Informed
    <3>9. monitor'[s] = "watching" /\ inited'
      BY <1>1, <1>2, <2>1, <3>1 DEF Informed
    <3>10. QED
      BY <3>7, <3>8, <3>9 DEF Informed
  <2>4. QED
    BY <2>2, <2>3
<1>10. CASE LoseSubscription(s)
  <2>1. monitor'[s] = "gone" /\ monitor[s] = "watching"
    BY <1>4, <1>10 DEF LoseSubscription
  <2>2. QED
    BY <1>1, <1>2, <2>1 DEF Informed, Attends
<1>11. CASE End(s)
  BY <1>11, LeaveInformed DEF End
<1>12. QED
  BY <1>7, <1>8, <1>9, <1>10, <1>11 DEF Monitor

LEMMA MonitorKeeps ==
    ASSUME WatcherTypeOK, StreamInv, MonitorInv, [Next]_watcherVars
    PROVE  MonitorInv'
<1>1. CASE Source
  <2>1. UNCHANGED <<monitorVars, inited, view, isStale, todo, pc>> /\ lapsed \subseteq lapsed'
    BY <1>1 DEF Source, viewVars, UpsertLock, DeleteLock, Lapse, Break, BreakAgain,
                Recover, Establish
  <2>2. \A s \in Sessions : Owed(s)' \subseteq Owed(s)
    BY <2>1 DEF Owed, InForce
  <2>3. QED
    BY <2>1, <2>2, InformedStill DEF Doubted
<1>2. CASE SetInit \/ WatcherTick \/ UNCHANGED watcherVars
  <2>1. /\ UNCHANGED <<monitorVars, lapsed, view, isStale, todo, pc>>
        /\ inited => inited'
    BY <1>2 DEF SetInit, WatcherTick, watcherVars, loopVars, viewVars, sourceVars, monitorVars
  <2>2. \A s \in Sessions : Owed(s)' \subseteq Owed(s)
    BY <2>1 DEF Owed, InForce
  <2>3. QED
    BY <2>1, <2>2, InformedStill DEF Doubted
<1>3. QED
  BY <1>1, <1>2, WatchLoopMonitor, MonitorMonitor DEF Next

-----------------------------------------------------------------------------
\* The invariant of watch loop and monitors.
LEMMA WatcherStart ==
    ASSUME Init
    PROVE  WatcherInv
<1>1. stream.state = "none" /\ stream.events = <<>> /\ DOMAIN stream.events = {}
      /\ stream \in [state : {"none", "opened", "live", "closed"}, events : Seq(StreamEvent)]
  BY EventSeq DEF Init, NoStream
<1>2. pc = "start" /\ failing = -1 /\ overdue = -1 /\ ~isStale /\ ~inited
  BY DEF Init, NotFailing, NotOverdue
<1>3. WatcherTypeOK
  <2>1. /\ queue \in [Sessions -> Seq(Notice)] /\ gap \in [Sessions -> SUBSET Notice]
        /\ \A s \in Sessions : Len(queue[s]) <= QueueSize
    BY WatcherBounds, EventSeq DEF Init
  <2>2. /\ failing \in NotFailing..(MaxStaleness + 1)
        /\ overdue \in NotOverdue..(StaleLimit + 1)
    <3>1. NotFailing = -1 /\ NotOverdue = -1 /\ StaleLimit \in Nat /\ MaxStaleness \in Nat
      BY WatcherBounds
    <3>2. -1 \in -1..(StaleLimit + 1) /\ -1 \in -1..(MaxStaleness + 1)
      BY <3>1
    <3>3. QED
      BY <1>2, <3>1, <3>2
  <2>3. /\ stored \in [Names -> 0..MaxWrites] /\ view \in [Names -> 0..MaxWrites]
        /\ written \in 0..MaxWrites /\ lapsed \subseteq 1..MaxWrites
        /\ up \in BOOLEAN /\ outages \in 0..MaxOutages
    BY WatcherBounds DEF Init
  <2>4. /\ pc \in {"start", "init", "fetch", "emit", "loop", "retry", "stale",
                   "mark", "panicked"}
        /\ failed \in BOOLEAN /\ eager \in BOOLEAN /\ isStale \in BOOLEAN
        /\ todo \subseteq Names /\ inited \in BOOLEAN
    BY DEF Init
  <2>5. refetch \in 0..RefetchPeriod /\ retry \in 0..RetryPeriod
    BY WatcherBounds DEF Init
  <2>6. /\ monitor \in [Sessions -> {"none", "checked", "watching", "gone"}]
        /\ strict \in [Sessions -> BOOLEAN] /\ over \in [Sessions -> BOOLEAN]
    BY DEF Init
  <2>7. QED
    BY <1>1, <2>1, <2>2, <2>3, <2>4, <2>5, <2>6 DEF WatcherTypeOK
<1>4. StreamInv
  BY <1>1, <1>2 DEF StreamInv
<1>5. FollowInv
  BY <1>1 DEF FollowInv
<1>6. ClockInv /\ LagInv
  BY <1>2, WatcherBounds DEF ClockInv, LagInv
<1>7. MonitorInv
  BY DEF Init, MonitorInv, Informed, Attends
<1>8. QED
  BY <1>3, <1>4, <1>5, <1>6, <1>7 DEF WatcherInv

LEMMA WatcherStep ==
    ASSUME WatcherInv, [Next]_watcherVars
    PROVE  WatcherInv'
BY TypeKeeps, StreamKeeps, FollowKeeps, ClockKeeps, MonitorKeeps DEF WatcherInv

LEMMA WatcherHolds == Spec => []WatcherInv
<1>1. Init => WatcherInv
  BY WatcherStart
<1>2. WatcherInv /\ [Next]_watcherVars => WatcherInv'
  BY WatcherStep
<1>3. QED
  BY <1>1, <1>2, PTL DEF Spec

\* The variables of the watch loop, of its source and of the monitors keep
\* their types, and no subscriber is ever more than QueueSize events behind.
THEOREM WatcherTyped == Spec => []WatcherTypeOK
<1>1. WatcherInv => WatcherTypeOK
  BY DEF WatcherInv
<1>2. QED
  BY <1>1, WatcherHolds, PTL

\* A set of positions that is not empty has a last one: the one whose distance
\* to the end is least.
LEMMA LastOf ==
    ASSUME NEW k \in Nat, NEW P, P \subseteq 1..k, P # {}
    PROVE  Max(P) \in P /\ \A i \in P : i <= Max(P)
<1> DEFINE Left == {k - i : i \in P}
           Shorter == OpToRel(<, Nat)
<1>1. \A i \in P : i \in Nat /\ i <= k /\ k - i \in Nat
  OBVIOUS
<1>2. Left \subseteq Nat /\ Left # {}
  BY <1>1
<1>3. IsWellFoundedOn(Shorter, Nat)
  BY NatLessThanWellFounded
<1>4. \A x, y \in Nat : <<y, x>> \in Shorter <=> y < x
  BY DEF OpToRel
<1> HIDE DEF Left, Shorter
<1>5. PICK d \in Left : \A y \in Left : ~(<<y, d>> \in Shorter)
  BY <1>2, <1>3, WFMin
<1>6. \A y \in Left : ~(y < d)
  BY <1>2, <1>4, <1>5
<1>7. PICK m \in P : d = k - m
  BY <1>5 DEF Left
<1>8. ASSUME NEW i \in P PROVE m >= i
  <2>1. k - i \in Left
    BY DEF Left
  <2>2. ~(k - i < k - m)
    BY <1>6, <1>7, <2>1
  <2>3. QED
    BY <1>1, <2>2
<1>9. Max(P) \in P /\ \A i \in P : Max(P) >= i
  BY <1>8 DEF Max
<1>10. QED
  BY <1>1, <1>9

\* Once the loop has fetched the locks from a source whose stream is live, its
\* view and the events that are still in the stream make up the locks the
\* source has: no put and no delete is lost between the fetch and the stream,
\* however many of them there are and whenever they come.
THEOREM ViewIsFollowed == Spec => []ViewFollows
<1>1. ASSUME WatcherInv PROVE ViewFollows
  <2>1. SUFFICES ASSUME pc \in {"emit", "loop"}, stream.state = "live", NEW n \in Names
                 PROVE  \/ Upcoming(n) = stored[n]
                        \/ ~InForce(Upcoming(n)) /\ ~InForce(stored[n])
    BY DEF ViewFollows
  <2> DEFINE q == stream.events
  <2>2. /\ InStream(n, q, stored[n])
        /\ About(n, q) = {} => Same(view[n], stored[n], lapsed)
    BY <1>1, <2>1 DEF WatcherInv, FollowInv
  <2>3. CASE About(n, q) = {}
    BY <2>2, <2>3 DEF Upcoming, Same, InForce
  <2>4. CASE About(n, q) # {}
    <3>1. q \in Seq(StreamEvent)
      BY <1>1 DEF WatcherInv, WatcherTypeOK
    <3>2. Len(q) \in Nat /\ About(n, q) \subseteq 1..Len(q) /\ DOMAIN q = 1..Len(q)
      BY <3>1 DEF About
    <3> DEFINE m == Max(About(n, q))
    <3>3. m \in About(n, q) /\ \A i \in About(n, q) : i <= m
      BY <2>4, <3>2, LastOf
    <3> HIDE DEF m
    <3>4. LastAbout(m, n, q) /\ m \in DOMAIN q
      BY <3>3 DEF LastAbout, About
    <3>5. q[m].version = stored[n]
      BY <2>2, <3>4 DEF InStream
    <3>6. Upcoming(n) = q[m].version
      BY <2>4 DEF Upcoming, m
    <3>7. QED
      BY <3>5, <3>6
  <2>5. QED
    BY <2>3, <2>4
<1>2. QED
  BY <1>1, WatcherHolds, PTL

\* A session that is watched while a lock of the view applies to it, or while
\* it is strict and the view is stale, has the reason in its queue; what it may
\* have missed came between its check and its subscription.
THEOREM MonitorsAreTold == Spec => []MonitorsTold
<1>1. ASSUME WatcherInv PROVE MonitorsTold
  <2>1. SUFFICES ASSUME NEW s \in Sessions, monitor[s] = "watching", ~over[s]
                 PROVE  /\ \A n \in Targets[s] \ todo : InForce(view[n]) => Put(n) \in Known(s)
                        /\ isStale /\ strict[s] => Unreliable \in Known(s)
    BY DEF MonitorsTold, Known
  <2>2. Informed(s) /\ Attends(s)
    BY <1>1, <2>1 DEF WatcherInv, MonitorInv, Attends
  <2>3. QED
    BY <2>2 DEF Informed, Owed, Doubted
<1>2. QED
  BY <1>1, WatcherHolds, PTL

\* From the first watch that ended with an error on, a view that is not updated
\* is taken for current for MaxStaleness, one watch that hangs and two waits, and
\* no longer; a view whose watches end without an error is not spoken of.
THEOREM StalenessIsBounded == Spec => []StaleBound
<1>1. ASSUME WatcherInv PROVE StaleBound
  <2>1. SUFFICES ASSUME ~isStale, pc # "emit" PROVE overdue <= StaleLimit
    BY DEF StaleBound
  <2>2. ClockInv /\ overdue \in Int /\ refetch \in Nat /\ retry \in Nat
    BY <1>1, WatcherBounds DEF WatcherInv, WatcherTypeOK
  <2>3. /\ Longest \in Nat /\ StaleLimit \in Nat /\ NotOverdue <= StaleLimit
        /\ Longest <= StaleLimit /\ MaxStaleness + RetryPeriod <= StaleLimit
        /\ MaxStaleness + RetryPeriod \in Nat
    BY WatcherBounds
  <2>4. CASE pc = "start"
    <3>1. overdue <= MaxStaleness + RetryPeriod
      BY <2>1, <2>2, <2>4 DEF ClockInv
    <3>2. QED
      BY <2>2, <2>3, <3>1
  <2>5. CASE pc = "init"
    <3>1. overdue + refetch <= Longest
      BY <2>1, <2>2, <2>5 DEF ClockInv
    <3>2. QED
      BY <2>2, <2>3, <3>1
  <2>6. CASE pc = "fetch"
    <3>1. overdue <= Longest
      BY <2>1, <2>2, <2>6 DEF ClockInv
    <3>2. QED
      BY <2>2, <2>3, <3>1
  <2>7. CASE pc = "loop"
    BY <2>2, <2>3, <2>7 DEF ClockInv
  <2>8. CASE pc = "retry"
    <3>1. overdue + retry <= StaleLimit
      BY <2>1, <2>2, <2>8 DEF ClockInv
    <3>2. QED
      BY <2>2, <2>3, <3>1
  <2>9. CASE pc \in {"stale", "mark", "panicked"}
    BY <2>1, <2>2, <2>9 DEF ClockInv
  <2>10. QED
    BY <1>1, <2>1, <2>4, <2>5, <2>6, <2>7, <2>8, <2>9 DEF WatcherInv, WatcherTypeOK
<1>2. QED
  BY <1>1, WatcherHolds, PTL
=============================================================================
