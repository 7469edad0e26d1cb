---------------------------- MODULE BackendLock ----------------------------
(***************************************************************************)
(* The TTL lock that auth servers share through the storage backend:       *)
(* AcquireLock, Lock.Release, Lock.resetTTL and RunWhileLocked of          *)
(* lib/backend/helpers.go.                                                 *)
(*                                                                         *)
(* A call of RunWhileLocked is a pair of goroutines: the caller, which     *)
(* acquires the lock, runs fn and releases, and the refresher it starts,   *)
(* which extends the lock every ttl/2.  Every backend call is one step,    *)
(* because the backend serialises them; everything the code does between   *)
(* two backend calls belongs to the step before.  A call that only uses    *)
(* AcquireLock and Release (lib/auth/init.go) has no refresher.            *)
(*                                                                         *)
(* Time is relative: the record keeps the ticks it has left, the refresher *)
(* the ticks until it wakes, and each goroutine the ticks by which its     *)
(* next backend call is late.  No tick passes while some goroutine is      *)
(* MaxDelay late, so MaxDelay is the slowest scheduler and network the     *)
(* model admits; all the rest of the module is the code.                   *)
(***************************************************************************)
EXTENDS Integers

CONSTANTS
    Calls,      \* invocations of RunWhileLocked or AcquireLock; one random id each
    NoCall,     \* the id of no call
    Refreshed,  \* the calls that came through RunWhileLocked
    TTL,        \* ttl, in ticks
    MaxDelay,   \* bound: how late a backend call of a live goroutine may be
    Faults      \* whether a backend call of Release or resetTTL may fail

ASSUME LockAssumption ==
    /\ NoCall \notin Calls
    /\ Refreshed \subseteq Calls
    /\ TTL \in Nat \ {0}
    /\ MaxDelay \in Nat
    /\ Faults \in BOOLEAN

VARIABLES
    item,       \* the record under .locks/<lockName>, or NoItem
    pc,         \* where each caller is
    late,       \* ticks by which the caller's next backend call is late
    ref,        \* where each refresher is
    wake,       \* ticks until the refresher's time.After fires
    refLate,    \* ticks by which the refresher's next backend call is late
    cancelled,  \* the context passed to fn is cancelled
    lapsed      \* history: the calls whose resetTTL a backend error ended

lockVars == <<item, pc, late, ref, wake, refLate, cancelled, lapsed>>

callerVars == <<pc, late>>
refVars == <<ref, wake, refLate>>

NoItem == [id |-> NoCall, left |-> 0]

\* The record as every backend operation sees it: removeExpired runs first
\* and deletes a record whose Expires has passed.
Current == IF item.left = 0 THEN NoItem ELSE item

Exists == item.left # 0
Owns(c) == Exists /\ item.id = c

\* Mutant: the refresher sleeps for the whole ttl.
refreshAfterTTL == TTL

refreshAfter == TTL \div 2

\* Expires is set to Now + ttl before the backend call that stores it, so a
\* call that arrives late stores a record with that much less to live.
Record(c, delay) ==
    [id |-> c, left |-> IF delay < TTL THEN TTL - delay ELSE 0]

-----------------------------------------------------------------------------
CallerStates == {"idle", "create", "waiting", "running", "release", "delete",
                 "done", "failed", "crashed"}

LockTypeOK ==
    /\ item \in [id : Calls \cup {NoCall}, left : 0..TTL]
    /\ pc \in [Calls -> CallerStates]
    /\ late \in [Calls -> 0..MaxDelay]
    /\ ref \in [Calls -> {"off", "sleep", "swap"}]
    /\ wake \in [Calls -> 0..TTL]
    /\ refLate \in [Calls -> 0..MaxDelay]
    /\ cancelled \in [Calls -> BOOLEAN]
    /\ lapsed \subseteq Calls

LockInit ==
    /\ item = NoItem
    /\ pc = [c \in Calls |-> "idle"]
    /\ late = [c \in Calls |-> 0]
    /\ ref = [c \in Calls |-> "off"]
    /\ wake = [c \in Calls |-> 0]
    /\ refLate = [c \in Calls |-> 0]
    /\ cancelled = [c \in Calls |-> FALSE]
    /\ lapsed = {}

\* The caller moves on; its next backend call is not late yet.
Goto(c, label) ==
    /\ pc' = [pc EXCEPT ![c] = label]
    /\ late' = [late EXCEPT ![c] = 0]

\* The refresher moves on.
RefGoto(c, label) ==
    /\ ref' = [ref EXCEPT ![c] = label]
    /\ refLate' = [refLate EXCEPT ![c] = 0]

\* The refresher's loop: time.After(refreshAfter).
RefSleep(c) ==
    /\ RefGoto(c, "sleep")
    /\ wake' = [wake EXCEPT ![c] = refreshAfter]

\* resetTTL has failed: cancelFunction runs and the refresher returns.
RefCancel(c) ==
    /\ RefGoto(c, "off")
    /\ cancelled' = [cancelled EXCEPT ![c] = TRUE]
    /\ UNCHANGED wake

-----------------------------------------------------------------------------
\* AcquireLock: the Get that purges an expired lock; then the item for
\* Create is built with Expires = Now + ttl.
AcquireGet(c) ==
    /\ pc[c] \in {"idle", "waiting"}
    /\ Goto(c, "create")
    /\ item' = Current
    /\ UNCHANGED <<refVars, cancelled>>

\* Create succeeds: fn starts, and with it the refresher goroutine.
CreateOK(c) ==
    /\ pc[c] = "create"
    /\ ~Exists
    /\ item' = Record(c, late[c])
    /\ Goto(c, "running")
    /\ IF c \in Refreshed THEN RefSleep(c) ELSE UNCHANGED refVars
    /\ UNCHANGED cancelled

\* Create answers AlreadyExists: wait 250ms and go around.
CreateExists(c) ==
    /\ pc[c] = "create"
    /\ Exists
    /\ Goto(c, "waiting")
    /\ UNCHANGED <<item, refVars, cancelled>>

\* The caller's context ends while it waits, or the backend fails Create;
\* a write whose answer is lost has happened nevertheless.
AcquireFails(c) ==
    /\ pc[c] \in {"waiting", "create"}
    /\ Goto(c, "failed")
    /\ \/ UNCHANGED item
       \/ pc[c] = "create" /\ ~Exists /\ item' = Record(c, late[c])
    /\ UNCHANGED <<refVars, cancelled>>

\* fn returns; stopRefresh is closed and Release begins.
FnReturns(c) ==
    /\ pc[c] = "running"
    /\ Goto(c, "release")
    /\ UNCHANGED <<item, refVars, cancelled>>

\* Release, first half: Get, and the comparison of the id found with ours.
ReleaseGet(c) ==
    /\ pc[c] = "release"
    /\ item' = Current
    /\ Goto(c, IF Owns(c) THEN "delete" ELSE "failed")
    /\ UNCHANGED <<refVars, cancelled>>

\* Release, second half: Delete takes the key alone, so whatever record is
\* there goes; NotFound if there is none.
ReleaseDelete(c) ==
    /\ pc[c] = "delete"
    /\ item' = NoItem
    /\ Goto(c, IF Exists THEN "done" ELSE "failed")
    /\ UNCHANGED <<refVars, cancelled>>

\* A backend error ends Release early and leaves the record to its TTL.
ReleaseFails(c) ==
    /\ Faults
    /\ pc[c] \in {"release", "delete"}
    /\ Goto(c, "failed")
    /\ UNCHANGED <<item, refVars, cancelled>>

\* resetTTL, first half: Get, the ownership test, the new expiry.  The
\* select of the refresher may still take this branch after stopRefresh is
\* closed.
RefreshGet(c) ==
    /\ ref[c] = "sleep"
    /\ wake[c] = 0
    /\ item' = Current
    /\ IF Owns(c) THEN RefGoto(c, "swap") /\ UNCHANGED <<wake, cancelled>>
                  ELSE RefCancel(c)
    /\ UNCHANGED callerVars

\* resetTTL, second half: CompareAndSwap compares values, that is lock ids.
RefreshSwap(c) ==
    /\ ref[c] = "swap"
    /\ IF Owns(c)
         THEN /\ item' = Record(c, refLate[c])
              /\ RefSleep(c)
              /\ UNCHANGED cancelled
         ELSE /\ item' = Current
              /\ RefCancel(c)
    /\ UNCHANGED callerVars

\* A backend error in resetTTL stops the refresher and cancels fn.
RefreshFails(c) ==
    /\ Faults
    /\ \/ ref[c] = "sleep" /\ wake[c] = 0
       \/ ref[c] = "swap"
    /\ RefCancel(c)
    /\ lapsed' = lapsed \cup {c}
    /\ UNCHANGED <<item, callerVars>>

\* Mutant: nobody closes stopRefresh.
RefreshStopsNever(c) ==
    /\ FALSE
    /\ UNCHANGED lockVars

\* The refresher sees stopRefresh closed.
RefreshStops(c) ==
    /\ ref[c] = "sleep"
    /\ pc[c] # "running"
    /\ RefGoto(c, "off")
    /\ UNCHANGED <<item, callerVars, wake, cancelled>>

\* The process dies with both goroutines; the record stays in the backend.
Crash(c) ==
    /\ pc[c] \in {"waiting", "create", "running", "release", "delete"}
    /\ Goto(c, "crashed")
    /\ RefGoto(c, "off")
    /\ UNCHANGED <<item, wake, cancelled>>

\* Goroutines that are about to make a backend call.
CallerDue(c) == pc[c] \in {"create", "release", "delete"}
RefreshDue(c) == ref[c] = "swap" \/ (ref[c] = "sleep" /\ wake[c] = 0)

Dec(n) == IF n = 0 THEN 0 ELSE n - 1

LockTick ==
    /\ \A c \in Calls : /\ CallerDue(c) => late[c] < MaxDelay
                        /\ RefreshDue(c) => refLate[c] < MaxDelay
    /\ item' = [item EXCEPT !.left = Dec(@)]
    /\ late' = [c \in Calls |-> IF CallerDue(c) THEN late[c] + 1 ELSE 0]
    /\ refLate' = [c \in Calls |-> IF RefreshDue(c) THEN refLate[c] + 1 ELSE 0]
    /\ wake' = [c \in Calls |-> Dec(wake[c])]
    /\ UNCHANGED <<pc, ref, cancelled, lapsed>>

Acquire(c) == AcquireGet(c) \/ CreateOK(c) \/ CreateExists(c)
Release(c) == ReleaseGet(c) \/ ReleaseDelete(c)
Refresh(c) == RefreshGet(c) \/ RefreshSwap(c) \/ RefreshStops(c)

\* A step of a goroutine in which no resetTTL fails.
Step(c) ==
    /\ \/ Acquire(c) \/ FnReturns(c) \/ Release(c) \/ Refresh(c)
       \/ AcquireFails(c) \/ ReleaseFails(c) \/ Crash(c)
    /\ UNCHANGED lapsed

LockNext ==
    \/ \E c \in Calls : Step(c) \/ RefreshFails(c)
    \/ LockTick

LockSpec == LockInit /\ [][LockNext]_lockVars

\* The scheduler runs every goroutine that is not blocked, fn returns in the
\* end, and time passes; nothing obliges a call to start, to fail or to crash.
\* select chooses at random among the ready cases, so a refresher that finds
\* stopRefresh closed again and again takes that case in the end.
Fairness ==
    /\ WF_lockVars(LockTick)
    /\ \A c \in Calls :
         /\ WF_lockVars(pc[c] # "idle" /\ Acquire(c) /\ UNCHANGED lapsed)
         /\ WF_lockVars(FnReturns(c) /\ UNCHANGED lapsed)
         /\ WF_lockVars(Release(c) /\ UNCHANGED lapsed)
         /\ WF_lockVars(Refresh(c) /\ UNCHANGED lapsed)
         /\ SF_lockVars(RefreshStops(c) /\ UNCHANGED lapsed)

FairSpec == LockSpec /\ Fairness

-----------------------------------------------------------------------------
\* The slowest backend for which the refresher keeps up: the lock is extended
\* and released before it runs out even if every call is MaxDelay late.
Timely == refreshAfter + 5 * MaxDelay < TTL

\* RunWhileLocked "allows you to run a function while a lock is held": until
\* the first resetTTL that fails, whoever's it is, fn runs with a live context
\* only while the record in the backend is this call's own and has not expired.
\* After it nothing is promised: the call whose record is no longer extended
\* may delete, at its end, the record of the next one.
HeldWhileRunning ==
    lapsed = {} => \A c \in Calls : pc[c] = "running" /\ ~cancelled[c] => Owns(c)

\* Two calls never run fn with a live context at the same time.
MutualExclusion ==
    lapsed = {} => \A c, d \in Calls :
        /\ pc[c] = "running" /\ ~cancelled[c]
        /\ pc[d] = "running" /\ ~cancelled[d]
        => c = d

\* Release deletes by key after a Get that compared ids: it must never remove
\* a record that another call has created in between.
ReleaseDeletesOwn ==
    [][lapsed = {} => \A c \in Calls : ReleaseDelete(c) /\ Exists => Owns(c)]_lockVars

\* As long as a record has not expired no step puts another call's id in its
\* place: Create refuses, and a late refresher's compare-and-swap fails.
NoTakeover ==
    [][Exists /\ item'.id # NoCall => item'.id = item.id]_lockVars

\* Whatever becomes of the holder (crash, failed Release, a refresher that
\* outlives fn), a call that waits for the lock does not wait for ever.
AcquireEnds ==
    \A c \in Calls : pc[c] \in {"create", "waiting"}
                        ~> pc[c] \in {"running", "failed", "crashed"}
=============================================================================
