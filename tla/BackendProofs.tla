---------------------------- MODULE BackendProofs ----------------------------
(***************************************************************************)
(* What two parts of lib/backend guarantee, which share no state.          *)
(*                                                                         *)
(* The lock of helpers.go: type correctness and NoTakeover hold for every  *)
(* value of the constants.  HeldWhileRunning, MutualExclusion and          *)
(* ReleaseDeletesOwn hold when every call refreshes and the backend is     *)
(* Timely, whatever fails but a resetTTL, and until one does.  The         *)
(* inductive invariant says how much of its TTL a held record has left:    *)
(* enough for every backend call its owner still makes before the record   *)
(* is extended or deleted, however late those calls are.                   *)
(*                                                                         *)
(* CircularBuffer of buffer.go, for every set of watchers, every capacity, *)
(* channel size and grace period: it is well typed, its ring holds the     *)
(* last events, nobody waits while its backlog holds an event, and         *)
(* channels and backlogs implement EventStream.                            *)
(***************************************************************************)
EXTENDS BackendLock, EventBuffer, SequenceTheorems, TLAPS

-----------------------------------------------------------------------------
\* The lock.

\* Between CreateOK and ReleaseDelete the record is the call's own.
Holding(c) == pc[c] \in {"running", "release", "delete"}

\* The ticks a held record must outlive.
Need(c) ==
    CASE pc[c] = "running" /\ ref[c] = "sleep" ->
             wake[c] + 4 * MaxDelay - refLate[c]
      [] pc[c] = "running" /\ ref[c] = "swap" -> 3 * MaxDelay - refLate[c]
      [] pc[c] = "release" -> 2 * MaxDelay - late[c]
      [] OTHER -> MaxDelay - late[c]

HeldInv ==
    \A c \in Calls :
        /\ pc[c] = "running" => ref[c] # "off"
        /\ ref[c] = "sleep" /\ wake[c] > 0 => refLate[c] = 0
        /\ Holding(c) => item.id = c /\ item.left > Need(c)

IInv == LockTypeOK /\ (lapsed = {} => HeldInv)

-----------------------------------------------------------------------------
\* The refresher wakes within the ttl.
LEMMA RefreshAfterType == refreshAfter \in 0..TTL
BY LockAssumption DEF refreshAfter

\* What is stored is a record with at most TTL ticks to live, and no fewer
\* than the delay of the call has left it.
LEMMA RecordType ==
    ASSUME NEW c \in Calls, NEW d \in 0..MaxDelay
    PROVE  /\ Record(c, d) \in [id : Calls \cup {NoCall}, left : 0..TTL]
           /\ Record(c, d).id = c
           /\ Record(c, d).left >= TTL - d
BY LockAssumption DEF Record

\* Every reachable state of the lock has the types the code gives it: an
\* expiry within the ttl, a lateness within the bound.
THEOREM LockTypeCorrect == LockSpec => []LockTypeOK
<1>1. LockInit => LockTypeOK
  BY LockAssumption DEF LockInit, LockTypeOK, NoItem, CallerStates
<1>2. LockTypeOK /\ [LockNext]_lockVars => LockTypeOK'
  <2> SUFFICES ASSUME LockTypeOK, [LockNext]_lockVars PROVE LockTypeOK'
    OBVIOUS
  <2> USE LockAssumption DEF LockTypeOK, CallerStates, callerVars, refVars
  <2> DEFINE ItemType == [id : Calls \cup {NoCall}, left : 0..TTL]
  <2>0. Current \in ItemType /\ NoItem \in ItemType
    BY DEF Current, NoItem
  <2>1. ASSUME NEW c \in Calls, AcquireGet(c), UNCHANGED lapsed
        PROVE  LockTypeOK'
    BY <2>0, <2>1 DEF AcquireGet, Goto
  <2>2. ASSUME NEW c \in Calls, CreateOK(c), UNCHANGED lapsed
        PROVE  LockTypeOK'
    <3>1. item' \in ItemType
      BY <2>2, RecordType DEF CreateOK
    <3>2. QED
      BY <2>2, <3>1, RefreshAfterType DEF CreateOK, Goto, RefSleep, RefGoto
  <2>3. ASSUME NEW c \in Calls, CreateExists(c), UNCHANGED lapsed
        PROVE  LockTypeOK'
    BY <2>3 DEF CreateExists, Goto
  <2>4. ASSUME NEW c \in Calls, AcquireFails(c), UNCHANGED lapsed
        PROVE  LockTypeOK'
    <3>1. item' \in ItemType
      BY <2>4, RecordType DEF AcquireFails
    <3>2. QED
      BY <2>4, <3>1 DEF AcquireFails, Goto
  <2>5. ASSUME NEW c \in Calls, FnReturns(c), UNCHANGED lapsed
        PROVE  LockTypeOK'
    BY <2>5 DEF FnReturns, Goto
  <2>6. ASSUME NEW c \in Calls, ReleaseGet(c), UNCHANGED lapsed
        PROVE  LockTypeOK'
    BY <2>0, <2>6 DEF ReleaseGet, Goto
  <2>7. ASSUME NEW c \in Calls, ReleaseDelete(c), UNCHANGED lapsed
        PROVE  LockTypeOK'
    BY <2>0, <2>7 DEF ReleaseDelete, Goto
  <2>8. ASSUME NEW c \in Calls, ReleaseFails(c), UNCHANGED lapsed
        PROVE  LockTypeOK'
    BY <2>8 DEF ReleaseFails, Goto
  <2>9. ASSUME NEW c \in Calls, RefreshGet(c), UNCHANGED lapsed
        PROVE  LockTypeOK'
    <3>1. CASE Owns(c)
      BY <2>0, <2>9, <3>1 DEF RefreshGet, RefGoto
    <3>2. CASE ~Owns(c)
      <4>1. RefCancel(c) /\ item' = Current /\ UNCHANGED <<callerVars, lapsed>>
        BY <2>9, <3>2 DEF RefreshGet
      <4>2. QED
        BY <2>0, <4>1 DEF RefCancel, RefGoto
    <3>3. QED
      BY <3>1, <3>2
  <2>10. ASSUME NEW c \in Calls, RefreshSwap(c), UNCHANGED lapsed
        PROVE  LockTypeOK'
    <3>1. item' \in ItemType
      BY <2>0, <2>10, RecordType DEF RefreshSwap
    <3>2. CASE Owns(c)
      BY <2>10, <3>1, <3>2, RefreshAfterType DEF RefreshSwap, RefSleep, RefGoto
    <3>3. CASE ~Owns(c)
      <4>1. RefCancel(c) /\ UNCHANGED <<callerVars, lapsed>>
        BY <2>10, <3>3 DEF RefreshSwap
      <4>2. QED
        BY <3>1, <4>1 DEF RefCancel, RefGoto
    <3>4. QED
      BY <3>2, <3>3
  <2>11. ASSUME NEW c \in Calls, RefreshFails(c) PROVE LockTypeOK'
    BY <2>11 DEF RefreshFails, RefCancel, RefGoto
  <2>12. ASSUME NEW c \in Calls, RefreshStops(c), UNCHANGED lapsed
        PROVE  LockTypeOK'
    BY <2>12 DEF RefreshStops, RefGoto
  <2>13. ASSUME NEW c \in Calls, Crash(c), UNCHANGED lapsed
        PROVE  LockTypeOK'
    BY <2>13 DEF Crash, Goto, RefGoto
  <2>14. CASE LockTick
    BY <2>14 DEF LockTick, Dec
  <2>15. CASE UNCHANGED lockVars
    BY <2>15 DEF lockVars
  <2>16. QED
    BY <2>1, <2>2, <2>3, <2>4, <2>5, <2>6, <2>7, <2>8, <2>9, <2>10, <2>11,
       <2>12, <2>13, <2>14, <2>15 DEF LockNext, Step, Acquire, Release, Refresh
<1>3. QED
  BY <1>1, <1>2, PTL DEF LockSpec

-----------------------------------------------------------------------------
\* The deployment the guarantees are for: every call comes through
\* RunWhileLocked, and its backend calls are not answered too late.
Dependable == Timely /\ Refreshed = Calls

\* Two calls never hold the record at once.
LEMMA HolderUnique ==
    ASSUME HeldInv, NEW c \in Calls, NEW d \in Calls, Holding(c), Holding(d)
    PROVE  c = d
BY DEF HeldInv

\* A record that is held has not expired.
LEMMA HolderOwns ==
    ASSUME LockTypeOK, HeldInv, NEW c \in Calls, Holding(c)
    PROVE  Owns(c) /\ Current = item
BY LockAssumption DEF LockTypeOK, HeldInv, Holding, Need, Owns, Exists, Current

\* HeldInv speaks only of the record, when it is held, and of each call's own
\* goroutines: a step of call c keeps it if it keeps it for c.
LEMMA HeldInvFrame ==
    ASSUME HeldInv, NEW c \in Calls,
           \A d \in Calls \ {c} :
               /\ pc'[d] = pc[d] /\ late'[d] = late[d] /\ ref'[d] = ref[d]
               /\ wake'[d] = wake[d] /\ refLate'[d] = refLate[d]
               /\ Holding(d) => item' = item,
           pc'[c] = "running" => ref'[c] # "off",
           ref'[c] = "sleep" /\ wake'[c] > 0 => refLate'[c] = 0,
           Holding(c)' => item'.id = c /\ item'.left > Need(c)'
    PROVE  HeldInv'
<1>1. ASSUME NEW d \in Calls \ {c}, Holding(d)'
      PROVE  item'.id = d /\ item'.left > Need(d)'
  BY <1>1 DEF HeldInv, Holding, Need
<1>2. ASSUME NEW d \in Calls \ {c}
      PROVE  /\ pc'[d] = "running" => ref'[d] # "off"
             /\ ref'[d] = "sleep" /\ wake'[d] > 0 => refLate'[d] = 0
  BY DEF HeldInv
<1>3. QED
  BY <1>1, <1>2 DEF HeldInv

\* Every step but the failure of a resetTTL keeps HeldInv in a dependable
\* deployment.
LEMMA HeldInvStep ==
    ASSUME Dependable, LockTypeOK, HeldInv, [LockNext]_lockVars, lapsed' = {}
    PROVE  HeldInv'
<1> USE LockAssumption DEF LockTypeOK, CallerStates, callerVars, refVars
<1>0. \A d \in Calls : Holding(d) => Owns(d) /\ Current = item
  BY HolderOwns
<1>1. ASSUME NEW c \in Calls, AcquireGet(c) PROVE HeldInv'
  BY <1>0, <1>1, HeldInvFrame DEF HeldInv, AcquireGet, Goto, Holding
<1>2. ASSUME NEW c \in Calls, CreateOK(c) PROVE HeldInv'
  <2>0. /\ item'.id = c /\ item'.left \in Int
        /\ item'.left >= TTL - MaxDelay
    <3>1. item' = Record(c, late[c])
      BY <1>2 DEF CreateOK
    <3>2. QED
      BY <3>1, RecordType
  <2>1. /\ pc'[c] = "running" /\ ref'[c] = "sleep"
        /\ wake'[c] = refreshAfter /\ refLate'[c] = 0
    <3>1. RefSleep(c)
      BY <1>2 DEF CreateOK, Dependable
    <3>2. QED
      BY <1>2, <3>1 DEF CreateOK, Goto, RefSleep, RefGoto
  <2>2. Need(c)' = refreshAfter + 4 * MaxDelay
    BY <2>1, RefreshAfterType DEF Need
  <2>3. item'.left > Need(c)'
    BY <2>0, <2>2, RefreshAfterType DEF Dependable, Timely
  <2>4. \A d \in Calls : ~Holding(d)
    BY <1>0, <1>2 DEF CreateOK, Owns
  <2>5. QED
    BY <1>2, <2>0, <2>1, <2>3, <2>4, HeldInvFrame
       DEF CreateOK, Goto, RefSleep, RefGoto
<1>3. ASSUME NEW c \in Calls, CreateExists(c) PROVE HeldInv'
  BY <1>3, HeldInvFrame DEF HeldInv, CreateExists, Goto, Holding
<1>4. ASSUME NEW c \in Calls, AcquireFails(c) PROVE HeldInv'
  <2>1. \A d \in Calls : Holding(d) => item' = item
    BY <1>0, <1>4 DEF AcquireFails, Owns
  <2>2. QED
    BY <1>4, <2>1, HeldInvFrame DEF HeldInv, AcquireFails, Goto, Holding
<1>5. ASSUME NEW c \in Calls, FnReturns(c) PROVE HeldInv'
  <2>1. pc'[c] = "release" /\ late'[c] = 0 /\ item' = item
    BY <1>5 DEF FnReturns, Goto
  <2>2. item.id = c /\ item.left > Need(c) /\ ref[c] # "off"
    BY <1>5 DEF FnReturns, HeldInv, Holding
  <2>3. Need(c) >= 2 * MaxDelay
    BY <1>5, <2>2 DEF FnReturns, Need
  <2>4. Need(c)' = 2 * MaxDelay
    BY <2>1 DEF Need
  <2>5. item'.left > Need(c)'
    BY <2>1, <2>2, <2>3, <2>4 DEF Need
  <2>6. QED
    BY <1>5, <2>1, <2>2, <2>5, HeldInvFrame DEF HeldInv, FnReturns, Goto
<1>6. ASSUME NEW c \in Calls, ReleaseGet(c) PROVE HeldInv'
  <2>1. Holding(c)
    BY <1>6 DEF ReleaseGet, Holding
  <2>2. pc'[c] = "delete" /\ late'[c] = 0 /\ item' = item
    BY <1>0, <1>6, <2>1 DEF ReleaseGet, Goto
  <2>3. item.id = c /\ item.left > 2 * MaxDelay - late[c]
    BY <1>6, <2>1 DEF HeldInv, Need, ReleaseGet
  <2>4. Need(c)' = MaxDelay
    BY <2>2 DEF Need
  <2>5. QED
    BY <1>6, <2>2, <2>3, <2>4, HeldInvFrame DEF HeldInv, ReleaseGet, Goto
<1>7. ASSUME NEW c \in Calls, ReleaseDelete(c) PROVE HeldInv'
  <2>1. Holding(c)
    BY <1>7 DEF ReleaseDelete, Holding
  <2>2. \A d \in Calls \ {c} : ~Holding(d)
    BY <2>1, HolderUnique
  <2>3. pc'[c] \in {"done", "failed"}
    BY <1>7 DEF ReleaseDelete, Goto
  <2>4. QED
    BY <1>7, <2>2, <2>3, HeldInvFrame DEF HeldInv, ReleaseDelete, Goto, Holding
<1>8. ASSUME NEW c \in Calls, RefreshGet(c) PROVE HeldInv'
  <2>1. CASE Holding(c)
    <3>1. /\ ref'[c] = "swap" /\ refLate'[c] = 0 /\ item' = item
          /\ pc' = pc /\ late' = late /\ wake' = wake
      BY <1>0, <1>8, <2>1 DEF RefreshGet, RefGoto
    <3>2. item.id = c /\ item.left > Need(c)
      BY <2>1 DEF HeldInv
    <3>3. Need(c)' <= Need(c) /\ Need(c) \in Int /\ Need(c)' \in Int
      BY <1>8, <3>1 DEF RefreshGet, Need
    <3>4. item'.left > Need(c)'
      BY <3>1, <3>2, <3>3
    <3>5. QED
      BY <1>0, <1>8, <2>1, <3>1, <3>2, <3>4, HeldInvFrame
         DEF HeldInv, RefreshGet, RefGoto
  <2>2. CASE ~Holding(c)
    <3>1. \A d \in Calls : Holding(d) => item' = item
      BY <1>0, <1>8 DEF RefreshGet
    <3>2. /\ pc' = pc /\ late' = late /\ wake' = wake
          /\ ref'[c] # "sleep"
          /\ \A d \in Calls \ {c} : ref'[d] = ref[d] /\ refLate'[d] = refLate[d]
      BY <1>8 DEF RefreshGet, RefGoto, RefCancel
    <3>3. ~Holding(c)' /\ pc'[c] # "running"
      BY <2>2, <3>2 DEF Holding
    <3>4. QED
      BY <3>1, <3>2, <3>3, HeldInvFrame
  <2>3. QED
    BY <2>1, <2>2
<1>9. ASSUME NEW c \in Calls, RefreshSwap(c) PROVE HeldInv'
  <2>0. pc' = pc /\ late' = late
    BY <1>9 DEF RefreshSwap
  <2>1. CASE Owns(c)
    <3>1. /\ ref'[c] = "sleep" /\ refLate'[c] = 0 /\ wake'[c] = refreshAfter
          /\ item' = Record(c, refLate[c])
          /\ \A d \in Calls \ {c} : /\ ref'[d] = ref[d] /\ wake'[d] = wake[d]
                                    /\ refLate'[d] = refLate[d]
      BY <1>9, <2>1 DEF RefreshSwap, RefSleep, RefGoto
    <3>2. item'.id = c /\ item'.left >= TTL - refLate[c] /\ item'.left \in Int
      BY <3>1, RecordType
    <3>3. Holding(c)' => Need(c)' <= refreshAfter + 4 * MaxDelay /\ Need(c)' \in Int
      BY <2>0, <3>1, RefreshAfterType DEF Need, Holding
    <3>4. Holding(c)' => item'.left > Need(c)'
      BY <3>2, <3>3, RefreshAfterType DEF Dependable, Timely
    <3>5. \A d \in Calls \ {c} : ~Holding(d)
      BY <1>0, <2>1 DEF Owns
    <3>6. QED
      BY <2>0, <3>1, <3>2, <3>4, <3>5, HeldInvFrame
  <2>2. CASE ~Owns(c)
    <3>1. ~Holding(c)
      BY <1>0, <2>2
    <3>2. RefCancel(c) /\ item' = Current
      BY <1>9, <2>2 DEF RefreshSwap
    <3>3. /\ ref'[c] = "off" /\ wake' = wake
          /\ \A d \in Calls \ {c} : ref'[d] = ref[d] /\ refLate'[d] = refLate[d]
      BY <3>2 DEF RefCancel, RefGoto
    <3>4. ~Holding(c)' /\ pc'[c] # "running"
      BY <2>0, <3>1 DEF Holding
    <3>5. QED
      BY <1>0, <2>0, <3>2, <3>3, <3>4, HeldInvFrame
  <2>3. QED
    BY <2>1, <2>2
<1>10. ASSUME NEW c \in Calls, RefreshStops(c) PROVE HeldInv'
  <2>1. Holding(c)' => Holding(c) /\ Need(c)' = Need(c)
    BY <1>10 DEF RefreshStops, Need, Holding
  <2>2. QED
    BY <1>10, <2>1, HeldInvFrame DEF HeldInv, RefreshStops, RefGoto
<1>11. ASSUME NEW c \in Calls, Crash(c) PROVE HeldInv'
  BY <1>11, HeldInvFrame DEF Crash, Goto, RefGoto, Holding
<1>14. ASSUME NEW c \in Calls, ReleaseFails(c) PROVE HeldInv'
  BY <1>14, HeldInvFrame DEF HeldInv, ReleaseFails, Goto, Holding
<1>12. CASE LockTick
  <2> SUFFICES ASSUME NEW c \in Calls
               PROVE  /\ pc'[c] = "running" => ref'[c] # "off"
                      /\ ref'[c] = "sleep" /\ wake'[c] > 0 => refLate'[c] = 0
                      /\ Holding(c)' => item'.id = c /\ item'.left > Need(c)'
    BY DEF HeldInv
  <2>1. pc' = pc /\ ref' = ref
    BY <1>12 DEF LockTick
  <2>2. pc'[c] = "running" => ref'[c] # "off"
    BY <2>1 DEF HeldInv
  <2>3. ref'[c] = "sleep" /\ wake'[c] > 0 => refLate'[c] = 0
    BY <1>12, <2>1 DEF LockTick, RefreshDue, Dec
  <2>4. ASSUME Holding(c)' PROVE item'.id = c /\ item'.left > Need(c)'
    <3>1. Holding(c)
      BY <2>1, <2>4 DEF Holding
    <3>2. item.id = c /\ item.left > Need(c) /\ item.left # 0
      BY <1>0, <3>1 DEF HeldInv, Owns, Exists
    <3>3. item'.id = c /\ item'.left = item.left - 1
      BY <1>12, <3>2 DEF LockTick, Dec
    <3>4. Need(c) \in Int /\ Need(c)' = Need(c) - 1
      <4>1. CASE pc[c] = "running" /\ ref[c] = "sleep"
        BY <1>12, <2>1, <4>1 DEF HeldInv, LockTick, Dec, RefreshDue, Need
      <4>2. CASE pc[c] = "running" /\ ref[c] = "swap"
        BY <1>12, <2>1, <4>2 DEF LockTick, RefreshDue, Need
      <4>3. CASE pc[c] \in {"release", "delete"}
        BY <1>12, <2>1, <4>3 DEF LockTick, CallerDue, Need
      <4>4. QED
        BY <3>1, <4>1, <4>2, <4>3 DEF Holding, HeldInv
    <3>5. QED
      BY <3>2, <3>3, <3>4
  <2>5. QED
    BY <2>2, <2>3, <2>4
<1>13. CASE UNCHANGED lockVars
  BY <1>13 DEF lockVars, HeldInv, Holding, Need
<1>15. QED
  BY <1>1, <1>2, <1>3, <1>4, <1>5, <1>6, <1>7, <1>8, <1>9, <1>10, <1>11,
     <1>12, <1>13, <1>14
     DEF LockNext, Step, Acquire, Release, Refresh, RefreshFails

\* IInv is an invariant of every dependable deployment.
LEMMA Invariance ==
    ASSUME Dependable
    PROVE  LockSpec => []IInv
<1>1. LockInit => HeldInv
  BY DEF LockInit, HeldInv, Holding
<1>2. LockTypeOK /\ (lapsed = {} => HeldInv) /\ [LockNext]_lockVars => (lapsed = {} => HeldInv)'
  <2>1. [LockNext]_lockVars /\ lapsed' = {} => lapsed = {}
    BY DEF LockNext, Step, RefreshFails, LockTick, lockVars
  <2>2. QED
    BY <2>1, HeldInvStep
<1>3. QED
  BY <1>1, <1>2, LockTypeCorrect, PTL DEF LockSpec, IInv

\* RunWhileLocked keeps its promise, until a resetTTL fails: fn runs with a
\* live context only while its own record is in the backend and has not
\* expired.
THEOREM FnRunsWhileHeld ==
    ASSUME Dependable
    PROVE  LockSpec => []HeldWhileRunning
<1>1. IInv => HeldWhileRunning
  BY HolderOwns DEF IInv, HeldWhileRunning, Holding
<1>2. QED
  BY <1>1, Invariance, PTL

\* The lock excludes, until a resetTTL fails: no two calls run fn with a live
\* context.
THEOREM Exclusion ==
    ASSUME Dependable
    PROVE  LockSpec => []MutualExclusion
<1>1. IInv => MutualExclusion
  BY HolderUnique DEF IInv, MutualExclusion, Holding
<1>2. QED
  BY <1>1, Invariance, PTL

\* The Delete of Release, which names only the key, removes no record but
\* the caller's own, until a resetTTL fails.
THEOREM ReleaseIsSafe ==
    ASSUME Dependable
    PROVE  LockSpec => ReleaseDeletesOwn
<1>1. IInv => (lapsed = {} => \A c \in Calls : ReleaseDelete(c) /\ Exists => Owns(c))
  BY HolderOwns DEF IInv, ReleaseDelete, Holding
<1>2. QED
  BY <1>1, Invariance, PTL DEF ReleaseDeletesOwn

\* No deployment, however slow or faulty, lets a step replace the id of a
\* record that has not expired.
THEOREM LockNotTakenOver == LockSpec => NoTakeover
<1>1. ASSUME LockTypeOK, [LockNext]_lockVars, Exists, item'.id # NoCall
      PROVE  item'.id = item.id
  <2> USE <1>1 DEF Current, Exists, Owns
  <2>1. ASSUME NEW c \in Calls, Acquire(c) PROVE item'.id = item.id
    BY <2>1 DEF Acquire, AcquireGet, CreateOK, CreateExists
  <2>2. ASSUME NEW c \in Calls, FnReturns(c) \/ ReleaseGet(c) \/ ReleaseFails(c)
        PROVE  item'.id = item.id
    BY <2>2 DEF FnReturns, ReleaseGet, ReleaseFails
  <2>3. ASSUME NEW c \in Calls, ReleaseDelete(c) PROVE item'.id = item.id
    BY <2>3 DEF ReleaseDelete, NoItem
  <2>4. ASSUME NEW c \in Calls, Refresh(c) \/ RefreshFails(c)
        PROVE  item'.id = item.id
    BY <2>4 DEF Refresh, RefreshGet, RefreshSwap, RefreshStops, RefreshFails, Record
  <2>5. ASSUME NEW c \in Calls, AcquireFails(c) \/ Crash(c)
        PROVE  item'.id = item.id
    BY <2>5 DEF AcquireFails, Crash
  <2>6. CASE LockTick \/ UNCHANGED lockVars
    BY <2>6 DEF LockTick, lockVars, LockTypeOK
  <2>7. QED
    BY <2>1, <2>2, <2>3, <2>4, <2>5, <2>6 DEF LockNext, Step, Release
<1>2. QED
  BY <1>1, LockTypeCorrect, PTL DEF LockSpec, NoTakeover

-----------------------------------------------------------------------------
\* The buffer.

\* Two sequences that are the two parts of a third one.
LEMMA JoinedIs ==
    ASSUME NEW S, NEW x \in Seq(S), NEW y \in Seq(S), NEW b \in Seq(S),
           Len(b) = Len(x) + Len(y),
           \A i \in 1..Len(x) : x[i] = b[i],
           \A i \in 1..Len(y) : y[i] = b[Len(x) + i]
    PROVE  x \o y = b
<1>0. Len(x) \in Nat /\ Len(y) \in Nat
  BY LenProperties
<1>1. x \o y \in Seq(S) /\ Len(x \o y) = Len(b)
  BY ConcatProperties
<1>2. ASSUME NEW i \in 1..Len(b) PROVE (x \o y)[i] = b[i]
  <2>1. (x \o y)[i] = IF i <= Len(x) THEN x[i] ELSE y[i - Len(x)]
    BY ConcatProperties
  <2> QED BY <1>0, <2>1
<1> QED BY <1>1, <1>2, SeqEqual

\* A sequence that is moved in part behind another one.
LEMMA MovedPart ==
    ASSUME NEW c \in Seq(Message), NEW b \in Seq(Message), NEW k \in 0..Len(b)
    PROVE  /\ c \o SubSeq(b, 1, k) \in Seq(Message)
           /\ SubSeq(b, k + 1, Len(b)) \in Seq(Message)
           /\ Len(c \o SubSeq(b, 1, k)) = Len(c) + k
           /\ Len(SubSeq(b, k + 1, Len(b))) = Len(b) - k
           /\ (c \o SubSeq(b, 1, k)) \o SubSeq(b, k + 1, Len(b)) = c \o b
<1>0. Len(b) \in Nat /\ Len(c) \in Nat /\ k \in Nat /\ k <= Len(b)
  BY LenProperties
<1>e. \A i \in 1..Len(b) : b[i] \in Message
  BY ElementOfSeq
<1>1. SubSeq(b, 1, k) \in Seq(Message) /\ Len(SubSeq(b, 1, k)) = k
  <2>1. \A i \in 1..k : b[i] \in Message
    BY <1>0, <1>e
  <2> QED BY <1>0, <2>1, SubSeqProperties
<1>2. SubSeq(b, k + 1, Len(b)) \in Seq(Message) /\ Len(SubSeq(b, k + 1, Len(b))) = Len(b) - k
  <2>1. \A i \in (k + 1)..Len(b) : b[i] \in Message
    BY <1>0, <1>e
  <2> QED BY <1>0, <2>1, SubSeqProperties
<1>3. \A i \in 1..k : SubSeq(b, 1, k)[i] = b[i]
  <2>1. \A i \in 1..k : b[i] \in Message
    BY <1>0, <1>e
  <2>2. \A i \in 1..(k - 1 + 1) : SubSeq(b, 1, k)[i] = b[1 + i - 1]
    BY <1>0, <2>1, SubSeqProperties
  <2> QED BY <1>0, <2>2
<1>4. \A i \in 1..(Len(b) - k) : SubSeq(b, k + 1, Len(b))[i] = b[k + i]
  <2>1. \A i \in (k + 1)..Len(b) : b[i] \in Message
    BY <1>0, <1>e
  <2>2. \A i \in 1..(Len(b) - (k + 1) + 1) : SubSeq(b, k + 1, Len(b))[i] = b[(k + 1) + i - 1]
    BY <1>0, <2>1, SubSeqProperties
  <2> QED BY <1>0, <2>2
<1>5. PICK x : x = SubSeq(b, 1, k)
  OBVIOUS
<1>6. PICK y : y = SubSeq(b, k + 1, Len(b))
  OBVIOUS
<1>7. x \in Seq(Message) /\ y \in Seq(Message) /\ Len(x) = k /\ Len(y) = Len(b) - k
  BY <1>1, <1>2, <1>5, <1>6
<1>8. x \o y = b
  <2>1. \A i \in 1..Len(x) : x[i] = b[i]
    BY <1>3, <1>5, <1>7
  <2>2. \A i \in 1..Len(y) : y[i] = b[Len(x) + i]
    BY <1>4, <1>6, <1>7
  <2>3. Len(b) = Len(x) + Len(y)
    BY <1>0, <1>7
  <2> QED BY <1>7, <2>1, <2>2, <2>3, JoinedIs
<1>9. (c \o x) \o y = c \o b
  <2>1. x \in Seq(Message) /\ y \in Seq(Message)
    BY <1>7
  <2>2. (c \o x) \o y = c \o (x \o y)
    BY <2>1
  <2> QED BY <1>8, <2>2
<1>10. c \o x \in Seq(Message) /\ Len(c \o x) = Len(c) + k
  BY <1>7, ConcatProperties
<1> QED BY <1>5, <1>6, <1>7, <1>9, <1>10

\* An element at the end of the second of two sequences.
LEMMA AppendedToSecond ==
    ASSUME NEW S, NEW c \in Seq(S), NEW b \in Seq(S), NEW e \in S
    PROVE  c \o Append(b, e) = Append(c \o b, e)
<1>1. c \o b \in Seq(S) /\ <<e>> \in Seq(S)
  BY ConcatProperties
<1>2. Append(b, e) = b \o <<e>>
  BY AppendIsConcat
<1>3. Append(c \o b, e) = (c \o b) \o <<e>>
  BY <1>1, AppendIsConcat
<1> QED BY <1>1, <1>2, <1>3, ConcatAssociative

\* The first element leaves the first of two sequences.
LEMMA TailOfFirst ==
    ASSUME NEW S, NEW c \in Seq(S), NEW b \in Seq(S), Len(c) > 0
    PROVE  /\ Len(c \o b) > 0
           /\ Tail(c \o b) = Tail(c) \o b
<1>0. Len(c) \in Nat /\ Len(b) \in Nat
  BY LenProperties
<1>1. c # <<>>
  BY <1>0, EmptySeq
<1>2. c \o b \in Seq(S) /\ Len(c \o b) = Len(c) + Len(b)
  BY ConcatProperties
<1>3. c \o b # <<>>
  BY <1>0, <1>2, EmptySeq
<1>4. /\ Tail(c \o b) \in Seq(S) /\ Len(Tail(c \o b)) = Len(c) + Len(b) - 1
      /\ \A i \in 1..(Len(c) + Len(b) - 1) : Tail(c \o b)[i] = (c \o b)[i + 1]
  BY <1>0, <1>2, <1>3, HeadTailProperties
<1>5. /\ Tail(c) \in Seq(S) /\ Len(Tail(c)) = Len(c) - 1
      /\ \A i \in 1..(Len(c) - 1) : Tail(c)[i] = c[i + 1]
  BY <1>0, <1>1, HeadTailProperties
<1>6. Tail(c) \o b \in Seq(S) /\ Len(Tail(c) \o b) = Len(c) - 1 + Len(b)
  BY <1>5, ConcatProperties
<1>7. \A i \in 1..(Len(c) + Len(b) - 1) : Tail(c \o b)[i] = (Tail(c) \o b)[i]
  <2> SUFFICES ASSUME NEW i \in 1..(Len(c) + Len(b) - 1)
               PROVE  Tail(c \o b)[i] = (Tail(c) \o b)[i]
    OBVIOUS
  <2>1. Tail(c \o b)[i] = (c \o b)[i + 1]
    BY <1>4
  <2>2. (c \o b)[i + 1] = IF i + 1 <= Len(c) THEN c[i + 1] ELSE b[i + 1 - Len(c)]
    <3>1. i + 1 \in 1..(Len(c) + Len(b))
      BY <1>0
    <3> QED BY <3>1, ConcatProperties
  <2>3. (Tail(c) \o b)[i] = IF i <= Len(c) - 1 THEN Tail(c)[i] ELSE b[i - (Len(c) - 1)]
    <3>1. i \in 1..(Len(Tail(c)) + Len(b))
      BY <1>0, <1>5
    <3>2. (Tail(c) \o b)[i] = IF i <= Len(Tail(c)) THEN Tail(c)[i]
                              ELSE b[i - Len(Tail(c))]
      BY <1>5, <3>1, ConcatProperties
    <3> QED BY <1>5, <3>2
  <2>4. i <= Len(c) - 1 => Tail(c)[i] = c[i + 1]
    BY <1>0, <1>5
  <2>5. i \in Int /\ i - (Len(c) - 1) = i + 1 - Len(c) /\ (i + 1 <= Len(c) <=> i <= Len(c) - 1)
    BY <1>0
  <2> QED BY <2>1, <2>2, <2>3, <2>4, <2>5
<1> QED BY <1>0, <1>2, <1>4, <1>6, <1>7, SeqEqual

-----------------------------------------------------------------------------
\* flushBacklog loses nothing, keeps the order and stops at a full channel.
LEMMA Flushing ==
    ASSUME TypeOK, NEW w \in Watchers
    PROVE  /\ FlushedChan(w) \in Seq(Message)
           /\ FlushedBacklog(w) \in Seq(Message)
           /\ FlushedChan(w) \o FlushedBacklog(w) = chan[w] \o backlog[w]
           /\ Len(FlushedChan(w)) <= QueueSize
           /\ Flushes(w) => Len(FlushedBacklog(w)) = 0
           /\ ~Flushes(w) => Len(FlushedChan(w)) = QueueSize
<1>1. /\ chan[w] \in Seq(Message) /\ backlog[w] \in Seq(Message)
      /\ Len(chan[w]) <= QueueSize
  BY DEF TypeOK
<1>2. /\ Len(chan[w]) \in Nat /\ Len(backlog[w]) \in Nat /\ QueueSize \in Nat
      /\ Len(chan[w]) <= QueueSize
  BY <1>1, LenProperties, BufferAssumption DEF BufferAssumption
<1>3. Fits(w) \in 0..Len(backlog[w]) /\ Len(chan[w]) + Fits(w) <= QueueSize
  <2>1. PICK m \in Nat : m = Len(chan[w])
    BY <1>2
  <2>2. PICK n \in Nat : n = Len(backlog[w])
    BY <1>2
  <2>3. PICK f : f = IF n <= QueueSize - m THEN n ELSE QueueSize - m
    OBVIOUS
  <2>4. Fits(w) = f
    BY <2>1, <2>2, <2>3 DEF Fits, Room
  <2>5. m <= QueueSize /\ QueueSize \in Nat
    BY <1>2, <2>1
  <2>6. f \in 0..n /\ m + f <= QueueSize
    BY <2>3, <2>5
  <2> QED BY <2>1, <2>2, <2>4, <2>6
<1>4. PICK k \in 0..Len(backlog[w]) : k = Fits(w)
  BY <1>3
<1>5. /\ FlushedChan(w) \in Seq(Message)
      /\ FlushedBacklog(w) \in Seq(Message)
      /\ Len(FlushedChan(w)) = Len(chan[w]) + k
      /\ Len(FlushedBacklog(w)) = Len(backlog[w]) - k
      /\ FlushedChan(w) \o FlushedBacklog(w) = chan[w] \o backlog[w]
  <2>c. PICK c \in Seq(Message) : c = chan[w]
    BY <1>1
  <2>b. PICK b \in Seq(Message) : b = backlog[w]
    BY <1>1
  <2>1. c = chan[w] /\ b = backlog[w]
    BY <2>b, <2>c
  <2>2. k \in 0..Len(b)
    BY <2>1
  <2>3. /\ c \o SubSeq(b, 1, k) \in Seq(Message)
        /\ SubSeq(b, k + 1, Len(b)) \in Seq(Message)
        /\ Len(c \o SubSeq(b, 1, k)) = Len(c) + k
        /\ Len(SubSeq(b, k + 1, Len(b))) = Len(b) - k
        /\ (c \o SubSeq(b, 1, k)) \o SubSeq(b, k + 1, Len(b)) = c \o b
    BY <2>2, MovedPart
  <2>4. /\ FlushedChan(w) = c \o SubSeq(b, 1, k)
        /\ FlushedBacklog(w) = SubSeq(b, k + 1, Len(b))
    BY <1>4, <2>1 DEF FlushedChan, FlushedBacklog
  <2> QED BY <2>1, <2>3, <2>4
<1>6. Flushes(w) => k = Len(backlog[w])
  BY <1>1, <1>2, <1>4 DEF Flushes, Fits, Room
<1>7. ~Flushes(w) => Len(chan[w]) + k = QueueSize
  BY <1>1, <1>2, <1>4 DEF Flushes, Fits, Room
<1> QED BY <1>2, <1>3, <1>4, <1>5, <1>6, <1>7

\* BufferWatcher.emit puts the event behind what the watcher has still to
\* receive, and leaves a backlog only behind a full channel.
LEMMA Emitting ==
    ASSUME TypeOK, NEW w \in Watchers, NEW e \in Event
    PROVE  /\ Sent(w, e) \in Seq(Message)
           /\ Kept(w, e) \in Seq(Message)
           /\ Len(Sent(w, e)) <= QueueSize
           /\ Sent(w, e) \o Kept(w, e) = Append(chan[w] \o backlog[w], e)
           /\ Len(Kept(w, e)) = 0 \/ Len(Sent(w, e)) = QueueSize
<1>1. e \in Message
  BY DEF Message
<1>2. PICK c \in Seq(Message) : c = FlushedChan(w)
  BY Flushing
<1>3. PICK b \in Seq(Message) : b = FlushedBacklog(w)
  BY Flushing
<1>4. PICK p : p = chan[w] \o backlog[w]
  OBVIOUS
<1>5. /\ c \o b = p /\ Len(c) <= QueueSize
      /\ Flushes(w) => Len(b) = 0
      /\ ~Flushes(w) => Len(c) = QueueSize
  BY <1>2, <1>3, <1>4, Flushing
<1>6. Len(c) \in Nat /\ Len(b) \in Nat /\ QueueSize \in Nat
  BY LenProperties, BufferAssumption DEF BufferAssumption
<1>7. Append(c, e) \in Seq(Message) /\ Len(Append(c, e)) = Len(c) + 1
  BY <1>1, AppendProperties
<1>8. Append(b, e) \in Seq(Message)
  BY <1>1, AppendProperties
<1>9. c \o Append(b, e) = Append(p, e)
  BY <1>1, <1>5, AppendedToSecond
<1>10. CASE Flushes(w) /\ Len(c) < QueueSize
  <2>1. Sent(w, e) = Append(c, e) /\ Kept(w, e) = <<>>
    BY <1>2, <1>10 DEF Sent, Kept
  <2>2. b = <<>>
    BY <1>5, <1>10, EmptySeq
  <2>3. p = c
    BY <1>5, <2>2, ConcatEmptySeq
  <2>4. Append(c, e) \o <<>> = Append(c, e)
    BY <1>7, ConcatEmptySeq
  <2>5. <<>> \in Seq(Message) /\ Len(<<>>) = 0
    BY EmptySeq
  <2> QED BY <1>4, <1>6, <1>7, <1>10, <2>1, <2>3, <2>4, <2>5
<1>11. CASE ~(Flushes(w) /\ Len(c) < QueueSize)
  <2>1. Sent(w, e) = c /\ Kept(w, e) = Append(b, e)
    BY <1>2, <1>3, <1>11 DEF Sent, Kept
  <2>2. Len(c) = QueueSize
    BY <1>5, <1>6, <1>11
  <2> QED BY <1>4, <1>5, <1>8, <1>9, <2>1, <2>2
<1> QED BY <1>10, <1>11

-----------------------------------------------------------------------------
\* The inductive invariant: a consumer that is about to receive has no
\* backlog or a full channel, and before SetInit nobody has a backlog.
WaitingFull ==
    \A w \in waiting \ left : Len(backlog[w]) = 0 \/ Len(chan[w]) = QueueSize
NoEarlyBacklog ==
    ~init => \A w \in tree : Len(backlog[w]) = 0
BufferInv == TypeOK /\ WaitingFull /\ NoEarlyBacklog

\* What the assumptions on the constants say of numbers and messages.
LEMMA Constants ==
    /\ MaxEvents \in Nat /\ Capacity \in Nat /\ Capacity > 0
    /\ QueueSize \in Nat /\ QueueSize > 0 /\ Grace \in Nat
    /\ OpInit \in Message /\ NoEvent \in Message
    /\ <<>> \in Seq(Message) /\ Len(<<>>) = 0 /\ <<>> \in Seq(Event)
<1>1. /\ MaxEvents \in Nat /\ Capacity \in Nat /\ Capacity > 0
      /\ QueueSize \in Nat /\ QueueSize > 0 /\ Grace \in Nat
  BY BufferAssumption DEF BufferAssumption
<1>2. OpInit \in Message /\ NoEvent \in Message
  BY DEF Message, NoEvent
<1>3. <<>> \in Seq(Message) /\ Len(<<>>) = 0 /\ <<>> \in Seq(Event)
  BY EmptySeq
<1> QED BY <1>1, <1>2, <1>3

\* NewCircularBuffer builds a buffer that satisfies the invariant.
LEMMA BufferStarts == Init => BufferInv
<1> SUFFICES ASSUME Init PROVE BufferInv
  OBVIOUS
<1>1. TypeOK
  <2>1. /\ chan \in [Watchers -> Seq(Message)]
        /\ backlog \in [Watchers -> Seq(Message)]
    BY Constants DEF Init
  <2>2. \A w \in Watchers : Len(chan[w]) <= QueueSize
    <3>1. \A w \in Watchers : chan[w] = <<>>
      BY DEF Init
    <3>2. Len(<<>>) = 0 /\ 0 <= QueueSize
      BY Constants
    <3> QED BY <3>1, <3>2
  <2>3. /\ ring \in [0..(Capacity - 1) -> Message] /\ size \in 0..Capacity
        /\ start \in -1..(Capacity - 1) /\ end \in -1..(Capacity - 1)
        /\ age \in [Watchers -> 0..(Grace + 1)] /\ count \in 0..MaxEvents
    BY Constants DEF Init
  <2>4. log \in Seq(Event)
    BY Constants DEF Init
  <2> QED BY <2>1, <2>2, <2>3, <2>4 DEF Init, TypeOK
<1>2. WaitingFull /\ NoEarlyBacklog
  BY DEF Init, WaitingFull, NoEarlyBacklog
<1> QED BY <1>1, <1>2 DEF BufferInv

\* clear, whatever becomes of init and closed.
LEMMA ClearPreserves ==
    ASSUME BufferInv, clear, init' \in BOOLEAN, closed' \in BOOLEAN
    PROVE  BufferInv'
<1>1. TypeOK'
  BY Constants DEF BufferInv, TypeOK, clear, watcherVars
<1>2. WaitingFull'
  BY DEF BufferInv, WaitingFull, clear, watcherVars
<1>3. NoEarlyBacklog'
  BY DEF NoEarlyBacklog, clear
<1> QED BY <1>1, <1>2, <1>3 DEF BufferInv

\* The positions that emit computes lie in the ring.
LEMMA Positions ==
    ASSUME TypeOK
    PROVE  NextEnd \in -1..(Capacity - 1) /\ NextStart \in -1..(Capacity - 1)
<1>1. /\ start \in Int /\ end \in Int /\ Capacity \in Nat /\ Capacity > 0
      /\ start \in -1..(Capacity - 1)
  BY Constants DEF TypeOK
<1>2. (start + 1) % Capacity \in 0..(Capacity - 1)
  BY <1>1
<1>3. (end + 1) % Capacity \in 0..(Capacity - 1)
  BY <1>1
<1>4. /\ 0 \in -1..(Capacity - 1)
      /\ \A i \in 0..(Capacity - 1) : i \in -1..(Capacity - 1)
  BY <1>1
<1> QED BY <1>1, <1>2, <1>3, <1>4 DEF NextEnd, NextStart

\* Emit keeps the invariant: the backlogs it fills belong to full channels.
LEMMA EmitPreserves == ASSUME BufferInv, Emit PROVE BufferInv'
<1> USE DEF BufferInv
<1>1. PICK key \in Keys : LET e == [key |-> key, n |-> count + 1]
                              to == Matching(e) \ Overdue(e)
         IN  /\ ring' = [ring EXCEPT ![NextEnd] = e]
             /\ start' = NextStart /\ end' = NextEnd
             /\ size' = IF size < Capacity THEN size + 1 ELSE size
             /\ count' = count + 1 /\ log' = Append(log, e)
             /\ tree' = tree \ Overdue(e)
             /\ chan' = [w \in Watchers |->
                            IF w \in to THEN Sent(w, e)
                            ELSE IF w \in Overdue(e) THEN FlushedChan(w) ELSE chan[w]]
             /\ backlog' = [w \in Watchers |->
                               IF w \in to THEN Kept(w, e)
                               ELSE IF w \in Overdue(e) THEN FlushedBacklog(w)
                               ELSE backlog[w]]
             /\ age' = [w \in Watchers |-> IF w \in to /\ Flushes(w) THEN 0 ELSE age[w]]
  BY DEF Emit
<1>2. PICK e : e = [key |-> key, n |-> count + 1]
  OBVIOUS
<1>3. PICK to : to = Matching(e) \ Overdue(e)
  OBVIOUS
<1>4. /\ ring' = [ring EXCEPT ![NextEnd] = e]
      /\ start' = NextStart /\ end' = NextEnd
      /\ size' = IF size < Capacity THEN size + 1 ELSE size
      /\ count' = count + 1 /\ log' = Append(log, e)
      /\ tree' = tree \ Overdue(e)
      /\ chan' = [w \in Watchers |->
                     IF w \in to THEN Sent(w, e)
                     ELSE IF w \in Overdue(e) THEN FlushedChan(w) ELSE chan[w]]
      /\ backlog' = [w \in Watchers |->
                        IF w \in to THEN Kept(w, e)
                        ELSE IF w \in Overdue(e) THEN FlushedBacklog(w)
                        ELSE backlog[w]]
      /\ age' = [w \in Watchers |-> IF w \in to /\ Flushes(w) THEN 0 ELSE age[w]]
  BY <1>1, <1>2, <1>3
<1>5. init /\ count < MaxEvents /\ UNCHANGED <<init, closed, waiting, left>>
  BY DEF Emit
<1>6. e \in Event /\ e \in Message
  BY <1>2, <1>5, Constants DEF TypeOK, Event, Message
<1>7. ASSUME NEW w \in Watchers
      PROVE  /\ chan'[w] \in Seq(Message) /\ backlog'[w] \in Seq(Message)
             /\ Len(chan'[w]) <= QueueSize
             /\ age'[w] \in 0..(Grace + 1)
             /\ WaitingFull /\ w \in waiting \ left =>
                   Len(backlog'[w]) = 0 \/ Len(chan'[w]) = QueueSize
  <2>1. age'[w] \in 0..(Grace + 1)
    BY <1>4, Constants DEF TypeOK
  <2>2. CASE w \in to
    <3>1. chan'[w] = Sent(w, e) /\ backlog'[w] = Kept(w, e)
      BY <1>4, <2>2
    <3> QED BY <1>6, <2>1, <3>1, Emitting
  <2>3. CASE w \notin to /\ w \in Overdue(e)
    <3>1. chan'[w] = FlushedChan(w) /\ backlog'[w] = FlushedBacklog(w)
      BY <1>4, <2>3
    <3>2. ~Flushes(w)
      BY <2>3 DEF Overdue
    <3> QED BY <2>1, <3>1, <3>2, Flushing
  <2>4. CASE w \notin to /\ w \notin Overdue(e)
    <3>1. chan'[w] = chan[w] /\ backlog'[w] = backlog[w]
      BY <1>4, <2>4
    <3> QED BY <2>1, <3>1 DEF TypeOK, WaitingFull
  <2> QED BY <2>2, <2>3, <2>4
<1>8. TypeOK'
  <2>1. ring' \in [0..(Capacity - 1) -> Message]
    BY <1>4, <1>6 DEF TypeOK
  <2>2. start' \in -1..(Capacity - 1) /\ end' \in -1..(Capacity - 1)
    BY <1>4, Positions
  <2>3. size' \in 0..Capacity /\ count' \in 0..MaxEvents
    BY <1>4, <1>5, Constants DEF TypeOK
  <2>4. log' \in Seq(Event)
    BY <1>4, <1>6, AppendProperties DEF TypeOK
  <2>5. /\ chan' \in [Watchers -> Seq(Message)]
        /\ backlog' \in [Watchers -> Seq(Message)]
        /\ age' \in [Watchers -> 0..(Grace + 1)]
    BY <1>4, <1>7
  <2>6. \A w \in Watchers : Len(chan'[w]) <= QueueSize
    BY <1>7
  <2>7. tree' \subseteq Watchers
    BY <1>4 DEF TypeOK
  <2> QED BY <1>5, <2>1, <2>2, <2>3, <2>4, <2>5, <2>6, <2>7 DEF TypeOK
<1>9. WaitingFull'
  BY <1>5, <1>7 DEF WaitingFull, TypeOK
<1>10. NoEarlyBacklog'
  BY <1>5 DEF NoEarlyBacklog
<1> QED BY <1>8, <1>9, <1>10

\* SetInit keeps the invariant.
LEMMA SetInitPreserves == ASSUME BufferInv, SetInit PROVE BufferInv'
<1>1. ASSUME NEW w \in Watchers
      PROVE  chan'[w] \in Seq(Message) /\ Len(chan'[w]) <= QueueSize
  <2>1. chan[w] \in Seq(Message) /\ Len(chan[w]) <= QueueSize
    BY DEF BufferInv, TypeOK
  <2>2. CASE w \in tree'
    <3>1. chan'[w] = Append(chan[w], OpInit) /\ Len(chan[w]) < QueueSize
      BY <2>2 DEF SetInit
    <3>2. Append(chan[w], OpInit) \in Seq(Message)
          /\ Len(Append(chan[w], OpInit)) = Len(chan[w]) + 1
      BY <2>1, Constants, AppendProperties
    <3>3. Len(chan[w]) \in Nat
      BY <2>1, LenProperties
    <3> QED BY <3>1, <3>2, <3>3, Constants
  <2>3. CASE w \notin tree'
    BY <2>1, <2>3 DEF SetInit
  <2> QED BY <2>2, <2>3
<1>2. TypeOK'
  BY <1>1 DEF BufferInv, TypeOK, SetInit, ringVars
<1>3. WaitingFull'
  <2> SUFFICES ASSUME NEW w \in waiting \ left, Len(backlog[w]) # 0
               PROVE  Len(chan'[w]) = QueueSize
    BY DEF WaitingFull, SetInit
  <2>1. Len(chan[w]) = QueueSize /\ w \in Watchers
    BY DEF BufferInv, WaitingFull, TypeOK
  <2>2. w \notin tree'
    BY <2>1, Constants DEF SetInit
  <2> QED BY <2>1, <2>2 DEF SetInit
<1>4. NoEarlyBacklog'
  BY DEF NoEarlyBacklog, SetInit
<1> QED BY <1>2, <1>3, <1>4 DEF BufferInv

\* NewWatcher keeps the invariant.
LEMMA NewWatcherPreserves ==
    ASSUME BufferInv, NEW w \in Watchers, NewWatcher(w) PROVE BufferInv'
<1>1. PICK m \in Seq(Message) :
        /\ Len(m) <= QueueSize
        /\ m = IF init THEN <<OpInit>> ELSE <<>>
  <2>1. <<OpInit>> \in Seq(Message) /\ Len(<<OpInit>>) = 1
    BY Constants
  <2>2. Len(<<OpInit>>) <= QueueSize /\ Len(<<>>) <= QueueSize /\ <<>> \in Seq(Message)
    BY <2>1, Constants
  <2>3. CASE init
    BY <2>1, <2>2, <2>3
  <2>4. CASE ~init
    BY <2>2, <2>4
  <2> QED BY <2>3, <2>4
<1>2. /\ chan' = [chan EXCEPT ![w] = m]
      /\ backlog' = [backlog EXCEPT ![w] = <<>>]
  BY <1>1 DEF NewWatcher
<1>3. TypeOK'
  <2>1. \A v \in Watchers : Len(chan'[v]) <= QueueSize
    BY <1>1, <1>2 DEF BufferInv, TypeOK
  <2>2. /\ chan' \in [Watchers -> Seq(Message)]
        /\ backlog' \in [Watchers -> Seq(Message)]
    BY <1>1, <1>2, Constants DEF BufferInv, TypeOK
  <2>3. /\ age' \in [Watchers -> 0..(Grace + 1)]
        /\ tree' \subseteq Watchers /\ left' \subseteq Watchers
        /\ waiting' \subseteq Watchers
    BY Constants DEF BufferInv, TypeOK, NewWatcher
  <2> QED BY <2>1, <2>2, <2>3 DEF BufferInv, TypeOK, NewWatcher, ringVars
<1>4. WaitingFull'
  BY <1>2 DEF BufferInv, WaitingFull, TypeOK, NewWatcher
<1>5. NoEarlyBacklog'
  <2> SUFFICES ASSUME ~init, NEW v \in tree \cup {w} PROVE Len(backlog'[v]) = 0
    BY DEF NoEarlyBacklog, NewWatcher
  <2>1. CASE v = w
    BY <1>2, <2>1, Constants DEF BufferInv, TypeOK
  <2>2. CASE v # w
    BY <1>2, <2>2 DEF BufferInv, TypeOK, NoEarlyBacklog
  <2> QED BY <2>1, <2>2
<1> QED BY <1>3, <1>4, <1>5 DEF BufferInv

\* Events keeps the invariant: it flushes before it returns the channel.
LEMMA EventsPreserves ==
    ASSUME BufferInv, NEW w \in Watchers, Events(w) PROVE BufferInv'
<1>1. PICK c \in Seq(Message), b \in Seq(Message) :
        /\ c = FlushedChan(w) /\ b = FlushedBacklog(w)
        /\ Len(c) <= QueueSize /\ (Len(b) = 0 \/ Len(c) = QueueSize)
  BY Flushing DEF BufferInv
<1>2. chan' = [chan EXCEPT ![w] = c] /\ backlog' = [backlog EXCEPT ![w] = b]
  BY <1>1 DEF Events
<1>3. TypeOK'
  <2>1. \A v \in Watchers : Len(chan'[v]) <= QueueSize
    BY <1>1, <1>2 DEF BufferInv, TypeOK
  <2>2. /\ chan' \in [Watchers -> Seq(Message)]
        /\ backlog' \in [Watchers -> Seq(Message)]
    BY <1>2 DEF BufferInv, TypeOK
  <2>3. age' \in [Watchers -> 0..(Grace + 1)] /\ waiting' \subseteq Watchers
    BY Constants DEF BufferInv, TypeOK, Events
  <2> QED BY <2>1, <2>2, <2>3 DEF BufferInv, TypeOK, Events, ringVars
<1>4. WaitingFull'
  BY <1>1, <1>2 DEF BufferInv, WaitingFull, TypeOK, Events
<1>5. NoEarlyBacklog'
  <2> SUFFICES ASSUME ~init, NEW v \in tree PROVE Len(backlog'[v]) = 0
    BY DEF NoEarlyBacklog, Events
  <2>1. CASE v # w
    BY <1>2, <2>1 DEF BufferInv, TypeOK, NoEarlyBacklog
  <2>2. CASE v = w
    <3>1. Len(backlog[w]) = 0 /\ Len(chan[w]) \in Nat /\ Len(chan[w]) <= QueueSize
      BY <2>2, LenProperties DEF BufferInv, TypeOK, NoEarlyBacklog
    <3>2. Flushes(w)
      BY <3>1, Constants DEF Flushes, Room
    <3> QED BY <1>1, <1>2, <2>2, <3>2, Flushing DEF BufferInv, TypeOK
  <2> QED BY <2>1, <2>2
<1> QED BY <1>3, <1>4, <1>5 DEF BufferInv

\* A receive on the channel keeps the invariant.
LEMMA ReceivePreserves ==
    ASSUME BufferInv, NEW w \in Watchers, Receive(w) PROVE BufferInv'
<1>1. PICK c \in Seq(Message) : c = Tail(chan[w]) /\ Len(c) <= QueueSize
  <2>1. chan[w] \in Seq(Message) /\ Len(chan[w]) <= QueueSize /\ Len(chan[w]) > 0
    BY DEF BufferInv, TypeOK, Receive
  <2>2. chan[w] # <<>> /\ Len(chan[w]) \in Nat
    BY <2>1, EmptySeq, LenProperties
  <2>3. Tail(chan[w]) \in Seq(Message) /\ Len(Tail(chan[w])) = Len(chan[w]) - 1
    BY <2>1, <2>2, HeadTailProperties
  <2>4. Len(Tail(chan[w])) <= QueueSize
    <3>1. QueueSize \in Nat
      BY Constants
    <3>2. PICK n \in Nat : n = Len(chan[w])
      BY <2>2
    <3>3. n <= QueueSize => n - 1 <= QueueSize
      BY <3>1
    <3> QED BY <2>1, <2>3, <3>2, <3>3
  <2> QED BY <2>3, <2>4
<1>2. chan' = [chan EXCEPT ![w] = c] /\ backlog' = backlog
  BY <1>1 DEF Receive
<1>3. TypeOK'
  BY <1>1, <1>2 DEF BufferInv, TypeOK, Receive, ringVars
<1>4. WaitingFull' /\ NoEarlyBacklog'
  BY <1>2 DEF BufferInv, WaitingFull, NoEarlyBacklog, TypeOK, Receive
<1> QED BY <1>3, <1>4 DEF BufferInv

\* The passing of time keeps the invariant.
LEMMA TickPreserves == ASSUME BufferInv, Tick PROVE BufferInv'
<1>1. age' \in [Watchers -> 0..(Grace + 1)]
  <2>1. ASSUME NEW w \in Watchers
        PROVE  (IF Len(backlog[w]) > 0 /\ age[w] <= Grace THEN age[w] + 1 ELSE age[w])
                  \in 0..(Grace + 1)
    <3>1. age[w] \in 0..(Grace + 1)
      BY DEF BufferInv, TypeOK
    <3> QED BY <3>1, Constants
  <2> QED BY <2>1 DEF Tick
<1>2. TypeOK'
  BY <1>1 DEF BufferInv, TypeOK, Tick, ringVars
<1> QED BY <1>2 DEF BufferInv, WaitingFull, NoEarlyBacklog, Tick

\* Every step of the buffer keeps the invariant.
LEMMA BufferSteps == BufferInv /\ [Next]_vars => BufferInv'
<1> SUFFICES ASSUME BufferInv, [Next]_vars PROVE BufferInv'
  OBVIOUS
<1>1. CASE Emit
  BY <1>1, EmitPreserves
<1>2. CASE Clear \/ Reset \/ Close
  <2>1. clear /\ init' \in BOOLEAN /\ closed' \in BOOLEAN
    BY <1>2 DEF Clear, Reset, Close, BufferInv, TypeOK
  <2> QED BY <2>1, ClearPreserves
<1>3. CASE SetInit
  BY <1>3, SetInitPreserves
<1>4. CASE Tick
  BY <1>4, TickPreserves
<1>5. ASSUME NEW w \in Watchers, NewWatcher(w) PROVE BufferInv'
  BY <1>5, NewWatcherPreserves
<1>6. ASSUME NEW w \in Watchers, Events(w) PROVE BufferInv'
  BY <1>6, EventsPreserves
<1>7. ASSUME NEW w \in Watchers, Receive(w) PROVE BufferInv'
  BY <1>7, ReceivePreserves
<1>8. ASSUME NEW w \in Watchers, CloseWatcher(w) PROVE BufferInv'
  BY <1>8 DEF BufferInv, TypeOK, WaitingFull, NoEarlyBacklog, CloseWatcher,
              ringVars, watcherVars
<1>9. ASSUME NEW w \in Watchers, removeWatcherWithLock(w) PROVE BufferInv'
  BY <1>9 DEF BufferInv, TypeOK, WaitingFull, NoEarlyBacklog, removeWatcherWithLock,
              ringVars, watcherVars
<1>10. CASE UNCHANGED vars
  BY <1>10 DEF BufferInv, TypeOK, WaitingFull, NoEarlyBacklog, vars, ringVars, watcherVars
<1> QED BY <1>1, <1>2, <1>3, <1>4, <1>5, <1>6, <1>7, <1>8, <1>9, <1>10 DEF Next

-----------------------------------------------------------------------------
\* The buffer and its watchers are well typed; above all no channel ever
\* holds more than its size, although emit, init and flushBacklog all send.
THEOREM BufferTypeCorrect == Spec => []TypeOK
<1>1. BufferInv => TypeOK
  BY DEF BufferInv
<1> QED BY <1>1, BufferStarts, BufferSteps, PTL DEF Spec

\* Events never hands out an empty channel while the watcher has a backlog,
\* and no later step of the buffer makes it so.
THEOREM NobodyStranded == Spec => []NoStrandedBacklog
<1>1. BufferInv => NoStrandedBacklog
  <2> SUFFICES ASSUME BufferInv, NEW w \in waiting \ left, Len(chan[w]) = 0
               PROVE  Len(backlog[w]) = 0
    BY DEF NoStrandedBacklog
  <2> QED BY Constants DEF BufferInv, WaitingFull
<1> QED BY <1>1, BufferStarts, BufferSteps, PTL DEF Spec

-----------------------------------------------------------------------------
\* The ring: it holds as many events as fit, an event is written behind the
\* last one or over the oldest one, and what lies i places behind start is the
\* i-th of the last events.
Place(k) == IF k < Capacity THEN k ELSE k - Capacity
RingSize == size = IF Len(log) <= Capacity THEN Len(log) ELSE Capacity
RingPlace ==
    /\ size > 0 => start >= 0
    /\ size > 0 /\ size < Capacity => start = 0 /\ end = size - 1
RingHolds ==
    \A i \in 1..size : ring[Place(start + i - 1)] = log[Len(log) - size + i]
RingInv == RingSize /\ RingPlace /\ RingHolds

\* A position at most once around the ring is the remainder of the code.
LEMMA Wraps ==
    ASSUME NEW c \in Nat \ {0}, NEW k \in 0..(2 * c - 1)
    PROVE  k % c = IF k < c THEN k ELSE k - c
<1>1. CASE k < c
  BY <1>1
<1>2. CASE k >= c
  <2>1. PICK j \in 0..(c - 1) : k = j + c
    <3>1. k - c \in 0..(c - 1)
      BY <1>2
    <3> QED BY <3>1
  <2>2. j % c = j
    OBVIOUS
  <2>3. (j + c) % c = j
    OBVIOUS
  <2> QED BY <1>2, <2>1, <2>3
<1> QED BY <1>1, <1>2

\* Where emit writes while there is a free place, and when there is none.
LEMMA RingFree ==
    ASSUME TypeOK, RingInv, size < Capacity
    PROVE  NextEnd = size /\ NextStart = 0
<1>1. size \in Nat /\ Capacity \in Nat \ {0}
  BY Constants DEF TypeOK
<1>2. CASE size = 0
  BY <1>2 DEF NextEnd, NextStart
<1>3. CASE size > 0
  <2>1. start = 0 /\ end = size - 1
    BY <1>3 DEF RingInv, RingPlace
  <2>2. PICK k \in 0..(2 * Capacity - 1) : k = end + 1
    BY <1>1, <2>1
  <2>3. k % Capacity = size
    <3>1. k % Capacity = IF k < Capacity THEN k ELSE k - Capacity
      BY <1>1, Wraps
    <3> QED BY <1>1, <2>1, <2>2, <3>1
  <2> QED BY <1>1, <1>3, <2>1, <2>2, <2>3 DEF NextEnd, NextStart
<1> QED BY <1>1, <1>2, <1>3

\* In a full ring the next event takes the place of the oldest one.
LEMMA RingFull ==
    ASSUME TypeOK, RingInv, size = Capacity
    PROVE  NextEnd = start /\ NextStart = Place(start + 1)
<1>1. size \in Nat \ {0} /\ Capacity \in Nat \ {0}
  BY Constants DEF TypeOK
<1>2. start \in 0..(Capacity - 1)
  BY <1>1 DEF RingInv, RingPlace, TypeOK
<1>3. PICK k \in 0..(2 * Capacity - 1) : k = start + 1
  BY <1>1, <1>2
<1>4. k % Capacity = IF k < Capacity THEN k ELSE k - Capacity
  BY <1>1, Wraps
<1> QED BY <1>1, <1>3, <1>4 DEF NextEnd, NextStart, Place

\* Emit writes where the next event belongs.
LEMMA EmitTurnsRing ==
    ASSUME TypeOK, RingInv, Emit PROVE RingInv'
<1>1. PICK key \in Keys : LET e == [key |-> key, n |-> count + 1]
         IN  /\ ring' = [ring EXCEPT ![NextEnd] = e]
             /\ start' = NextStart /\ end' = NextEnd
             /\ size' = IF size < Capacity THEN size + 1 ELSE size
             /\ log' = Append(log, e)
  BY DEF Emit
<1>2. PICK e : e = [key |-> key, n |-> count + 1]
  OBVIOUS
<1>3. /\ ring' = [ring EXCEPT ![NextEnd] = e]
      /\ start' = NextStart /\ end' = NextEnd
      /\ size' = IF size < Capacity THEN size + 1 ELSE size
      /\ log' = Append(log, e)
  BY <1>1, <1>2
<1>4. e \in Event
  <2>1. count + 1 \in 1..MaxEvents
    BY Constants DEF Emit, TypeOK
  <2> QED BY <1>2, <2>1 DEF Event
<1>5. e \in Message /\ log \in Seq(Message) /\ log \in Seq(Event) /\ Len(log) \in Nat
  <2>1. log \in Seq(Event) /\ Len(log) \in Nat
    BY LenProperties DEF TypeOK
  <2>2. \A i \in 1..Len(log) : log[i] \in Message
    BY <2>1, ElementOfSeq DEF Message
  <2>3. log \in Seq(Message)
    BY <2>1, <2>2, SeqDef
  <2> QED BY <1>4, <2>1, <2>3 DEF Message
<1>6. /\ Capacity \in Nat \ {0} /\ size \in 0..Capacity
      /\ ring \in [0..(Capacity - 1) -> Message]
      /\ start \in -1..(Capacity - 1) /\ end \in -1..(Capacity - 1)
  BY Constants DEF TypeOK
<1>7. Len(log') = Len(log) + 1
  BY <1>3, <1>5, AppendProperties
<1>8. SUFFICES ASSUME NEW i \in 1..size', RingSize', RingPlace'
               PROVE  ring'[Place(start' + i - 1)] = log'[Len(log') - size' + i]
  <2>1. CASE size < Capacity
    <3>1. size = Len(log) /\ size' = size + 1
      BY <1>3, <1>5, <1>6, <2>1 DEF RingInv, RingSize
    <3>2. NextEnd = size /\ NextStart = 0
      BY <1>3, <1>6, <2>1, RingFree
    <3> QED BY <1>3, <1>5, <1>6, <1>7, <2>1, <3>1, <3>2 DEF RingSize, RingPlace, RingInv, RingHolds
  <2>2. CASE size = Capacity
    <3>1. Len(log) >= Capacity /\ size' = Capacity /\ start \in 0..(Capacity - 1)
      BY <1>3, <1>5, <1>6, <2>2 DEF RingInv, RingSize, RingPlace
    <3>2. NextStart = Place(start + 1)
      BY <2>2, RingFull
    <3>3. start' \in 0..(Capacity - 1)
      <4>1. start' = Place(start + 1) /\ Capacity \in Nat \ {0}
        BY <1>3, <1>6, <3>2
      <4> QED BY <3>1, <4>1 DEF Place
    <3>4. RingSize'
      BY <1>5, <1>6, <1>7, <3>1 DEF RingSize
    <3>5. RingPlace'
      BY <1>6, <3>1, <3>3 DEF RingPlace
    <3> QED BY <3>4, <3>5 DEF RingInv, RingHolds
  <2> QED BY <1>6, <2>1, <2>2
<1>9. Append(log, e)[Len(log) + 1] = e /\ \A j \in 1..Len(log) : Append(log, e)[j] = log[j]
  BY <1>5, AppendProperties
<1>10. CASE size < Capacity
  <2>1. size = Len(log) /\ size' = size + 1 /\ NextEnd = size /\ NextStart = 0
    BY <1>3, <1>5, <1>6, <1>10, RingFree DEF RingInv, RingSize
  <2>2. Place(start' + i - 1) = i - 1 /\ Len(log') - size' + i = i /\ i \in 1..(size + 1)
    BY <1>3, <1>6, <1>7, <1>10, <2>1 DEF Place
  <2>3. CASE i = size + 1
    <3>1. i - 1 = size /\ size \in 0..(Capacity - 1)
      BY <1>6, <1>10, <2>3
    <3>2. ring'[i - 1] = e
      BY <1>3, <1>6, <2>1, <3>1
    <3> QED BY <1>3, <1>9, <2>1, <2>2, <2>3, <3>2
  <2>4. CASE i <= size
    <3>1. i - 1 \in 0..(Capacity - 1) /\ i - 1 # size /\ i \in 1..size /\ size > 0
      BY <1>6, <1>10, <2>4
    <3>2. ring'[i - 1] = ring[i - 1]
      BY <1>3, <1>6, <2>1, <3>1
    <3>3. Place(start + i - 1) = i - 1 /\ Len(log) - size + i = i
      BY <1>6, <1>10, <2>1, <3>1 DEF Place, RingInv, RingPlace
    <3>4. ring[i - 1] = log[i]
      BY <3>1, <3>3 DEF RingInv, RingHolds
    <3> QED BY <1>3, <1>9, <2>1, <2>2, <3>1, <3>2, <3>4
  <2> QED BY <1>6, <2>2, <2>3, <2>4
<1>11. CASE size = Capacity
  <2>1. /\ Len(log) >= Capacity /\ size' = Capacity /\ start \in 0..(Capacity - 1)
        /\ NextEnd = start /\ NextStart = Place(start + 1)
    BY <1>3, <1>5, <1>6, <1>11, RingFull DEF RingInv, RingSize, RingPlace
  <2>2. i \in 1..Capacity /\ Len(log') - size' + i = Len(log) + 1 - Capacity + i
    BY <1>5, <1>6, <1>7, <2>1
  <2>0. /\ Capacity \in Nat /\ Capacity > 0 /\ i \in 1..Capacity
        /\ start \in 0..(Capacity - 1) /\ Len(log) \in Nat /\ Len(log) >= Capacity
    BY <1>5, <1>6, <2>1, <2>2
  <2>3. CASE i = Capacity
    <3>1. Place(start' + i - 1) = start
      BY <1>3, <1>6, <2>1, <2>3 DEF Place
    <3>2. ring'[start] = e
      BY <1>3, <1>6, <2>1
    <3>3. Len(log') - size' + i = Len(log) + 1
      BY <1>5, <1>6, <2>2, <2>3
    <3> QED BY <1>3, <1>9, <3>1, <3>2, <3>3
  <2>4. CASE i < Capacity
    <3>1. PICK k \in 0..(Capacity - 1) : k = Place(start + (i + 1) - 1)
      <4>1. start + (i + 1) - 1 \in 0..(2 * Capacity - 2)
        BY <2>0, <2>4
      <4>2. Place(start + (i + 1) - 1) \in 0..(Capacity - 1)
        BY <2>0, <4>1 DEF Place
      <4> QED BY <4>2
    <3>2. Place(start' + i - 1) = k /\ k # start
      BY <1>3, <1>6, <2>1, <2>2, <2>4, <3>1 DEF Place
    <3>3. ring'[k] = ring[k]
      BY <1>3, <1>6, <2>1, <3>1, <3>2
    <3>4. ring[k] = log[Len(log) - size + (i + 1)]
      <4>1. i + 1 \in 1..size
        BY <1>6, <1>11, <2>2, <2>4
      <4> QED BY <3>1, <4>1 DEF RingInv, RingHolds
    <3>5. PICK j \in 1..Len(log) : j = Len(log) + 1 - Capacity + i
      <4>1. Len(log) + 1 - Capacity + i \in 1..Len(log)
        BY <2>0, <2>4
      <4> QED BY <4>1
    <3>6. Len(log) - size + (i + 1) = j /\ Len(log') - size' + i = j
      BY <1>5, <1>6, <1>11, <2>2, <3>5
    <3> QED BY <1>3, <1>9, <3>2, <3>3, <3>4, <3>6
  <2> QED BY <1>6, <2>2, <2>3, <2>4
<1> QED BY <1>6, <1>10, <1>11

\* No other step touches the ring, but for those that empty it.
LEMMA RingSteps == TypeOK /\ RingInv /\ [Next]_vars => RingInv'
<1> SUFFICES ASSUME TypeOK, RingInv, [Next]_vars PROVE RingInv'
  OBVIOUS
<1>1. CASE Emit
  BY <1>1, EmitTurnsRing
<1>2. CASE clear
  <2>1. size' = 0 /\ log' = <<>>
    BY <1>2 DEF clear
  <2>2. Len(<<>>) = 0 /\ Capacity \in Nat
    BY Constants
  <2> QED BY <2>1, <2>2 DEF RingInv, RingSize, RingPlace, RingHolds, Place
<1>3. CASE UNCHANGED ringVars
  BY <1>3 DEF ringVars, RingInv, RingSize, RingPlace, RingHolds
<1>4. ASSUME NEW w \in Watchers,
             NewWatcher(w) \/ Events(w) \/ Receive(w) \/ CloseWatcher(w)
                \/ removeWatcherWithLock(w)
      PROVE  UNCHANGED ringVars
  BY <1>4 DEF NewWatcher, Events, Receive, CloseWatcher, removeWatcherWithLock
<1>5. SetInit \/ Tick \/ UNCHANGED vars => UNCHANGED ringVars
  BY DEF SetInit, Tick, vars
<1>6. Clear \/ Reset \/ Close => clear
  BY DEF Clear, Reset, Close
<1> QED BY <1>1, <1>2, <1>3, <1>4, <1>5, <1>6 DEF Next

\* What an instance reads back from the buffer is the end of what was emitted
\* since it was cleared, in order: nothing is overwritten too early, and the
\* indices never cross.
THEOREM RingHoldsTheLatest == Spec => []RingIsTail
<1>1. Init => RingInv
  <2>1. Len(<<>>) = 0 /\ Capacity \in Nat
    BY Constants
  <2> QED BY <2>1 DEF Init, RingInv, RingSize, RingPlace, RingHolds
<1>2. BufferInv => TypeOK
  BY DEF BufferInv
<1>3. TypeOK /\ RingInv => RingIsTail
  <2> SUFFICES ASSUME TypeOK, RingInv PROVE RingIsTail
    OBVIOUS
  <2>1. /\ log \in Seq(Event) /\ Len(log) \in Nat
        /\ Capacity \in Nat /\ Capacity > 0 /\ size \in 0..Capacity
    BY Constants, LenProperties DEF TypeOK
  <2>2. \A i \in 1..size : ring[(start + i - 1) % Capacity] = log[Len(log) - size + i]
    <3> SUFFICES ASSUME NEW i \in 1..size
                 PROVE  ring[(start + i - 1) % Capacity] = log[Len(log) - size + i]
      OBVIOUS
    <3>1. start \in 0..(Capacity - 1)
      BY <2>1 DEF RingInv, RingPlace, TypeOK
    <3>2. PICK k \in 0..(2 * Capacity - 1) : k = start + i - 1
      BY <2>1, <3>1
    <3>3. k % Capacity = Place(k)
      BY <2>1, Wraps DEF Place
    <3> QED BY <3>2, <3>3 DEF RingInv, RingHolds
  <2>3. CASE Len(log) <= Capacity
    <3>1. size = Len(log)
      BY <2>3 DEF RingInv, RingSize
    <3>2. \A i \in 1..size : Len(log) - size + i = i
      BY <2>1, <3>1
    <3>3. eventsCopy = [i \in 1..Len(log) |-> log[i]]
      BY <2>2, <3>1, <3>2 DEF eventsCopy
    <3>4. log = [i \in 1..Len(log) |-> log[i]]
      BY <2>1
    <3> QED BY <2>3, <3>3, <3>4 DEF RingIsTail
  <2>4. CASE Len(log) > Capacity
    <3>1. size = Capacity
      BY <2>1, <2>4 DEF RingInv, RingSize
    <3>2. eventsCopy = [i \in 1..Capacity |-> log[Len(log) - Capacity + i]]
      BY <2>2, <3>1 DEF eventsCopy
    <3>3. SubSeq(log, Len(log) - Capacity + 1, Len(log))
            = [i \in 1..Capacity |-> log[Len(log) - Capacity + i]]
      <4>1. PICK m \in Nat : m = Len(log) - Capacity
        BY <2>1, <2>4
      <4>2. \A i \in (m + 1)..Len(log) : log[i] \in Event
        <5>1. \A i \in (m + 1)..Len(log) : i \in 1..Len(log)
          BY <2>1
        <5> QED BY <2>1, <5>1, ElementOfSeq
      <4>3. /\ SubSeq(log, m + 1, Len(log)) \in Seq(Event)
            /\ Len(SubSeq(log, m + 1, Len(log)))
                 = IF m + 1 <= Len(log) THEN Len(log) - (m + 1) + 1 ELSE 0
            /\ \A i \in 1..(Len(log) - (m + 1) + 1) :
                  SubSeq(log, m + 1, Len(log))[i] = log[m + 1 + i - 1]
        BY <2>1, <4>2, SubSeqProperties
      <4>4. /\ Len(log) - (m + 1) + 1 = Capacity /\ m + 1 <= Len(log)
            /\ \A i \in 1..Capacity : m + 1 + i - 1 = Len(log) - Capacity + i
        BY <2>1, <4>1
      <4>5. PICK t \in Seq(Event) : t = SubSeq(log, m + 1, Len(log))
        BY <4>3
      <4>6. Len(t) = Capacity /\ \A i \in 1..Capacity : t[i] = log[Len(log) - Capacity + i]
        BY <4>3, <4>4, <4>5
      <4>7. t = [i \in 1..Len(t) |-> t[i]]
        OBVIOUS
      <4>8. t = [i \in 1..Capacity |-> log[Len(log) - Capacity + i]]
        BY <4>6, <4>7
      <4> QED BY <4>1, <4>5, <4>8
    <3> QED BY <2>1, <2>4, <3>2, <3>3 DEF RingIsTail
  <2> QED BY <2>1, <2>3, <2>4
<1> QED BY <1>1, <1>2, <1>3, BufferStarts, BufferSteps, RingSteps, PTL DEF Spec

-----------------------------------------------------------------------------
\* What a watcher has still to receive, as the refinement mapping has it.
Pending ==
    [w \in Watchers |-> IF w \in left THEN <<>> ELSE chan[w] \o backlog[w]]
Open == tree \ left

\* A new buffer is a stream nobody follows yet.
LEMMA StreamStarts == Init => Stream!StreamInit
<1> SUFFICES ASSUME Init PROVE Stream!StreamInit
  OBVIOUS
<1>1. Pending = [w \in Watchers |-> <<>>]
  BY DEF Init, Pending
<1> QED BY <1>1 DEF Init, Pending, Stream!StreamInit

\* Emit is the publication of an event, and closes whoever is overdue.
LEMMA EmitPublishes ==
    ASSUME BufferInv, Emit PROVE \E e \in Stream!Event : Stream!Publish(e)
<1>1. PICK key \in Keys : LET e == [key |-> key, n |-> count + 1]
                              to == Matching(e) \ Overdue(e)
         IN  /\ count' = count + 1
             /\ tree' = tree \ Overdue(e)
             /\ chan' = [w \in Watchers |->
                            IF w \in to THEN Sent(w, e)
                            ELSE IF w \in Overdue(e) THEN FlushedChan(w) ELSE chan[w]]
             /\ backlog' = [w \in Watchers |->
                               IF w \in to THEN Kept(w, e)
                               ELSE IF w \in Overdue(e) THEN FlushedBacklog(w)
                               ELSE backlog[w]]
  BY DEF Emit
<1>2. PICK e : e = [key |-> key, n |-> count + 1]
  OBVIOUS
<1>3. PICK over : over = Overdue(e)
  OBVIOUS
<1>4. PICK to : to = Matching(e) \ over
  OBVIOUS
<1>5. /\ count' = count + 1
      /\ tree' = tree \ over
      /\ chan' = [w \in Watchers |->
                     IF w \in to THEN Sent(w, e)
                     ELSE IF w \in over THEN FlushedChan(w) ELSE chan[w]]
      /\ backlog' = [w \in Watchers |->
                        IF w \in to THEN Kept(w, e)
                        ELSE IF w \in over THEN FlushedBacklog(w) ELSE backlog[w]]
  BY <1>1, <1>2, <1>3, <1>4
<1>6. init /\ ~closed /\ count < MaxEvents /\ UNCHANGED <<init, closed, left>>
  BY DEF Emit
<1>7. e \in Event /\ e.n = count + 1
  BY <1>2, <1>6, Constants DEF BufferInv, TypeOK, Event
<1>8. PICK lost : lost = over \ left
  OBVIOUS
<1>9. lost \in SUBSET {w \in Open : e.key \in Watches[w]}
  BY <1>3, <1>8 DEF Overdue, Matching, Open
<1>10. Open' = Open \ lost
  BY <1>5, <1>6, <1>8 DEF Open
<1>11. Pending' = [w \in Watchers |->
                      IF w \in Open \ lost /\ e.key \in Watches[w]
                        THEN Append(Pending[w], e) ELSE Pending[w]]
  <2> SUFFICES ASSUME NEW w \in Watchers
               PROVE  Pending'[w] = IF w \in Open \ lost /\ e.key \in Watches[w]
                                      THEN Append(Pending[w], e) ELSE Pending[w]
    BY DEF Pending
  <2>1. CASE w \in left
    BY <1>6, <2>1 DEF Pending, Open
  <2>2. CASE w \notin left /\ w \in to
    <3>1. w \in Open \ lost /\ e.key \in Watches[w]
      BY <1>4, <1>8, <2>2 DEF Matching, Open
    <3>2. chan'[w] = Sent(w, e) /\ backlog'[w] = Kept(w, e)
      BY <1>5, <2>2
    <3>3. Sent(w, e) \o Kept(w, e) = Append(chan[w] \o backlog[w], e)
      BY <1>7, Emitting DEF BufferInv
    <3>4. Pending'[w] = chan'[w] \o backlog'[w] /\ Pending[w] = chan[w] \o backlog[w]
      BY <1>6, <2>2 DEF Pending
    <3> QED BY <3>1, <3>2, <3>3, <3>4
  <2>3. CASE w \notin left /\ w \notin to /\ w \in over
    <3>1. w \in lost
      BY <1>8, <2>3
    <3>2. chan'[w] = FlushedChan(w) /\ backlog'[w] = FlushedBacklog(w)
      BY <1>5, <2>3
    <3>3. FlushedChan(w) \o FlushedBacklog(w) = chan[w] \o backlog[w]
      BY Flushing DEF BufferInv
    <3>4. Pending'[w] = chan'[w] \o backlog'[w] /\ Pending[w] = chan[w] \o backlog[w]
      BY <1>6, <2>3 DEF Pending
    <3> QED BY <3>1, <3>2, <3>3, <3>4
  <2>4. CASE w \notin left /\ w \notin to /\ w \notin over
    <3>1. ~(w \in Open /\ e.key \in Watches[w])
      BY <1>4, <2>4 DEF Matching, Open
    <3>2. chan'[w] = chan[w] /\ backlog'[w] = backlog[w]
      BY <1>5, <2>4
    <3> QED BY <1>6, <2>4, <3>1, <3>2 DEF Pending
  <2> QED BY <2>1, <2>2, <2>3, <2>4
<1>12. e \in Stream!Event
  BY <1>7 DEF Event, Stream!Event
<1>13. Stream!Publish(e)
  BY <1>5, <1>6, <1>7, <1>9, <1>10, <1>11 DEF Stream!Publish, Open, Pending
<1> QED BY <1>12, <1>13

\* SetInit begins the stream of everyone who waited for it.
LEMMA SetInitBegins == ASSUME BufferInv, SetInit PROVE Stream!Begin
<1>1. PICK lost : lost = Open \ tree'
  OBVIOUS
<1>2. Open' = Open \ lost /\ lost \in SUBSET Open
  BY <1>1 DEF Open, SetInit
<1>3. Pending' = [w \in Watchers |-> IF w \in Open \ lost
                                       THEN Append(Pending[w], OpInit) ELSE Pending[w]]
  <2> SUFFICES ASSUME NEW w \in Watchers
               PROVE  Pending'[w] = IF w \in Open \ lost
                                      THEN Append(Pending[w], OpInit) ELSE Pending[w]
    BY DEF Pending
  <2>1. CASE w \in left
    BY <2>1 DEF Pending, Open, SetInit
  <2>2. CASE w \notin left /\ w \in tree'
    <3>1. w \in tree /\ w \in Open \ lost
      BY <1>1, <2>2 DEF SetInit, Open
    <3>2. chan'[w] = Append(chan[w], OpInit) /\ backlog'[w] = backlog[w]
      BY <2>2 DEF SetInit
    <3>3. chan[w] \in Seq(Message) /\ backlog[w] = <<>>
      BY <3>1, EmptySeq DEF BufferInv, TypeOK, NoEarlyBacklog, SetInit
    <3>4. chan[w] \o <<>> = chan[w]
      BY <3>3, ConcatEmptySeq
    <3>5. Append(chan[w], OpInit) \o <<>> = Append(chan[w], OpInit)
      BY <3>3, Constants, AppendProperties, ConcatEmptySeq
    <3>6. Pending[w] = chan[w] \o backlog[w] /\ Pending'[w] = chan'[w] \o backlog'[w]
      BY <2>2 DEF Pending, SetInit
    <3> QED BY <3>1, <3>2, <3>3, <3>4, <3>5, <3>6
  <2>3. CASE w \notin left /\ w \notin tree'
    <3>1. w \notin Open \ lost
      BY <1>1, <2>3
    <3>2. chan'[w] = chan[w] /\ backlog'[w] = backlog[w] /\ left' = left
      BY <2>3 DEF SetInit
    <3> QED BY <2>3, <3>1, <3>2 DEF Pending
  <2> QED BY <2>1, <2>2, <2>3
<1>4. OpInit = Stream!OpInit
  BY DEF OpInit, Stream!OpInit
<1> QED BY <1>2, <1>3, <1>4 DEF Stream!Begin, Open, Pending, SetInit, ringVars

\* NewWatcher registers a follower of the stream.
LEMMA NewWatcherRegisters ==
    ASSUME BufferInv, NEW w \in Watchers, NewWatcher(w) PROVE Stream!Register(w)
<1>1. w \in left /\ w \notin Open /\ Open' = Open \cup {w}
  BY DEF NewWatcher, Open
<1>2. PICK m \in Seq(Message) : m = IF init THEN <<OpInit>> ELSE <<>>
  <2>1. <<OpInit>> \in Seq(Message) /\ <<>> \in Seq(Message)
    BY Constants
  <2> QED BY <2>1
<1>3. m \o <<>> = m
  BY <1>2, ConcatEmptySeq
<1>4. Pending' = [Pending EXCEPT ![w] = m]
  <2> SUFFICES ASSUME NEW v \in Watchers
               PROVE  Pending'[v] = IF v = w THEN m ELSE Pending[v]
    BY DEF Pending
  <2>1. CASE v = w
    <3>1. chan'[w] = m /\ backlog'[w] = <<>> /\ w \notin left'
      BY <1>2 DEF NewWatcher, BufferInv, TypeOK
    <3> QED BY <1>3, <2>1, <3>1 DEF Pending
  <2>2. CASE v # w
    BY <2>2 DEF Pending, NewWatcher, BufferInv, TypeOK
  <2> QED BY <2>1, <2>2
<1>5. m = IF init THEN <<Stream!OpInit>> ELSE <<>>
  BY <1>2 DEF OpInit, Stream!OpInit
<1>6. Pending' = [Pending EXCEPT ![w] = IF init THEN <<Stream!OpInit>> ELSE <<>>]
  BY <1>4, <1>5
<1> QED BY <1>1, <1>6 DEF Stream!Register, Open, Pending, NewWatcher, ringVars

\* Events moves a backlog into a channel, which the stream does not see.
LEMMA EventsStutters ==
    ASSUME BufferInv, NEW w \in Watchers, Events(w) PROVE UNCHANGED Stream!streamVars
<1>1. Pending' = Pending
  <2> SUFFICES ASSUME NEW v \in Watchers PROVE Pending'[v] = Pending[v]
    BY DEF Pending
  <2>1. CASE v = w
    <3>1. /\ chan'[w] = FlushedChan(w) /\ backlog'[w] = FlushedBacklog(w)
          /\ w \notin left /\ left' = left
      BY DEF Events, BufferInv, TypeOK
    <3>2. FlushedChan(w) \o FlushedBacklog(w) = chan[w] \o backlog[w]
      BY Flushing DEF BufferInv
    <3>3. Pending[w] = chan[w] \o backlog[w] /\ Pending'[w] = chan'[w] \o backlog'[w]
      BY <3>1 DEF Pending
    <3> QED BY <2>1, <3>1, <3>2, <3>3
  <2>2. CASE v # w
    BY <2>2 DEF Pending, Events, BufferInv, TypeOK
  <2> QED BY <2>1, <2>2
<1> QED BY <1>1 DEF Stream!streamVars, Pending, Events, ringVars

\* A receive delivers the next message of the follower.
LEMMA ReceiveDelivers ==
    ASSUME BufferInv, NEW w \in Watchers, Receive(w) PROVE Stream!Deliver(w)
<1>1. /\ chan[w] \in Seq(Message) /\ backlog[w] \in Seq(Message)
      /\ Len(chan[w]) > 0 /\ w \notin left /\ left' = left
      /\ chan' = [chan EXCEPT ![w] = Tail(chan[w])] /\ backlog' = backlog
  BY DEF Receive, BufferInv, TypeOK
<1>2. Pending[w] = chan[w] \o backlog[w]
  BY <1>1 DEF Pending
<1>3. /\ Len(chan[w] \o backlog[w]) > 0
      /\ Tail(chan[w] \o backlog[w]) = Tail(chan[w]) \o backlog[w]
  BY <1>1, TailOfFirst
<1>4. Pending' = [Pending EXCEPT ![w] = Tail(Pending[w])]
  <2> SUFFICES ASSUME NEW v \in Watchers
               PROVE  Pending'[v] = IF v = w THEN Tail(Pending[w]) ELSE Pending[v]
    BY DEF Pending
  <2>1. CASE v = w
    <3>1. chan'[w] = Tail(chan[w])
      BY <1>1 DEF BufferInv, TypeOK
    <3>2. Pending'[w] = chan'[w] \o backlog'[w]
      BY <1>1 DEF Pending
    <3> QED BY <1>1, <1>2, <1>3, <2>1, <3>1, <3>2
  <2>2. CASE v # w
    BY <1>1, <2>2 DEF Pending, BufferInv, TypeOK
  <2> QED BY <2>1, <2>2
<1>5. Len(Pending[w]) > 0
  BY <1>2, <1>3
<1> QED BY <1>1, <1>4, <1>5 DEF Stream!Deliver, Pending, Receive, ringVars

\* BufferWatcher.Close makes a follower leave.
LEMMA CloseWatcherLeaves ==
    ASSUME BufferInv, NEW w \in Watchers, CloseWatcher(w) PROVE Stream!Leave(w)
<1>1. Pending' = [Pending EXCEPT ![w] = <<>>]
  BY DEF Pending, CloseWatcher, watcherVars
<1>2. Open' = Open \ {w}
  BY DEF Open, CloseWatcher
<1> QED BY <1>1, <1>2 DEF Stream!Leave, Pending, Open, CloseWatcher, ringVars

\* Clear, Reset and Close make every follower leave.
LEMMA ClearClosesAll ==
    ASSUME BufferInv, Clear \/ Reset \/ Close PROVE Stream!CloseAll
<1>1. Pending' = Pending /\ Open' = {} /\ count' = count
  BY DEF Pending, Open, Clear, Reset, Close, clear, watcherVars
<1>2. init' \in {init, FALSE} /\ closed' \in {closed, TRUE}
  BY DEF Clear, Reset, Close
<1> QED BY <1>1, <1>2 DEF Stream!CloseAll, Pending, Open

\* Every step of the buffer is a step of the stream or none.
LEMMA StreamSteps == BufferInv /\ [Next]_vars => [Stream!StreamNext]_(Stream!streamVars)
<1> SUFFICES ASSUME BufferInv, [Next]_vars
             PROVE  Stream!StreamNext \/ UNCHANGED Stream!streamVars
  OBVIOUS
<1>1. CASE Emit
  BY <1>1, EmitPublishes DEF Stream!StreamNext
<1>2. CASE Clear \/ Reset \/ Close
  BY <1>2, ClearClosesAll DEF Stream!StreamNext
<1>3. CASE SetInit
  BY <1>3, SetInitBegins DEF Stream!StreamNext
<1>4. CASE Tick
  BY <1>4 DEF Tick, Stream!streamVars, ringVars
<1>5. ASSUME NEW w \in Watchers, NewWatcher(w) PROVE Stream!StreamNext
  BY <1>5, NewWatcherRegisters DEF Stream!StreamNext
<1>6. ASSUME NEW w \in Watchers, Events(w) PROVE UNCHANGED Stream!streamVars
  BY <1>6, EventsStutters
<1>7. ASSUME NEW w \in Watchers, Receive(w) PROVE Stream!StreamNext
  BY <1>7, ReceiveDelivers DEF Stream!StreamNext
<1>8. ASSUME NEW w \in Watchers, CloseWatcher(w) PROVE Stream!StreamNext
  BY <1>8, CloseWatcherLeaves DEF Stream!StreamNext
<1>9. ASSUME NEW w \in Watchers, removeWatcherWithLock(w)
      PROVE  UNCHANGED Stream!streamVars
  <2>1. tree' \ left' = tree \ left
    BY <1>9 DEF removeWatcherWithLock
  <2> QED BY <1>9, <2>1 DEF removeWatcherWithLock, Stream!streamVars, ringVars, watcherVars
<1>10. CASE UNCHANGED vars
  BY <1>10 DEF vars, Stream!streamVars, ringVars, watcherVars
<1> QED BY <1>1, <1>2, <1>3, <1>4, <1>5, <1>6, <1>7, <1>8, <1>9, <1>10 DEF Next

\* CircularBuffer is the event source that the caches rely on: OpInit first,
\* then every event of the watcher's keys once and in order, or an end.
THEOREM BufferImplementsStream == Spec => StreamSpec
<1> QED BY StreamStarts, StreamSteps, BufferStarts, BufferSteps, PTL
        DEF Spec, StreamSpec, Stream!StreamSpec
=============================================================================
