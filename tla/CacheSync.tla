----------------------------- MODULE CacheSync -----------------------------
(***************************************************************************)
(* Caches that follow the backend: fetchAndWatch, update, the read guard   *)
(* and the tombstone of lib/cache/cache.go, the collections of             *)
(* lib/cache/collections.go, the Fanout of lib/services/fanout.go and the  *)
(* event loop of lib/backend/etcdbk/etcd.go.                               *)
(*                                                                         *)
(* Cache 1 (auth server) watches the events of the backend, cache 2 (proxy, *)
(* node) those that cache 1 passes on, and each fills itself from the one  *)
(* before.  A key stands for a collection.                                 *)
(* The queue of a watcher is its channel and backlog: it is closed when it *)
(* is full, as EventStream has it.                                         *)
(***************************************************************************)
EXTENDS Naturals, Sequences

CONSTANTS
    N,              \* number of caches in a row
    Keys,           \* collections
    Durable,        \* the caches that are kept on disk
    QueueSize,      \* events a watcher has room for
    LeaseErrors,    \* whether the event loop may fail to resolve a lease
    MaxWrites,      \* bound: writes to the backend
    MaxFaults       \* bound: crashes, stops, lost connections, failed calls

Caches == 1..N
Sources == 0..N     \* 0 is the backend

ASSUME CacheAssumption ==
    /\ N \in 1..2 /\ Durable \subseteq Caches
    /\ QueueSize \in Nat \ {0}
    /\ LeaseErrors \in BOOLEAN
    /\ MaxWrites \in Nat /\ MaxFaults \in Nat

\* Values are numbered, 0 stands for an empty collection.
Values == 0..MaxWrites
Contents == [Keys -> Values]
Nothing == [k \in Keys |-> 0]

Event == [type : {"change"}, key : Keys, val : Values]
OpInit == [type |-> "init"]

VARIABLES
    store,      \* the backend
    wire,       \* events between the database and the event loop
    ready,      \* sources whose fanout or buffer is initialised
    open,       \* caches whose watcher is registered at the source before
    queue,      \* events a cache has not received yet
    pc,         \* where the update loop of a cache is
    todo,       \* collections still to fetch or to apply
    snap,       \* what was fetched
    data,       \* the contents of a cache
    ok,         \* caches that may be read
    healthy,    \* caches with generation > 0
    tomb,       \* caches with a tombstone on disk
    whole,      \* history: caches that are not half way through apply
    cur,        \* the event a cache is passing on
    writes, faults

watching == <<open, queue>>
contents == <<data, ok, healthy, tomb, whole>>
vars == <<store, wire, ready, watching, pc, todo, snap, contents, cur, writes, faults>>

Labels == {"off", "idle", "init", "fetch", "apply", "setinit", "watch", "emit"}

TypeOK ==
    /\ store \in Contents
    /\ wire \in Seq(Event)
    /\ ready \subseteq Sources /\ open \subseteq Caches
    /\ queue \in [Caches -> Seq(Event \cup {OpInit})]
    /\ \A i \in Caches : Len(queue[i]) <= QueueSize
    /\ pc \in [Caches -> Labels]
    /\ todo \in [Caches -> SUBSET Keys]
    /\ snap \in [Caches -> Contents] /\ data \in [Caches -> Contents]
    /\ ok \subseteq Caches /\ healthy \subseteq Caches
    /\ tomb \subseteq Durable /\ whole \subseteq Caches
    /\ cur \in [Caches -> Event \cup {OpInit}]
    /\ writes \in 0..MaxWrites /\ faults \in 0..MaxFaults

CacheInit ==
    /\ store = Nothing /\ wire = <<>>
    /\ ready = {0} /\ open = {}
    /\ queue = [i \in Caches |-> <<>>]
    /\ pc = [i \in Caches |-> "idle"]
    /\ todo = [i \in Caches |-> {}]
    /\ snap = [i \in Caches |-> Nothing] /\ data = [i \in Caches |-> Nothing]
    /\ ok = {} /\ healthy = {} /\ tomb = {} /\ whole = Caches
    /\ cur = [i \in Caches |-> OpInit]
    /\ writes = 0 /\ faults = 0

Goto(i, label) == pc' = [pc EXCEPT ![i] = label]
Fault == faults < MaxFaults /\ faults' = faults + 1

-----------------------------------------------------------------------------
\* Emit of source s: its watcher gets the event, or is closed if it is full.
Publish(s, e) ==
    IF s + 1 \in open /\ Len(queue[s + 1]) < QueueSize
      THEN queue' = [queue EXCEPT ![s + 1] = Append(@, e)] /\ open' = open
      ELSE open' = open \ {s + 1} /\ queue' = queue

\* SetInit of source s.
SetInit(s) ==
    /\ ready' = ready \cup {s}
    /\ Publish(s, OpInit)

\* Reset of source s: its watcher is closed.
Reset(s, others) ==
    /\ ready' = ready \ {s}
    /\ open' = open \ (others \cup {s + 1})

\* A write to the backend, and its event.
Write ==
    /\ writes < MaxWrites
    /\ writes' = writes + 1
    /\ \E k \in Keys, val \in {0, writes + 1} :
         /\ val # store[k]
         /\ store' = [store EXCEPT ![k] = val]
         /\ wire' = IF 0 \in ready
                      THEN Append(wire, [type |-> "change", key |-> k, val |-> val])
                      ELSE wire
    /\ UNCHANGED <<ready, watching, pc, todo, snap, contents, cur, faults>>

\* watchEvents: an event goes to the buffer; one whose lease cannot be
\* resolved is logged and skipped.
Pump ==
    /\ Len(wire) > 0
    /\ wire' = Tail(wire)
    /\ \E skipped \in IF LeaseErrors THEN BOOLEAN ELSE {FALSE} :
         IF skipped THEN Fault /\ UNCHANGED watching
                    ELSE Publish(0, Head(wire)) /\ UNCHANGED faults
    /\ UNCHANGED <<store, ready, pc, todo, snap, contents, cur, writes>>

\* The event stream of the database breaks, and is set up again.
StreamBreaks ==
    /\ Fault
    /\ 0 \in ready
    /\ wire' = <<>>
    /\ Reset(0, {})
    /\ UNCHANGED <<store, queue, pc, todo, snap, contents, cur, writes>>

StreamUp ==
    /\ 0 \notin ready
    /\ SetInit(0)
    /\ UNCHANGED <<store, wire, pc, todo, snap, contents, cur, writes, faults>>

-----------------------------------------------------------------------------
SourceUp(i) == i > 1 => pc[i - 1] # "off"

\* read: the cache before, if it may be read, else the backend.
Read(i) == IF i > 1 /\ i - 1 \in ok THEN data[i - 1] ELSE store

\* Mutant: the fetch does not wait for OpInit.
NewWatcherNoInit(i) ==
    /\ pc[i] = "idle" /\ SourceUp(i)
    /\ open' = open \cup {i}
    /\ queue' = [queue EXCEPT ![i] = <<>>]
    /\ Goto(i, "fetch")
    /\ todo' = [todo EXCEPT ![i] = Keys]
    /\ UNCHANGED <<store, wire, ready, snap, contents, cur, writes, faults>>

\* fetchAndWatch, first step: a new watcher, which an initialised source tells
\* so at once.
NewWatcher(i) ==
    /\ pc[i] = "idle" /\ SourceUp(i)
    /\ open' = open \cup {i}
    /\ queue' = [queue EXCEPT ![i] = IF i - 1 \in ready THEN <<OpInit>> ELSE <<>>]
    /\ Goto(i, "init")
    /\ UNCHANGED <<store, wire, ready, todo, snap, contents, cur, writes, faults>>

ReceiveInit(i) ==
    /\ pc[i] = "init" /\ Len(queue[i]) > 0
    /\ queue' = [queue EXCEPT ![i] = Tail(@)]
    /\ Goto(i, "fetch")
    /\ todo' = [todo EXCEPT ![i] = Keys]
    /\ UNCHANGED <<store, wire, ready, open, snap, contents, cur, writes, faults>>

\* fetch: every collection is read from the source, in any order.
Fetch(i) ==
    /\ pc[i] = "fetch" /\ SourceUp(i)
    /\ \E k \in todo[i] :
         /\ snap' = [snap EXCEPT ![i][k] = Read(i)[k]]
         /\ todo' = [todo EXCEPT ![i] = @ \ {k}]
    /\ UNCHANGED <<store, wire, ready, watching, pc, contents, cur, writes, faults>>

\* Mutant: the cache can be read while it is applied.
BeginApplyReadable(i) ==
    /\ pc[i] = "fetch" /\ todo[i] = {}
    /\ Goto(i, "apply")
    /\ todo' = [todo EXCEPT ![i] = Keys]
    /\ whole' = whole \ {i}
    /\ UNCHANGED <<store, wire, ready, watching, snap, data, ok, healthy, tomb, cur,
                   writes, faults>>

BeginApply(i) ==
    /\ pc[i] = "fetch" /\ todo[i] = {}
    /\ ok' = ok \ {i} /\ whole' = whole \ {i}
    /\ Goto(i, "apply")
    /\ todo' = [todo EXCEPT ![i] = Keys]
    /\ UNCHANGED <<store, wire, ready, watching, snap, data, healthy, tomb, cur,
                   writes, faults>>

\* apply: the collections are replaced one after the other.
Apply(i) ==
    /\ pc[i] = "apply"
    /\ \E k \in todo[i] :
         /\ data' = [data EXCEPT ![i][k] = snap[i][k]]
         /\ todo' = [todo EXCEPT ![i] = @ \ {k}]
    /\ UNCHANGED <<store, wire, ready, watching, pc, snap, ok, healthy, tomb, whole,
                   cur, writes, faults>>

EndApply(i) ==
    /\ pc[i] = "apply" /\ todo[i] = {}
    /\ whole' = whole \cup {i}
    /\ healthy' = healthy \cup {i} /\ ok' = ok \cup {i}
    /\ Goto(i, "setinit")
    /\ snap' = [snap EXCEPT ![i] = Nothing]
    /\ UNCHANGED <<store, wire, ready, watching, todo, data, tomb, cur, writes, faults>>

BroadcastInit(i) ==
    /\ pc[i] = "setinit"
    /\ SetInit(i)
    /\ Goto(i, "watch")
    /\ UNCHANGED <<store, wire, todo, snap, contents, cur, writes, faults>>

\* processEvent: the collection first, then whoever watches this cache.
ProcessEvent(i) ==
    /\ pc[i] = "watch" /\ Len(queue[i]) > 0
    /\ LET e == Head(queue[i])
       IN  /\ data' = [data EXCEPT ![i][e.key] = e.val]
           /\ cur' = [cur EXCEPT ![i] = e]
    /\ queue' = [queue EXCEPT ![i] = Tail(@)]
    /\ Goto(i, "emit")
    /\ UNCHANGED <<store, wire, ready, open, todo, snap, ok, healthy, tomb, whole,
                   writes, faults>>

EmitEvent(i) ==
    /\ pc[i] = "emit"
    /\ Publish(i, cur[i])
    /\ cur' = [cur EXCEPT ![i] = OpInit]
    /\ Goto(i, "watch")
    /\ UNCHANGED <<store, wire, ready, todo, snap, contents, writes, faults>>

-----------------------------------------------------------------------------
\* The watcher, what was fetched and the event at hand are gone.
Forgets(i) ==
    /\ queue' = [queue EXCEPT ![i] = <<>>]
    /\ todo' = [todo EXCEPT ![i] = {}]
    /\ snap' = [snap EXCEPT ![i] = Nothing]
    /\ cur' = [cur EXCEPT ![i] = OpInit]

\* fetchAndWatch returns: the watcher is closed, and so are the watchers of
\* this cache, once they have been told that it is initialised.
Return(i) ==
    /\ Goto(i, "idle")
    /\ IF pc[i] = "watch"
         THEN Reset(i, {i})
         ELSE open' = open \ {i} /\ ready' = ready
    /\ Forgets(i)
    /\ UNCHANGED <<store, wire, ok, healthy, tomb, whole, writes>>

\* Mutant: a closed watcher is only noticed before the first event.
WatcherDoneEarly(i) ==
    /\ pc[i] = "init" /\ i \notin open
    /\ Return(i)
    /\ UNCHANGED <<data, faults>>

WatcherDone(i) ==
    /\ pc[i] \in {"init", "watch"} /\ i \notin open
    /\ Return(i)
    /\ UNCHANGED <<data, faults>>

\* No OpInit within WatcherInitTimeout.
InitTimeout(i) ==
    /\ pc[i] = "init" /\ Len(queue[i]) = 0
    /\ Return(i)
    /\ UNCHANGED <<data, faults>>

SourceDown(i) ==
    /\ pc[i] = "fetch" /\ ~SourceUp(i)
    /\ Return(i)
    /\ UNCHANGED <<data, faults>>

\* A read, an apply or a processEvent returns an error.  An apply deletes the
\* old contents of a collection first.
CallFails(i) ==
    /\ Fault
    /\ \/ pc[i] = "fetch" /\ SourceUp(i) /\ todo[i] # {} /\ data' = data
       \/ pc[i] = "apply" /\ \E k \in todo[i] : data' = [data EXCEPT ![i][k] = 0]
       \/ pc[i] = "watch" /\ Len(queue[i]) > 0 /\ data' = data
    /\ Return(i)

-----------------------------------------------------------------------------
\* The process of cache i ends, with all connections to it.
Ends(i) ==
    /\ Fault
    /\ pc[i] # "off"
    /\ Goto(i, "off")
    /\ Reset(i, {i})
    /\ ok' = ok \ {i}
    /\ Forgets(i)
    /\ UNCHANGED <<store, wire, healthy, writes>>

\* A cache in memory is gone.
Survives(i) ==
    IF i \in Durable THEN UNCHANGED <<data, whole>>
    ELSE data' = [data EXCEPT ![i] = Nothing] /\ whole' = whole \cup {i}

Crash(i) == Ends(i) /\ Survives(i) /\ UNCHANGED tomb

\* Close: a cache that may be read and has been healthy leaves a tombstone.
Stop(i) ==
    /\ Ends(i) /\ Survives(i)
    /\ tomb' = IF i \in ok \cap healthy \cap Durable THEN tomb \cup {i} ELSE tomb

\* New: the tombstone, which is deleted, makes the cache on disk readable.
Start(i) ==
    /\ pc[i] = "off"
    /\ Goto(i, "idle")
    /\ ok' = IF i \in tomb THEN ok \cup {i} ELSE ok
    /\ tomb' = tomb \ {i} /\ healthy' = healthy \ {i}
    /\ UNCHANGED <<store, wire, ready, watching, todo, snap, data, whole, cur,
                   writes, faults>>

Update(i) ==
    \/ NewWatcher(i) \/ ReceiveInit(i) \/ Fetch(i) \/ BeginApply(i) \/ Apply(i)
    \/ EndApply(i) \/ BroadcastInit(i) \/ ProcessEvent(i) \/ EmitEvent(i)
    \/ WatcherDone(i) \/ SourceDown(i) \/ Start(i)

CacheNext ==
    \/ Write \/ Pump \/ StreamBreaks \/ StreamUp
    \/ \E i \in Caches : Update(i) \/ InitTimeout(i) \/ CallFails(i) \/ Crash(i) \/ Stop(i)

CacheSpec == CacheInit /\ [][CacheNext]_vars

\* Update loops and the event loop go on, a closed stream is set up again and
\* processes are started again; faults are bounded by MaxFaults.
FairCacheSpec ==
    /\ CacheSpec
    /\ WF_vars(Pump) /\ WF_vars(StreamUp)
    /\ \A i \in Caches : WF_vars(Update(i))

-----------------------------------------------------------------------------
\* What a sequence of events makes of the value of a key.
After(k, events, val) ==
    LET hits == {n \in 1..Len(events) : events[n].key = k}
    IN  IF hits = {} THEN val
        ELSE events[CHOOSE n \in hits : \A m \in hits : m <= n].val

OnTheWay(i) ==
    queue[i] \o IF i = 1 THEN wire
                ELSE IF pc[i - 1] = "emit" THEN <<cur[i - 1]>> ELSE <<>>

\* "once it connects and receives an event, it will not miss any events": a
\* cache that watches an open stream has every change, or will have it with
\* the events that are on the way, however its fetch fell between the writes.
NoMissedEvent ==
    \A i \in Caches \cap open : pc[i] \in {"watch", "emit"} =>
        \A k \in Keys :
            After(k, OnTheWay(i), data[i][k]) = IF i = 1 THEN store[k] ELSE data[i - 1][k]

\* What is read from a cache is never the half of an apply, not after a
\* failed one and not after a restart from disk.
ReadableWhole == ok \cup tomb \subseteq whole

\* "this cache will eventually end up in a correct state": when the writes
\* and faults are over, every cache of the chain becomes readable and equal to
\* the backend, and stays so.
Converges == <>[](ok = Caches /\ \A i \in Caches : data[i] = store)
=============================================================================
