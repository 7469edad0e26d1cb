-------------------------- MODULE CacheSyncProofs --------------------------
(***************************************************************************)
(* What the caches of lib/cache/cache.go guarantee for every set of        *)
(* collections, every set of caches on disk and every number of writes and *)
(* faults: the state is well typed, nobody reads half of an apply, and a   *)
(* cache that watches an open stream misses no event of its source.        *)
(***************************************************************************)
EXTENDS CacheSync, SequenceTheorems, WellFoundedInduction, TLAPS

Message == Event \cup {OpInit}

\* A cache is not readable from the moment its apply begins, and the tombstone
\* exists only between the end of a process and the next start.
Guarded ==
    /\ \A i \in Caches : pc[i] = "apply" => i \notin ok
    /\ \A i \in tomb : pc[i] = "off"

\* The order of a stream: a source emits once it is initialised, a watcher that
\* waits for OpInit has nothing before it, and OpInit comes first and once.
OnlyFirst(i) ==
    \A n \in 1..Len(queue[i]) : queue[i][n] \in Event \/ (n = 1 /\ pc[i] = "init")

Orderly ==
    /\ \A i \in Caches : i \in ready <=> pc[i] \in {"watch", "emit"}
    /\ 0 \notin ready => wire = <<>>
    /\ \A i \in open : i - 1 \notin ready => pc[i] = "init" /\ queue[i] = <<>>
    /\ \A i \in Caches : OnlyFirst(i)
    /\ \A i \in Caches : pc[i] = "emit" => cur[i] \in Event

CacheInv == TypeOK /\ ReadableWhole /\ Guarded /\ Orderly

-----------------------------------------------------------------------------
\* What the assumptions say of caches, sources and values.
LEMMA Ranges ==
    /\ N \in Nat /\ Caches \subseteq Sources /\ 0 \in Sources
    /\ \A i \in Caches : i \in Nat /\ i # 0 /\ i - 1 \in Sources
    /\ QueueSize \in Nat /\ QueueSize >= 1
    /\ MaxWrites \in Nat /\ 0 \in Values /\ Nothing \in Contents
BY CacheAssumption DEF Caches, Sources, Values, Nothing, Contents

\* A new cache satisfies the invariant.
LEMMA CacheStarts == CacheInit => CacheInv
<1> SUFFICES ASSUME CacheInit PROVE CacheInv
  OBVIOUS
<1>1. \A i \in Caches : Len(queue[i]) <= QueueSize
  BY Ranges DEF CacheInit
<1>2. <<>> \in Seq(Event) /\ <<>> \in Seq(Event \cup {OpInit})
  OBVIOUS
<1>3. TypeOK
  BY <1>1, <1>2, Ranges, CacheAssumption DEF CacheInit, TypeOK, Labels
<1>4. Orderly
  BY Ranges DEF CacheInit, Orderly, OnlyFirst, Caches
<1> QED BY <1>3, <1>4 DEF CacheInit, CacheInv, ReadableWhole, Guarded

\* Emit keeps a queue within the size of its channel.
LEMMA Publishing ==
    ASSUME TypeOK, NEW s \in Sources, NEW e \in Message, Publish(s, e)
    PROVE  /\ open' \subseteq Caches
           /\ queue' \in [Caches -> Seq(Message)]
           /\ \A i \in Caches : Len(queue'[i]) <= QueueSize
<1> USE DEF Message
<1>0. /\ open \subseteq Caches /\ queue \in [Caches -> Seq(Message)]
      /\ \A i \in Caches : Len(queue[i]) <= QueueSize
  BY DEF TypeOK
<1>1. CASE s + 1 \in open /\ Len(queue[s + 1]) < QueueSize
  <2>1. s + 1 \in Caches /\ queue' = [queue EXCEPT ![s + 1] = Append(@, e)] /\ open' = open
    BY <1>0, <1>1 DEF Publish
  <2>2. /\ Append(queue[s + 1], e) \in Seq(Message)
        /\ Len(Append(queue[s + 1], e)) = Len(queue[s + 1]) + 1
    BY <1>0, <2>1, AppendProperties
  <2>3. Len(queue[s + 1]) \in Nat
    BY <1>0, <2>1, LenProperties
  <2>4. Len(Append(queue[s + 1], e)) <= QueueSize
    BY <1>1, <2>2, <2>3, Ranges
  <2> QED BY <1>0, <2>1, <2>2, <2>4
<1>2. CASE ~(s + 1 \in open /\ Len(queue[s + 1]) < QueueSize)
  BY <1>0, <1>2 DEF Publish
<1> QED BY <1>1, <1>2

\* What is left of a queue is a queue.
LEMMA Receiving ==
    ASSUME TypeOK, NEW i \in Caches, Len(queue[i]) > 0,
           queue' = [queue EXCEPT ![i] = Tail(@)]
    PROVE  /\ Head(queue[i]) \in Message
           /\ queue' \in [Caches -> Seq(Message)]
           /\ \A j \in Caches : Len(queue'[j]) <= QueueSize
<1> USE DEF Message
<1>0. /\ queue \in [Caches -> Seq(Message)]
      /\ \A j \in Caches : Len(queue[j]) <= QueueSize
  BY DEF TypeOK
<1>1. queue[i] \in Seq(Message) /\ queue[i] # <<>> /\ Len(queue[i]) \in Nat
  BY <1>0, EmptySeq, LenProperties
<1>2. /\ Head(queue[i]) \in Message /\ Tail(queue[i]) \in Seq(Message)
      /\ Len(Tail(queue[i])) = Len(queue[i]) - 1
  BY <1>1, HeadTailProperties
<1>3. Len(Tail(queue[i])) <= QueueSize
  BY <1>0, <1>1, <1>2, Ranges
<1> QED BY <1>0, <1>2, <1>3

\* A cache that forgets leaves a state of the right type.
LEMMA Forgetting ==
    ASSUME TypeOK, NEW i \in Caches, Forgets(i)
    PROVE  /\ queue' \in [Caches -> Seq(Message)]
           /\ \A j \in Caches : Len(queue'[j]) <= QueueSize
           /\ todo' \in [Caches -> SUBSET Keys]
           /\ snap' \in [Caches -> Contents]
           /\ cur' \in [Caches -> Message]
<1>1. <<>> \in Seq(Message) /\ Len(<<>>) = 0
  OBVIOUS
<1>2. Len(<<>>) <= QueueSize
  BY <1>1, Ranges
<1> QED BY <1>1, <1>2, Ranges DEF Forgets, TypeOK, Message

-----------------------------------------------------------------------------
\* An event of an initialised source keeps every stream in order.
LEMMA PublishOrderly ==
    ASSUME TypeOK, Orderly, NEW s \in ready, NEW e \in Event, Publish(s, e)
    PROVE  /\ open' \subseteq open
           /\ \A i \in open' : i - 1 \notin ready => queue'[i] = queue[i]
           /\ \A i \in Caches : \A n \in 1..Len(queue'[i]) :
                queue'[i][n] \in Event \/ (n = 1 /\ pc[i] = "init")
<1>0. /\ open \subseteq Caches /\ queue \in [Caches -> Seq(Message)] /\ ready \subseteq Sources
      /\ \A i \in Caches : OnlyFirst(i)
  BY DEF TypeOK, Orderly, Message
<1>1. CASE s + 1 \in open /\ Len(queue[s + 1]) < QueueSize
  <2>1. s + 1 \in Caches /\ queue' = [queue EXCEPT ![s + 1] = Append(@, e)] /\ open' = open
    BY <1>0, <1>1 DEF Publish
  <2>2. e \in Message /\ queue[s + 1] \in Seq(Message) /\ Len(queue[s + 1]) \in Nat
    BY <1>0, <2>1, LenProperties DEF Message
  <2>3. /\ Len(Append(queue[s + 1], e)) = Len(queue[s + 1]) + 1
        /\ \A n \in 1..Len(queue[s + 1]) : Append(queue[s + 1], e)[n] = queue[s + 1][n]
        /\ Append(queue[s + 1], e)[Len(queue[s + 1]) + 1] = e
    BY <2>2, AppendProperties
  <2>4. ASSUME NEW n \in 1..Len(queue'[s + 1])
        PROVE  queue'[s + 1][n] \in Event \/ (n = 1 /\ pc[s + 1] = "init")
    <3>1. queue'[s + 1] = Append(queue[s + 1], e)
      BY <1>0, <2>1
    <3>2. n \in 1..Len(queue[s + 1]) \/ n = Len(queue[s + 1]) + 1
      BY <2>2, <2>3, <3>1
    <3> QED BY <1>0, <2>1, <2>3, <3>1, <3>2 DEF OnlyFirst
  <2>5. \A i \in Caches : i # s + 1 => queue'[i] = queue[i]
    BY <1>0, <2>1
  <2>6. s \in Int /\ (s + 1) - 1 = s
    BY <1>0, Ranges DEF Sources
  <2> QED BY <1>0, <2>1, <2>4, <2>5, <2>6 DEF OnlyFirst
<1>2. CASE ~(s + 1 \in open /\ Len(queue[s + 1]) < QueueSize)
  BY <1>0, <1>2 DEF Publish, OnlyFirst
<1> QED BY <1>1, <1>2

\* OpInit of a source is the first message of whoever watches it.
LEMMA InitOrderly ==
    ASSUME TypeOK, Orderly, NEW s \in Sources, s \notin ready, SetInit(s)
    PROVE  /\ open' \subseteq open /\ ready' = ready \cup {s}
           /\ \A i \in open' : i - 1 \notin ready' => queue'[i] = queue[i]
           /\ \A i \in Caches : \A n \in 1..Len(queue'[i]) :
                queue'[i][n] \in Event \/ (n = 1 /\ pc[i] = "init")
<1>0. /\ open \subseteq Caches /\ queue \in [Caches -> Seq(Message)]
      /\ \A i \in Caches : OnlyFirst(i)
      /\ s \in Int /\ (s + 1) - 1 = s
      /\ Publish(s, OpInit) /\ ready' = ready \cup {s}
  BY Ranges DEF TypeOK, Orderly, Message, Sources, SetInit
<1>1. CASE s + 1 \in open /\ Len(queue[s + 1]) < QueueSize
  <2>1. s + 1 \in Caches /\ queue' = [queue EXCEPT ![s + 1] = Append(@, OpInit)] /\ open' = open
    BY <1>0, <1>1 DEF Publish
  <2>2. queue[s + 1] = <<>> /\ pc[s + 1] = "init"
    BY <1>0, <1>1 DEF Orderly
  <2>3. Len(queue'[s + 1]) = 1
    BY <1>0, <2>1, <2>2
  <2>5. \A i \in Caches : i # s + 1 => queue'[i] = queue[i]
    BY <1>0, <2>1
  <2>6. \A i \in Caches : i # s + 1 => \A n \in 1..Len(queue'[i]) :
                queue'[i][n] \in Event \/ (n = 1 /\ pc[i] = "init")
    BY <1>0, <2>5 DEF OnlyFirst
  <2>7. \A n \in 1..Len(queue'[s + 1]) : n = 1 /\ pc[s + 1] = "init"
    BY <2>2, <2>3
  <2> QED BY <1>0, <2>1, <2>5, <2>6, <2>7
<1>2. CASE ~(s + 1 \in open /\ Len(queue[s + 1]) < QueueSize)
  BY <1>0, <1>2 DEF Publish, OnlyFirst
<1> QED BY <1>1, <1>2

\* What remains of a queue after a receive has no OpInit in it.
LEMMA TailOrderly ==
    ASSUME TypeOK, Orderly, NEW i \in Caches, Len(queue[i]) > 0,
           queue' = [queue EXCEPT ![i] = Tail(@)]
    PROVE  /\ \A n \in 1..Len(queue'[i]) : queue'[i][n] \in Event
           /\ \A j \in Caches : j # i => queue'[j] = queue[j]
           /\ pc[i] # "init" => Head(queue[i]) \in Event
<1>0. queue \in [Caches -> Seq(Message)] /\ OnlyFirst(i)
  BY DEF TypeOK, Orderly, Message
<1>1. queue[i] \in Seq(Message) /\ queue[i] # <<>> /\ Len(queue[i]) \in Nat
  BY <1>0, EmptySeq, LenProperties
<1>2. /\ Head(queue[i]) = queue[i][1]
      /\ Len(Tail(queue[i])) = Len(queue[i]) - 1
      /\ \A n \in 1..Len(Tail(queue[i])) : Tail(queue[i])[n] = queue[i][n + 1]
  BY <1>1, HeadTailProperties
<1>3. ASSUME NEW n \in 1..Len(Tail(queue[i])) PROVE Tail(queue[i])[n] \in Event
  <2>1. n + 1 \in 1..Len(queue[i]) /\ n + 1 # 1
    BY <1>1, <1>2
  <2> QED BY <1>0, <1>2, <2>1 DEF OnlyFirst
<1>4. queue'[i] = Tail(queue[i])
  BY <1>0
<1> QED BY <1>0, <1>1, <1>2, <1>3, <1>4 DEF OnlyFirst
-----------------------------------------------------------------------------
\* A write to the backend keeps the invariant.
LEMMA WriteKeeps == CacheInv /\ Write => CacheInv'
<1> SUFFICES ASSUME CacheInv, Write PROVE CacheInv'
  OBVIOUS
<1> USE DEF CacheInv
<1>0. UNCHANGED <<ready, open, queue, pc, todo, snap, data, ok, healthy, tomb, whole, cur, faults>>
  BY DEF Write, watching, contents
<1>1. PICK k \in Keys, val \in {0, writes + 1} :
        /\ store' = [store EXCEPT ![k] = val]
        /\ wire' = IF 0 \in ready
                      THEN Append(wire, [type |-> "change", key |-> k, val |-> val])
                      ELSE wire
  BY DEF Write
<1>2. writes' \in 0..MaxWrites /\ val \in Values
  BY Ranges DEF Write, TypeOK, Values
<1>3. store' \in Contents
  BY <1>1, <1>2 DEF TypeOK, Contents
<1>4. wire' \in Seq(Event)
  <2>1. [type |-> "change", key |-> k, val |-> val] \in Event
    BY <1>2 DEF Event
  <2> QED BY <1>1, <2>1 DEF TypeOK
<1>5. TypeOK'
  BY <1>0, <1>2, <1>3, <1>4 DEF TypeOK
<1>6. 0 \notin ready' => wire' = <<>>
  BY <1>0, <1>1 DEF Orderly
<1> QED BY <1>0, <1>5, <1>6 DEF ReadableWhole, Guarded, Orderly, OnlyFirst

\* The event loop of the backend keeps the invariant.
LEMMA PumpKeeps == CacheInv /\ Pump => CacheInv'
<1> SUFFICES ASSUME CacheInv, Pump PROVE CacheInv'
  OBVIOUS
<1> USE DEF CacheInv
<1>0. UNCHANGED <<store, ready, pc, todo, snap, data, ok, healthy, tomb, whole, cur, writes>>
  BY DEF Pump, contents
<1>1. wire \in Seq(Event) /\ wire # <<>> /\ wire' = Tail(wire)
  BY EmptySeq DEF Pump, TypeOK
<1>2. Head(wire) \in Event /\ wire' \in Seq(Event) /\ 0 \in ready
  BY <1>1, HeadTailProperties DEF Orderly
<1>3. CASE Fault /\ UNCHANGED watching
  <2>1. faults' \in 0..MaxFaults
    BY <1>3, CacheAssumption DEF Fault, TypeOK
  <2>2. TypeOK'
    BY <1>0, <1>2, <1>3, <2>1 DEF TypeOK, watching
  <2> QED BY <1>0, <1>2, <1>3, <2>2 DEF ReadableWhole, Guarded, Orderly, OnlyFirst, watching
<1>4. CASE Publish(0, Head(wire)) /\ UNCHANGED faults
  <2>1. Head(wire) \in Message
    BY <1>2 DEF Message
  <2>2. /\ open' \subseteq Caches /\ queue' \in [Caches -> Seq(Message)]
        /\ \A i \in Caches : Len(queue'[i]) <= QueueSize
    BY <1>4, <2>1, Publishing, Ranges
  <2>3. TypeOK'
    BY <1>0, <1>2, <1>4, <2>2 DEF TypeOK, Message
  <2>4. Orderly'
    BY <1>0, <1>2, <1>4, PublishOrderly DEF Orderly, OnlyFirst
  <2> QED BY <1>0, <2>3, <2>4 DEF ReadableWhole, Guarded
<1> QED BY <1>3, <1>4 DEF Pump

\* The loss of the stream of the database keeps the invariant.
LEMMA StreamBreaksKeeps == CacheInv /\ StreamBreaks => CacheInv'
<1> SUFFICES ASSUME CacheInv, StreamBreaks PROVE CacheInv'
  OBVIOUS
<1> USE DEF CacheInv
<1>0. /\ UNCHANGED <<store, queue, pc, todo, snap, data, ok, healthy, tomb, whole, cur, writes>>
      /\ wire' = <<>> /\ ready' = ready \ {0} /\ open' = open \ ({} \cup {0 + 1})
  BY DEF StreamBreaks, contents, Reset
<1>1. faults' \in 0..MaxFaults
  BY CacheAssumption DEF StreamBreaks, Fault, TypeOK
<1>2. TypeOK'
  BY <1>0, <1>1 DEF TypeOK
<1>3. \A i \in open' : i - 1 \notin ready' => i - 1 \notin ready
  BY <1>0, Ranges DEF TypeOK
<1>4. Orderly'
  BY <1>0, <1>3, Ranges DEF Orderly, OnlyFirst
<1> QED BY <1>0, <1>2, <1>4 DEF ReadableWhole, Guarded

\* The new stream of the database keeps the invariant.
LEMMA StreamUpKeeps == CacheInv /\ StreamUp => CacheInv'
<1> SUFFICES ASSUME CacheInv, StreamUp PROVE CacheInv'
  OBVIOUS
<1> USE DEF CacheInv
<1>0. /\ UNCHANGED <<store, wire, pc, todo, snap, data, ok, healthy, tomb, whole, cur, writes, faults>>
      /\ 0 \notin ready /\ SetInit(0) /\ ready' = ready \cup {0}
  BY DEF StreamUp, contents, SetInit
<1>1. OpInit \in Message /\ Publish(0, OpInit)
  BY <1>0 DEF Message, SetInit
<1>2. /\ open' \subseteq Caches /\ queue' \in [Caches -> Seq(Message)]
      /\ \A i \in Caches : Len(queue'[i]) <= QueueSize
  BY <1>1, Publishing, Ranges
<1>3. TypeOK'
  BY <1>0, <1>2, Ranges DEF TypeOK, Message
<1>4. Orderly'
  <2>1. \A i \in Caches : i \in ready' <=> pc'[i] \in {"watch", "emit"}
    BY <1>0, Ranges DEF Orderly
  <2> QED BY <1>0, <2>1, InitOrderly, Ranges DEF Orderly, OnlyFirst
<1> QED BY <1>0, <1>3, <1>4 DEF ReadableWhole, Guarded

-----------------------------------------------------------------------------
\* A new watcher keeps the invariant.
LEMMA NewWatcherKeeps == ASSUME CacheInv, NEW i \in Caches, NewWatcher(i) PROVE CacheInv'
<1> USE DEF CacheInv
<1>0. /\ UNCHANGED <<store, wire, ready, todo, snap, data, ok, healthy, tomb, whole, cur, writes, faults>>
      /\ pc[i] = "idle" /\ open' = open \cup {i} /\ pc' = [pc EXCEPT ![i] = "init"]
      /\ queue' = [queue EXCEPT ![i] = IF i - 1 \in ready THEN <<OpInit>> ELSE <<>>]
  BY DEF NewWatcher, contents, Goto
<1>1. /\ <<OpInit>> \in Seq(Message) /\ <<>> \in Seq(Message)
      /\ Len(<<OpInit>>) = 1 /\ Len(<<>>) = 0
  BY DEF Message
<1>2. /\ queue' \in [Caches -> Seq(Message)]
      /\ \A j \in Caches : Len(queue'[j]) <= QueueSize
  <2>1. PICK q : q = IF i - 1 \in ready THEN <<OpInit>> ELSE <<>>
    OBVIOUS
  <2>2. q \in Seq(Message) /\ Len(q) <= QueueSize
    BY <1>1, <2>1, Ranges
  <2>3. queue \in [Caches -> Seq(Message)] /\ \A j \in Caches : Len(queue[j]) <= QueueSize
    BY DEF TypeOK, Message
  <2>4. queue' = [queue EXCEPT ![i] = q]
    BY <1>0, <2>1
  <2> QED BY <2>2, <2>3, <2>4
<1>3. pc \in [Caches -> Labels] /\ queue \in [Caches -> Seq(Message)]
  BY DEF TypeOK, Message
<1>4. TypeOK'
  BY <1>0, <1>2 DEF TypeOK, Message, Labels
<1>5. \A j \in Caches : OnlyFirst(j)'
  BY <1>0, <1>1, <1>3 DEF Orderly, OnlyFirst
<1>6. Orderly'
  BY <1>0, <1>3, <1>5 DEF Orderly, TypeOK
<1> QED BY <1>0, <1>3, <1>4, <1>6, CacheAssumption DEF ReadableWhole, Guarded, TypeOK

\* The receipt of OpInit keeps the invariant.
LEMMA ReceiveInitKeeps == ASSUME CacheInv, NEW i \in Caches, ReceiveInit(i) PROVE CacheInv'
<1> USE DEF CacheInv
<1>0. /\ UNCHANGED <<store, wire, ready, open, snap, data, ok, healthy, tomb, whole, cur, writes, faults>>
      /\ pc[i] = "init" /\ Len(queue[i]) > 0 /\ pc' = [pc EXCEPT ![i] = "fetch"]
      /\ queue' = [queue EXCEPT ![i] = Tail(@)] /\ todo' = [todo EXCEPT ![i] = Keys]
  BY DEF ReceiveInit, contents, Goto
<1>3. pc \in [Caches -> Labels] /\ queue \in [Caches -> Seq(Message)]
  BY DEF TypeOK, Message
<1>4. TypeOK'
  BY <1>0, Receiving DEF TypeOK, Message, Labels
<1>5. \A j \in Caches : OnlyFirst(j)'
  BY <1>0, <1>3, TailOrderly DEF Orderly, OnlyFirst
<1>6. Orderly'
  BY <1>0, <1>3, <1>5, EmptySeq DEF Orderly, TypeOK
<1> QED BY <1>0, <1>3, <1>4, <1>6, CacheAssumption DEF ReadableWhole, Guarded, TypeOK

\* The steps of fetch and apply keep the invariant.
LEMMA FetchKeeps == ASSUME CacheInv, NEW i \in Caches, Fetch(i) PROVE CacheInv'
<1> USE DEF CacheInv
<1>0. UNCHANGED <<store, wire, ready, open, queue, pc, data, ok, healthy, tomb, whole, cur, writes, faults>>
  BY DEF Fetch, contents, watching
<1>1. PICK k \in todo[i] : /\ snap' = [snap EXCEPT ![i][k] = Read(i)[k]]
                           /\ todo' = [todo EXCEPT ![i] = @ \ {k}]
  BY DEF Fetch
<1>2. k \in Keys /\ Read(i) \in Contents
  <2>1. i > 1 /\ i - 1 \in ok => data[i - 1] \in Contents
    BY DEF TypeOK
  <2> QED BY <1>1, <2>1 DEF Read, TypeOK
<1>3. snap' \in [Caches -> Contents] /\ todo' \in [Caches -> SUBSET Keys]
  BY <1>1, <1>2 DEF TypeOK, Contents
<1> QED BY <1>0, <1>3 DEF TypeOK, ReadableWhole, Guarded, Orderly, OnlyFirst

\* The beginning of an apply makes the cache unreadable before it is changed.
LEMMA BeginApplyKeeps == ASSUME CacheInv, NEW i \in Caches, BeginApply(i) PROVE CacheInv'
<1> USE DEF CacheInv
<1>0. /\ UNCHANGED <<store, wire, ready, open, queue, snap, data, healthy, tomb, cur, writes, faults>>
      /\ pc[i] = "fetch" /\ pc' = [pc EXCEPT ![i] = "apply"] /\ ok' = ok \ {i} /\ whole' = whole \ {i}
      /\ todo' = [todo EXCEPT ![i] = Keys]
  BY DEF BeginApply, watching, Goto
<1>1. pc \in [Caches -> Labels] /\ tomb \subseteq Caches /\ open \subseteq Caches
  BY CacheAssumption DEF TypeOK
<1>2. TypeOK'
  BY <1>0 DEF TypeOK, Labels
<1>3. i \notin tomb
  BY <1>0 DEF Guarded
<1>4. Guarded' /\ ReadableWhole'
  BY <1>0, <1>1, <1>3 DEF Guarded, ReadableWhole
<1>5. Orderly'
  BY <1>0, <1>1 DEF Orderly, OnlyFirst
<1> QED BY <1>2, <1>4, <1>5

\* The replacement of a collection keeps the invariant.
LEMMA ApplyKeeps == ASSUME CacheInv, NEW i \in Caches, Apply(i) PROVE CacheInv'
<1> USE DEF CacheInv
<1>0. UNCHANGED <<store, wire, ready, open, queue, pc, snap, ok, healthy, tomb, whole, cur, writes, faults>>
  BY DEF Apply, watching
<1>1. PICK k \in todo[i] : /\ data' = [data EXCEPT ![i][k] = snap[i][k]]
                           /\ todo' = [todo EXCEPT ![i] = @ \ {k}]
  BY DEF Apply
<1>2. data' \in [Caches -> Contents] /\ todo' \in [Caches -> SUBSET Keys]
  BY <1>1 DEF TypeOK, Contents
<1> QED BY <1>0, <1>2 DEF TypeOK, ReadableWhole, Guarded, Orderly, OnlyFirst

\* A cache is readable again when the last collection has been replaced.
LEMMA EndApplyKeeps == ASSUME CacheInv, NEW i \in Caches, EndApply(i) PROVE CacheInv'
<1> USE DEF CacheInv
<1>0. /\ UNCHANGED <<store, wire, ready, open, queue, todo, data, tomb, cur, writes, faults>>
      /\ pc[i] = "apply" /\ pc' = [pc EXCEPT ![i] = "setinit"] /\ ok' = ok \cup {i}
      /\ whole' = whole \cup {i} /\ healthy' = healthy \cup {i}
      /\ snap' = [snap EXCEPT ![i] = Nothing]
  BY DEF EndApply, watching, Goto
<1>1. pc \in [Caches -> Labels] /\ tomb \subseteq Caches /\ open \subseteq Caches
  BY CacheAssumption DEF TypeOK
<1>2. TypeOK'
  BY <1>0, Ranges DEF TypeOK, Labels
<1>4. Guarded' /\ ReadableWhole'
  BY <1>0, <1>1 DEF Guarded, ReadableWhole
<1>5. Orderly'
  BY <1>0, <1>1 DEF Orderly, OnlyFirst
<1> QED BY <1>2, <1>4, <1>5
-----------------------------------------------------------------------------
\* The start of the fan-out keeps the invariant.
LEMMA BroadcastInitKeeps == ASSUME CacheInv, NEW i \in Caches, BroadcastInit(i) PROVE CacheInv'
<1> USE DEF CacheInv
<1>0. /\ UNCHANGED <<store, wire, todo, snap, data, ok, healthy, tomb, whole, cur, writes, faults>>
      /\ pc[i] = "setinit" /\ SetInit(i) /\ pc' = [pc EXCEPT ![i] = "watch"]
      /\ ready' = ready \cup {i}
  BY DEF BroadcastInit, contents, SetInit, Goto
<1>1. /\ pc \in [Caches -> Labels] /\ tomb \subseteq Caches /\ open \subseteq Caches
      /\ i \in Sources /\ i \notin ready
  BY <1>0, CacheAssumption, Ranges DEF TypeOK, Orderly
<1>2. OpInit \in Message /\ Publish(i, OpInit)
  BY <1>0 DEF Message, SetInit
<1>3. /\ open' \subseteq Caches /\ queue' \in [Caches -> Seq(Message)]
      /\ \A j \in Caches : Len(queue'[j]) <= QueueSize
  BY <1>1, <1>2, Publishing
<1>4. TypeOK'
  BY <1>0, <1>1, <1>3 DEF TypeOK, Message, Labels
<1>5. /\ open' \subseteq open
      /\ \A j \in open' : j - 1 \notin ready' => queue'[j] = queue[j]
      /\ \A j \in Caches : \A n \in 1..Len(queue'[j]) :
           queue'[j][n] \in Event \/ (n = 1 /\ pc[j] = "init")
  BY <1>0, <1>1, InitOrderly
<1>6. pc'[i] = "watch" /\ \A j \in Caches : j # i => pc'[j] = pc[j]
  BY <1>0, <1>1
<1>7. \A j \in open' : j - 1 \notin ready' => pc'[j] = "init" /\ queue'[j] = <<>>
  BY <1>0, <1>1, <1>5, <1>6 DEF Orderly
<1>8. Orderly'
  BY <1>0, <1>1, <1>5, <1>6, <1>7 DEF Orderly, OnlyFirst
<1> QED BY <1>0, <1>1, <1>4, <1>6, <1>8 DEF Guarded, ReadableWhole

\* The processing of an event keeps the invariant: it is not an OpInit.
LEMMA ProcessEventKeeps == ASSUME CacheInv, NEW i \in Caches, ProcessEvent(i) PROVE CacheInv'
<1> USE DEF CacheInv
<1> DEFINE e == Head(queue[i])
<1>0. /\ UNCHANGED <<store, wire, ready, open, todo, snap, ok, healthy, tomb, whole, writes, faults>>
      /\ pc[i] = "watch" /\ Len(queue[i]) > 0 /\ pc' = [pc EXCEPT ![i] = "emit"]
      /\ queue' = [queue EXCEPT ![i] = Tail(@)]
      /\ data' = [data EXCEPT ![i][e.key] = e.val] /\ cur' = [cur EXCEPT ![i] = e]
  BY DEF ProcessEvent, Goto
<1>1. /\ pc \in [Caches -> Labels] /\ tomb \subseteq Caches /\ open \subseteq Caches
      /\ cur \in [Caches -> Message]
  BY CacheAssumption DEF TypeOK, Message
<1>2. e \in Event /\ e.key \in Keys /\ e.val \in Values
  BY <1>0, TailOrderly DEF Event
<1>3. data' \in [Caches -> Contents] /\ cur' \in [Caches -> Message]
  BY <1>0, <1>1, <1>2 DEF TypeOK, Contents, Message
<1>4. TypeOK'
  BY <1>0, <1>3, Receiving DEF TypeOK, Message, Labels
<1>5. pc'[i] = "emit" /\ \A j \in Caches : j # i => pc'[j] = pc[j]
  BY <1>0, <1>1
<1>6. cur'[i] \in Event /\ \A j \in Caches : j # i => cur'[j] = cur[j]
  BY <1>0, <1>1, <1>2
<1>7. /\ \A n \in 1..Len(queue'[i]) : queue'[i][n] \in Event
      /\ \A j \in Caches : j # i => queue'[j] = queue[j]
  BY <1>0, TailOrderly
<1>8. \A j \in open' : j - 1 \notin ready' => pc'[j] = "init" /\ queue'[j] = <<>>
  BY <1>0, <1>1, <1>5, <1>7 DEF Orderly
<1>9. Orderly'
  BY <1>0, <1>1, <1>5, <1>6, <1>7, <1>8 DEF Orderly, OnlyFirst
<1> QED BY <1>0, <1>1, <1>4, <1>5, <1>9 DEF Guarded, ReadableWhole

\* Passing an event on keeps the invariant.
LEMMA EmitEventKeeps == ASSUME CacheInv, NEW i \in Caches, EmitEvent(i) PROVE CacheInv'
<1> USE DEF CacheInv
<1>0. /\ UNCHANGED <<store, wire, ready, todo, snap, data, ok, healthy, tomb, whole, writes, faults>>
      /\ pc[i] = "emit" /\ Publish(i, cur[i]) /\ pc' = [pc EXCEPT ![i] = "watch"]
      /\ cur' = [cur EXCEPT ![i] = OpInit]
  BY DEF EmitEvent, contents, Goto
<1>1. /\ pc \in [Caches -> Labels] /\ tomb \subseteq Caches /\ open \subseteq Caches
      /\ cur \in [Caches -> Message] /\ i \in Sources /\ i \in ready /\ cur[i] \in Event
      /\ cur[i] \in Message
  BY <1>0, CacheAssumption, Ranges DEF TypeOK, Message, Orderly
<1>3. /\ open' \subseteq Caches /\ queue' \in [Caches -> Seq(Message)]
      /\ \A j \in Caches : Len(queue'[j]) <= QueueSize
  BY <1>0, <1>1, Publishing
<1>4. TypeOK'
  BY <1>0, <1>1, <1>3 DEF TypeOK, Message, Labels
<1>5. /\ open' \subseteq open
      /\ \A j \in open' : j - 1 \notin ready => queue'[j] = queue[j]
      /\ \A j \in Caches : \A n \in 1..Len(queue'[j]) :
           queue'[j][n] \in Event \/ (n = 1 /\ pc[j] = "init")
  BY <1>0, <1>1, PublishOrderly
<1>6. pc'[i] = "watch" /\ \A j \in Caches : j # i => pc'[j] = pc[j] /\ cur'[j] = cur[j]
  BY <1>0, <1>1
<1>7. \A j \in open' : j - 1 \notin ready' => pc'[j] = "init" /\ queue'[j] = <<>>
  BY <1>0, <1>1, <1>5, <1>6 DEF Orderly
<1>8. Orderly'
  BY <1>0, <1>1, <1>5, <1>6, <1>7 DEF Orderly, OnlyFirst
<1> QED BY <1>0, <1>1, <1>4, <1>6, <1>8 DEF Guarded, ReadableWhole

-----------------------------------------------------------------------------
\* A cache whose loop ends in label l, closed, keeps streams in order.
LEMMA LeavingOrderly ==
    ASSUME CacheInv, NEW i \in Caches, NEW l \in {"idle", "off"},
           pc' = [pc EXCEPT ![i] = l], Forgets(i), wire' = wire,
           \/ Reset(i, {i})
           \/ i \notin ready /\ open' = open \ {i} /\ ready' = ready
    PROVE  Orderly'
<1> USE DEF CacheInv
<1>1. /\ pc \in [Caches -> Labels] /\ open \subseteq Caches
      /\ cur \in [Caches -> Message] /\ queue \in [Caches -> Seq(Message)]
  BY DEF TypeOK, Message
<1>2. /\ i \notin ready' /\ ready' \subseteq ready /\ \A j \in ready : j # i => j \in ready'
      /\ open' \subseteq open /\ i \notin open'
      /\ \A j \in open' : j - 1 \notin ready' => j - 1 \notin ready
  BY <1>1, Ranges DEF Reset
<1>3. pc'[i] = l /\ queue'[i] = <<>>
  BY <1>1 DEF Forgets
<1>4. \A j \in Caches : j # i => pc'[j] = pc[j] /\ queue'[j] = queue[j] /\ cur'[j] = cur[j]
  BY <1>1 DEF Forgets
<1>5. 0 \notin ready' => wire' = <<>>
  BY <1>2, Ranges DEF Orderly
<1>6. OnlyFirst(i)'
  BY <1>3 DEF OnlyFirst
<1> QED BY <1>1, <1>2, <1>3, <1>4, <1>5, <1>6 DEF Orderly, OnlyFirst

\* The end of fetchAndWatch keeps the invariant.
LEMMA ReturnKeeps ==
    ASSUME CacheInv, NEW i \in Caches, Return(i), pc[i] \notin {"off", "emit"},
           data' \in [Caches -> Contents], faults' \in 0..MaxFaults
    PROVE  CacheInv'
<1> USE DEF CacheInv
<1>0. /\ UNCHANGED <<store, wire, ok, healthy, tomb, whole, writes>>
      /\ pc' = [pc EXCEPT ![i] = "idle"] /\ Forgets(i)
  BY DEF Return, Goto
<1>1. \/ Reset(i, {i})
      \/ i \notin ready /\ open' = open \ {i} /\ ready' = ready
  BY DEF Return, Orderly
<1>2. /\ pc \in [Caches -> Labels] /\ tomb \subseteq Caches
      /\ open' \subseteq Caches /\ ready' \subseteq Sources
  BY <1>1, CacheAssumption DEF TypeOK, Reset
<1>3. TypeOK'
  BY <1>0, <1>2, Forgetting DEF TypeOK, Message, Labels
<1>4. Orderly'
  BY <1>0, <1>1, LeavingOrderly
<1>5. i \notin tomb
  BY DEF Guarded
<1> QED BY <1>0, <1>2, <1>3, <1>4, <1>5 DEF Guarded, ReadableWhole

\* A failed call keeps the invariant, with what it leaves behind in the cache.
LEMMA CallFailsKeeps == ASSUME CacheInv, NEW i \in Caches, CallFails(i) PROVE CacheInv'
<1> USE DEF CacheInv
<1>1. data' \in [Caches -> Contents]
  <2>1. ASSUME NEW k \in todo[i], data' = [data EXCEPT ![i][k] = 0]
        PROVE  data' \in [Caches -> Contents]
    BY <2>1, Ranges DEF TypeOK, Contents
  <2>2. data' = data => data' \in [Caches -> Contents]
    BY DEF TypeOK
  <2> QED BY <2>1, <2>2 DEF CallFails
<1>2. faults' \in 0..MaxFaults
  BY CacheAssumption DEF CallFails, Fault, TypeOK
<1>3. Return(i) /\ pc[i] \notin {"off", "emit"}
  BY DEF CallFails
<1> QED BY <1>1, <1>2, <1>3, ReturnKeeps

\* The end of a process keeps the invariant, with and without a tombstone.
LEMMA EndsKeeps ==
    ASSUME CacheInv, NEW i \in Caches, Ends(i), Survives(i),
           \/ tomb' = tomb
           \/ i \in ok /\ i \in Durable /\ tomb' = tomb \cup {i}
    PROVE  CacheInv'
<1> USE DEF CacheInv
<1>0. /\ UNCHANGED <<store, wire, healthy, writes>> /\ ok' = ok \ {i}
      /\ pc' = [pc EXCEPT ![i] = "off"] /\ Forgets(i) /\ Reset(i, {i}) /\ pc[i] # "off"
  BY DEF Ends, Goto
<1>1. /\ pc \in [Caches -> Labels] /\ tomb \subseteq Caches
      /\ open' \subseteq Caches /\ ready' \subseteq Sources
      /\ faults' \in 0..MaxFaults
  BY <1>0, CacheAssumption DEF TypeOK, Reset, Ends, Fault
<1>2. data' \in [Caches -> Contents] /\ whole \subseteq whole' /\ whole' \subseteq Caches
  BY Ranges DEF Survives, TypeOK
<1>3. TypeOK'
  BY <1>0, <1>1, <1>2, Forgetting DEF TypeOK, Message, Labels
<1>4. Orderly'
  BY <1>0, LeavingOrderly
<1> QED BY <1>0, <1>1, <1>2, <1>3, <1>4 DEF Guarded, ReadableWhole

\* The start of a process keeps the invariant: a tombstone stands for a cache
\* that was whole when the process ended.
LEMMA StartKeeps == ASSUME CacheInv, NEW i \in Caches, Start(i) PROVE CacheInv'
<1> USE DEF CacheInv
<1>0. /\ UNCHANGED <<store, wire, ready, open, queue, todo, snap, data, whole, cur, writes, faults>>
      /\ pc[i] = "off" /\ pc' = [pc EXCEPT ![i] = "idle"]
      /\ ok' = (IF i \in tomb THEN ok \cup {i} ELSE ok)
      /\ tomb' = tomb \ {i} /\ healthy' = healthy \ {i}
  BY DEF Start, watching, Goto
<1>1. pc \in [Caches -> Labels] /\ tomb \subseteq Caches /\ open \subseteq Caches
  BY CacheAssumption DEF TypeOK
<1>2. TypeOK'
  BY <1>0 DEF TypeOK, Labels
<1>3. Guarded' /\ ReadableWhole'
  BY <1>0, <1>1 DEF Guarded, ReadableWhole
<1>4. Orderly'
  BY <1>0, <1>1 DEF Orderly, OnlyFirst
<1> QED BY <1>2, <1>3, <1>4

-----------------------------------------------------------------------------
\* Every step keeps the invariant.
LEMMA CacheSteps == CacheInv /\ [CacheNext]_vars => CacheInv'
<1> SUFFICES ASSUME CacheInv, [CacheNext]_vars PROVE CacheInv'
  OBVIOUS
<1>1. CASE Write \/ Pump \/ StreamBreaks \/ StreamUp
  BY <1>1, WriteKeeps, PumpKeeps, StreamBreaksKeeps, StreamUpKeeps
<1>2. ASSUME NEW i \in Caches, Update(i) PROVE CacheInv'
  <2>1. WatcherDone(i) \/ SourceDown(i) => CacheInv'
    BY ReturnKeeps DEF WatcherDone, SourceDown, CacheInv, TypeOK
  <2> QED BY <1>2, <2>1, NewWatcherKeeps, ReceiveInitKeeps, FetchKeeps, BeginApplyKeeps,
             ApplyKeeps, EndApplyKeeps, BroadcastInitKeeps, ProcessEventKeeps,
             EmitEventKeeps, StartKeeps DEF Update
<1>3. ASSUME NEW i \in Caches, InitTimeout(i) \/ CallFails(i) PROVE CacheInv'
  <2>1. InitTimeout(i) => CacheInv'
    BY ReturnKeeps DEF InitTimeout, CacheInv, TypeOK
  <2> QED BY <1>3, <2>1, CallFailsKeeps
<1>4. ASSUME NEW i \in Caches, Crash(i) \/ Stop(i) PROVE CacheInv'
  BY <1>4, EndsKeeps DEF Crash, Stop
<1>5. CASE UNCHANGED vars
  BY <1>5 DEF vars, watching, contents, CacheInv, TypeOK, ReadableWhole, Guarded,
              Orderly, OnlyFirst
<1> QED BY <1>1, <1>2, <1>3, <1>4, <1>5 DEF CacheNext

\* The invariant holds in every reachable state.
LEMMA CacheInvariance == CacheSpec => []CacheInv
BY CacheStarts, CacheSteps, PTL DEF CacheSpec

\* The state of every chain of caches is well typed: no channel is overfilled,
\* a tombstone belongs to a cache on disk, and what processEvent handles is
\* never an OpInit.
THEOREM CacheTypeCorrect == CacheSpec => []TypeOK
<1>1. CacheInv => TypeOK
  BY DEF CacheInv
<1> QED BY <1>1, CacheInvariance, PTL

\* read and the tombstone: however many collections, writes and faults there
\* are, a cache that is read, now or after a restart from disk, is not half
\* way through an apply.
THEOREM NobodyReadsHalf == CacheSpec => []ReadableWhole
<1>1. CacheInv => ReadableWhole
  BY DEF CacheInv
<1> QED BY <1>1, CacheInvariance, PTL

-----------------------------------------------------------------------------
\* Positions that are not empty have a last one.
LEMMA LastPosition ==
    ASSUME NEW m \in Nat, NEW H \in SUBSET (1..m), H # {}
    PROVE  \E n \in H : \A j \in H : j <= n
<1> DEFINE T == {d \in Nat : \E n \in H : d = m - n}
<1>1. T \subseteq Nat /\ T # {}
  <2>1. PICK n \in H : TRUE
    OBVIOUS
  <2>2. n \in 1..m /\ m - n \in Nat
    OBVIOUS
  <2> QED BY <2>2
<1>2. PICK R : R = OpToRel(<, Nat)
  OBVIOUS
<1>3. \A x, y \in Nat : <<y, x>> \in R <=> y < x
  BY <1>2 DEF OpToRel
<1>4. IsWellFoundedOn(R, Nat)
  BY <1>2, NatLessThanWellFounded
<1> HIDE DEF T
<1>5. PICK d \in T : \A y \in T : ~(<<y, d>> \in R)
  BY <1>1, <1>4, WFMin
<1>6. PICK n \in H : d = m - n
  BY <1>5 DEF T
<1>7. ASSUME NEW j \in H PROVE j <= n
  <2>1. m - j \in T
    <3>1. j \in 1..m /\ m - j \in Nat
      OBVIOUS
    <3> QED BY <3>1 DEF T
  <2>2. ~(m - j < d)
    BY <1>1, <1>3, <1>5, <2>1
  <2>3. j \in 1..m /\ n \in 1..m
    OBVIOUS
  <2> QED BY <1>6, <2>2, <2>3
<1> QED BY <1>7

\* Without an event for the key nothing changes; else the last one counts.
LEMMA AfterNone ==
    ASSUME NEW k, NEW s, NEW v, \A n \in 1..Len(s) : s[n].key # k
    PROVE  After(k, s, v) = v
<1>1. {n \in 1..Len(s) : s[n].key = k} = {}
  OBVIOUS
<1> QED BY <1>1 DEF After

\* Events make of a value that of the last one about the key.
LEMMA AfterLast ==
    ASSUME NEW k, NEW s \in Seq(Event), NEW v, NEW n \in 1..Len(s), s[n].key = k,
           \A m \in 1..Len(s) : s[m].key = k => m <= n
    PROVE  After(k, s, v) = s[n].val
<1> DEFINE hits == {m \in 1..Len(s) : s[m].key = k}
<1>0. Len(s) \in Nat
  BY LenProperties
<1>1. n \in hits /\ \A m \in hits : m <= n /\ m \in Int
  BY <1>0
<1>2. After(k, s, v) = IF hits = {} THEN v
                       ELSE s[CHOOSE m \in hits : \A j \in hits : j <= m].val
  BY DEF After
<1> HIDE DEF hits
<1>3. PICK c : c = CHOOSE m \in hits : \A j \in hits : j <= m
  OBVIOUS
<1>4. c \in hits /\ \A j \in hits : j <= c
  BY <1>1, <1>3
<1>5. c = n
  BY <1>1, <1>4
<1> QED BY <1>1, <1>2, <1>3, <1>5

\* If there is an event about the key, there is a last one.
LEMMA HasLast ==
    ASSUME NEW k, NEW s \in Seq(Event), NEW p \in 1..Len(s), s[p].key = k
    PROVE  \E n \in 1..Len(s) : /\ s[n].key = k
                                /\ \A m \in 1..Len(s) : s[m].key = k => m <= n
<1> DEFINE hits == {m \in 1..Len(s) : s[m].key = k}
<1>0. Len(s) \in Nat
  BY LenProperties
<1>1. hits \in SUBSET (1..Len(s)) /\ hits # {}
  OBVIOUS
<1>2. PICK n \in hits : \A j \in hits : j <= n
  <2> HIDE DEF hits
  <2> QED BY <1>0, <1>1, LastPosition
<1> QED BY <1>2

\* The value does not depend on where one starts, once it is right.
LEMMA AfterSettled ==
    ASSUME NEW k, NEW s \in Seq(Event), NEW x, NEW v, After(k, s, x) = v
    PROVE  After(k, s, v) = v
<1>1. CASE \A n \in 1..Len(s) : s[n].key # k
  BY <1>1, AfterNone
<1>2. CASE \E p \in 1..Len(s) : s[p].key = k
  <2>1. PICK n \in 1..Len(s) : s[n].key = k /\ \A m \in 1..Len(s) : s[m].key = k => m <= n
    BY <1>2, HasLast
  <2>2. After(k, s, x) = s[n].val /\ After(k, s, v) = s[n].val
    BY <2>1, AfterLast
  <2> QED BY <2>2
<1> QED BY <1>1, <1>2

\* One more event at the end.
LEMMA AfterAppend ==
    ASSUME NEW k, NEW s \in Seq(Event), NEW e \in Event, NEW v
    PROVE  After(k, Append(s, e), v) = IF e.key = k THEN e.val ELSE After(k, s, v)
<1>1. PICK t \in Seq(Event) : t = Append(s, e)
  BY AppendProperties
<1>2. /\ Len(s) \in Nat /\ Len(t) = Len(s) + 1 /\ t[Len(s) + 1] = e
      /\ \A n \in 1..Len(s) : t[n] = s[n]
  BY <1>1, LenProperties, AppendProperties
<1>3. \A n \in 1..Len(t) : n \in 1..Len(s) \/ n = Len(s) + 1
  BY <1>2
<1>4. CASE e.key = k
  <2>1. Len(s) + 1 \in 1..Len(t) /\ \A m \in 1..Len(t) : m <= Len(s) + 1
    BY <1>2
  <2>2. After(k, t, v) = t[Len(s) + 1].val
    BY <1>2, <1>4, <2>1, AfterLast
  <2> QED BY <1>1, <1>2, <1>4, <2>2
<1>5. CASE e.key # k /\ \A n \in 1..Len(s) : s[n].key # k
  <2>1. \A n \in 1..Len(t) : t[n].key # k
    BY <1>2, <1>3, <1>5
  <2> QED BY <1>1, <1>5, <2>1, AfterNone
<1>6. CASE e.key # k /\ \E p \in 1..Len(s) : s[p].key = k
  <2>1. PICK n \in 1..Len(s) : s[n].key = k /\ \A m \in 1..Len(s) : s[m].key = k => m <= n
    BY <1>6, HasLast
  <2>2. After(k, s, v) = s[n].val
    BY <2>1, AfterLast
  <2>3. n \in 1..Len(t) /\ t[n] = s[n]
    BY <1>2
  <2>4. \A m \in 1..Len(t) : t[m].key = k => m <= n
    BY <1>2, <1>3, <1>6, <2>1
  <2>5. After(k, t, v) = t[n].val
    BY <2>1, <2>3, <2>4, AfterLast
  <2> QED BY <1>1, <1>6, <2>2, <2>3, <2>5
<1> QED BY <1>4, <1>5, <1>6

\* The first event is applied.
LEMMA AfterTail ==
    ASSUME NEW k, NEW s \in Seq(Event), s # <<>>, NEW v
    PROVE  After(k, s, v) = After(k, Tail(s), IF Head(s).key = k THEN Head(s).val ELSE v)
<1>1. PICK t \in Seq(Event) : t = Tail(s)
  BY HeadTailProperties
<1>2. /\ Len(s) \in Nat /\ Len(s) > 0 /\ Len(t) = Len(s) - 1 /\ Head(s) = s[1]
      /\ \A n \in 1..Len(t) : t[n] = s[n + 1]
  BY <1>1, LenProperties, HeadTailProperties, EmptySeq
<1>3. \A n \in 2..Len(s) : n - 1 \in 1..Len(t) /\ (n - 1) + 1 = n
  BY <1>2
<1>4. \A n \in 2..Len(s) : t[n - 1] = s[n]
  BY <1>2, <1>3
<1>5. PICK x : x = IF Head(s).key = k THEN Head(s).val ELSE v
  OBVIOUS
<1>6. CASE \A n \in 1..Len(t) : t[n].key # k
  <2>1. After(k, t, x) = x
    BY <1>6, AfterNone
  <2>2. \A n \in 2..Len(s) : s[n].key # k
    BY <1>3, <1>4, <1>6
  <2>3. CASE s[1].key = k
    <3>1. 1 \in 1..Len(s) /\ \A m \in 1..Len(s) : s[m].key = k => m <= 1
      BY <1>2, <2>2
    <3>2. After(k, s, v) = s[1].val
      BY <2>3, <3>1, AfterLast
    <3> QED BY <1>1, <1>2, <1>5, <2>1, <2>3, <3>2
  <2>4. CASE s[1].key # k
    <3>1. \A n \in 1..Len(s) : s[n].key # k
      BY <1>2, <2>2, <2>4
    <3> QED BY <1>1, <1>2, <1>5, <2>1, <2>4, <3>1, AfterNone
  <2> QED BY <2>3, <2>4
<1>7. CASE \E p \in 1..Len(t) : t[p].key = k
  <2>1. PICK n \in 1..Len(t) : t[n].key = k /\ \A m \in 1..Len(t) : t[m].key = k => m <= n
    BY <1>7, HasLast
  <2>2. After(k, t, x) = t[n].val
    BY <2>1, AfterLast
  <2>3. PICK j \in 1..Len(s) : j = n + 1
    BY <1>2
  <2>4. s[j] = t[n]
    BY <1>2, <2>3
  <2>5. ASSUME NEW m \in 1..Len(s), s[m].key = k PROVE m <= j
    <3>1. CASE m = 1
      BY <1>2, <2>3, <3>1
    <3>2. CASE m \in 2..Len(s)
      <4>1. m - 1 \in 1..Len(t) /\ t[m - 1].key = k
        BY <1>3, <1>4, <2>5, <3>2
      <4>2. m - 1 <= n
        BY <2>1, <4>1
      <4> QED BY <1>2, <2>3, <4>2
    <3> QED BY <1>2, <3>1, <3>2
  <2>6. After(k, s, v) = s[j].val
    BY <2>1, <2>4, <2>5, AfterLast
  <2> QED BY <1>1, <1>5, <2>2, <2>4, <2>6
<1> QED BY <1>6, <1>7

\* Events that move from the front of one sequence to the end of another.
LEMMA MovedEvent ==
    ASSUME NEW q \in Seq(Event), NEW f \in Seq(Event), f # <<>>
    PROVE  Append(q, Head(f)) \o Tail(f) = q \o f
<1>1. PICK h \in Event, t \in Seq(Event) : h = Head(f) /\ t = Tail(f)
  BY HeadTailProperties
<1>2. f = <<h>> \o t
  BY <1>1, HeadTailProperties
<1>3. Append(q, h) = q \o <<h>> /\ <<h>> \in Seq(Event)
  BY AppendIsConcat
<1> QED BY <1>1, <1>2, <1>3, ConcatAssociative

\* An event that is emitted stands behind those in the queue.
LEMMA AppendedEvent ==
    ASSUME NEW q \in Seq(Event), NEW f \in Seq(Event), NEW e \in Event
    PROVE  q \o Append(f, e) = Append(q \o f, e)
<1>1. q \o f \in Seq(Event) /\ <<e>> \in Seq(Event)
  BY ConcatProperties
<1>2. Append(f, e) = f \o <<e>>
  BY AppendIsConcat
<1>3. Append(q \o f, e) = (q \o f) \o <<e>>
  BY <1>1, AppendIsConcat
<1> QED BY <1>1, <1>2, <1>3, ConcatAssociative

\* The head of a queue is the head of all that is on the way.
LEMMA TailOfJoined ==
    ASSUME NEW q \in Seq(Event), NEW f \in Seq(Event), q # <<>>
    PROVE  /\ q \o f \in Seq(Event) /\ q \o f # <<>>
           /\ Head(q \o f) = Head(q) /\ Tail(q \o f) = Tail(q) \o f
<1>1. PICK h \in Event, t \in Seq(Event) : h = Head(q) /\ t = Tail(q)
  BY HeadTailProperties
<1>2. q = <<h>> \o t /\ <<h>> \in Seq(Event)
  BY <1>1, HeadTailProperties
<1>3. q \o f = <<h>> \o (t \o f)
  BY <1>2, ConcatAssociative
<1>4. t \o f \in Seq(Event)
  BY ConcatProperties
<1>5. q \o f = <<h>> \o (t \o f) /\ Head(<<h>> \o (t \o f)) = h /\ Tail(<<h>> \o (t \o f)) = t \o f
  BY <1>3, <1>4, ConcatProperties
<1> QED BY <1>1, <1>5, ConcatProperties
-----------------------------------------------------------------------------
\* The inductive invariant behind NoMissedEvent.  Source 0 is the backend.
\* Up: what a source holds; Flight: what it has still to emit; Rest: what
\* waits for a cache, without OpInit; Held: the value that a cache is going to
\* have once its fetch and its apply are through.
Up(s) == IF s = 0 THEN store ELSE data[s]
Flight(s) == IF s = 0 THEN wire ELSE IF pc[s] = "emit" THEN <<cur[s]>> ELSE <<>>
Rest(i) ==
    IF pc[i] # "init" THEN queue[i]
    ELSE IF queue[i] = <<>> THEN <<>> ELSE Tail(queue[i])
Held(i, k) ==
    IF pc[i] = "init" \/ (pc[i] = "fetch" /\ k \in todo[i]) THEN Up(i - 1)[k]
    ELSE IF pc[i] = "fetch" \/ (pc[i] = "apply" /\ k \in todo[i]) THEN snap[i][k]
    ELSE data[i][k]

\* What a source has still to emit does not take it back behind its contents.
Settled(s) == \A k \in Keys : After(k, Flight(s), Up(s)[k]) = Up(s)[k]

\* The events on the way make of what a cache holds what its source holds.
Follows(i) ==
    \A k \in Keys : After(k, Rest(i) \o Flight(i - 1), Held(i, k)) = Up(i - 1)[k]

\* A cache that has begun to emit may be read, so that the next one fetches
\* from it; a cache without a loop has no watcher.
Served ==
    /\ \A i \in Caches : pc[i] \in {"setinit", "watch", "emit"} => i \in ok
    /\ \A i \in open : pc[i] \notin {"idle", "off"}

FollowInv ==
    /\ \A s \in Sources : Settled(s)
    /\ \A i \in open : i - 1 \in ready => Follows(i)
    /\ Served

\* The queues in question hold events.
LEMMA Typed ==
    ASSUME CacheInv, NEW i \in Caches, NEW s \in Sources
    PROVE  Rest(i) \in Seq(Event) /\ Flight(s) \in Seq(Event)
<1> USE DEF CacheInv
<1>1. Flight(s) \in Seq(Event)
  <2>1. s # 0 /\ pc[s] = "emit" => cur[s] \in Event
    <3>1. s # 0 => s \in Caches
      BY Ranges DEF Sources, Caches
    <3> QED BY <3>1 DEF Orderly
  <2>2. wire \in Seq(Event) /\ <<>> \in Seq(Event)
    BY DEF TypeOK
  <2>3. \A e \in Event : <<e>> \in Seq(Event)
    OBVIOUS
  <2> QED BY <2>1, <2>2, <2>3 DEF Flight
<1>2. Rest(i) \in Seq(Event)
  <2>1. queue[i] \in Seq(Message) /\ Len(queue[i]) \in Nat /\ OnlyFirst(i)
    BY LenProperties DEF TypeOK, Orderly, Message
  <2>2. CASE pc[i] # "init"
    <3>1. \A n \in 1..Len(queue[i]) : queue[i][n] \in Event
      BY <2>1, <2>2 DEF OnlyFirst
    <3> QED BY <2>1, <2>2, <3>1 DEF Rest
  <2>3. CASE pc[i] = "init" /\ queue[i] # <<>>
    <3>1. PICK t \in Seq(Message) : t = Tail(queue[i])
      BY <2>1, <2>3, HeadTailProperties
    <3>2. /\ Len(t) = Len(queue[i]) - 1 /\ Len(t) \in Nat
          /\ \A n \in 1..Len(t) : t[n] = queue[i][n + 1]
      BY <2>1, <2>3, <3>1, HeadTailProperties
    <3>3. ASSUME NEW n \in 1..Len(t) PROVE t[n] \in Event
      <4>1. n + 1 \in 1..Len(queue[i]) /\ n + 1 # 1
        BY <2>1, <3>2
      <4> QED BY <2>1, <3>2, <4>1 DEF OnlyFirst
    <3>4. t \in Seq(Event)
      <4>0. t \in [1..Len(t) -> Message]
        BY <3>1, LenProperties
      <4>1. t \in [1..Len(t) -> Event]
        BY <3>3, <4>0
      <4> QED BY <3>2, <4>1, SeqDef
    <3> QED BY <2>3, <3>1, <3>4 DEF Rest
  <2>4. CASE pc[i] = "init" /\ queue[i] = <<>>
    <3>1. Rest(i) = <<>>
      BY <2>4 DEF Rest
    <3> QED BY <3>1
  <2> QED BY <2>2, <2>3, <2>4
<1> QED BY <1>1, <1>2

\* What a cache follows does not change while neither side moves.
LEMMA Still ==
    ASSUME NEW i \in Caches, Follows(i), Rest(i)' = Rest(i),
           Flight(i - 1)' = Flight(i - 1), Up(i - 1)' = Up(i - 1),
           \A k \in Keys : Held(i, k)' = Held(i, k)
    PROVE  Follows(i)'
BY DEF Follows

\* The source changes and has an event to say so.
LEMMA Grows ==
    ASSUME CacheInv, NEW i \in Caches, Follows(i), NEW e \in Event,
           queue'[i] = queue[i], pc'[i] = pc[i], todo'[i] = todo[i],
           snap'[i] = snap[i], data'[i] = data[i],
           Flight(i - 1)' = Append(Flight(i - 1), e),
           \A k \in Keys : Up(i - 1)'[k] = IF k = e.key THEN e.val ELSE Up(i - 1)[k]
    PROVE  Follows(i)'
<1> SUFFICES ASSUME NEW k \in Keys
             PROVE  After(k, Rest(i)' \o Flight(i - 1)', Held(i, k)') = Up(i - 1)'[k]
  BY DEF Follows
<1>1. PICK r \in Seq(Event), f \in Seq(Event) : r = Rest(i) /\ f = Flight(i - 1)
  BY Typed, Ranges
<1>2. r \o f \in Seq(Event) /\ r \o Append(f, e) = Append(r \o f, e)
  BY ConcatProperties, AppendedEvent
<1>3. Rest(i)' = r /\ Flight(i - 1)' = Append(f, e)
  BY <1>1 DEF Rest
<1>4. After(k, Append(r \o f, e), Held(i, k)')
        = IF e.key = k THEN e.val ELSE After(k, r \o f, Held(i, k)')
  <2>1. PICK v : v = Held(i, k)'
    OBVIOUS
  <2>2. PICK c \in Seq(Event) : c = r \o f
    BY <1>2
  <2>3. After(k, Append(c, e), v) = IF e.key = k THEN e.val ELSE After(k, c, v)
    BY AfterAppend
  <2> QED BY <2>1, <2>2, <2>3
<1>5. CASE e.key = k
  BY <1>2, <1>3, <1>4, <1>5
<1>6. CASE e.key # k
  <2>1. Up(i - 1)'[k] = Up(i - 1)[k]
    BY <1>6
  <2>2. Held(i, k)' = Held(i, k)
    BY <2>1 DEF Held
  <2>3. After(k, r \o f, Held(i, k)) = Up(i - 1)[k]
    BY <1>1 DEF Follows
  <2> QED BY <1>2, <1>3, <1>4, <1>6, <2>1, <2>2, <2>3
<1> QED BY <1>5, <1>6

\* So does what it has still to emit.
LEMMA GrowsSettled ==
    ASSUME CacheInv, NEW s \in Sources, Settled(s), NEW e \in Event,
           Flight(s)' = Append(Flight(s), e),
           \A k \in Keys : Up(s)'[k] = IF k = e.key THEN e.val ELSE Up(s)[k]
    PROVE  Settled(s)'
<1> SUFFICES ASSUME NEW k \in Keys
             PROVE  After(k, Flight(s)', Up(s)'[k]) = Up(s)'[k]
  BY DEF Settled
<1>1. PICK f \in Seq(Event) : f = Flight(s)
  <2>1. \E i \in Caches : TRUE
    BY CacheAssumption DEF Caches
  <2> QED BY <2>1, Typed
<1>2. After(k, Append(f, e), Up(s)'[k])
        = IF e.key = k THEN e.val ELSE After(k, f, Up(s)'[k])
  BY AfterAppend
<1>3. e.key # k => Up(s)'[k] = Up(s)[k] /\ After(k, f, Up(s)[k]) = Up(s)[k]
  BY <1>1 DEF Settled
<1> QED BY <1>1, <1>2, <1>3

\* The source emits: the event goes from what it had still to emit to the
\* queue of its watcher.
LEMMA ShrinksSettled ==
    ASSUME CacheInv, NEW s \in Sources, Settled(s), Flight(s) # <<>>,
           Flight(s)' = Tail(Flight(s)), Up(s)' = Up(s)
    PROVE  Settled(s)'
<1> SUFFICES ASSUME NEW k \in Keys
             PROVE  After(k, Flight(s)', Up(s)[k]) = Up(s)[k]
  BY DEF Settled
<1>1. PICK f \in Seq(Event) : f = Flight(s)
  <2>1. \E i \in Caches : TRUE
    BY CacheAssumption DEF Caches
  <2> QED BY <2>1, Typed
<1>2. PICK t \in Seq(Event) : t = Tail(f)
  BY <1>1, HeadTailProperties
<1>3. PICK v : v = Up(s)[k]
  OBVIOUS
<1>4. After(k, f, v) = v
  BY <1>1, <1>3 DEF Settled
<1>5. After(k, f, v) = After(k, t, IF Head(f).key = k THEN Head(f).val ELSE v)
  BY <1>1, <1>2, AfterTail
<1>6. After(k, t, v) = v
  BY <1>4, <1>5, AfterSettled
<1> QED BY <1>1, <1>2, <1>3, <1>6

\* An event that moves into the queue of the next cache is on the way as before.
LEMMA Passes ==
    ASSUME CacheInv, NEW i \in Caches, Follows(i), Flight(i - 1) # <<>>,
           queue'[i] = Append(queue[i], Head(Flight(i - 1))),
           Flight(i - 1)' = Tail(Flight(i - 1)), Up(i - 1)' = Up(i - 1),
           pc'[i] = pc[i], todo'[i] = todo[i], snap'[i] = snap[i], data'[i] = data[i],
           Settled(i - 1)'
    PROVE  Follows(i)'
<1> SUFFICES ASSUME NEW k \in Keys
             PROVE  After(k, Rest(i)' \o Flight(i - 1)', Held(i, k)') = Up(i - 1)[k]
  BY DEF Follows
<1>1. PICK r \in Seq(Event), f \in Seq(Event) : r = Rest(i) /\ f = Flight(i - 1)
  BY Typed, Ranges
<1>2. PICK h \in Event, t \in Seq(Event) : h = Head(f) /\ t = Tail(f)
  BY <1>1, HeadTailProperties
<1>3. queue[i] \in Seq(Message) /\ h \in Message
  BY DEF CacheInv, TypeOK, Message
<1>4. Held(i, k)' = Held(i, k) /\ After(k, r \o f, Held(i, k)) = Up(i - 1)[k]
  BY <1>1 DEF Held, Follows
<1>5. CASE pc[i] = "init" /\ queue[i] = <<>>
  <2>1. queue'[i] = <<h>> /\ Tail(<<h>>) = <<>> /\ <<h>> # <<>>
    BY <1>1, <1>2, <1>5
  <2>2. Rest(i)' = <<>> /\ Held(i, k)' = Up(i - 1)[k]
    BY <1>5, <2>1 DEF Rest, Held
  <2>3. <<>> \o t = t
    BY ConcatEmptySeq
  <2>4. After(k, t, Up(i - 1)[k]) = Up(i - 1)[k]
    BY <1>1, <1>2 DEF Settled
  <2> QED BY <1>1, <1>2, <2>2, <2>3, <2>4
<1>6. CASE ~(pc[i] = "init" /\ queue[i] = <<>>)
  <2>1. queue'[i] = Append(queue[i], h) /\ Append(queue[i], h) # <<>>
    BY <1>1, <1>2, <1>3, AppendProperties
  <2>2. queue[i] # <<>> => Tail(Append(queue[i], h)) = Append(Tail(queue[i]), h)
    BY <1>3, HeadTailAppend
  <2>3. Rest(i)' = Append(r, h)
    BY <1>1, <1>6, <2>1, <2>2 DEF Rest
  <2>4. Append(r, h) \o t = r \o f
    BY <1>1, <1>2, MovedEvent
  <2> QED BY <1>1, <1>2, <1>4, <2>3, <2>4
<1> QED BY <1>5, <1>6

\* A watcher that has just been told that its source is initialised.
LEMMA Begins ==
    ASSUME NEW i \in Caches, pc'[i] = "init", queue'[i] = <<OpInit>>,
           Flight(i - 1)' \in Seq(Event), Settled(i - 1)'
    PROVE  Follows(i)'
<1>1. Tail(<<OpInit>>) = <<>> /\ <<OpInit>> # <<>>
  OBVIOUS
<1>2. Rest(i)' = <<>>
  BY <1>1 DEF Rest
<1>3. \A k \in Keys : Held(i, k)' = Up(i - 1)'[k]
  BY DEF Held
<1>4. PICK f \in Seq(Event) : f = Flight(i - 1)'
  OBVIOUS
<1>5. <<>> \o f = f
  BY ConcatEmptySeq
<1> QED BY <1>2, <1>3, <1>4, <1>5 DEF Follows, Settled

\* Nothing to emit.
LEMMA EmptySettled == ASSUME NEW s, Flight(s) = <<>> PROVE Settled(s)
<1>1. \A n \in 1..Len(<<>>) : FALSE
  OBVIOUS
<1>2. \A k, v : After(k, <<>>, v) = v
  BY <1>1, AfterNone
<1> QED BY <1>2 DEF Settled

-----------------------------------------------------------------------------
\* What a step of cache j leaves alone.
Others(j) ==
    \A i \in Caches : i # j =>
       /\ queue'[i] = queue[i] /\ pc'[i] = pc[i] /\ todo'[i] = todo[i]
       /\ snap'[i] = snap[i] /\ data'[i] = data[i] /\ cur'[i] = cur[i]

\* A step of a cache that is not, or no longer, a source: only what the cache
\* itself follows can be disturbed.
LEMMA OwnStep ==
    ASSUME CacheInv, FollowInv, NEW j \in Caches, Others(j), UNCHANGED <<store, wire>>,
           open' \subseteq open \cup {j}, ready' \subseteq ready, j \notin ready',
           pc'[j] # "emit", j \in open' /\ j - 1 \in ready' => Follows(j)', Served'
    PROVE  FollowInv'
<1>0. open \subseteq Caches
  BY DEF CacheInv, TypeOK
<1>1. ASSUME NEW s \in Sources PROVE Settled(s)'
  <2>1. CASE s = j
    <3>1. Flight(s)' = <<>>
      BY <2>1, Ranges DEF Flight
    <3>2. \A n \in 1..Len(<<>>) : FALSE
      OBVIOUS
    <3>3. \A k, v : After(k, <<>>, v) = v
      BY <3>2, AfterNone
    <3> QED BY <3>1, <3>3 DEF Settled
  <2>2. CASE s # j
    <3>1. s = 0 \/ s \in Caches
      BY Ranges DEF Sources, Caches
    <3>2. Flight(s)' = Flight(s) /\ Up(s)' = Up(s)
      BY <2>2, <3>1 DEF Flight, Up, Others
    <3> QED BY <3>2 DEF FollowInv, Settled
  <2> QED BY <2>1, <2>2
<1>2. ASSUME NEW i \in open', i - 1 \in ready' PROVE Follows(i)'
  <2>1. CASE i = j
    BY <1>2, <2>1
  <2>2. CASE i # j
    <3>1. i \in Caches /\ i \in open /\ i - 1 \in ready /\ i - 1 # j
      BY <1>0, <1>2, <2>2
    <3>2. i - 1 = 0 \/ i - 1 \in Caches
      BY <3>1, Ranges DEF Sources, Caches
    <3>3. Flight(i - 1)' = Flight(i - 1) /\ Up(i - 1)' = Up(i - 1)
      BY <3>1, <3>2 DEF Flight, Up, Others
    <3>4. Rest(i)' = Rest(i) /\ \A k \in Keys : Held(i, k)' = Held(i, k)
      BY <2>2, <3>1, <3>3 DEF Rest, Held, Others
    <3>5. Follows(i)
      BY <3>1 DEF FollowInv
    <3> QED BY <3>1, <3>3, <3>4, <3>5, Still
  <2> QED BY <2>1, <2>2
<1> QED BY <1>1, <1>2 DEF FollowInv

\* The source of a cache is another one.
LEMMA SourceStands ==
    ASSUME NEW j \in Caches, Others(j), UNCHANGED <<store, wire>>
    PROVE  Flight(j - 1)' = Flight(j - 1) /\ Up(j - 1)' = Up(j - 1)
<1>1. j - 1 = 0 \/ (j - 1 \in Caches /\ j - 1 # j)
  BY Ranges DEF Sources, Caches
<1> QED BY <1>1 DEF Flight, Up, Others

\* A new watcher: whatever is still to be emitted does no harm.
LEMMA NewWatcherFollows ==
    ASSUME CacheInv, FollowInv, NEW j \in Caches, NewWatcher(j) PROVE FollowInv'
<1>0. /\ UNCHANGED <<store, wire, ready, todo, snap, data, ok, cur>>
      /\ pc[j] = "idle" /\ open' = open \cup {j} /\ pc' = [pc EXCEPT ![j] = "init"]
      /\ queue' = [queue EXCEPT ![j] = IF j - 1 \in ready THEN <<OpInit>> ELSE <<>>]
  BY DEF NewWatcher, contents, Goto
<1>1. /\ pc \in [Caches -> Labels] /\ queue \in [Caches -> Seq(Message)] /\ open \subseteq Caches
      /\ j \notin ready
  BY <1>0 DEF CacheInv, TypeOK, Message, Orderly
<1>2. Others(j) /\ pc'[j] = "init"
  BY <1>0, <1>1 DEF Others
<1>3. ASSUME j - 1 \in ready PROVE Follows(j)'
  <2>1. queue'[j] = <<OpInit>>
    BY <1>0, <1>1, <1>3
  <2>2. Flight(j - 1)' = Flight(j - 1) /\ Up(j - 1)' = Up(j - 1)
    BY <1>0, <1>2, SourceStands
  <2>3. Settled(j - 1)' /\ Flight(j - 1)' \in Seq(Event)
    BY <2>2, Typed, Ranges DEF FollowInv, Settled
  <2> QED BY <1>2, <2>1, <2>3, Begins
<1>4. Served'
  BY <1>0, <1>1 DEF FollowInv, Served
<1> QED BY <1>0, <1>1, <1>2, <1>3, <1>4, OwnStep

\* OpInit is received and the fetch begins: nothing is held yet.
LEMMA ReceiveInitFollows ==
    ASSUME CacheInv, FollowInv, NEW j \in Caches, ReceiveInit(j) PROVE FollowInv'
<1>0. /\ UNCHANGED <<store, wire, ready, open, snap, data, ok, cur>>
      /\ pc[j] = "init" /\ Len(queue[j]) > 0 /\ pc' = [pc EXCEPT ![j] = "fetch"]
      /\ queue' = [queue EXCEPT ![j] = Tail(@)] /\ todo' = [todo EXCEPT ![j] = Keys]
  BY DEF ReceiveInit, contents, Goto
<1>1. /\ pc \in [Caches -> Labels] /\ queue \in [Caches -> Seq(Message)] /\ open \subseteq Caches
      /\ todo \in [Caches -> SUBSET Keys] /\ j \notin ready
  BY <1>0 DEF CacheInv, TypeOK, Message, Orderly
<1>2. Others(j) /\ pc'[j] = "fetch" /\ todo'[j] = Keys
  BY <1>0, <1>1 DEF Others
<1>3. ASSUME j \in open, j - 1 \in ready PROVE Follows(j)'
  <2>1. Flight(j - 1)' = Flight(j - 1) /\ Up(j - 1)' = Up(j - 1)
    BY <1>0, <1>2, SourceStands
  <2>2. queue[j] # <<>> /\ queue'[j] = Tail(queue[j])
    BY <1>0, <1>1, EmptySeq
  <2>3. Rest(j)' = Rest(j)
    BY <1>0, <1>2, <2>2 DEF Rest
  <2>4. \A k \in Keys : Held(j, k)' = Held(j, k)
    BY <1>0, <1>2, <2>1 DEF Held
  <2> QED BY <1>3, <2>1, <2>3, <2>4, Still DEF FollowInv
<1>4. Served'
  BY <1>0, <1>1 DEF FollowInv, Served
<1> QED BY <1>0, <1>1, <1>2, <1>3, <1>4, OwnStep

\* A collection is fetched from the very source whose events are followed.
LEMMA FetchFollows ==
    ASSUME CacheInv, FollowInv, NEW j \in Caches, Fetch(j) PROVE FollowInv'
<1>0. /\ UNCHANGED <<store, wire, ready, open, queue, pc, data, ok, cur>> /\ pc[j] = "fetch"
  BY DEF Fetch, contents, watching
<1>1. PICK k0 \in todo[j] : /\ snap' = [snap EXCEPT ![j][k0] = Read(j)[k0]]
                            /\ todo' = [todo EXCEPT ![j] = @ \ {k0}]
  BY DEF Fetch
<1>2. /\ todo \in [Caches -> SUBSET Keys] /\ snap \in [Caches -> Contents] /\ k0 \in Keys
      /\ open \subseteq Caches /\ j \notin ready
  BY <1>0 DEF CacheInv, TypeOK, Orderly
<1>3. Others(j)
  BY <1>0, <1>1, <1>2 DEF Others
<1>4. ASSUME j \in open, j - 1 \in ready PROVE Follows(j)'
  <2>1. Flight(j - 1)' = Flight(j - 1) /\ Up(j - 1)' = Up(j - 1)
    BY <1>0, <1>3, SourceStands
  <2>2. Read(j) = Up(j - 1)
    <3>1. CASE j = 1
      BY <3>1 DEF Read, Up
    <3>2. CASE j # 1
      <4>1. j > 1 /\ j - 1 \in Caches /\ j - 1 # 0
        BY <3>2, Ranges DEF Caches
      <4>2. pc[j - 1] \in {"watch", "emit"}
        BY <1>4, <4>1 DEF CacheInv, Orderly
      <4>3. j - 1 \in ok
        BY <4>1, <4>2 DEF FollowInv, Served
      <4> QED BY <4>1, <4>3 DEF Read, Up
    <3> QED BY <3>1, <3>2
  <2>3. snap'[j][k0] = Up(j - 1)[k0] /\ \A k \in Keys : k # k0 => snap'[j][k] = snap[j][k]
    BY <1>1, <1>2, <2>2 DEF Contents
  <2>4. todo'[j] = todo[j] \ {k0}
    BY <1>1, <1>2
  <2>5. \A k \in Keys : Held(j, k)' = Held(j, k)
    BY <1>0, <2>1, <2>3, <2>4, <1>1 DEF Held
  <2>6. Rest(j)' = Rest(j)
    BY <1>0 DEF Rest
  <2> QED BY <1>4, <2>1, <2>5, <2>6, Still DEF FollowInv
<1>5. Served'
  BY <1>0 DEF FollowInv, Served
<1>6. open' \subseteq open \cup {j} /\ ready' \subseteq ready /\ j \notin ready' /\ pc'[j] # "emit"
  BY <1>0, <1>2
<1> QED BY <1>0, <1>3, <1>4, <1>5, <1>6, OwnStep

\* The steps of an apply leave what is held as it is.
LEMMA BeginApplyFollows ==
    ASSUME CacheInv, FollowInv, NEW j \in Caches, BeginApply(j) PROVE FollowInv'
<1>0. /\ UNCHANGED <<store, wire, ready, open, queue, snap, data, cur>>
      /\ pc[j] = "fetch" /\ todo[j] = {} /\ pc' = [pc EXCEPT ![j] = "apply"] /\ ok' = ok \ {j}
      /\ todo' = [todo EXCEPT ![j] = Keys]
  BY DEF BeginApply, watching, Goto
<1>1. /\ pc \in [Caches -> Labels] /\ open \subseteq Caches
      /\ todo \in [Caches -> SUBSET Keys] /\ j \notin ready
  BY <1>0 DEF CacheInv, TypeOK, Orderly
<1>2. Others(j) /\ pc'[j] = "apply" /\ todo'[j] = Keys
  BY <1>0, <1>1 DEF Others
<1>3. ASSUME j \in open, j - 1 \in ready PROVE Follows(j)'
  <2>1. Flight(j - 1)' = Flight(j - 1) /\ Up(j - 1)' = Up(j - 1)
    BY <1>0, <1>2, SourceStands
  <2>2. Rest(j)' = Rest(j) /\ \A k \in Keys : Held(j, k)' = Held(j, k)
    BY <1>0, <1>2 DEF Rest, Held
  <2> QED BY <1>3, <2>1, <2>2, Still DEF FollowInv
<1>4. Served'
  BY <1>0, <1>1 DEF FollowInv, Served
<1> QED BY <1>0, <1>1, <1>2, <1>3, <1>4, OwnStep

\* A cache applies what it fetched, collection by collection.
LEMMA ApplyFollows ==
    ASSUME CacheInv, FollowInv, NEW j \in Caches, Apply(j) PROVE FollowInv'
<1>0. UNCHANGED <<store, wire, ready, open, queue, pc, snap, ok, cur>> /\ pc[j] = "apply"
  BY DEF Apply, watching
<1>1. PICK k0 \in todo[j] : /\ data' = [data EXCEPT ![j][k0] = snap[j][k0]]
                            /\ todo' = [todo EXCEPT ![j] = @ \ {k0}]
  BY DEF Apply
<1>2. /\ todo \in [Caches -> SUBSET Keys] /\ data \in [Caches -> Contents] /\ k0 \in Keys
      /\ open \subseteq Caches /\ j \notin ready
  BY <1>0 DEF CacheInv, TypeOK, Orderly
<1>3. Others(j)
  BY <1>0, <1>1, <1>2 DEF Others
<1>4. ASSUME j \in open, j - 1 \in ready PROVE Follows(j)'
  <2>1. Flight(j - 1)' = Flight(j - 1) /\ Up(j - 1)' = Up(j - 1)
    BY <1>0, <1>3, SourceStands
  <2>3. data'[j][k0] = snap[j][k0] /\ \A k \in Keys : k # k0 => data'[j][k] = data[j][k]
    BY <1>1, <1>2 DEF Contents
  <2>4. todo'[j] = todo[j] \ {k0}
    BY <1>1, <1>2
  <2>5. \A k \in Keys : Held(j, k)' = Held(j, k)
    BY <1>0, <2>3, <2>4, <1>1 DEF Held
  <2>6. Rest(j)' = Rest(j)
    BY <1>0 DEF Rest
  <2> QED BY <1>4, <2>1, <2>5, <2>6, Still DEF FollowInv
<1>5. Served'
  BY <1>0 DEF FollowInv, Served
<1>6. open' \subseteq open \cup {j} /\ ready' \subseteq ready /\ j \notin ready' /\ pc'[j] # "emit"
  BY <1>0, <1>2
<1> QED BY <1>0, <1>3, <1>4, <1>5, <1>6, OwnStep

\* After the last one the cache is readable, with what it held already.
LEMMA EndApplyFollows ==
    ASSUME CacheInv, FollowInv, NEW j \in Caches, EndApply(j) PROVE FollowInv'
<1>0. /\ UNCHANGED <<store, wire, ready, open, queue, todo, data, cur>>
      /\ pc[j] = "apply" /\ todo[j] = {} /\ pc' = [pc EXCEPT ![j] = "setinit"]
      /\ ok' = ok \cup {j} /\ snap' = [snap EXCEPT ![j] = Nothing]
  BY DEF EndApply, watching, Goto
<1>1. /\ pc \in [Caches -> Labels] /\ open \subseteq Caches
      /\ snap \in [Caches -> Contents] /\ j \notin ready
  BY <1>0 DEF CacheInv, TypeOK, Orderly
<1>2. Others(j) /\ pc'[j] = "setinit"
  BY <1>0, <1>1 DEF Others
<1>3. ASSUME j \in open, j - 1 \in ready PROVE Follows(j)'
  <2>1. Flight(j - 1)' = Flight(j - 1) /\ Up(j - 1)' = Up(j - 1)
    BY <1>0, <1>2, SourceStands
  <2>2. Rest(j)' = Rest(j) /\ \A k \in Keys : Held(j, k)' = Held(j, k)
    BY <1>0, <1>2 DEF Rest, Held
  <2> QED BY <1>3, <2>1, <2>2, Still DEF FollowInv
<1>4. Served'
  BY <1>0, <1>1 DEF FollowInv, Served
<1> QED BY <1>0, <1>1, <1>2, <1>3, <1>4, OwnStep

\* A loop that ends takes its own watcher and its watchers with it.
LEMMA LeavingFollows ==
    ASSUME CacheInv, FollowInv, NEW j \in Caches, NEW l \in {"idle", "off"},
           pc' = [pc EXCEPT ![j] = l], Forgets(j), UNCHANGED <<store, wire>>,
           \A i \in Caches : i # j => data'[i] = data[i],
           ok \subseteq ok' \cup {j},
           \/ Reset(j, {j})
           \/ j \notin ready /\ open' = open \ {j} /\ ready' = ready
    PROVE  FollowInv'
<1>1. /\ pc \in [Caches -> Labels] /\ open \subseteq Caches /\ cur \in [Caches -> Message]
      /\ queue \in [Caches -> Seq(Message)] /\ todo \in [Caches -> SUBSET Keys]
      /\ snap \in [Caches -> Contents]
  BY DEF CacheInv, TypeOK, Message
<1>2. Others(j) /\ pc'[j] = l
  BY <1>1 DEF Others, Forgets
<1>3. j \notin open' /\ open' \subseteq open /\ j \notin ready' /\ ready' \subseteq ready
  BY DEF Reset
<1>4. Served'
  BY <1>1, <1>3 DEF FollowInv, Served
<1> QED BY <1>2, <1>3, <1>4, OwnStep

-----------------------------------------------------------------------------
\* A step of source s, which changes the queue of its watcher at most.
Around(s) ==
    /\ s # 0 => UNCHANGED <<store, wire>>
    /\ \A i \in Caches : i # s =>
          /\ pc'[i] = pc[i] /\ todo'[i] = todo[i] /\ snap'[i] = snap[i]
          /\ data'[i] = data[i] /\ cur'[i] = cur[i]
    /\ \A i \in Caches : i \notin {s, s + 1} => queue'[i] = queue[i]

\* A step of one source concerns its own cache and the one that follows it.
LEMMA SourceStep ==
    ASSUME CacheInv, FollowInv, NEW s \in Sources, Around(s),
           open' \subseteq open, ready' \subseteq ready \cup {s}, Settled(s)',
           s \in open' /\ s - 1 \in ready' => Follows(s)',
           s + 1 \in open' /\ s \in ready' => Follows(s + 1)', Served'
    PROVE  FollowInv'
<1>0. open \subseteq Caches /\ s \in Int
  BY Ranges DEF CacheInv, TypeOK, Sources
<1>1. ASSUME NEW r \in Sources, r # s
      PROVE  Flight(r)' = Flight(r) /\ Up(r)' = Up(r)
  <2>1. r = 0 \/ r \in Caches
    BY Ranges DEF Sources, Caches
  <2> QED BY <1>1, <2>1 DEF Flight, Up, Around
<1>2. ASSUME NEW r \in Sources PROVE Settled(r)'
  BY <1>1 DEF FollowInv, Settled
<1>3. ASSUME NEW i \in open', i - 1 \in ready' PROVE Follows(i)'
  <2>0. i \in Caches /\ i \in open /\ i \in Int /\ i - 1 \in Sources
    BY <1>0, Ranges
  <2>1. CASE i = s
    BY <1>3, <2>1
  <2>2. CASE i = s + 1
    <3>1. i - 1 = s
      BY <1>0, <2>2
    <3> QED BY <1>3, <2>2, <3>1
  <2>3. CASE i # s /\ i # s + 1
    <3>1. i - 1 # s /\ i - 1 \in ready
      BY <1>0, <1>3, <2>0, <2>3
    <3>2. Flight(i - 1)' = Flight(i - 1) /\ Up(i - 1)' = Up(i - 1)
      BY <1>1, <2>0, <3>1
    <3>3. Rest(i)' = Rest(i) /\ \A k \in Keys : Held(i, k)' = Held(i, k)
      BY <2>0, <2>3, <3>2 DEF Rest, Held, Around
    <3>4. Follows(i)
      BY <2>0, <3>1 DEF FollowInv
    <3> QED BY <2>0, <3>2, <3>3, <3>4, Still
  <2> QED BY <2>1, <2>2, <2>3
<1> QED BY <1>2, <1>3 DEF FollowInv

\* What Publish does to the one watcher of a source that stays open.
LEMMA Published ==
    ASSUME CacheInv, NEW s \in Sources, NEW e, Publish(s, e)
    PROVE  /\ open' \subseteq open
           /\ \A i \in Caches : i # s + 1 => queue'[i] = queue[i]
           /\ s + 1 \in open' => /\ s + 1 \in Caches /\ s + 1 \in open
                                 /\ queue'[s + 1] = Append(queue[s + 1], e)
<1>1. open \subseteq Caches /\ queue \in [Caches -> Seq(Message)]
  BY DEF CacheInv, TypeOK, Message
<1> QED BY <1>1 DEF Publish

\* SetInit of a source that has nothing to emit: its watcher hears OpInit.
LEMMA SetInitBegins ==
    ASSUME CacheInv, NEW s \in Sources, s \notin ready, SetInit(s),
           \A i \in Caches : i # s => pc'[i] = pc[i],
           Flight(s)' = <<>>, s + 1 \in open'
    PROVE  Follows(s + 1)'
<1>1. Publish(s, OpInit)
  BY DEF SetInit
<1>2. s + 1 \in Caches /\ s + 1 \in open /\ queue'[s + 1] = Append(queue[s + 1], OpInit)
  BY <1>1, Published
<1>3. s \in Int /\ (s + 1) - 1 = s /\ s + 1 # s
  BY Ranges DEF Sources
<1>4. queue[s + 1] = <<>> /\ pc[s + 1] = "init"
  BY <1>2, <1>3 DEF CacheInv, Orderly
<1>5. queue'[s + 1] = <<OpInit>> /\ pc'[s + 1] = "init"
  BY <1>2, <1>3, <1>4
<1>6. Settled((s + 1) - 1)' /\ Flight((s + 1) - 1)' \in Seq(Event)
  <2>1. \A n \in 1..Len(<<>>) : FALSE
    OBVIOUS
  <2>2. \A k, v : After(k, <<>>, v) = v
    BY <2>1, AfterNone
  <2>3. <<>> \in Seq(Event)
    OBVIOUS
  <2> QED BY <1>3, <2>2, <2>3 DEF Settled
<1> QED BY <1>2, <1>5, <1>6, Begins

\* The broadcast of OpInit by a cache.
LEMMA BroadcastInitFollows ==
    ASSUME CacheInv, FollowInv, NEW j \in Caches, BroadcastInit(j) PROVE FollowInv'
<1>0. /\ UNCHANGED <<store, wire, todo, snap, data, ok, cur>>
      /\ pc[j] = "setinit" /\ SetInit(j) /\ pc' = [pc EXCEPT ![j] = "watch"]
      /\ ready' = ready \cup {j} /\ Publish(j, OpInit)
  BY DEF BroadcastInit, contents, SetInit, Goto
<1>1. /\ pc \in [Caches -> Labels] /\ open \subseteq Caches
      /\ j \in Sources /\ j \notin ready /\ j # 0 /\ j \in Int
  BY <1>0, Ranges DEF CacheInv, TypeOK, Orderly
<1>2. /\ open' \subseteq open
      /\ \A i \in Caches : i # j + 1 => queue'[i] = queue[i]
  BY <1>0, <1>1, Published
<1>3. pc'[j] = "watch" /\ \A i \in Caches : i # j => pc'[i] = pc[i]
  BY <1>0, <1>1
<1>4. Around(j)
  BY <1>0, <1>2, <1>3 DEF Around
<1>5. Flight(j)' = <<>>
  BY <1>1, <1>3 DEF Flight
<1>6. Settled(j)'
  <2>1. \A n \in 1..Len(<<>>) : FALSE
    OBVIOUS
  <2>2. \A k, v : After(k, <<>>, v) = v
    BY <2>1, AfterNone
  <2> QED BY <1>5, <2>2 DEF Settled
<1>7. j + 1 \in open' /\ j \in ready' => Follows(j + 1)'
  BY <1>0, <1>1, <1>3, <1>5, SetInitBegins
<1>8. ASSUME j \in open', j - 1 \in ready' PROVE Follows(j)'
  <2>1. j \in open /\ j - 1 \in ready /\ j - 1 \in Sources /\ j - 1 # j /\ j # j + 1
    BY <1>0, <1>1, <1>2, <1>8, Ranges
  <2>2. Flight(j - 1)' = Flight(j - 1) /\ Up(j - 1)' = Up(j - 1)
    <3>1. j - 1 = 0 \/ j - 1 \in Caches
      BY <1>1, <2>1, Ranges DEF Sources, Caches
    <3> QED BY <1>0, <1>3, <2>1, <3>1 DEF Flight, Up
  <2>3. Rest(j)' = Rest(j) /\ \A k \in Keys : Held(j, k)' = Held(j, k)
    BY <1>0, <1>2, <1>3, <2>1 DEF Rest, Held
  <2> QED BY <2>1, <2>2, <2>3, Still DEF FollowInv
<1>9. Served'
  BY <1>0, <1>1, <1>2, <1>3 DEF FollowInv, Served
<1> QED BY <1>0, <1>1, <1>2, <1>4, <1>6, <1>7, <1>8, <1>9, SourceStep

\* An event is processed: the cache has taken it in, and has it to emit.
LEMMA ProcessEventFollows ==
    ASSUME CacheInv, FollowInv, NEW j \in Caches, ProcessEvent(j) PROVE FollowInv'
<1>1. PICK e : e = Head(queue[j])
  OBVIOUS
<1>0. /\ UNCHANGED <<store, wire, ready, open, todo, snap, ok>>
      /\ pc[j] = "watch" /\ Len(queue[j]) > 0 /\ pc' = [pc EXCEPT ![j] = "emit"]
      /\ queue' = [queue EXCEPT ![j] = Tail(@)]
      /\ data' = [data EXCEPT ![j][e.key] = e.val] /\ cur' = [cur EXCEPT ![j] = e]
  BY <1>1 DEF ProcessEvent, Goto
<1>2. /\ pc \in [Caches -> Labels] /\ open \subseteq Caches /\ data \in [Caches -> Contents]
      /\ cur \in [Caches -> Message] /\ queue \in [Caches -> Seq(Message)]
      /\ j \in Sources /\ j # 0 /\ j \in Int
  BY Ranges DEF CacheInv, TypeOK, Message
<1>3. e \in Event /\ e.key \in Keys
  BY <1>0, <1>1, TailOrderly DEF CacheInv, Event
<1>4. /\ pc'[j] = "emit" /\ cur'[j] = e
      /\ \A i \in Caches : i # j => pc'[i] = pc[i] /\ cur'[i] = cur[i] /\ data'[i] = data[i]
                                    /\ queue'[i] = queue[i]
  BY <1>0, <1>2
<1>5. \A k \in Keys : data'[j][k] = IF k = e.key THEN e.val ELSE data[j][k]
  BY <1>0, <1>2, <1>3 DEF Contents
<1>6. Around(j)
  BY <1>0, <1>4 DEF Around
<1>7. /\ Flight(j) = <<>> /\ Flight(j)' = <<e>> /\ <<e>> = Append(<<>>, e)
      /\ \A k \in Keys : Up(j)'[k] = IF k = e.key THEN e.val ELSE Up(j)[k]
  BY <1>0, <1>2, <1>4, <1>5 DEF Flight, Up
<1>8. Settled(j)'
  BY <1>2, <1>3, <1>7, GrowsSettled DEF FollowInv
<1>9. ASSUME j + 1 \in open' PROVE Follows(j + 1)'
  <2>1. j + 1 \in Caches /\ j + 1 \in open /\ (j + 1) - 1 = j /\ j + 1 # j /\ j \in ready
    BY <1>0, <1>2, <1>9 DEF CacheInv, Orderly
  <2>2. Follows(j + 1)
    BY <2>1 DEF FollowInv
  <2>3. /\ queue'[j + 1] = queue[j + 1] /\ pc'[j + 1] = pc[j + 1] /\ todo'[j + 1] = todo[j + 1]
        /\ snap'[j + 1] = snap[j + 1] /\ data'[j + 1] = data[j + 1]
    BY <1>0, <1>4, <2>1
  <2>4. Flight((j + 1) - 1)' = Append(Flight((j + 1) - 1), e)
    BY <1>7, <2>1
  <2>5. \A k \in Keys : Up((j + 1) - 1)'[k] = IF k = e.key THEN e.val ELSE Up((j + 1) - 1)[k]
    BY <1>7, <2>1
  <2> QED BY <1>3, <2>1, <2>2, <2>3, <2>4, <2>5, Grows
<1>10. ASSUME j \in open', j - 1 \in ready' PROVE Follows(j)'
  <2>1. j \in open /\ j - 1 \in ready /\ j - 1 \in Sources /\ j - 1 # j
    BY <1>0, <1>2, <1>10, Ranges
  <2>2. Flight(j - 1)' = Flight(j - 1) /\ Up(j - 1)' = Up(j - 1)
    <3>1. j - 1 = 0 \/ j - 1 \in Caches
      BY <1>2, <2>1, Ranges DEF Sources, Caches
    <3> QED BY <1>0, <1>4, <2>1, <3>1 DEF Flight, Up
  <2>3. SUFFICES ASSUME NEW k \in Keys
                 PROVE  After(k, Rest(j)' \o Flight(j - 1), Held(j, k)') = Up(j - 1)[k]
    BY <2>2 DEF Follows
  <2>4. PICK q \in Seq(Event), f \in Seq(Event) : q = Rest(j) /\ f = Flight(j - 1)
    BY <2>1, Typed
  <2>5. q = queue[j] /\ q # <<>> /\ Rest(j)' = Tail(q) /\ Head(q) = e
    BY <1>0, <1>1, <1>2, <1>4, <2>4, EmptySeq DEF Rest
  <2>6. PICK t \in Seq(Event) : t = Tail(q)
    BY <2>5, HeadTailProperties
  <2>7. PICK c \in Seq(Event) : c = q \o f
    BY ConcatProperties
  <2>8. c # <<>> /\ Head(c) = e /\ Tail(c) = t \o f
    BY <2>5, <2>6, <2>7, TailOfJoined
  <2>9. Held(j, k) = data[j][k] /\ Held(j, k)' = data'[j][k]
    BY <1>0, <1>4 DEF Held
  <2>10. After(k, c, data[j][k]) = Up(j - 1)[k]
    BY <2>1, <2>4, <2>7, <2>9 DEF FollowInv, Follows
  <2>11. PICK v : v = data[j][k]
    OBVIOUS
  <2>12. After(k, c, v) = After(k, Tail(c), IF Head(c).key = k THEN Head(c).val ELSE v)
    BY <2>8, AfterTail
  <2>13. data'[j][k] = IF e.key = k THEN e.val ELSE v
    BY <1>5, <2>11
  <2> QED BY <2>4, <2>5, <2>6, <2>8, <2>9, <2>10, <2>11, <2>12, <2>13
<1>11. Served'
  BY <1>0, <1>2, <1>4 DEF FollowInv, Served
<1> QED BY <1>0, <1>2, <1>6, <1>8, <1>9, <1>10, <1>11, SourceStep

\* The event is passed on, or the watcher is closed.
LEMMA EmitEventFollows ==
    ASSUME CacheInv, FollowInv, NEW j \in Caches, EmitEvent(j) PROVE FollowInv'
<1>0. /\ UNCHANGED <<store, wire, ready, todo, snap, data, ok>>
      /\ pc[j] = "emit" /\ Publish(j, cur[j]) /\ pc' = [pc EXCEPT ![j] = "watch"]
      /\ cur' = [cur EXCEPT ![j] = OpInit]
  BY DEF EmitEvent, contents, Goto
<1>1. /\ pc \in [Caches -> Labels] /\ open \subseteq Caches /\ cur \in [Caches -> Message]
      /\ j \in Sources /\ j # 0 /\ j \in Int /\ cur[j] \in Event
  BY <1>0, Ranges DEF CacheInv, TypeOK, Message, Orderly
<1>2. /\ open' \subseteq open
      /\ \A i \in Caches : i # j + 1 => queue'[i] = queue[i]
      /\ j + 1 \in open' => /\ j + 1 \in Caches /\ j + 1 \in open
                            /\ queue'[j + 1] = Append(queue[j + 1], cur[j])
  BY <1>0, <1>1, Published
<1>3. pc'[j] = "watch" /\ \A i \in Caches : i # j => pc'[i] = pc[i] /\ cur'[i] = cur[i]
  BY <1>0, <1>1
<1>4. Around(j)
  BY <1>0, <1>2, <1>3 DEF Around
<1>5. /\ Flight(j) = <<cur[j]>> /\ Flight(j) # <<>> /\ Head(Flight(j)) = cur[j]
      /\ Tail(Flight(j)) = <<>> /\ Flight(j)' = Tail(Flight(j)) /\ Up(j)' = Up(j)
  <2>1. PICK c : c = cur[j]
    OBVIOUS
  <2>2. <<c>> # <<>> /\ Head(<<c>>) = c /\ Tail(<<c>>) = <<>>
    OBVIOUS
  <2> QED BY <1>0, <1>1, <1>3, <2>1, <2>2 DEF Flight, Up
<1>6. Settled(j)'
  BY <1>1, <1>5, ShrinksSettled DEF FollowInv
<1>7. ASSUME j + 1 \in open' PROVE Follows(j + 1)'
  <2>1. /\ j + 1 \in Caches /\ j + 1 \in open /\ (j + 1) - 1 = j /\ j + 1 # j /\ j \in ready
    BY <1>0, <1>1, <1>2, <1>7 DEF CacheInv, Orderly
  <2>2. Follows(j + 1)
    BY <2>1 DEF FollowInv
  <2>3. /\ pc'[j + 1] = pc[j + 1] /\ todo'[j + 1] = todo[j + 1]
        /\ snap'[j + 1] = snap[j + 1] /\ data'[j + 1] = data[j + 1]
    BY <1>0, <1>3, <2>1
  <2>4. /\ Flight((j + 1) - 1) # <<>> /\ Flight((j + 1) - 1)' = Tail(Flight((j + 1) - 1))
        /\ queue'[j + 1] = Append(queue[j + 1], Head(Flight((j + 1) - 1)))
        /\ Up((j + 1) - 1)' = Up((j + 1) - 1) /\ Settled((j + 1) - 1)'
    BY <1>2, <1>5, <1>6, <1>7, <2>1
  <2> QED BY <2>1, <2>2, <2>3, <2>4, Passes
<1>8. ASSUME j \in open', j - 1 \in ready' PROVE Follows(j)'
  <2>1. j \in open /\ j - 1 \in ready /\ j - 1 \in Sources /\ j - 1 # j /\ j # j + 1
    BY <1>0, <1>1, <1>2, <1>8, Ranges
  <2>2. Flight(j - 1)' = Flight(j - 1) /\ Up(j - 1)' = Up(j - 1)
    <3>1. j - 1 = 0 \/ j - 1 \in Caches
      BY <1>1, <2>1, Ranges DEF Sources, Caches
    <3> QED BY <1>0, <1>3, <2>1, <3>1 DEF Flight, Up
  <2>3. Rest(j)' = Rest(j) /\ \A k \in Keys : Held(j, k)' = Held(j, k)
    BY <1>0, <1>2, <1>3, <2>1 DEF Rest, Held
  <2> QED BY <2>1, <2>2, <2>3, Still DEF FollowInv
<1>9. Served'
  BY <1>0, <1>1, <1>2, <1>3 DEF FollowInv, Served
<1> QED BY <1>0, <1>1, <1>2, <1>4, <1>6, <1>7, <1>8, <1>9, SourceStep

-----------------------------------------------------------------------------
\* A write, and its event on the stream of the database.
LEMMA WriteFollows == ASSUME CacheInv, FollowInv, Write PROVE FollowInv'
<1>0. UNCHANGED <<ready, open, queue, pc, todo, snap, data, ok, cur>>
  BY DEF Write, watching, contents
<1>1. PICK key \in Keys, val \in {0, writes + 1} :
        /\ store' = [store EXCEPT ![key] = val]
        /\ wire' = IF 0 \in ready
                      THEN Append(wire, [type |-> "change", key |-> key, val |-> val])
                      ELSE wire
  BY DEF Write
<1>2. PICK e : e = [type |-> "change", key |-> key, val |-> val]
  OBVIOUS
<1>3. e \in Event /\ e.key = key /\ e.val = val
  <2>1. val \in Values
    BY Ranges DEF Write, CacheInv, TypeOK, Values
  <2> QED BY <1>2, <2>1 DEF Event
<1>4. /\ store \in Contents /\ open \subseteq Caches /\ 0 \in Sources
      /\ \A i \in Caches : i # 0 /\ (i = 0 + 1 => i - 1 = 0)
  BY Ranges DEF CacheInv, TypeOK
<1>5. \A k \in Keys : Up(0)'[k] = IF k = e.key THEN e.val ELSE Up(0)[k]
  BY <1>1, <1>3, <1>4 DEF Up, Contents
<1>6. Around(0)
  BY <1>0, <1>4 DEF Around
<1>7. CASE 0 \in ready
  <2>1. Flight(0)' = Append(Flight(0), e)
    BY <1>1, <1>2, <1>7 DEF Flight
  <2>2. Settled(0)'
    BY <1>3, <1>4, <1>5, <2>1, GrowsSettled DEF FollowInv
  <2>3. ASSUME 0 + 1 \in open' PROVE Follows(0 + 1)'
    <3>1. 0 + 1 \in Caches /\ 0 + 1 \in open /\ (0 + 1) - 1 = 0
      BY <1>0, <1>4, <2>3
    <3>2. Follows(0 + 1)
      BY <1>7, <3>1 DEF FollowInv
    <3>3. /\ Flight((0 + 1) - 1)' = Append(Flight((0 + 1) - 1), e)
          /\ \A k \in Keys : Up((0 + 1) - 1)'[k] = IF k = e.key THEN e.val ELSE Up((0 + 1) - 1)[k]
      BY <1>5, <2>1, <3>1
    <3> QED BY <1>0, <1>3, <3>1, <3>2, <3>3, Grows
  <2>4. Served'
    BY <1>0 DEF FollowInv, Served
  <2> QED BY <1>0, <1>4, <1>6, <2>2, <2>3, <2>4, SourceStep
<1>8. CASE 0 \notin ready
  <2>1. Flight(0)' = <<>>
    BY <1>1, <1>8 DEF Flight, CacheInv, Orderly
  <2>2. Settled(0)'
    <3>1. \A n \in 1..Len(<<>>) : FALSE
      OBVIOUS
    <3>2. \A k, v : After(k, <<>>, v) = v
      BY <3>1, AfterNone
    <3> QED BY <2>1, <3>2 DEF Settled
  <2>4. Served'
    BY <1>0 DEF FollowInv, Served
  <2> QED BY <1>0, <1>4, <1>6, <1>8, <2>2, <2>4, SourceStep
<1> QED BY <1>7, <1>8

\* The event loop hands an event to the buffer; if every lease can be
\* resolved, it leaves none out.
LEMMA PumpFollows ==
    ASSUME CacheInv, FollowInv, Pump, LeaseErrors = FALSE PROVE FollowInv'
<1>0. /\ UNCHANGED <<store, ready, pc, todo, snap, data, ok, cur>>
      /\ wire' = Tail(wire) /\ Len(wire) > 0 /\ Publish(0, Head(wire))
  BY DEF Pump, contents
<1>1. wire \in Seq(Event) /\ wire # <<>> /\ 0 \in ready /\ 0 \in Sources
  BY <1>0, EmptySeq, Ranges DEF CacheInv, TypeOK, Orderly
<1>2. /\ open' \subseteq open
      /\ \A i \in Caches : i # 0 + 1 => queue'[i] = queue[i]
      /\ 0 + 1 \in open' => /\ 0 + 1 \in Caches /\ 0 + 1 \in open
                            /\ queue'[0 + 1] = Append(queue[0 + 1], Head(wire))
  BY <1>0, <1>1, Published
<1>3. Around(0)
  BY <1>0, <1>2 DEF Around
<1>4. /\ Flight(0) = wire /\ Flight(0)' = Tail(Flight(0)) /\ Flight(0) # <<>>
      /\ Up(0)' = Up(0)
  BY <1>0, <1>1 DEF Flight, Up
<1>5. Settled(0)'
  BY <1>1, <1>4, ShrinksSettled DEF FollowInv
<1>6. ASSUME 0 + 1 \in open' PROVE Follows(0 + 1)'
  <2>1. 0 + 1 \in Caches /\ 0 + 1 \in open /\ (0 + 1) - 1 = 0
    BY <1>2, <1>6
  <2>2. Follows(0 + 1)
    BY <1>1, <2>1 DEF FollowInv
  <2>3. /\ Flight((0 + 1) - 1) # <<>> /\ Flight((0 + 1) - 1)' = Tail(Flight((0 + 1) - 1))
        /\ queue'[0 + 1] = Append(queue[0 + 1], Head(Flight((0 + 1) - 1)))
        /\ Up((0 + 1) - 1)' = Up((0 + 1) - 1) /\ Settled((0 + 1) - 1)'
    BY <1>2, <1>4, <1>5, <1>6, <2>1
  <2> QED BY <1>0, <2>1, <2>2, <2>3, Passes
<1>7. Served'
  BY <1>0, <1>2 DEF FollowInv, Served
<1>8. 0 \notin open'
  BY <1>2, Ranges DEF CacheInv, TypeOK
<1> QED BY <1>0, <1>1, <1>2, <1>3, <1>5, <1>6, <1>7, <1>8, SourceStep

\* The stream of the database is lost, and with it the watcher.
LEMMA StreamBreaksFollows == ASSUME CacheInv, FollowInv, StreamBreaks PROVE FollowInv'
<1>0. /\ UNCHANGED <<store, queue, pc, todo, snap, data, ok, cur>>
      /\ wire' = <<>> /\ ready' = ready \ {0} /\ open' \subseteq open
  BY DEF StreamBreaks, contents, Reset
<1>1. 0 \in Sources /\ 0 \notin open'
  BY <1>0, Ranges DEF CacheInv, TypeOK
<1>2. Around(0)
  BY <1>0 DEF Around
<1>3. Settled(0)'
  <2>1. \A n \in 1..Len(<<>>) : FALSE
    OBVIOUS
  <2>2. \A k, v : After(k, <<>>, v) = v
    BY <2>1, AfterNone
  <2> QED BY <1>0, <2>2 DEF Settled, Flight
<1>4. Served'
  BY <1>0 DEF FollowInv, Served
<1> QED BY <1>0, <1>1, <1>2, <1>3, <1>4, SourceStep

\* A new stream starts with nothing on the way.
LEMMA StreamUpFollows == ASSUME CacheInv, FollowInv, StreamUp PROVE FollowInv'
<1>0. /\ UNCHANGED <<store, wire, pc, todo, snap, data, ok, cur>>
      /\ 0 \notin ready /\ SetInit(0) /\ ready' = ready \cup {0} /\ Publish(0, OpInit)
  BY DEF StreamUp, contents, SetInit
<1>1. 0 \in Sources /\ wire = <<>>
  BY <1>0, Ranges DEF CacheInv, Orderly
<1>2. /\ open' \subseteq open
      /\ \A i \in Caches : i # 0 + 1 => queue'[i] = queue[i]
  BY <1>0, <1>1, Published
<1>3. 0 \notin open'
  BY <1>2, Ranges DEF CacheInv, TypeOK
<1>4. Around(0)
  BY <1>0, <1>2 DEF Around
<1>5. Flight(0)' = <<>>
  BY <1>0, <1>1 DEF Flight
<1>6. Settled(0)'
  <2>1. \A n \in 1..Len(<<>>) : FALSE
    OBVIOUS
  <2>2. \A k, v : After(k, <<>>, v) = v
    BY <2>1, AfterNone
  <2> QED BY <1>5, <2>2 DEF Settled
<1>7. 0 + 1 \in open' => Follows(0 + 1)'
  BY <1>0, <1>1, <1>5, SetInitBegins
<1>8. Served'
  BY <1>0, <1>2 DEF FollowInv, Served
<1> QED BY <1>0, <1>1, <1>2, <1>3, <1>4, <1>6, <1>7, <1>8, SourceStep

\* The end of fetchAndWatch, with or without an error.
LEMMA ReturnFollows ==
    ASSUME CacheInv, FollowInv, NEW j \in Caches, Return(j), pc[j] \notin {"off", "emit"},
           \A i \in Caches : i # j => data'[i] = data[i]
    PROVE  FollowInv'
<1>1. /\ pc' = [pc EXCEPT ![j] = "idle"] /\ Forgets(j) /\ UNCHANGED <<store, wire, ok>>
  BY DEF Return, Goto
<1>2. \/ Reset(j, {j})
      \/ j \notin ready /\ open' = open \ {j} /\ ready' = ready
  BY DEF Return, CacheInv, Orderly
<1> QED BY <1>1, <1>2, LeavingFollows

\* The start of a process: its watcher went with the last one.
LEMMA StartFollows ==
    ASSUME CacheInv, FollowInv, NEW j \in Caches, Start(j) PROVE FollowInv'
<1>0. /\ UNCHANGED <<store, wire, ready, open, queue, todo, snap, data, cur>>
      /\ pc[j] = "off" /\ pc' = [pc EXCEPT ![j] = "idle"] /\ ok \subseteq ok'
  BY DEF Start, watching, Goto
<1>1. pc \in [Caches -> Labels] /\ open \subseteq Caches /\ j \notin ready /\ j \notin open
  BY <1>0 DEF CacheInv, TypeOK, Orderly, FollowInv, Served
<1>2. Others(j) /\ pc'[j] = "idle"
  BY <1>0, <1>1 DEF Others
<1>3. Served'
  BY <1>0, <1>1 DEF FollowInv, Served
<1> QED BY <1>0, <1>1, <1>2, <1>3, OwnStep

\* Every step keeps the invariant, if every lease can be resolved.
LEMMA FollowSteps ==
    ASSUME CacheInv, FollowInv, [CacheNext]_vars, LeaseErrors = FALSE PROVE FollowInv'
<1>1. CASE Write \/ Pump \/ StreamBreaks \/ StreamUp
  BY <1>1, WriteFollows, PumpFollows, StreamBreaksFollows, StreamUpFollows
<1>2. ASSUME NEW i \in Caches, Update(i) PROVE FollowInv'
  <2>1. WatcherDone(i) \/ SourceDown(i) => FollowInv'
    BY ReturnFollows DEF WatcherDone, SourceDown
  <2> QED BY <1>2, <2>1, NewWatcherFollows, ReceiveInitFollows, FetchFollows,
             BeginApplyFollows, ApplyFollows, EndApplyFollows, BroadcastInitFollows,
             ProcessEventFollows, EmitEventFollows, StartFollows DEF Update
<1>3. ASSUME NEW i \in Caches, InitTimeout(i) PROVE FollowInv'
  BY <1>3, ReturnFollows DEF InitTimeout
<1>4. ASSUME NEW i \in Caches, CallFails(i) PROVE FollowInv'
  <2>1. Return(i) /\ pc[i] \notin {"off", "emit"}
    BY <1>4 DEF CallFails
  <2>2. \A j \in Caches : j # i => data'[j] = data[j]
    BY <1>4 DEF CallFails, CacheInv, TypeOK
  <2> QED BY <2>1, <2>2, ReturnFollows
<1>5. ASSUME NEW i \in Caches, Crash(i) \/ Stop(i) PROVE FollowInv'
  <2>1. /\ pc' = [pc EXCEPT ![i] = "off"] /\ Forgets(i) /\ UNCHANGED <<store, wire>>
        /\ ok' = ok \ {i} /\ Reset(i, {i}) /\ Survives(i)
    BY <1>5 DEF Crash, Stop, Ends, Goto
  <2>2. \A j \in Caches : j # i => data'[j] = data[j]
    BY <2>1 DEF Survives, CacheInv, TypeOK
  <2> QED BY <2>1, <2>2, LeavingFollows
<1>6. CASE UNCHANGED vars
  <2>1. \A s : Flight(s)' = Flight(s) /\ Up(s)' = Up(s)
    BY <1>6 DEF vars, Flight, Up, watching, contents
  <2>2. \A i : Rest(i)' = Rest(i)
    BY <1>6 DEF vars, Rest, watching
  <2>3. \A i, k : Held(i, k)' = Held(i, k)
    BY <1>6, <2>1 DEF vars, Held, watching, contents
  <2> QED BY <1>6, <2>1, <2>2, <2>3
          DEF vars, watching, contents, FollowInv, Settled, Follows, Served
<1> QED BY <1>1, <1>2, <1>3, <1>4, <1>5, <1>6 DEF CacheNext

\* fetchAndWatch: however a fetch falls between the writes, whatever is lost,
\* closed or restarted meanwhile, a cache that watches an open stream holds
\* every change of its source or is about to receive it.  This needs an event
\* loop that can resolve every lease.
THEOREM NothingMissed ==
    ASSUME LeaseErrors = FALSE PROVE CacheSpec => []NoMissedEvent
<1>1. CacheInit => FollowInv
  <2> SUFFICES ASSUME CacheInit PROVE FollowInv
    OBVIOUS
  <2>1. \A s \in Sources : Flight(s) = <<>>
    BY Ranges DEF CacheInit, Flight, Sources, Caches
  <2>2. \A s \in Sources : Settled(s)
    BY <2>1, EmptySettled
  <2>3. Served /\ open = {}
    BY DEF CacheInit, Served
  <2> QED BY <2>2, <2>3 DEF FollowInv
<1>2. CacheInv /\ FollowInv => NoMissedEvent
  <2> SUFFICES ASSUME CacheInv, FollowInv, NEW i \in Caches \cap open,
                      pc[i] \in {"watch", "emit"}, NEW k \in Keys
               PROVE  After(k, OnTheWay(i), data[i][k])
                        = IF i = 1 THEN store[k] ELSE data[i - 1][k]
    BY DEF NoMissedEvent
  <2>1. i - 1 \in ready
    BY DEF CacheInv, Orderly
  <2>2. i \in Int /\ (i - 1 = 0 <=> i = 1)
    BY Ranges
  <2>3. OnTheWay(i) = Rest(i) \o Flight(i - 1) /\ Held(i, k) = data[i][k]
    BY <2>2 DEF OnTheWay, Rest, Flight, Held
  <2>4. After(k, Rest(i) \o Flight(i - 1), Held(i, k)) = Up(i - 1)[k]
    BY <2>1 DEF FollowInv, Follows
  <2> QED BY <2>2, <2>3, <2>4 DEF Up
<1>3. CacheInv /\ FollowInv /\ [CacheNext]_vars => FollowInv'
  BY FollowSteps
<1> QED BY <1>1, <1>2, <1>3, CacheInvariance, PTL DEF CacheSpec
=============================================================================
