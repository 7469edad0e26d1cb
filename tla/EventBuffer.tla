---------------------------- MODULE EventBuffer ----------------------------
(***************************************************************************)
(* CircularBuffer and BufferWatcher of lib/backend/buffer.go: the buffer   *)
(* of the last events, and the fan-out of events to watchers, each with a  *)
(* channel of limited size and, for a grace period, a backlog.             *)
(*                                                                         *)
(* Every method of the buffer holds its lock and is one step.  A consumer  *)
(* calls Events, which moves backlog to the channel, and receives from the *)
(* channel later: two steps.  Prefixes are the sets of keys they match.    *)
(***************************************************************************)
EXTENDS Integers, Sequences

CONSTANTS Watchers, Keys, NoKey, Watches, MaxEvents,
    Capacity,   \* slots of the circular buffer
    QueueSize,  \* size of a watcher's channel
    Grace       \* backlogGracePeriod, in ticks

ASSUME BufferAssumption ==
    /\ NoKey \notin Keys
    /\ Watches \in [Watchers -> SUBSET Keys]
    /\ MaxEvents \in Nat
    /\ Capacity \in Nat \ {0} /\ QueueSize \in Nat \ {0} /\ Grace \in Nat

OpInit == [key |-> NoKey, n |-> 0]
Event == [key : Keys, n : 1..MaxEvents]
Message == Event \cup {OpInit}
NoEvent == OpInit

VARIABLES
    init, closed,       \* state of the buffer
    ring, start, end, size,
    tree,               \* the registered watchers
    chan,               \* a watcher's eventsC
    backlog,
    age,                \* ticks since backlogSince
    waiting,            \* consumers that are about to receive from the channel
    left,               \* watchers that no consumer holds (any more)
    count,              \* events emitted so far
    log                 \* history: events since the buffer was cleared

ringVars == <<ring, start, end, size, count, log>>
watcherVars == <<chan, backlog, age, waiting>>
vars == <<init, closed, ringVars, tree, watcherVars, left>>

TypeOK ==
    /\ init \in BOOLEAN /\ closed \in BOOLEAN
    /\ ring \in [0..(Capacity - 1) -> Message]
    /\ start \in -1..(Capacity - 1) /\ end \in -1..(Capacity - 1)
    /\ size \in 0..Capacity
    /\ tree \subseteq Watchers /\ left \subseteq Watchers
    /\ chan \in [Watchers -> Seq(Message)]
    /\ \A w \in Watchers : Len(chan[w]) <= QueueSize
    /\ backlog \in [Watchers -> Seq(Message)]
    /\ age \in [Watchers -> 0..(Grace + 1)]
    /\ waiting \subseteq Watchers
    /\ count \in 0..MaxEvents
    /\ log \in Seq(Event)

-----------------------------------------------------------------------------
Init ==
    /\ init = FALSE /\ closed = FALSE
    /\ ring = [i \in 0..(Capacity - 1) |-> NoEvent]
    /\ start = -1 /\ end = -1 /\ size = 0
    /\ tree = {} /\ left = Watchers
    /\ chan = [w \in Watchers |-> <<>>]
    /\ backlog = [w \in Watchers |-> <<>>]
    /\ age = [w \in Watchers |-> 0]
    /\ waiting = {}
    /\ count = 0 /\ log = <<>>

\* flushBacklog: what fits goes from the backlog to the channel.
Room(w) == QueueSize - Len(chan[w])
Fits(w) == IF Len(backlog[w]) <= Room(w) THEN Len(backlog[w]) ELSE Room(w)
FlushedChan(w) == chan[w] \o SubSeq(backlog[w], 1, Fits(w))
FlushedBacklog(w) == SubSeq(backlog[w], Fits(w) + 1, Len(backlog[w]))
Flushes(w) == Len(backlog[w]) <= Room(w)

\* Watchers the event goes to, and those whose backlog is too old for it.
Matching(e) == {w \in tree : e.key \in Watches[w]}
Overdue(e) == {w \in Matching(e) : ~Flushes(w) /\ age[w] > Grace}

\* Mutant: an event that finds a backlog is dropped.
KeptDrops(w, e) ==
    IF Flushes(w) /\ Len(FlushedChan(w)) < QueueSize THEN <<>>
    ELSE IF Flushes(w) THEN <<e>> ELSE FlushedBacklog(w)

\* BufferWatcher.emit, for the channel, the backlog and backlogSince.
Sent(w, e) ==
    IF Flushes(w) /\ Len(FlushedChan(w)) < QueueSize
      THEN Append(FlushedChan(w), e) ELSE FlushedChan(w)
Kept(w, e) ==
    IF Flushes(w) /\ Len(FlushedChan(w)) < QueueSize
      THEN <<>> ELSE Append(FlushedBacklog(w), e)

\* emit: where the event goes, and what it overwrites.
NextEnd ==
    CASE size = 0 -> 0
      [] size > 0 /\ size < Capacity -> (end + 1) % Capacity
      [] OTHER -> start

\* Mutant: a full buffer keeps its start.
NextStartStuck ==
    IF size = 0 THEN 0 ELSE start

NextStart ==
    CASE size = 0 -> 0
      [] size > 0 /\ size < Capacity -> start
      [] OTHER -> (start + 1) % Capacity

Emit ==
    /\ init /\ ~closed
    /\ count < MaxEvents
    /\ \E key \in Keys :
         LET e == [key |-> key, n |-> count + 1]
             to == Matching(e) \ Overdue(e)
         IN  /\ ring' = [ring EXCEPT ![NextEnd] = e]
             /\ start' = NextStart /\ end' = NextEnd
             /\ size' = IF size < Capacity THEN size + 1 ELSE size
             /\ count' = count + 1 /\ log' = Append(log, e)
             /\ tree' = tree \ Overdue(e)
             /\ chan' = [w \in Watchers |->
                            IF w \in to THEN Sent(w, e)
                            ELSE IF w \in Overdue(e) THEN FlushedChan(w) ELSE chan[w]]
             /\ backlog' = [w \in Watchers |->
                               IF w \in to THEN Kept(w, e)
                               ELSE IF w \in Overdue(e) THEN FlushedBacklog(w)
                               ELSE backlog[w]]
             /\ age' = [w \in Watchers |-> IF w \in to /\ Flushes(w) THEN 0 ELSE age[w]]
    /\ UNCHANGED <<init, closed, waiting, left>>

\* clear: the watchers are closed, the buffer is empty.
clear ==
    /\ tree' = {}
    /\ ring' = [i \in 0..(Capacity - 1) |-> NoEvent]
    /\ start' = -1 /\ end' = -1 /\ size' = 0
    /\ log' = <<>>
    /\ UNCHANGED <<count, watcherVars, left>>

Clear == clear /\ UNCHANGED <<init, closed>>
Reset == clear /\ init' = FALSE /\ UNCHANGED closed
Close == clear /\ closed' = TRUE /\ UNCHANGED init

\* SetInit: watchers that wait get OpInit, or are closed if it does not fit.
SetInit ==
    /\ ~init
    /\ init' = TRUE
    /\ tree' = {w \in tree : Len(chan[w]) < QueueSize}
    /\ chan' = [w \in Watchers |-> IF w \in tree' THEN Append(chan[w], OpInit)
                                                 ELSE chan[w]]
    /\ UNCHANGED <<closed, ringVars, backlog, age, waiting, left>>

NewWatcher(w) ==
    /\ ~closed
    /\ w \in left /\ w \notin tree
    /\ tree' = tree \cup {w} /\ left' = left \ {w}
    /\ chan' = [chan EXCEPT ![w] = IF init THEN <<OpInit>> ELSE <<>>]
    /\ backlog' = [backlog EXCEPT ![w] = <<>>]
    /\ age' = [age EXCEPT ![w] = 0]
    /\ waiting' = waiting \ {w}
    /\ UNCHANGED <<init, closed, ringVars>>

-----------------------------------------------------------------------------
\* Mutant: Events leaves the backlog alone.
EventsOfChannel(w) ==
    /\ w \notin left /\ w \notin waiting
    /\ waiting' = waiting \cup {w}
    /\ UNCHANGED <<init, closed, ringVars, tree, chan, backlog, age, left>>

\* The consumer calls Events.
Events(w) ==
    /\ w \notin left /\ w \notin waiting
    /\ chan' = [chan EXCEPT ![w] = FlushedChan(w)]
    /\ backlog' = [backlog EXCEPT ![w] = FlushedBacklog(w)]
    /\ age' = [age EXCEPT ![w] = IF Flushes(w) THEN 0 ELSE @]
    /\ waiting' = waiting \cup {w}
    /\ UNCHANGED <<init, closed, ringVars, tree, left>>

Receive(w) ==
    /\ w \in waiting /\ w \notin left
    /\ Len(chan[w]) > 0
    /\ chan' = [chan EXCEPT ![w] = Tail(@)]
    /\ waiting' = waiting \ {w}
    /\ UNCHANGED <<init, closed, ringVars, tree, backlog, age, left>>

\* BufferWatcher.Close cancels the watcher; another goroutine takes it out of
\* the buffer.
CloseWatcher(w) ==
    /\ w \notin left
    /\ left' = left \cup {w}
    /\ UNCHANGED <<init, closed, ringVars, tree, watcherVars>>

removeWatcherWithLock(w) ==
    /\ w \in left /\ w \in tree
    /\ tree' = tree \ {w}
    /\ UNCHANGED <<init, closed, ringVars, watcherVars, left>>

Tick ==
    /\ \E w \in Watchers : Len(backlog[w]) > 0 /\ age[w] <= Grace
    /\ age' = [w \in Watchers |->
                  IF Len(backlog[w]) > 0 /\ age[w] <= Grace THEN age[w] + 1 ELSE age[w]]
    /\ UNCHANGED <<init, closed, ringVars, tree, chan, backlog, waiting, left>>

Next ==
    \/ Emit \/ Clear \/ Reset \/ Close \/ SetInit \/ Tick
    \/ \E w \in Watchers :
         \/ NewWatcher(w) \/ Events(w) \/ Receive(w)
         \/ CloseWatcher(w) \/ removeWatcherWithLock(w)

Spec == Init /\ [][Next]_vars

-----------------------------------------------------------------------------
\* The circular buffer holds the last events, in order (Events and
\* eventsCopy), whatever has been overwritten or cleared.
eventsCopy == [i \in 1..size |-> ring[(start + i - 1) % Capacity]]
RingIsTail ==
    eventsCopy = IF Len(log) <= Capacity THEN log
                 ELSE SubSeq(log, Len(log) - Capacity + 1, Len(log))

\* "the event channel is non-empty if a backlog does exist": no consumer waits
\* at an empty channel while its backlog has an event for it.
NoStrandedBacklog ==
    \A w \in waiting \ left : Len(chan[w]) = 0 => Len(backlog[w]) = 0

\* The buffer keeps the promise of an event source: OpInit first, every event
\* once and in order through channel and backlog, or the watcher is closed.
Stream == INSTANCE EventStream WITH
    ready <- init, shut <- closed, open <- tree \ left, published <- count,
    pending <- [w \in Watchers |->
                   IF w \in left THEN <<>> ELSE chan[w] \o backlog[w]]
StreamSpec == Stream!StreamSpec
=============================================================================
