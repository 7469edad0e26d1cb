----------------------------- MODULE LockWatcher -----------------------------
(***************************************************************************)
(* The local view of the locks of a cluster, and the monitors that end the *)
(* connections a lock applies to: resourceWatcher and lockCollector of     *)
(* lib/services/watcher.go, StartMonitor and Monitor.start of              *)
(* lib/srv/monitor.go, with Fanout of lib/services/fanout.go in between.   *)
(*                                                                         *)
(* A process has one watch loop, which fetches the locks, applies the      *)
(* events of a stream and passes them on, and one monitor per connection,  *)
(* which checks the view and then subscribes.  What the loop does under    *)
(* the mutex of the view is one step, except that subscribers may come     *)
(* between two of the puts that follow a fetch.                            *)
(*                                                                         *)
(* The source of the stream is a cache: while it is down its streams are   *)
(* closed or stay without OpInit.  Time is relative and no tick passes     *)
(* while the loop can go on: calls take less than a tick.                  *)
(***************************************************************************)
EXTENDS Integers, Sequences, SequencesExt

CONSTANTS
    Names,          \* names of locks
    Sessions,       \* connections, one after the other in the same slot
    Timed,          \* those with an idle timeout or a certificate to expire
    Targets,        \* the locks whose targets match a session
    MaxStaleness,   \* ticks a view may have failed to be updated
    RefetchPeriod,  \* ticks until a watch is started anew
    RetryPeriod,    \* the longest wait between two watches
    QueueSize,      \* events a subscriber may be behind
    MaxWrites,      \* bound: locks put
    MaxOutages      \* bound: failures of the source

ASSUME WatcherAssumption ==
    /\ Timed \subseteq Sessions
    /\ Targets \in [Sessions -> SUBSET Names]
    /\ {MaxStaleness, RefetchPeriod, RetryPeriod, QueueSize} \subseteq Nat \ {0}
    /\ {MaxWrites, MaxOutages} \subseteq Nat

VARIABLES
    stored,     \* the version of each lock at the source, 0 for none
    written,    \* versions given out
    lapsed,     \* versions whose expiry has passed
    up,         \* the source is initialised
    outages,    \* failures so far
    stream,     \* the loop's subscription: its state and the events in it
    pc,         \* where the watch loop is
    failed,     \* the last watch ended with an error
    failing,    \* ticks since failureStartedAt, or NotFailing
    refetch,    \* ticks until refetchC fires
    retry,      \* ticks until retry.After fires
    eager,      \* the retry has been reset: its next wait is none
    view,       \* current, by name
    isStale,    \* the view is known to be stale
    todo,       \* names whose put is still to be passed on after a fetch
    inited,     \* the fan-out to the monitors is initialised
    monitor,    \* where the monitor of each session is
    strict,     \* the connection is in strict locking mode
    queue,      \* the events each monitor has not handled
    over,       \* the subscription was cancelled because its queue was full
    gap,        \* history: events that passed between check and subscription
    overdue     \* history: ticks since a watch first ended with an error, or
                \* NotOverdue if the view has been updated since

sourceVars == <<stored, written, lapsed, up, outages>>
clockVars == <<failing, refetch, retry, overdue>>
viewVars == <<view, isStale, todo>>
monitorVars == <<monitor, strict, queue, over, gap>>
loopVars == <<stream, pc, failed, failing, refetch, retry, eager, overdue, viewVars>>
watcherVars == <<sourceVars, loopVars, inited, monitorVars>>

NotFailing == -1
NotOverdue == -1
NoStream == [state |-> "none", events |-> <<>>]

InForce(v) == v # 0 /\ v \notin lapsed

Put(n) == [op |-> "put", name |-> n]
Deleted(n) == [op |-> "delete", name |-> n]
Unreliable == [op |-> "unreliable"]
Notice == {Put(n) : n \in Names} \cup {Deleted(n) : n \in Names} \cup {Unreliable}

\* What the source sends.
StreamEvent ==
    [op : {"put", "delete"}, name : Names, version : 0..MaxWrites]
        \cup {[op |-> "init"]}

\* The longest time a view is used as current after a watch has ended with an
\* error: the code counts only from the end of the wait that follows, a watch
\* may hang for RefetchPeriod before it looks again, and waits before it does.
StaleLimit == MaxStaleness + RefetchPeriod + 2 * RetryPeriod

WatcherTypeOK ==
    /\ stored \in [Names -> 0..MaxWrites] /\ view \in [Names -> 0..MaxWrites]
    /\ written \in 0..MaxWrites /\ lapsed \subseteq 1..MaxWrites
    /\ up \in BOOLEAN /\ outages \in 0..MaxOutages
    /\ stream \in [state : {"none", "opened", "live", "closed"}, events : Seq(StreamEvent)]
    /\ pc \in {"start", "init", "fetch", "emit", "loop", "retry", "stale",
               "mark", "panicked"}
    /\ failed \in BOOLEAN /\ eager \in BOOLEAN /\ isStale \in BOOLEAN
    /\ failing \in NotFailing..(MaxStaleness + 1)
    /\ overdue \in NotOverdue..(StaleLimit + 1)
    /\ refetch \in 0..RefetchPeriod /\ retry \in 0..RetryPeriod
    /\ todo \subseteq Names /\ inited \in BOOLEAN
    /\ monitor \in [Sessions -> {"none", "checked", "watching", "gone"}]
    /\ queue \in [Sessions -> Seq(Notice)] /\ gap \in [Sessions -> SUBSET Notice]
    /\ \A s \in Sessions : Len(queue[s]) <= QueueSize
    /\ strict \in [Sessions -> BOOLEAN] /\ over \in [Sessions -> BOOLEAN]

Init ==
    /\ stored = [n \in Names |-> 0] /\ view = [n \in Names |-> 0]
    /\ written = 0 /\ lapsed = {}
    /\ up = TRUE /\ outages = 0
    /\ stream = NoStream
    /\ pc = "start" /\ failed = FALSE
    /\ failing = NotFailing /\ overdue = NotOverdue
    /\ refetch = 0 /\ retry = 0 /\ eager = TRUE
    /\ isStale = FALSE /\ todo = {} /\ inited = FALSE
    /\ monitor = [s \in Sessions |-> "none"]
    /\ strict = [s \in Sessions |-> FALSE]
    /\ queue = [s \in Sessions |-> <<>>]
    /\ over = [s \in Sessions |-> FALSE]
    /\ gap = [s \in Sessions |-> {}]

-----------------------------------------------------------------------------
\* The source: locks are put, deleted and expire, and a stream that is live
\* gets the events.
WriteLock(n, v, op) ==
    /\ stored' = [stored EXCEPT ![n] = v]
    /\ stream' = IF stream.state = "live"
                   THEN [stream EXCEPT !.events =
                           Append(@, [op |-> op, name |-> n, version |-> v])]
                   ELSE stream

UpsertLock(n) ==
    /\ written < MaxWrites
    /\ written' = written + 1
    /\ WriteLock(n, written', "put")
    /\ UNCHANGED <<lapsed, up, outages>>

DeleteLock(n) ==
    /\ stored[n] # 0
    /\ WriteLock(n, 0, "delete")
    /\ UNCHANGED <<written, lapsed, up, outages>>

Lapse ==
    /\ \E v \in (1..written) \ lapsed : lapsed' = lapsed \cup {v}
    /\ UNCHANGED <<stored, written, up, outages, stream>>

\* The source goes down, or closes the one stream because it was too slow.
Break ==
    /\ outages < MaxOutages
    /\ outages' = outages + 1
    /\ up' \in {up, FALSE}
    /\ stream' = IF stream.state = "none" THEN stream
                                          ELSE [stream EXCEPT !.state = "closed"]
    /\ UNCHANGED <<stored, written, lapsed>>

\* A source that tries in vain to come up closes the streams that wait.
BreakAgain ==
    /\ ~up
    /\ stream.state = "opened"
    /\ stream' = [stream EXCEPT !.state = "closed"]
    /\ UNCHANGED <<stored, written, lapsed, up, outages>>

Recover ==
    /\ ~up
    /\ up' = TRUE
    /\ UNCHANGED <<stored, written, lapsed, outages, stream>>

\* The stream that waits gets its OpInit, and events from now on.
Establish ==
    /\ up
    /\ stream.state = "opened"
    /\ stream' = [state |-> "live", events |-> <<[op |-> "init"]>>]
    /\ UNCHANGED <<stored, written, lapsed, up, outages>>

Source ==
    /\ \/ \E n \in Names : UpsertLock(n) \/ DeleteLock(n)
       \/ Lapse \/ Break \/ BreakAgain \/ Recover \/ Establish
    /\ UNCHANGED <<pc, failed, clockVars, eager, viewVars, inited, monitorVars>>

-----------------------------------------------------------------------------
\* WatchKind.Matches: the filters of a session apply to puts only.
Concerns(e, s) == e.op = "put" => e.name \in Targets[s]
Told(e, s) == monitor[s] = "watching" /\ ~over[s] /\ Concerns(e, s)

\* Mutants: an event for a full queue is dropped, or taken all the same.
EmitDrops(e) ==
    /\ queue' = [s \in Sessions |->
           IF Told(e, s) /\ Len(queue[s]) < QueueSize THEN Append(queue[s], e)
                                                      ELSE queue[s]]
    /\ UNCHANGED <<monitor, strict, over, gap>>

EmitUnbounded(e) ==
    /\ queue' = [s \in Sessions |->
           IF Told(e, s) THEN Append(queue[s], e) ELSE queue[s]]
    /\ UNCHANGED <<monitor, strict, over, gap>>

\* Fanout.Emit and fanoutWatcher.emit: each subscriber that matches gets the
\* event, or is cancelled if its queue is full.  A session that has checked
\* and not subscribed yet is not told.
Emit(e) ==
    /\ queue' = [s \in Sessions |->
           IF Told(e, s) /\ Len(queue[s]) < QueueSize THEN Append(queue[s], e)
                                                      ELSE queue[s]]
    /\ over' = [s \in Sessions |->
           over[s] \/ (Told(e, s) /\ Len(queue[s]) = QueueSize)]
    /\ gap' = [s \in Sessions |->
           IF monitor[s] = "checked" /\ Concerns(e, s) THEN gap[s] \cup {e}
                                                       ELSE gap[s]]
    /\ UNCHANGED <<monitor, strict>>

\* watch returns: its subscription is closed and the loop waits.
Return(error) ==
    /\ pc' = "retry"
    /\ failed' = error
    /\ stream' = NoStream
    /\ retry' \in IF eager THEN {0} ELSE 1..RetryPeriod
    /\ refetch' = 0
    /\ overdue' = IF error /\ overdue = NotOverdue THEN 0 ELSE overdue
    /\ UNCHANGED <<failing, eager>>

Goto(label) ==
    /\ pc' = label
    /\ UNCHANGED <<failed, clockVars, eager>>

\* NewWatcher: a source that is down fails, or gives a stream that waits.
NewWatcher ==
    /\ pc = "start"
    /\ \/ /\ stream' = [state |-> "opened", events |-> <<>>]
          /\ pc' = "init"
          /\ refetch' = RefetchPeriod
          /\ UNCHANGED <<failed, failing, retry, eager, overdue>>
       \/ ~up /\ Return(TRUE)
    /\ UNCHANGED <<viewVars, monitorVars>>

\* Mutant: the view is fetched before the stream is known to be live.
ReceiveInitEarly ==
    /\ pc = "init"
    /\ Goto("fetch")
    /\ UNCHANGED <<stream, viewVars, monitorVars>>

\* OpInit has come: what is fetched now misses nothing.
ReceiveInit ==
    /\ pc = "init"
    /\ stream.events # <<>>
    /\ Goto("fetch")
    /\ stream' = [stream EXCEPT !.events = Tail(@)]
    /\ UNCHANGED <<viewVars, monitorVars>>

\* The select of watch, before and after OpInit: the stream is closed, or it
\* is time to start anew, which is not an error.
Interrupted ==
    /\ pc \in {"init", "loop"}
    /\ \/ stream.state = "closed" /\ Return(TRUE)
       \/ refetch = 0 /\ Return(FALSE)
    /\ UNCHANGED <<viewVars, monitorVars>>

\* getResourcesAndUpdateCurrent: the locks in force replace the view.
Fetch ==
    /\ pc = "fetch"
    /\ view' = [n \in Names |-> IF InForce(stored[n]) THEN stored[n] ELSE 0]
    /\ isStale' = FALSE
    /\ todo' = {n \in Names : view'[n] # 0}
    /\ Goto("emit")
    /\ UNCHANGED <<stream, monitorVars>>

FetchFails ==
    /\ pc = "fetch"
    /\ ~up
    /\ Return(TRUE)
    /\ UNCHANGED <<viewVars, monitorVars>>

\* Every lock fetched is passed on.  The loop is started before the fan-out is
\* initialised, and a fan-out that is not initialised panics.
EmitFetched ==
    /\ pc = "emit"
    /\ \E n \in todo :
         IF inited THEN Emit(Put(n)) /\ todo' = todo \ {n} /\ Goto("emit")
                   ELSE Goto("panicked") /\ UNCHANGED <<todo, monitorVars>>
    /\ UNCHANGED <<stream, view, isStale>>

\* The view is up to date: the retry and failureStartedAt are reset.
Updated ==
    /\ pc = "emit"
    /\ todo = {}
    /\ pc' = "loop"
    /\ eager' = TRUE
    /\ failing' = NotFailing
    /\ overdue' = NotOverdue
    /\ UNCHANGED <<stream, failed, refetch, retry, viewVars, monitorVars>>

\* processEventAndUpdateCurrent: a lock that is put and not in force any more
\* leaves the view, and nobody is told.  Like in EmitFetched, an Emit before
\* SetInit panics.
ProcessEvent ==
    /\ pc = "loop"
    /\ stream.events # <<>>
    /\ LET e == Head(stream.events)
           kept == e.op = "put" /\ InForce(e.version)
           emitted == kept \/ e.op = "delete"
       IN /\ view' = [view EXCEPT ![e.name] = IF kept THEN e.version ELSE 0]
          /\ IF emitted /\ inited
               THEN Emit(IF kept THEN Put(e.name) ELSE Deleted(e.name))
               ELSE UNCHANGED monitorVars
          /\ Goto(IF emitted /\ ~inited THEN "panicked" ELSE "loop")
    /\ stream' = [stream EXCEPT !.events = Tail(@)]
    /\ UNCHANGED <<isStale, todo>>

\* Mutant: every failure counts from itself.
FailureSinceLast == IF failed THEN 0 ELSE failing

\* failureStartedAt, once the wait is over: the first failure counts.
FailureSince == IF failed /\ failing = NotFailing THEN 0 ELSE failing

\* Mutant: only a watch that ended with an error is asked about.
RestartOnError ==
    /\ pc = "retry"
    /\ retry = 0
    /\ eager' = FALSE
    /\ failed' = FALSE
    /\ failing' = FailureSince
    /\ pc' = IF failed /\ failing' > MaxStaleness THEN "stale" ELSE "start"
    /\ UNCHANGED <<stream, refetch, retry, overdue, viewVars, monitorVars>>

\* runWatchLoop after the wait: hasStaleView is asked, also when the watch has
\* ended without an error.
Restart ==
    /\ pc = "retry"
    /\ retry = 0
    /\ eager' = FALSE
    /\ failed' = FALSE
    /\ failing' = FailureSince
    /\ pc' = IF failing' > MaxStaleness THEN "stale" ELSE "start"
    /\ UNCHANGED <<stream, refetch, retry, overdue, viewVars, monitorVars>>

\* notifyStale tells the subscribers, then marks the view.
NotifyStale ==
    /\ pc = "stale"
    /\ IF inited THEN Emit(Unreliable) /\ Goto("mark")
                 ELSE Goto("panicked") /\ UNCHANGED monitorVars
    /\ UNCHANGED <<stream, viewVars>>

MarkStale ==
    /\ pc = "mark"
    /\ isStale' = TRUE
    /\ Goto("start")
    /\ UNCHANGED <<stream, view, todo, monitorVars>>

WatchLoop ==
    /\ \/ NewWatcher \/ ReceiveInit \/ Interrupted \/ Fetch \/ FetchFails
       \/ EmitFetched \/ Updated \/ ProcessEvent \/ Restart \/ NotifyStale
       \/ MarkStale
    /\ UNCHANGED <<sourceVars, inited>>

\* NewLockWatcher, after the loop has been started.
SetInit ==
    /\ ~inited /\ pc # "panicked"
    /\ inited' = TRUE
    /\ UNCHANGED <<sourceVars, loopVars, monitorVars>>

-----------------------------------------------------------------------------
\* CheckLockInForce, under the mutex of the view.
LockedOut(s, mode) ==
    \/ isStale /\ mode
    \/ \E n \in Targets[s] : InForce(view[n])

\* StartMonitor, first half.  A connection that is refused is closed at once.
Check(s) ==
    /\ inited /\ pc \notin {"emit", "panicked"}
    /\ monitor[s] = "none"
    /\ \E mode \in BOOLEAN :
         /\ ~LockedOut(s, mode)
         /\ strict' = [strict EXCEPT ![s] = mode]
    /\ monitor' = [monitor EXCEPT ![s] = "checked"]
    /\ gap' = [gap EXCEPT ![s] = IF pc = "mark" THEN {Unreliable} ELSE {}]
    /\ UNCHANGED <<queue, over>>

\* Second half: Subscribe, which takes the OpInit of the fan-out.
Subscribe(s) ==
    /\ monitor[s] = "checked"
    /\ monitor' = [monitor EXCEPT ![s] = "watching"]
    /\ UNCHANGED <<strict, queue, over, gap>>

\* The slot is free again, and the subscription closed.
Leave(s) ==
    /\ monitor' = [monitor EXCEPT ![s] = "none"]
    /\ strict' = [strict EXCEPT ![s] = FALSE]
    /\ queue' = [queue EXCEPT ![s] = <<>>]
    /\ over' = [over EXCEPT ![s] = FALSE]
    /\ gap' = [gap EXCEPT ![s] = {}]

\* Monitor.start: an event of the subscription.
Handle(s) ==
    /\ monitor[s] = "watching"
    /\ queue[s] # <<>>
    /\ LET e == Head(queue[s])
       IN IF e.op = "put" \/ (e.op = "unreliable" /\ strict[s])
            THEN Leave(s)
            ELSE /\ queue' = [queue EXCEPT ![s] = Tail(@)]
                 /\ UNCHANGED <<monitor, strict, over, gap>>

\* The subscription is cancelled: a monitor without timers returns, and leaves
\* the connection to itself, whatever is still in its queue.
LoseSubscription(s) ==
    /\ monitor[s] = "watching"
    /\ over[s]
    /\ s \notin Timed
    /\ monitor' = [monitor EXCEPT ![s] = "gone"]
    /\ UNCHANGED <<strict, queue, over, gap>>

\* The client leaves, is idle for too long or its certificate expires.
End(s) ==
    /\ monitor[s] # "none"
    /\ Leave(s)

Monitor(s) ==
    /\ pc # "panicked"
    /\ Check(s) \/ Subscribe(s) \/ Handle(s) \/ LoseSubscription(s) \/ End(s)
    /\ UNCHANGED <<sourceVars, loopVars, inited>>

\* The loop, or the stream it waits for, can go on without the clock.
Due ==
    \/ pc \in {"start", "fetch", "emit", "stale", "mark"}
    \/ pc = "retry" /\ retry = 0
    \/ pc \in {"init", "loop"} /\ (refetch = 0 \/ stream.events # <<>>
                                   \/ stream.state = "closed")
    \/ up /\ stream.state = "opened"

Dec(n) == IF n = 0 THEN 0 ELSE n - 1

\* A counter goes on while it is told apart.
Counted(n, most) == IF n \in {NotFailing, most} THEN n ELSE n + 1

WatcherTick ==
    /\ ~Due /\ pc # "panicked"
    /\ refetch' = Dec(refetch)
    /\ retry' = Dec(retry)
    /\ failing' = Counted(failing, MaxStaleness + 1)
    /\ overdue' = Counted(overdue, StaleLimit + 1)
    /\ UNCHANGED <<sourceVars, stream, pc, failed, eager, viewVars, inited,
                   monitorVars>>

Next == Source \/ WatchLoop \/ SetInit \/ (\E s \in Sessions : Monitor(s)) \/ WatcherTick

Spec == Init /\ [][Next]_watcherVars

\* Goroutines that can go on do, a source that is up answers, and time passes.
\* Nobody has to connect, to leave or to put a lock, and a source that is down
\* may stay so.  select may take any case that is ready.
Fairness ==
    /\ WF_watcherVars(WatchLoop) /\ WF_watcherVars(SetInit) /\ WF_watcherVars(WatcherTick)
    /\ WF_watcherVars(Establish /\ Source)
    /\ \A s \in Sessions :
         WF_watcherVars((Subscribe(s) \/ Handle(s) \/ LoseSubscription(s)) /\ Monitor(s))

FairSpec == Spec /\ Fairness

-----------------------------------------------------------------------------
\* What the view will hold once the events in the stream are applied.
About(n, events) ==
    {i \in DOMAIN events : events[i].op # "init" /\ events[i].name = n}
Upcoming(n) ==
    IF About(n, stream.events) = {} THEN view[n]
        ELSE stream.events[Max(About(n, stream.events))].version

\* "To avoid the scenario" of a fetch before the stream is live: from the
\* fetch on, the view and what is in the stream together are the locks of the
\* source, although events from before the fetch are applied to it again.
ViewFollows ==
    pc \in {"emit", "loop"} /\ stream.state = "live" =>
        \A n \in Names : \/ Upcoming(n) = stored[n]
                         \/ ~InForce(Upcoming(n)) /\ ~InForce(stored[n])

\* A session that is open although a lock of the view applies to it, or
\* although it is strict and the view is stale, has the reason in its queue or
\* is about to be told.  The only thing it can have missed is what passed
\* between its check and its subscription.
MonitorsTold ==
    \A s \in Sessions : monitor[s] = "watching" /\ ~over[s] =>
        LET known == gap[s] \cup ToSet(queue[s])
        IN /\ \A n \in Targets[s] \ todo : InForce(view[n]) => Put(n) \in known
           /\ isStale /\ strict[s] => Unreliable \in known

\* From the first watch that ended with an error on, a view that is not updated
\* is taken for current for MaxStaleness, one watch that hangs and two waits,
\* and no longer.  Nothing is said of a view whose watches end without an
\* error: one that waits for OpInit does, however often it is started anew,
\* and such a view is never marked.
StaleBound == ~isStale /\ pc # "emit" => overdue <= StaleLimit

\* The connection is open, with or without a monitor.
Open(s) == monitor[s] # "none"

\* A connection a lock applies to ends, also one that missed the put between
\* its check and its subscription: the next fetch passes it on again.  And a
\* strict connection ends unless the view is updated once a watch has ended
\* with an error.  A connection whose subscription has been cancelled because
\* its queue was full may stay open, as its monitor leaves it to itself.
SessionsEnd ==
    \A s \in Sessions :
        /\ \A n \in Targets[s] :
             Open(s) /\ up /\ InForce(stored[n])
                ~> ~Open(s) \/ over[s] \/ ~up \/ ~InForce(stored[n])
        /\ Open(s) /\ strict[s] /\ overdue # NotOverdue
                ~> ~Open(s) \/ over[s] \/ overdue = NotOverdue
=============================================================================
