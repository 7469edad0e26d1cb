---------------------------- MODULE EventStream ----------------------------
(***************************************************************************)
(* What a source of backend events promises to whoever watches it: the     *)
(* interface Watcher of lib/backend/backend.go as the caches rely on it    *)
(* (lib/cache/cache.go, comment of fetchAndWatch).  A watcher gets OpInit  *)
(* first and then every event it asked for, once and in order; a source    *)
(* that cannot keep this up closes the watcher and leaves no gap.          *)
(***************************************************************************)
EXTENDS Naturals, Sequences

CONSTANTS
    Watchers,   \* names of watchers; a name is used again after it is free
    Keys,       \* keys of items
    NoKey,      \* the key of OpInit
    Watches,    \* the keys each watcher asks for
    MaxEvents   \* bound: events

OpInit == [key |-> NoKey, n |-> 0]

\* The n-th event.
Event == [key : Keys, n : 1..MaxEvents]
Message == Event \cup {OpInit}

VARIABLES
    ready,      \* events flow
    shut,       \* the source is closed for good
    open,       \* watchers that are registered
    pending,    \* what each watcher has still to receive
    published   \* number of events so far

streamVars == <<ready, shut, open, pending, published>>

StreamInit ==
    /\ ready = FALSE
    /\ shut = FALSE
    /\ open = {}
    /\ pending = [w \in Watchers |-> <<>>]
    /\ published = 0

Register(w) ==
    /\ ~shut
    /\ w \notin open
    /\ open' = open \cup {w}
    /\ pending' = [pending EXCEPT ![w] = IF ready THEN <<OpInit>> ELSE <<>>]
    /\ UNCHANGED <<ready, shut, published>>

\* Events begin to flow; some watchers may be closed instead of told so.
Begin ==
    /\ ~ready
    /\ ready' = TRUE
    /\ \E lost \in SUBSET open :
         /\ open' = open \ lost
         /\ pending' = [w \in Watchers |-> IF w \in open \ lost
                                             THEN Append(pending[w], OpInit)
                                             ELSE pending[w]]
    /\ UNCHANGED <<shut, published>>

\* Every watcher of the key gets the event, or is closed.
Publish(e) ==
    /\ ready /\ ~shut
    /\ e.n = published + 1
    /\ published' = e.n
    /\ \E lost \in SUBSET {w \in open : e.key \in Watches[w]} :
         /\ open' = open \ lost
         /\ pending' = [w \in Watchers |->
                           IF w \in open \ lost /\ e.key \in Watches[w]
                             THEN Append(pending[w], e)
                             ELSE pending[w]]
    /\ UNCHANGED <<ready, shut>>

Deliver(w) ==
    /\ Len(pending[w]) > 0
    /\ pending' = [pending EXCEPT ![w] = Tail(@)]
    /\ UNCHANGED <<ready, shut, open, published>>

\* The consumer goes away.
Leave(w) ==
    /\ open' = open \ {w}
    /\ pending' = [pending EXCEPT ![w] = <<>>]
    /\ UNCHANGED <<ready, shut, published>>

\* All watchers are closed, with or without the source.
CloseAll ==
    /\ open' = {}
    /\ ready' \in {ready, FALSE}
    /\ shut' \in {shut, TRUE}
    /\ UNCHANGED <<pending, published>>

StreamNext ==
    \/ \E w \in Watchers : Register(w) \/ Deliver(w) \/ Leave(w)
    \/ Begin
    \/ \E e \in Event : Publish(e)
    \/ CloseAll

StreamSpec == StreamInit /\ [][StreamNext]_streamVars
=============================================================================
