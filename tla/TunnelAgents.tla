----------------------------- MODULE TunnelAgents -----------------------------
(* The agents of one side of a reverse tunnel: a pool of agents dials one     *)
(* load-balanced address, each connection ends at some proxy behind it, and   *)
(* the pool must end up with one agent at every proxy it is told of.          *)
(*                                                                            *)
(* Four kinds of goroutines meet here.  The work group (lib/utils/workpool)   *)
(* counts leases against a target and hands out a lease while too few are out *)
(* ("load", "idle" and "granting" at its select, "granted" between the send   *)
(* and incrActive).  The pool (processSeekEvents) turns a lease into an agent *)
(* and waits for its limiter.  An agent dials, claims the proxy it landed at, *)
(* works until the connection ends, and gives claim and lease back.  Its      *)
(* handleDiscovery goroutine feeds every list of proxies the server sends     *)
(* into the tracker, one name at a time, and may outlive the agent.           *)
(*                                                                            *)
(* External: the load balancer, the proxies, and the clock.                   *)
EXTENDS Naturals, FiniteSets

CONSTANTS
  Proxies,     \* the proxies that may ever exist behind the address
  Agents,      \* the slots that agents of the pool take up
  MaxAge,      \* ProxyExpiry in units of time
  W,           \* the active count is unsigned and wraps at W
  MaxChanges,  \* bound: how often proxies start, die or are forgotten
  MaxFaults,   \* bound: how often a connection breaks by itself
  None         \* no proxy

ASSUME TunnelAssumption ==
  /\ IsFiniteSet(Agents) /\ IsFiniteSet(Proxies)
  /\ Proxies # {} /\ None \notin Proxies
  /\ MaxAge \in Nat \ {0} /\ MaxChanges \in Nat /\ MaxFaults \in Nat
  /\ W \in Nat /\ W > Cardinality(Proxies)

VARIABLES
  proxy,       \* per proxy: "up", "dead" (gone but still registered), "absent"
  tracked,     \* the names the proxy set holds an entry for
  claimed,     \* those whose entry is claimed
  age,         \* per proxy, the time since its entry was last seen
  target,      \* the leases the group may have out
  active,      \* the leases it counts as out
  notify,      \* notifyC, a channel of capacity one, is full
  group,       \* where the goroutine of the group is
  seeker,      \* where processSeekEvents is: "acquire" or "adding"
  agent,       \* per slot: where its agent is, at which proxy, and whether the
               \* connection still works
  inbox,       \* per slot, the names handleDiscovery has still to feed
  changes,     \* how many times a proxy changed
  faults       \* how many connections broke by themselves

tracker == <<tracked, claimed, age>>
counts  == <<target, active, notify>>
world   == <<proxy, changes, faults>>
vars    == <<tracker, counts, group, seeker, agent, inbox, world>>

Idle == [pc |-> "idle", at |-> None, alive |-> FALSE]

\* Some proxy is up at first (they are all alike).
Init ==
  /\ proxy \in {f \in [Proxies -> {"up", "absent"}] : f[CHOOSE p \in Proxies : TRUE] = "up"}
  /\ tracked = {} /\ claimed = {} /\ age = [p \in Proxies |-> 0]
  /\ target = 1 /\ active = 0 /\ notify = FALSE
  /\ group = "load" /\ seeker = "acquire"
  /\ agent = [a \in Agents |-> Idle]
  /\ inbox = [a \in Agents |-> {}]
  /\ changes = 0 /\ faults = 0

----------------------------------------------------------------------------
(* The work group.                                                            *)

SetTargetUnseen(n) == target' = n /\ notify' = notify

\* Both counters are changed under cmu together with notify(), which fills
\* notifyC or finds it full.
SetTarget(n) == target' = n /\ notify' = TRUE
ChangeActive(n) == active' = n % W /\ notify' = TRUE

GrantingAtTarget == active <= target

Granting == active < target
GroupLoad ==
  /\ group = "load"
  /\ group' = IF Granting THEN "granting" ELSE "idle"
  /\ UNCHANGED <<tracker, counts, seeker, agent, inbox, world>>

\* The unbuffered send of a lease to the pool.
Grant ==
  /\ group = "granting" /\ seeker = "acquire"
  /\ group' = "granted" /\ seeker' = "adding"
  /\ UNCHANGED <<tracker, counts, agent, inbox, world>>

IncrActive ==
  /\ group = "granted"
  /\ ChangeActive(active + 1) /\ group' = "load"
  /\ UNCHANGED <<target, tracker, seeker, agent, inbox, world>>

\* A select that is granting may take either branch.
Wake ==
  /\ group \in {"idle", "granting"} /\ notify
  /\ notify' = FALSE /\ group' = "load"
  /\ UNCHANGED <<target, active, tracker, seeker, agent, inbox, world>>

----------------------------------------------------------------------------
(* The pool.                                                                  *)

Free(a) == agent[a] = Idle /\ inbox[a] = {}

\* The agent runs from here on; the wait of the pool for its limiter is a delay
\* before the next Grant.  NewAgent does not fail: what it refuses, the pool's own
\* configuration check and the parsing of the address have refused before.
AddAgent ==
  /\ seeker = "adding" /\ seeker' = "acquire"
  /\ \E a \in Agents : Free(a)
  /\ LET a == CHOOSE b \in Agents : Free(b)
     IN agent' = [agent EXCEPT ![a].pc = "connecting"]
  /\ UNCHANGED <<tracker, counts, group, inbox, world>>

----------------------------------------------------------------------------
(* The tracker: one set of proxies, for the one address the pool starts.      *)

Wanted(names) == IF names = {} THEN 1 ELSE Cardinality(names)

\* TrackExpected of one name: markSeen, then the target follows the set.
TrackExpected(p) ==
  /\ tracked' = tracked \cup {p}
  /\ age' = IF p \in claimed THEN age ELSE [age EXCEPT ![p] = 0]
  /\ SetTarget(Wanted(tracked'))
  /\ UNCHANGED <<claimed, active>>

Claimable(p) == p \notin claimed
\* A claim may create the entry; it leaves the target alone.  (The age of a
\* claimed entry does not count: it stays at MaxAge and starts anew when the
\* entry is given back.)
ClaimProxy(p) ==
  /\ tracked' = tracked \cup {p}
  /\ claimed' = claimed \cup {p}
  /\ age' = [age EXCEPT ![p] = MaxAge]

UnclaimKept(p) ==
  /\ tracked' = tracked /\ claimed' = claimed
  /\ age' = [age EXCEPT ![p] = 0]

UnclaimProxy(p) ==
  /\ tracked' = tracked \cup {p}
  /\ claimed' = claimed \ {p}
  /\ age' = [age EXCEPT ![p] = 0]

Expired == {p \in tracked \ claimed : age[p] >= MaxAge}

\* A tick drops the unclaimed entries nobody mentioned lately.
Expire ==
  /\ tracked' = tracked \ Expired
  /\ age' = [p \in Proxies |-> IF p \in Expired THEN 0 ELSE age[p]]
  /\ SetTarget(Wanted(tracked'))
  /\ UNCHANGED <<claimed, active>>

Tick ==
  /\ Expired # {} /\ Expire
  /\ UNCHANGED <<group, seeker, agent, inbox, world>>

\* A unit of time is longer than the group and the pool take to catch up, the
\* limiter included (at most 8 seconds; an entry lives for 3 minutes).
Prompt == group = "idle" /\ ~notify /\ seeker = "acquire"

Clock ==
  /\ Prompt
  /\ age' = [p \in Proxies |-> IF p \in tracked \ claimed /\ age[p] < MaxAge
                              THEN age[p] + 1 ELSE age[p]]
  /\ UNCHANGED <<tracked, claimed, counts, group, seeker, agent, inbox, world>>

----------------------------------------------------------------------------
(* An agent.                                                                  *)

At(a, pc) == agent[a].pc = pc
Goto(a, pc) == agent' = [agent EXCEPT ![a].pc = pc]

\* The agent is on its way out: nobody asks for its connection any more.
Quit(a) == agent' = [agent EXCEPT ![a] = [pc |-> "closing", at |-> None, alive |-> FALSE]]

\* The balancer takes the connection to a proxy that is up.
Connect(a, p) ==
  /\ At(a, "connecting") /\ proxy[p] = "up"
  /\ agent' = [agent EXCEPT ![a] = [pc |-> "connected", at |-> p, alive |-> TRUE]]
  /\ UNCHANGED <<tracker, counts, group, seeker, inbox, world>>

ConnectFails(a) ==
  /\ At(a, "connecting") /\ Quit(a)
  /\ UNCHANGED <<tracker, counts, group, seeker, inbox, world>>

\* WithProxy: only the holder of the claim works, the others hang up.
Claim(a) ==
  LET p == agent[a].at
  IN /\ At(a, "connected")
     /\ IF Claimable(p)
        THEN ClaimProxy(p) /\ Goto(a, "working")
        ELSE UNCHANGED tracker /\ Quit(a)
     /\ UNCHANGED <<counts, group, seeker, inbox, world>>

\* processRequests returns, since the connection is gone, and WithProxy gives
\* the claim back.
Disconnected(a) ==
  /\ At(a, "working") /\ ~agent[a].alive
  /\ UnclaimProxy(agent[a].at) /\ Quit(a)
  /\ UNCHANGED <<counts, group, seeker, inbox, world>>

\* The deferred calls close the connection and release the lease.
Release(a) ==
  /\ At(a, "closing")
  /\ ChangeActive(active + W - 1)
  /\ agent' = [agent EXCEPT ![a] = Idle]
  /\ UNCHANGED <<target, tracker, group, seeker, inbox, world>>

\* handleDiscovery feeds one name.
Feed(a, p) ==
  /\ p \in inbox[a]
  /\ TrackExpected(p)
  /\ inbox' = [inbox EXCEPT ![a] = @ \ {p}]
  /\ UNCHANGED <<group, seeker, agent, world>>

----------------------------------------------------------------------------
(* The other side.                                                            *)

Registered == {p \in Proxies : proxy[p] # "absent"}

\* The server sends the list of the proxies it knows: after the first
\* heartbeat of the agent, when the list changes, and when its watcher refetches
\* the list.
Discovery(a) ==
  /\ At(a, "working") /\ agent[a].alive /\ inbox[a] = {}
  /\ inbox' = [inbox EXCEPT ![a] = Registered]
  /\ UNCHANGED <<tracker, counts, group, seeker, agent, world>>

\* A proxy starts and registers, dies with its connections, or is forgotten
\* when its record expires.
ChangeProxy(p) ==
  /\ changes < MaxChanges /\ changes' = changes + 1
  /\ \/ /\ proxy[p] # "up" /\ proxy' = [proxy EXCEPT ![p] = "up"]
        /\ UNCHANGED agent
     \/ /\ proxy[p] = "up" /\ proxy' = [proxy EXCEPT ![p] = "dead"]
        /\ agent' = [a \in Agents |-> IF agent[a].at = p THEN [agent[a] EXCEPT !.alive = FALSE] ELSE agent[a]]
     \/ /\ proxy[p] = "dead" /\ proxy' = [proxy EXCEPT ![p] = "absent"]
        /\ UNCHANGED agent
  /\ UNCHANGED <<tracker, counts, group, seeker, inbox, faults>>

Break(a) ==
  /\ agent[a].alive /\ faults < MaxFaults
  /\ faults' = faults + 1
  /\ agent' = [agent EXCEPT ![a].alive = FALSE]
  /\ UNCHANGED <<tracker, counts, group, seeker, inbox, proxy, changes>>

GroupStep == GroupLoad \/ IncrActive \/ Wake
AgentStep(a) ==
  \/ (\E p \in Proxies : Connect(a, p)) \/ ConnectFails(a)
  \/ Claim(a) \/ Disconnected(a) \/ Release(a)
FeedStep(a) == \E p \in Proxies : Feed(a, p)

Next ==
  \/ GroupStep \/ Grant \/ AddAgent \/ Tick \/ Clock
  \/ \E a \in Agents : AgentStep(a) \/ FeedStep(a) \/ Discovery(a) \/ Break(a)
  \/ \E p \in Proxies : ChangeProxy(p)

Spec == Init /\ [][Next]_vars

\* The group, the pool and every agent go on; some list is sent and fed while
\* some can be; a pool that is offered a lease again and again takes one; and
\* the balancer is fair: it does not avoid a proxy for ever that is up whenever
\* somebody dials.
FairSpec ==
  /\ Spec
  /\ WF_vars(GroupStep) /\ SF_vars(Grant) /\ WF_vars(AddAgent)
  /\ \A a \in Agents : WF_vars(AgentStep(a))
  /\ WF_vars(\E a \in Agents : FeedStep(a)) /\ WF_vars(\E a \in Agents : Discovery(a))
  /\ \A p \in Proxies : SF_vars(\E a \in Agents : Connect(a, p))

----------------------------------------------------------------------------
(* Properties.                                                                *)

Holders(p) == {a \in Agents : At(a, "working") /\ agent[a].at = p}

Outstanding == Cardinality({a \in Agents : ~At(a, "idle")})
                 + (IF seeker = "adding" THEN 1 ELSE 0)

TypeOK ==
  /\ proxy \in [Proxies -> {"up", "dead", "absent"}]
  /\ tracked \subseteq Proxies /\ claimed \subseteq tracked
  /\ age \in [Proxies -> 0 .. MaxAge]
  /\ target \in Nat \ {0} /\ active \in 0 .. W - 1 /\ notify \in BOOLEAN
  /\ group \in {"load", "idle", "granting", "granted"}
  /\ seeker \in {"acquire", "adding"}
  /\ agent \in [Agents -> [pc : {"idle", "connecting", "connected", "working", "closing"},
                           at : Proxies \cup {None}, alive : BOOLEAN]]
  /\ inbox \in [Agents -> SUBSET Proxies]
  /\ changes \in 0 .. MaxChanges /\ faults \in 0 .. MaxFaults

\* A claim is exclusive and belongs to somebody: a claimed entry has exactly
\* one agent working at its proxy, an unclaimed one has none.  (A claim left
\* behind would never expire and would keep every later agent away.)
ClaimHeld == \A p \in Proxies : Cardinality(Holders(p)) = IF p \in claimed THEN 1 ELSE 0

\* The group never sleeps on stale counts: with notifyC empty, a group that
\* waits has nothing to grant, and one that grants has something to.
NoLostWakeup == ~notify => /\ group = "idle" => active >= target
                           /\ group = "granting" => active < target

\* The count is that of the leases out, also when an agent returned its lease
\* before the group had counted it; and there are never more leases out than
\* proxies to reach.
LeasesCounted ==
  /\ active = (Outstanding + W - (IF group = "granted" THEN 1 ELSE 0)) % W
  /\ Outstanding <= Cardinality(Proxies)

\* The pool looks for no more proxies than it has names of.
TargetNamed == target <= Wanted(tracked)

\* With a fair balancer the pool ends up with a working connection to every
\* proxy that stays up (doc.go), whatever broke or expired on the way.
ReachesAll ==
  \A p \in Proxies :
    proxy[p] = "up" ~> \/ \E a \in Holders(p) : agent[a].alive
                       \/ proxy[p] # "up"
=============================================================================
