-------------------------- MODULE TunnelAgentsProofs --------------------------
(* What the agents of a reverse tunnel keep (lib/reversetunnel/track,         *)
(* lib/utils/workpool) for every number of proxies and of agents, every       *)
(* expiry, every number of faults, and every width of the counter that can    *)
(* count the proxies.                                                         *)
EXTENDS TunnelAgents, FiniteSetTheorems, TLAPS

N == Cardinality(Proxies)

Busy == {a \in Agents : ~At(a, "idle")}

\* An agent that has got through is at some proxy.
Placed == \A a \in Agents : agent[a].pc \in {"connected", "working"} => agent[a].at \in Proxies

\* ClaimHeld without the cardinalities.
ClaimsPaired ==
  /\ \A a \in Agents : At(a, "working") => agent[a].at \in claimed
  /\ \A a, b \in Agents :
       At(a, "working") /\ At(b, "working") /\ agent[a].at = agent[b].at => a = b
  /\ \A p \in claimed : \E a \in Agents : At(a, "working") /\ agent[a].at = p

\* LeasesCounted without the modulus: the count is behind by one between the
\* send of a lease and incrActive, and below zero, that is at W - 1, if the agent
\* was the first and is already gone.  A group that grants has room for one more.
Counted ==
  /\ Outstanding <= N
  /\ group = "granting" => Outstanding < N
  /\ group # "granted" => active = Outstanding
  /\ group = "granted" /\ Outstanding = 0 => active = W - 1
  /\ group = "granted" /\ Outstanding # 0 => active = Outstanding - 1
  /\ target <= N

IInv == TypeOK /\ Placed /\ ClaimsPaired /\ NoLostWakeup /\ Counted

----------------------------------------------------------------------------
\* An unsigned number that was one less than zero for a moment.
LEMMA Modulo ==
  ASSUME NEW w \in Nat, NEW n \in Nat, n < w
  PROVE  /\ n % w = n
         /\ (n + w) % w = n
BY SMT

\* There are fewer proxies than the width can count.
LEMMA Bounds == N \in Nat \ {0} /\ W \in Nat \ {0} /\ N < W
BY TunnelAssumption, FS_CardinalityType, FS_EmptySet DEF N

\* The target is that of a set of names.
LEMMA WantedBounded ==
  ASSUME NEW names \in SUBSET Proxies
  PROVE  Wanted(names) \in Nat \ {0} /\ Wanted(names) <= N
<1>1. IsFiniteSet(names) /\ Cardinality(names) <= N
  BY TunnelAssumption, FS_Subset DEF N
<1>2. Cardinality(names) \in Nat /\ (Cardinality(names) = 0 <=> names = {})
  BY <1>1, FS_CardinalityType, FS_EmptySet
<1> QED
  BY <1>1, <1>2, Bounds DEF Wanted

\* The agents with a lease can be counted.
LEMMA BusyFinite == IsFiniteSet(Busy) /\ Cardinality(Busy) \in Nat
<1>1. Busy \in SUBSET Agents
  BY DEF Busy
<1> QED
  BY <1>1, TunnelAssumption, FS_Subset, FS_CardinalityType

\* The leases out are those of agents, and one that is being handed out.
LEMMA OutstandingNat ==
  /\ Outstanding \in Nat
  /\ Outstanding = Cardinality(Busy) + (IF seeker = "adding" THEN 1 ELSE 0)
BY BusyFinite DEF Outstanding, Busy

\* Nothing is out that was not, and nothing is back.
LEMMA OutstandingKept ==
  ASSUME seeker' = seeker,
         \A a \in Agents : agent'[a].pc = "idle" <=> agent[a].pc = "idle"
  PROVE  Outstanding' = Outstanding
<1>1. Busy' = Busy
  BY DEF Busy, At
<1> QED
  BY <1>1 DEF Busy, Outstanding

\* What is left to show of a step after which the claims and the agents that
\* hold them are the same.
LEMMA ClaimsKept ==
  ASSUME ClaimsPaired, UNCHANGED claimed,
         \A a \in Agents : agent'[a].pc = "working" <=> agent[a].pc = "working",
         \A a \in Agents : agent[a].pc = "working" => agent'[a].at = agent[a].at
  PROVE  ClaimsPaired'
BY DEF ClaimsPaired, At

----------------------------------------------------------------------------
(* The group and the pool. *)

\* The invariant, step by step: nothing is tracked, claimed or granted.
LEMMA InitInv == Init => IInv
<1> SUFFICES ASSUME Init
             PROVE  IInv
  OBVIOUS
<1>1. TypeOK
  <2>1. proxy \in [Proxies -> {"up", "dead", "absent"}]
    BY DEF Init
  <2>2. agent \in [Agents -> [pc : {"idle", "connecting", "connected", "working", "closing"},
                              at : Proxies \cup {None}, alive : BOOLEAN]]
    BY DEF Init, Idle
  <2>3. /\ tracked = {} /\ claimed = {} /\ age = [p \in Proxies |-> 0]
        /\ target = 1 /\ active = 0 /\ notify = FALSE
        /\ group = "load" /\ seeker = "acquire"
        /\ inbox = [a \in Agents |-> {}] /\ changes = 0 /\ faults = 0
    BY DEF Init
  <2> QED
    <3>1. /\ age \in [Proxies -> 0 .. MaxAge] /\ target \in Nat \ {0} /\ active \in 0 .. W - 1
          /\ changes \in 0 .. MaxChanges /\ faults \in 0 .. MaxFaults
      BY <2>3, TunnelAssumption, Bounds
    <3>2. /\ tracked \subseteq Proxies /\ claimed \subseteq tracked
          /\ inbox \in [Agents -> SUBSET Proxies]
      BY <2>3
    <3>3. notify \in BOOLEAN /\ group = "load" /\ seeker = "acquire"
      BY <2>3
    <3> QED
      BY <2>1, <2>2, <3>1, <3>2, <3>3 DEF TypeOK
<1>2. Placed /\ ClaimsPaired /\ NoLostWakeup
  BY Zenon DEF Init, Placed, ClaimsPaired, NoLostWakeup, Idle, At
<1>3. Busy = {}
  BY DEF Init, Busy, At, Idle
<1>4. Outstanding = 0
  BY <1>3, FS_EmptySet, OutstandingNat DEF Init
<1>5. Counted
  BY <1>4, Bounds DEF Init, Counted
<1> QED
  BY <1>1, <1>2, <1>5 DEF IInv

LEMMA GroupKeeps ==
  ASSUME IInv, GroupLoad \/ Wake
  PROVE  IInv'
<1>1. TypeOK' /\ Placed' /\ NoLostWakeup'
  <2>1. CASE GroupLoad
    BY <2>1 DEF IInv, GroupLoad, Granting, TypeOK, Placed, NoLostWakeup, tracker, counts, world
  <2>2. CASE Wake
    BY <2>2 DEF IInv, Wake, TypeOK, Placed, NoLostWakeup, tracker, world
  <2> QED
    BY <2>1, <2>2
<1>2. ClaimsPaired'
  BY ClaimsKept DEF IInv, GroupLoad, Wake, tracker
<1>3. Outstanding' = Outstanding
  BY OutstandingKept DEF GroupLoad, Wake
<1>4. Counted'
  BY <1>3, OutstandingNat, Bounds
     DEF IInv, Counted, TypeOK, GroupLoad, Wake, Granting, counts
<1> QED
  BY <1>1, <1>2, <1>4 DEF IInv

LEMMA GrantKeeps ==
  ASSUME IInv, Grant
  PROVE  IInv'
<1>1. TypeOK' /\ Placed' /\ NoLostWakeup'
  BY DEF IInv, Grant, TypeOK, Placed, NoLostWakeup, tracker, counts, world
<1>2. ClaimsPaired'
  BY ClaimsKept DEF IInv, Grant, tracker
<1>3. Busy' = Busy
  BY DEF Grant, Busy, At
<1>4. Outstanding' = Outstanding + 1
  BY <1>3, BusyFinite DEF Grant, Outstanding, Busy
<1>5. Counted'
  BY <1>4, OutstandingNat, Bounds DEF IInv, Counted, TypeOK, Grant, counts
<1> QED
  BY <1>1, <1>2, <1>5 DEF IInv

LEMMA IncrActiveKeeps ==
  ASSUME IInv, IncrActive
  PROVE  IInv'
<1>1. Outstanding' = Outstanding
  BY OutstandingKept DEF IncrActive
<1>2. active' = Outstanding /\ active' \in 0 .. W - 1
  <2>1. CASE Outstanding = 0
    <3>1. (0 + W) % W = 0
      BY Bounds, Modulo
    <3>2. active + 1 = 0 + W
      BY <2>1, Bounds DEF IInv, Counted, IncrActive
    <3> QED
      BY <2>1, <3>1, <3>2, Bounds DEF IncrActive, ChangeActive
  <2>2. CASE Outstanding # 0
    <3>1. active + 1 = Outstanding /\ Outstanding < W
      BY <2>2, OutstandingNat, Bounds DEF IInv, Counted, IncrActive
    <3> QED
      BY <3>1, OutstandingNat, Bounds, Modulo DEF IncrActive, ChangeActive
  <2> QED
    BY <2>1, <2>2
<1>3. TypeOK' /\ Placed' /\ NoLostWakeup'
  BY <1>2 DEF IInv, IncrActive, ChangeActive, TypeOK, Placed, NoLostWakeup, tracker, world
<1>4. ClaimsPaired'
  BY ClaimsKept DEF IInv, IncrActive, tracker
<1>5. Counted'
  BY <1>1, <1>2, OutstandingNat, Bounds DEF IInv, Counted, IncrActive
<1> QED
  BY <1>3, <1>4, <1>5 DEF IInv

LEMMA AddAgentKeeps ==
  ASSUME IInv, AddAgent
  PROVE  IInv'
<1> DEFINE a == CHOOSE b \in Agents : Free(b)
<1>1. a \in Agents /\ agent[a].pc = "idle"
  <2>1. \E b \in Agents : Free(b)
    BY DEF AddAgent
  <2>2. a \in Agents /\ Free(a)
    BY <2>1
  <2> QED
    BY <2>2 DEF Free, Idle
<1>2. agent' = [agent EXCEPT ![a].pc = "connecting"] /\ seeker = "adding" /\ seeker' = "acquire"
  BY SMT DEF AddAgent
<1>a. UNCHANGED <<tracker, counts, group, inbox, world>>
  BY SMT DEF AddAgent
<1> HIDE DEF a
<1>3. TypeOK' /\ Placed' /\ NoLostWakeup'
  BY <1>1, <1>2, <1>a DEF IInv, TypeOK, Placed, NoLostWakeup, tracker, counts, world
<1>4. ClaimsPaired'
  BY <1>1, <1>2, <1>a, ClaimsKept DEF IInv, TypeOK, tracker
<1>5. Busy' = Busy \cup {a} /\ a \notin Busy
  BY <1>1, <1>2 DEF Busy, At, IInv, TypeOK
<1>6. Cardinality(Busy') = Cardinality(Busy) + 1
  BY <1>5, BusyFinite, FS_AddElement
<1>7. Outstanding' = Outstanding
  BY <1>2, <1>6, BusyFinite DEF Outstanding, Busy
<1>8. Counted'
  BY <1>7, <1>a DEF IInv, Counted, counts
<1> QED
  BY <1>3, <1>4, <1>8 DEF IInv

----------------------------------------------------------------------------
(* The tracker. *)

LEMMA FeedKeeps ==
  ASSUME IInv, NEW a \in Agents, NEW p \in Proxies, Feed(a, p)
  PROVE  IInv'
<1>1. tracked' = tracked \cup {p} /\ tracked' \in SUBSET Proxies
  BY DEF IInv, TypeOK, Feed, TrackExpected
<1>2. target' \in Nat \ {0} /\ target' <= N
  BY <1>1, WantedBounded DEF Feed, TrackExpected, SetTarget
<1>3. TypeOK'
  <2>1. age' \in [Proxies -> 0 .. MaxAge]
    BY TunnelAssumption DEF IInv, TypeOK, Feed, TrackExpected
  <2>2. inbox' \in [Agents -> SUBSET Proxies]
    BY DEF IInv, TypeOK, Feed
  <2> QED
    BY <1>1, <1>2, <2>1, <2>2 DEF IInv, TypeOK, Feed, TrackExpected, SetTarget, world
<1>4. Placed' /\ NoLostWakeup'
  BY DEF IInv, Placed, NoLostWakeup, Feed, TrackExpected, SetTarget
<1>5. ClaimsPaired'
  BY ClaimsKept DEF IInv, Feed, TrackExpected
<1>6. Outstanding' = Outstanding
  BY OutstandingKept DEF Feed
<1>7. Counted'
  BY <1>2, <1>6 DEF IInv, Counted, Feed, TrackExpected
<1> QED
  BY <1>3, <1>4, <1>5, <1>7 DEF IInv

LEMMA TickKeeps ==
  ASSUME IInv, Tick
  PROVE  IInv'
<1>1. /\ tracked' = tracked \ Expired /\ tracked' \in SUBSET Proxies
      /\ claimed' = claimed /\ claimed' \subseteq tracked'
  BY DEF IInv, TypeOK, Tick, Expire, Expired
<1>2. target' \in Nat \ {0} /\ target' <= N
  BY <1>1, WantedBounded DEF Tick, Expire, SetTarget
<1>3. TypeOK'
  <2>1. age' \in [Proxies -> 0 .. MaxAge]
    BY TunnelAssumption DEF IInv, TypeOK, Tick, Expire
  <2> QED
    BY <1>1, <1>2, <2>1 DEF IInv, TypeOK, Tick, Expire, SetTarget, world
<1>4. Placed' /\ NoLostWakeup'
  BY DEF IInv, Placed, NoLostWakeup, Tick, Expire, SetTarget
<1>5. ClaimsPaired'
  BY ClaimsKept DEF IInv, Tick, Expire
<1>6. Outstanding' = Outstanding
  BY OutstandingKept DEF Tick
<1>7. Counted'
  BY <1>2, <1>6 DEF IInv, Counted, Tick, Expire
<1> QED
  BY <1>3, <1>4, <1>5, <1>7 DEF IInv

LEMMA ClockKeeps ==
  ASSUME IInv, Clock
  PROVE  IInv'
<1>1. TypeOK'
  <2>1. age' \in [Proxies -> 0 .. MaxAge]
    <3>1. ASSUME NEW p \in Proxies, age[p] < MaxAge
          PROVE  age[p] + 1 \in 0 .. MaxAge
      BY <3>1, TunnelAssumption DEF IInv, TypeOK
    <3> QED
      BY <3>1 DEF IInv, TypeOK, Clock
  <2> QED
    BY <2>1 DEF IInv, TypeOK, Clock, counts, world
<1>2. Placed' /\ NoLostWakeup'
  BY DEF IInv, Placed, NoLostWakeup, Clock, counts
<1>3. ClaimsPaired'
  BY ClaimsKept DEF IInv, Clock
<1>4. Outstanding' = Outstanding
  BY OutstandingKept DEF Clock
<1>5. Counted'
  BY <1>4 DEF IInv, Counted, Clock, counts
<1> QED
  BY <1>1, <1>2, <1>3, <1>5 DEF IInv

----------------------------------------------------------------------------
(* The agents. *)

LEMMA ConnectKeeps ==
  ASSUME IInv, NEW a \in Agents,
         ConnectFails(a) \/ \E p \in Proxies : Connect(a, p)
  PROVE  IInv'
<1>1. TypeOK' /\ Placed' /\ NoLostWakeup'
  <2>1. CASE ConnectFails(a)
    BY <2>1 DEF IInv, TypeOK, Placed, NoLostWakeup, ConnectFails, At, Quit, tracker, counts, world
  <2>2. ASSUME NEW p \in Proxies, Connect(a, p)
        PROVE  TypeOK' /\ Placed' /\ NoLostWakeup'
    BY <2>2 DEF IInv, TypeOK, Placed, NoLostWakeup, Connect, At, tracker, counts, world
  <2> QED
    BY <2>1, <2>2
<1>2. ClaimsPaired'
  <2>1. CASE ConnectFails(a)
    BY <2>1, ClaimsKept DEF IInv, TypeOK, ConnectFails, At, Quit, tracker
  <2>2. ASSUME NEW p \in Proxies, Connect(a, p)
        PROVE  ClaimsPaired'
    BY <2>2, ClaimsKept DEF IInv, TypeOK, Connect, At, tracker
  <2> QED
    BY <2>1, <2>2
<1>3. Outstanding' = Outstanding
  BY OutstandingKept DEF IInv, TypeOK, ConnectFails, Connect, At, Quit
<1>4. Counted'
  BY <1>3 DEF IInv, Counted, ConnectFails, Connect, counts
<1> QED
  BY <1>1, <1>2, <1>4 DEF IInv

LEMMA ClaimKeeps ==
  ASSUME IInv, NEW a \in Agents, Claim(a)
  PROVE  IInv'
<1> DEFINE p == agent[a].at
<1>1. p \in Proxies
  BY DEF IInv, Placed, Claim, At
<1>2. TypeOK' /\ Placed' /\ NoLostWakeup'
  <2>1. CASE Claimable(p)
    <3>1. agent' = [agent EXCEPT ![a].pc = "working"]
      BY <2>1 DEF Claim, Goto
    <3>2. agent' \in [Agents -> [pc : {"idle", "connecting", "connected", "working", "closing"},
                                  at : Proxies \cup {None}, alive : BOOLEAN]]
      BY <3>1 DEF IInv, TypeOK
    <3>3. /\ tracked' \in SUBSET Proxies /\ claimed' \in SUBSET tracked'
          /\ age' \in [Proxies -> 0 .. MaxAge]
      BY <1>1, <2>1, TunnelAssumption DEF IInv, TypeOK, Claim, ClaimProxy
    <3>4. UNCHANGED <<target, active, notify, group, seeker, inbox, proxy, changes, faults>>
      BY DEF Claim, counts, world
    <3>5. TypeOK'
      BY <3>2, <3>3, <3>4 DEF IInv, TypeOK
    <3> QED
      BY <1>1, <3>1, <3>4, <3>5 DEF IInv, TypeOK, Placed, NoLostWakeup
  <2>2. CASE ~Claimable(p)
    <3>1. agent' = [agent EXCEPT ![a] = [pc |-> "closing", at |-> None, alive |-> FALSE]]
      BY <2>2 DEF Claim, Quit
    <3>2. UNCHANGED <<tracked, claimed, age, target, active, notify, group, seeker,
                      inbox, proxy, changes, faults>>
      BY <2>2 DEF Claim, tracker, counts, world
    <3> QED
      BY <3>1, <3>2 DEF IInv, TypeOK, Placed, NoLostWakeup
  <2> QED
    BY <2>1, <2>2
<1>3. ClaimsPaired'
  <2>1. CASE Claimable(p)
    BY <1>1, <2>1 DEF IInv, TypeOK, ClaimsPaired, Claim, Claimable, ClaimProxy, At, Goto
  <2>2. CASE ~Claimable(p)
    BY <2>2, ClaimsKept DEF IInv, TypeOK, Claim, At, Quit, tracker
  <2> QED
    BY <2>1, <2>2
<1>4. Outstanding' = Outstanding
  <2>1. CASE Claimable(agent[a].at)
    BY <2>1, OutstandingKept DEF IInv, TypeOK, Claim, At, Goto
  <2>2. CASE ~Claimable(agent[a].at)
    BY <2>2, OutstandingKept DEF IInv, TypeOK, Claim, At, Quit
  <2> QED
    BY <2>1, <2>2
<1>5. Counted'
  BY <1>4 DEF IInv, Counted, Claim, counts
<1> QED
  BY <1>2, <1>3, <1>5 DEF IInv

LEMMA DisconnectedKeeps ==
  ASSUME IInv, NEW a \in Agents, Disconnected(a)
  PROVE  IInv'
<1> DEFINE p == agent[a].at
<1>1. p \in Proxies /\ p \in claimed
  BY DEF IInv, Placed, ClaimsPaired, Disconnected, At
<1>2. TypeOK' /\ Placed' /\ NoLostWakeup'
  <2>1. agent' = [agent EXCEPT ![a] = [pc |-> "closing", at |-> None, alive |-> FALSE]]
    BY DEF Disconnected, Quit
  <2>2. /\ tracked' \in SUBSET Proxies /\ claimed' \in SUBSET tracked'
        /\ age' \in [Proxies -> 0 .. MaxAge]
    BY <1>1, TunnelAssumption DEF IInv, TypeOK, Disconnected, UnclaimProxy
  <2>3. UNCHANGED <<target, active, notify, group, seeker, inbox, proxy, changes, faults>>
    BY DEF Disconnected, counts, world
  <2> QED
    BY <2>1, <2>2, <2>3 DEF IInv, TypeOK, Placed, NoLostWakeup
<1>3. ClaimsPaired'
  BY <1>1 DEF IInv, TypeOK, ClaimsPaired, Disconnected, UnclaimProxy, At, Quit
<1>4. Outstanding' = Outstanding
  BY OutstandingKept DEF IInv, TypeOK, Disconnected, At, Quit
<1>5. Counted'
  BY <1>4 DEF IInv, Counted, Disconnected, counts
<1> QED
  BY <1>2, <1>3, <1>5 DEF IInv

\* The lease of an agent that is gone before it was counted takes the count
\* below zero, and incrActive brings it back.
LEMMA ReleaseKeeps ==
  ASSUME IInv, NEW a \in Agents, Release(a)
  PROVE  IInv'
<1>1. Busy' = Busy \ {a} /\ a \in Busy
  BY DEF IInv, TypeOK, Release, Busy, At, Idle
<1>2. Cardinality(Busy') = Cardinality(Busy) - 1
  BY <1>1, BusyFinite, FS_RemoveElement
<1>3. Outstanding' = Outstanding - 1 /\ Outstanding \in Nat \ {0}
  <2>1. Cardinality(Busy) # 0
    BY <1>1, BusyFinite, FS_EmptySet
  <2> QED
    BY <1>2, <2>1, BusyFinite DEF Release, Outstanding, Busy
<1>4. active' = IF active = 0 THEN W - 1 ELSE active - 1
  <2>1. CASE active = 0
    BY <2>1, Bounds, Modulo DEF Release, ChangeActive
  <2>2. CASE active # 0
    <3>1. active - 1 \in Nat /\ active - 1 < W /\ active + W - 1 = (active - 1) + W
      BY <2>2, Bounds DEF IInv, TypeOK
    <3> QED
      BY <2>2, <3>1, Bounds, Modulo DEF Release, ChangeActive
  <2> QED
    BY <2>1, <2>2
<1>5. active' \in 0 .. W - 1
  BY <1>4, Bounds DEF IInv, TypeOK
<1>6. TypeOK' /\ Placed' /\ NoLostWakeup'
  BY <1>5 DEF IInv, TypeOK, Placed, NoLostWakeup, Release, ChangeActive, Idle, tracker, world
<1>7. ClaimsPaired'
  BY ClaimsKept DEF IInv, TypeOK, Release, At, Idle, tracker
<1>8. Counted'
  BY <1>3, <1>4, Bounds DEF IInv, Counted, TypeOK, Release
<1> QED
  BY <1>6, <1>7, <1>8 DEF IInv

LEMMA DiscoveryKeeps ==
  ASSUME IInv, NEW a \in Agents, Discovery(a)
  PROVE  IInv'
<1>1. TypeOK' /\ Placed' /\ NoLostWakeup'
  BY DEF IInv, TypeOK, Placed, NoLostWakeup, Discovery, Registered, tracker, counts, world
<1>2. ClaimsPaired'
  BY ClaimsKept DEF IInv, Discovery, tracker
<1>3. Outstanding' = Outstanding
  BY OutstandingKept DEF Discovery
<1>4. Counted'
  BY <1>3 DEF IInv, Counted, Discovery, counts
<1> QED
  BY <1>1, <1>2, <1>4 DEF IInv

LEMMA BreakKeeps ==
  ASSUME IInv, NEW a \in Agents, Break(a)
  PROVE  IInv'
<1>1. TypeOK' /\ Placed' /\ NoLostWakeup'
  <2>1. agent' \in [Agents -> [pc : {"idle", "connecting", "connected", "working", "closing"},
                                at : Proxies \cup {None}, alive : BOOLEAN]]
    BY DEF IInv, TypeOK, Break
  <2>2. faults' \in 0 .. MaxFaults
    BY TunnelAssumption DEF IInv, TypeOK, Break
  <2>3. TypeOK'
    BY <2>1, <2>2 DEF IInv, TypeOK, Break, tracker, counts
  <2> QED
    BY <2>3 DEF IInv, TypeOK, Placed, NoLostWakeup, Break, counts
<1>2. ClaimsPaired'
  BY ClaimsKept DEF IInv, TypeOK, Break, tracker
<1>3. Outstanding' = Outstanding
  BY OutstandingKept DEF IInv, TypeOK, Break
<1>4. Counted'
  BY <1>3 DEF IInv, Counted, Break, counts
<1> QED
  BY <1>1, <1>2, <1>4 DEF IInv

LEMMA ChangeProxyKeeps ==
  ASSUME IInv, NEW p \in Proxies, ChangeProxy(p)
  PROVE  IInv'
<1>1. /\ agent' \in [Agents -> [pc : {"idle", "connecting", "connected", "working", "closing"},
                                at : Proxies \cup {None}, alive : BOOLEAN]]
      /\ \A a \in Agents : agent'[a].pc = agent[a].pc /\ agent'[a].at = agent[a].at
  <2>1. CASE UNCHANGED agent
    BY <2>1 DEF IInv, TypeOK
  <2>2. CASE agent' = [a \in Agents |-> IF agent[a].at = p
                                          THEN [agent[a] EXCEPT !.alive = FALSE]
                                          ELSE agent[a]]
    <3>1. ASSUME NEW a \in Agents
          PROVE  /\ agent'[a] \in [pc : {"idle", "connecting", "connected", "working", "closing"},
                                    at : Proxies \cup {None}, alive : BOOLEAN]
                 /\ agent'[a].pc = agent[a].pc /\ agent'[a].at = agent[a].at
      BY <2>2 DEF IInv, TypeOK
    <3> QED
      BY <2>2, <3>1
  <2> QED
    BY <2>1, <2>2 DEF ChangeProxy
<1>2. TypeOK' /\ Placed' /\ NoLostWakeup'
  <2>1. changes' \in 0 .. MaxChanges /\ proxy' \in [Proxies -> {"up", "dead", "absent"}]
    BY TunnelAssumption DEF IInv, TypeOK, ChangeProxy
  <2> QED
    BY <1>1, <2>1 DEF IInv, TypeOK, Placed, NoLostWakeup, ChangeProxy, tracker, counts
<1>3. ClaimsPaired'
  BY <1>1, ClaimsKept DEF IInv, ChangeProxy, tracker
<1>4. Outstanding' = Outstanding
  BY <1>1, OutstandingKept DEF ChangeProxy
<1>5. Counted'
  BY <1>4 DEF IInv, Counted, ChangeProxy, counts
<1> QED
  BY <1>2, <1>3, <1>5 DEF IInv

LEMMA StutterKeeps ==
  ASSUME IInv, UNCHANGED vars
  PROVE  IInv'
BY DEF vars, tracker, counts, world, IInv, TypeOK, Placed, ClaimsPaired, NoLostWakeup,
       Counted, Outstanding, At

LEMMA NextKeeps == IInv /\ [Next]_vars => IInv'
<1> SUFFICES ASSUME IInv, [Next]_vars
             PROVE  IInv'
  OBVIOUS
<1>1. CASE GroupStep
  BY <1>1, GroupKeeps, IncrActiveKeeps DEF GroupStep
<1>2. CASE Grant \/ AddAgent \/ Tick \/ Clock
  BY <1>2, GrantKeeps, AddAgentKeeps, TickKeeps, ClockKeeps
<1>3. ASSUME NEW a \in Agents, AgentStep(a)
      PROVE  IInv'
  BY <1>3, ConnectKeeps, ClaimKeeps, DisconnectedKeeps, ReleaseKeeps DEF AgentStep
<1>4. ASSUME NEW a \in Agents, FeedStep(a) \/ Discovery(a) \/ Break(a)
      PROVE  IInv'
  BY <1>4, FeedKeeps, DiscoveryKeeps, BreakKeeps DEF FeedStep
<1>5. ASSUME NEW p \in Proxies, ChangeProxy(p)
      PROVE  IInv'
  BY <1>5, ChangeProxyKeeps
<1>6. CASE UNCHANGED vars
  BY <1>6, StutterKeeps
<1> QED
  BY <1>1, <1>2, <1>3, <1>4, <1>5, <1>6 DEF Next

\* The inductive invariant of work group, pool and agents (workpool.go, tracker.go):
\* claims, counts and notifications agree.
THEOREM IInvHolds == Spec => []IInv
<1> QED
  BY InitInv, NextKeeps, PTL DEF Spec

----------------------------------------------------------------------------
(* What it all comes to. *)

\* Every variable stays in its type; in particular, the target is never zero,
\* no more than one claim is out for a name, and every claim is for a name in
\* the set (proxySet).
THEOREM TypeCorrect == Spec => []TypeOK
<1>1. IInv => TypeOK
  BY DEF IInv
<1> QED
  BY <1>1, IInvHolds, PTL

\* A claimed entry has exactly one agent at work, an unclaimed one has none
\* (WithProxy, claim and unclaim of the tracker).
THEOREM ClaimsAreHeld == Spec => []ClaimHeld
<1>1. IInv => ClaimHeld
  <2> SUFFICES ASSUME IInv, NEW p \in Proxies
               PROVE  Cardinality(Holders(p)) = IF p \in claimed THEN 1 ELSE 0
    BY DEF ClaimHeld
  <2>1. CASE p \in claimed
    <3>1. PICK a \in Agents : At(a, "working") /\ agent[a].at = p
      BY <2>1 DEF IInv, ClaimsPaired
    <3>2. Holders(p) = {a}
      BY <3>1 DEF IInv, ClaimsPaired, Holders
    <3> QED
      BY <2>1, <3>2, FS_Singleton
  <2>2. CASE p \notin claimed
    <3>1. Holders(p) = {}
      BY <2>2 DEF IInv, ClaimsPaired, Holders
    <3> QED
      BY <2>2, <3>1, FS_EmptySet
  <2> QED
    BY <2>1, <2>2
<1> QED
  BY <1>1, IInvHolds, PTL

\* The group never waits on counts that would let it grant, nor offers a lease
\* that they do not allow, without a notification being there (notify and run of
\* the workpool).
THEOREM WakeupsAreKept == Spec => []NoLostWakeup
<1>1. IInv => NoLostWakeup
  BY DEF IInv
<1> QED
  BY <1>1, IInvHolds, PTL

\* The count, which wraps, is that of the leases out but for the one that is not
\* counted yet, and no more are out than there are proxies (incrActive, decrActive
\* and run of the workpool).
THEOREM LeasesAreCounted == Spec => []LeasesCounted
<1>1. IInv => LeasesCounted
  <2> SUFFICES ASSUME IInv
               PROVE  active = (Outstanding + W - (IF group = "granted" THEN 1 ELSE 0)) % W
    BY DEF IInv, Counted, LeasesCounted, N
  <2>1. CASE group # "granted"
    <3>1. Outstanding < W /\ active = Outstanding
      BY <2>1, Bounds, OutstandingNat DEF IInv, Counted
    <3>2. (Outstanding + W) % W = Outstanding
      BY <3>1, Bounds, OutstandingNat, Modulo
    <3> QED
      BY <2>1, <3>1, <3>2, Bounds, OutstandingNat
  <2>2. CASE group = "granted" /\ Outstanding = 0
    <3>1. (W - 1) % W = W - 1
      BY Bounds, Modulo
    <3> QED
      BY <2>2, <3>1, Bounds DEF IInv, Counted
  <2>3. CASE group = "granted" /\ Outstanding # 0
    <3>1. Outstanding - 1 \in Nat /\ Outstanding - 1 < W /\ active = Outstanding - 1
      BY <2>3, Bounds, OutstandingNat DEF IInv, Counted
    <3>2. ((Outstanding - 1) + W) % W = Outstanding - 1
      BY <3>1, Bounds, Modulo
    <3>3. (Outstanding - 1) + W = Outstanding + W - 1
      BY Bounds, OutstandingNat
    <3> QED
      BY <2>3, <3>1, <3>2, <3>3
  <2> QED
    BY <2>1, <2>2, <2>3
<1> QED
  BY <1>1, IInvHolds, PTL

\* The target only changes with the names, and more names do not lower what they
\* stand for.
LEMMA WantedMonotone ==
  ASSUME NEW names \in SUBSET Proxies, NEW some \in SUBSET names
  PROVE  Wanted(some) <= Wanted(names)
<1>1. IsFiniteSet(names) /\ Cardinality(some) <= Cardinality(names)
  BY TunnelAssumption, FS_Subset
<1>2. Cardinality(names) \in Nat /\ (names = {} => some = {})
  BY <1>1, FS_CardinalityType
<1>3. names # {} => Cardinality(names) >= 1
  BY <1>1, <1>2, FS_EmptySet
<1> QED
  BY <1>1, <1>2, <1>3 DEF Wanted

\* The pool never looks for more proxies than it has names of, although a claim
\* adds a name without a word to the group (claim and TrackExpected).
THEOREM TargetIsNamed == Spec => []TargetNamed
<1>1. Init => TargetNamed
  BY DEF Init, TargetNamed, Wanted
<1>2. ASSUME TypeOK, Placed, TargetNamed, [Next]_vars
      PROVE  TargetNamed'
  <2>1. CASE UNCHANGED target /\ tracked \in SUBSET tracked' /\ tracked' \in SUBSET Proxies
    BY <1>2, <2>1, WantedMonotone, WantedBounded DEF TypeOK, TargetNamed
  <2>2. CASE target' = Wanted(tracked') /\ tracked' \in SUBSET Proxies
    BY <2>2, WantedBounded DEF TargetNamed
  <2>3. CASE Next
    <3>1. CASE GroupStep \/ Grant \/ AddAgent \/ Clock
      BY <1>2, <3>1, <2>1 DEF GroupStep, GroupLoad, IncrActive, Wake, ChangeActive, Grant,
         AddAgent, Clock, tracker, counts, TypeOK
    <3>2. CASE Tick
      BY <1>2, <3>2, <2>2 DEF Tick, Expire, SetTarget, TypeOK
    <3>3. ASSUME NEW a \in Agents, AgentStep(a)
          PROVE  TargetNamed'
      <4>1. CASE \E p \in Proxies : Connect(a, p)
        BY <1>2, <4>1, <2>1 DEF Connect, tracker, counts, TypeOK
      <4>2. CASE ConnectFails(a) \/ Release(a)
        BY <1>2, <4>2, <2>1 DEF ConnectFails, Release, ChangeActive, tracker, counts, TypeOK
      <4>3. CASE Claim(a)
        BY <1>2, <4>3, <2>1 DEF Claim, ClaimProxy, Placed, At, tracker, counts, TypeOK
      <4>4. CASE Disconnected(a)
        BY <1>2, <4>4, <2>1 DEF Disconnected, UnclaimProxy, Placed, At, counts, TypeOK
      <4> QED
        BY <3>3, <4>1, <4>2, <4>3, <4>4 DEF AgentStep
    <3>4. ASSUME NEW a \in Agents, FeedStep(a)
          PROVE  TargetNamed'
      BY <1>2, <3>4, <2>2 DEF FeedStep, Feed, TrackExpected, SetTarget, TypeOK
    <3>5. ASSUME NEW a \in Agents, Discovery(a) \/ Break(a)
          PROVE  TargetNamed'
      BY <1>2, <3>5, <2>1 DEF Discovery, Break, tracker, counts, TypeOK
    <3>6. ASSUME NEW p \in Proxies, ChangeProxy(p)
          PROVE  TargetNamed'
      BY <1>2, <3>6, <2>1 DEF ChangeProxy, tracker, counts, TypeOK
    <3> QED
      BY <2>3, <3>1, <3>2, <3>3, <3>4, <3>5, <3>6 DEF Next
  <2>4. CASE UNCHANGED vars
    BY <1>2, <2>4, <2>1 DEF vars, tracker, counts, TypeOK
  <2> QED
    BY <1>2, <2>3, <2>4
<1>3. IInv => TypeOK /\ Placed
  BY DEF IInv
<1> QED
  BY <1>1, <1>2, <1>3, IInvHolds, PTL DEF Spec
=============================================================================
