---------------------------- MODULE NodeRotation ----------------------------
(***************************************************************************)
(* How the processes of a cluster follow the rotation of the host          *)
(* authority: connect, firstTimeConnect, syncRotationState, rotate and     *)
(* reRegister of lib/service/connect.go, GenerateServerKeys of             *)
(* lib/auth/auth.go and the process storage of lib/auth/state.go, next to  *)
(* the state machine of CAPhases.                                          *)
(*                                                                         *)
(* An auth process and the processes that connect to it each keep on disk  *)
(* a rotation state and two identities.  An identity is the key that       *)
(* signed it, the keys it trusts and the version of the principals in it.  *)
(* The auth server answers from its cache of the authority.  Every read,   *)
(* request and write to disk is a step; a process may stop between any     *)
(* two of them.                                                            *)
(***************************************************************************)
EXTENDS CAPhases

CONSTANTS
    Auth,           \* the auth process
    Nodes,          \* processes that connect to it
    Host,           \* the type of the host authority
    MaxRotations,   \* bound: rotations started
    MaxFaults,      \* bound: crashes and failed calls
    MaxNames,       \* bound: changes of principals, all of one process
    Rollbacks       \* whether rotations are rolled back

ASSUME NodeAssumption ==
    /\ Auth \notin Nodes
    /\ MaxRotations \in Nat /\ MaxFaults \in Nat /\ MaxNames \in Nat
    /\ Rollbacks \in BOOLEAN
    /\ CATypes = {Host}
    /\ Keys = 1..(MaxRotations + 1)
    /\ IDs = 0..MaxRotations

VARIABLES
    before,     \* history: the rotation of the authority before its last change
    kept,       \* history: processes that joined with their identity on disk and
                \* were done with every change since when the next one came
    strays,     \* history: processes that joined in the middle of a rotation, or
                \* could not write the identity they joined with
    view,       \* the authority in the auth server's cache
    disk,       \* the process storage
    mem,        \* what a running process is doing
    faults      \* faults so far

vars == <<cas, origin, before, kept, strays, view, disk, mem, faults>>

-----------------------------------------------------------------------------
Procs == {Auth} \cup Nodes

Rotation(ca) == [id |-> ca.id, state |-> ca.state, phase |-> ca.phase]
NoRotation == [id |-> 0, state |-> "none", phase |-> "none"]
Rotations ==
    [id : IDs, state : States, phase : Phases] \cup {NoRotation}

Identity == [key : {0} \cup Keys, trusts : SUBSET Keys, names : 0..MaxNames]
NoIdentity == [key |-> 0, trusts |-> {}, names |-> 0]

Slots == {"current", "replacement"}

\* pc: "off"; "up" waits for a change; "reg" asks for an identity; "wid" writes
\* one and "wst" the state; "reload" restarts; "join" holds its first identity.
Down == [pc |-> "off", client |-> NoIdentity, server |-> NoIdentity,
         remote |-> NoRotation, slot |-> "current", ident |-> NoIdentity]

TypeOK ==
    /\ cas \in [CATypes -> CertAuthority]
    /\ before \in Rotations
    /\ kept \subseteq Procs /\ strays \subseteq Nodes
    /\ view \in CertAuthority
    /\ disk \in [Procs -> [state : Rotations, current : Identity,
                           replacement : Identity, names : 0..MaxNames]]
    /\ mem \in [Procs -> [pc : {"off", "up", "reg", "wid", "wst", "reload", "join"},
                          client : Identity, server : Identity,
                          remote : Rotations, slot : Slots, ident : Identity]]
    /\ faults \in 0..MaxFaults

-----------------------------------------------------------------------------
\* GenerateServerKeys: signed by the active key, with every trusted key.
Issue(ca, names) ==
    [key |-> CHOOSE k \in ca.active : TRUE, trusts |-> Trusted(ca), names |-> names]

\* Mutant: a process in rollback keeps its new identity.
ClientIdentityLate(d) ==
    IF d.state.phase \in {"update_clients", "update_servers", "rollback"}
      THEN d.replacement ELSE d.current

\* Mutant: servers are updated together with clients.
ServerIdentityEarly(d) ==
    IF d.state.phase \in {"update_clients", "update_servers"}
      THEN d.replacement ELSE d.current

\* connect: the identities that go with the state on disk.
ClientIdentity(d) ==
    IF d.state.phase \in {"update_clients", "update_servers"}
      THEN d.replacement ELSE d.current
ServerIdentity(d) ==
    IF d.state.phase = "update_servers" THEN d.replacement ELSE d.current

\* newClient: the auth server is there, and the two trust each other.
CanTalk(identity) ==
    /\ mem[Auth].pc # "off"
    /\ identity.key \in Trusted(view)
    /\ mem[Auth].server.key \in identity.trusts

Reaches(p) == p = Auth \/ CanTalk(mem[p].client)

NodeInit ==
    LET ca == StandbyCA({1}, 0)
        first == [state |-> Rotation(ca), current |-> Issue(ca, 0),
                  replacement |-> NoIdentity, names |-> 0]
        up == [Down EXCEPT !.pc = "up", !.client = Issue(ca, 0),
                           !.server = Issue(ca, 0)]
    IN  /\ cas = [ty \in CATypes |-> ca]
        /\ origin = [ty \in CATypes |-> ca.active]
        /\ before = Rotation(ca)
        /\ kept = {Auth}
        /\ strays = {}
        /\ view = ca
        /\ disk = [p \in Procs |-> IF p = Auth THEN first
                                   ELSE [first EXCEPT !.state = NoRotation,
                                                      !.current = NoIdentity]]
        /\ mem = [p \in Procs |-> IF p = Auth THEN up ELSE Down]
        /\ faults = 0

-----------------------------------------------------------------------------
\* The process has recorded the rotation of the cluster.
Synced(p) == Matches(disk[p].state, Rotation(cas[Host]))

NextChange ==
    /\ before' = Rotation(cas[Host])
    /\ kept' = {p \in kept : Synced(p) /\ mem[p].pc # "reload"}

\* RotateCertAuthority: every rotation makes one key.
StartRotation ==
    LET ca == cas[Host]
    IN  /\ CanEnter(ca, "init")
        /\ ca.id < MaxRotations
        /\ cas' = [cas EXCEPT ![Host] =
                       startNewRotation(@, "manual", FALSE, {ca.id + 2}, ca.id + 1)]
        /\ origin' = [origin EXCEPT ![Host] = ca.active]
        /\ NextChange
        /\ UNCHANGED <<strays, view, disk, mem, faults>>

EnterPhase ==
    /\ \E target \in Phases \ {"init"} :
         /\ target = "rollback" => Rollbacks
         /\ CanEnter(cas[Host], target)
         /\ cas' = [cas EXCEPT ![Host] = Entered(@, target, "manual")]
    /\ NextChange
    /\ UNCHANGED <<origin, strays, view, disk, mem, faults>>

\* The cache of the auth server catches up.
CacheUpdate ==
    /\ view # cas[Host]
    /\ view' = cas[Host]
    /\ UNCHANGED <<cas, origin, before, kept, strays, disk, mem, faults>>

-----------------------------------------------------------------------------
Move(p, record) == mem' = [mem EXCEPT ![p] = record]
Cluster == <<cas, origin, before, kept, strays, view>>

\* connect: a process starts, or reloads, with what is on its disk.  The old
\* process of a reload stays until the new one has connected.
Connect(p) ==
    LET d == disk[p]
    IN  /\ mem[p].pc \in {"off", "reload"}
        /\ d.state # NoRotation
        /\ ClientIdentity(d) # NoIdentity /\ ServerIdentity(d) # NoIdentity
        /\ p = Auth \/ CanTalk(ClientIdentity(d))
        /\ Move(p, [Down EXCEPT !.pc = "up", !.client = ClientIdentity(d),
                                !.server = ServerIdentity(d)])
        /\ UNCHANGED <<Cluster, disk, faults>>

\* firstTimeConnect: no state on disk, the process registers with a token.
Join(p) ==
    /\ mem[p].pc = "off"
    /\ disk[p].state = NoRotation
    /\ mem[Auth].pc # "off"
    /\ Move(p, [Down EXCEPT !.pc = "join", !.ident = Issue(view, disk[p].names)])
    /\ UNCHANGED <<Cluster, disk, faults>>

\* Mutant: the state is read without the identity.
JoinGetAnyhow(p) ==
    /\ mem[p].pc = "join"
    /\ Move(p, [mem[p] EXCEPT !.pc = "wid", !.remote = Rotation(view)])
    /\ UNCHANGED <<Cluster, disk, faults>>

\* It connects with the identity and reads the state it is going to record.
JoinGet(p) ==
    /\ mem[p].pc = "join"
    /\ CanTalk(mem[p].ident)
    /\ Move(p, [mem[p] EXCEPT !.pc = "wid", !.remote = Rotation(view)])
    /\ UNCHANGED <<Cluster, disk, faults>>

Joining(p) == mem[p].client = NoIdentity

-----------------------------------------------------------------------------
\* rotate: the state on disk and the one of the cluster are not the same, or
\* the identity lacks a principal.
OutOfDate(p) ==
    \/ ~Matches(disk[p].state, Rotation(view))
    \/ mem[p].server.names # disk[p].names

\* Mutant: the current identity is overwritten at once.
RegisterSlotCurrent(remote) == "current"

\* rotate: the slot of the new identity.
RegisterSlot(remote) ==
    IF remote.phase = "update_clients" THEN "replacement" ELSE "current"

\* Mutant: a rollback is followed from the phases that swapped the keys only.
MustRegisterSwapped(p, local, remote) ==
    \/ /\ remote.state = "standby" /\ local.state = "in_progress"
       /\ local.phase = "rollback" \/ local.id = remote.id
    \/ /\ remote.phase = "update_clients"
       /\ local.phase = "init" \/ local.id = remote.id
    \/ remote.phase = "rollback" /\ local.phase # "init"

\* rotate: the states that ask for a new identity.
MustRegister(p, local, remote) ==
    \/ /\ remote.state = "standby" /\ local.state = "standby"
       /\ mem[p].server.names # disk[p].names
    \/ /\ remote.state = "standby" /\ local.state = "in_progress"
       /\ local.phase = "rollback" \/ local.id = remote.id
    \/ /\ remote.phase = "update_clients"
       /\ local.phase = "init" \/ local.id = remote.id
    \/ remote.phase = "rollback"

SyncRegister(p) ==
    LET local == disk[p].state
        remote == Rotation(view)
    IN  /\ mem[p].pc = "up" /\ Reaches(p) /\ OutOfDate(p)
        /\ MustRegister(p, local, remote)
        /\ Move(p, [mem[p] EXCEPT !.pc = "reg", !.remote = remote,
                                  !.slot = RegisterSlot(remote)])
        /\ UNCHANGED <<Cluster, disk, faults>>

\* The init phase is only recorded.
SyncInit(p) ==
    /\ mem[p].pc = "up" /\ Reaches(p) /\ OutOfDate(p)
    /\ view.phase = "init" /\ disk[p].state.state = "standby"
    /\ Move(p, [mem[p] EXCEPT !.pc = "wst", !.remote = Rotation(view)])
    /\ UNCHANGED <<Cluster, disk, faults>>

\* The replacement becomes the current identity.
SyncInstall(p) ==
    LET local == disk[p].state
    IN  /\ mem[p].pc = "up" /\ Reaches(p) /\ OutOfDate(p)
        /\ view.phase = "update_servers"
        /\ local.phase = "update_clients" \/ local.id = view.id
        /\ disk[p].replacement # NoIdentity
        /\ Move(p, [mem[p] EXCEPT !.pc = "wid", !.remote = Rotation(view),
                                  !.slot = "current", !.ident = disk[p].replacement])
        /\ UNCHANGED <<Cluster, disk, faults>>

\* reRegister: the auth process signs for itself; for any other process the
\* server makes sure that both mean the same rotation.  If they do not, it reads
\* the authority again, but GetCertAuthority asks the cache like the first read:
\* a second read that helps is this step, taken after the CacheUpdate.
ReRegister(p) ==
    /\ mem[p].pc = "reg"
    /\ \/ p = Auth
       \/ CanTalk(mem[p].client) /\ Matches(mem[p].remote, Rotation(view))
    /\ Move(p, [mem[p] EXCEPT !.pc = "wid", !.ident = Issue(view, disk[p].names)])
    /\ UNCHANGED <<Cluster, disk, faults>>

ReRegisterRefused(p) ==
    /\ mem[p].pc = "reg" /\ p # Auth
    /\ ~CanTalk(mem[p].client) \/ ~Matches(mem[p].remote, Rotation(view))
    /\ Move(p, [mem[p] EXCEPT !.pc = "up"])
    /\ UNCHANGED <<Cluster, disk, faults>>

\* Storage: the identity first.  New principals alone change no state.
WriteIdentity(p) ==
    LET m == mem[p]
    IN  /\ m.pc = "wid"
        /\ disk' = [disk EXCEPT ![p][m.slot] = m.ident]
        /\ Move(p, [m EXCEPT !.pc =
               IF m.remote.state = "standby" /\ disk[p].state.state = "standby"
                 THEN "reload" ELSE "wst"])
        /\ UNCHANGED <<Cluster, faults>>

\* Then the state.  A process that has just joined and one that has seen the
\* init phase go on, the others reload.
WriteState(p) ==
    LET m == mem[p]
    IN  /\ m.pc = "wst"
        /\ disk' = [disk EXCEPT ![p].state = m.remote]
        /\ Move(p, CASE Joining(p) -> [Down EXCEPT !.pc = "up", !.client = m.ident,
                                                   !.server = m.ident]
                     [] ~Joining(p) /\ m.remote.phase = "init" -> [m EXCEPT !.pc = "up"]
                     [] OTHER -> [m EXCEPT !.pc = "reload"])
        /\ kept' = IF /\ Joining(p) /\ Matches(m.remote, Rotation(cas[Host]))
                      /\ disk[p].current = m.ident
                     THEN kept \cup {p} ELSE kept
        /\ strays' = IF Joining(p) /\ m.remote.state = "in_progress"
                     THEN strays \cup {p} ELSE strays
        /\ UNCHANGED <<cas, origin, before, view, faults>>

-----------------------------------------------------------------------------
\* A call to the auth server or to the disk returns an error.  A process that
\* joins only logs that it could not write its identity.
CallFails(p) ==
    /\ faults < MaxFaults
    /\ mem[p].pc \in {"reg", "wid", "wst", "join"}
    /\ Move(p, CASE ~Joining(p) -> [mem[p] EXCEPT !.pc = "up"]
                 [] Joining(p) /\ mem[p].pc = "wid" -> [mem[p] EXCEPT !.pc = "wst"]
                 [] OTHER -> Down)
    /\ strays' = IF Joining(p) /\ mem[p].pc = "wid" THEN strays \cup {p} ELSE strays
    /\ faults' = faults + 1
    /\ UNCHANGED <<cas, origin, before, kept, view, disk>>

Crash(p) ==
    /\ faults < MaxFaults
    /\ mem[p].pc # "off"
    /\ Move(p, Down)
    /\ faults' = faults + 1
    /\ UNCHANGED <<Cluster, disk>>

\* The principals of a process that has joined are changed in its
\* configuration, and it is started again.
Reconfigure(p) ==
    /\ mem[p].pc = "off" /\ disk[p].state # NoRotation
    /\ disk[p].names < MaxNames
    /\ \A q \in Procs \ {p} : disk[q].names = 0
    /\ disk' = [disk EXCEPT ![p].names = @ + 1]
    /\ UNCHANGED <<Cluster, mem, faults>>

Step(p) ==
    \/ Connect(p) \/ JoinGet(p)
    \/ SyncRegister(p) \/ SyncInit(p) \/ SyncInstall(p)
    \/ ReRegister(p) \/ ReRegisterRefused(p)
    \/ WriteIdentity(p) \/ WriteState(p)

NodeNext ==
    \/ StartRotation \/ EnterPhase \/ CacheUpdate
    \/ \E p \in Procs : Step(p) \/ CallFails(p) \/ Crash(p) \/ Reconfigure(p)
    \/ \E p \in Nodes : Join(p)

NodeSpec == NodeInit /\ [][NodeNext]_vars

\* Processes go on and are started again, and the cache catches up; nobody is
\* obliged to move the rotation.
NodeFairness ==
    /\ WF_vars(CacheUpdate)
    /\ \A p \in Procs : WF_vars(Step(p))

FairNodeSpec == NodeSpec /\ NodeFairness

-----------------------------------------------------------------------------
\* At every change of the rotation it was done with the one before, from a
\* time at which no rotation was under way and its identity was on disk.  (A
\* process that joins in the middle of one cannot be started again in
\* update_clients and update_servers, and is locked out at the end if it
\* registered in init; one that could not write its first identity cannot be
\* started again either.)
InStep(p) == p \in kept \ strays

\* The cache is at most one change behind.
CacheInStep == Matches(view, cas[Host]) \/ Matches(view, before)

\* A process that has kept up uses identities the cluster trusts, on whatever
\* way it got where it is.
KeptTrusted ==
    \A p \in Procs :
        mem[p].pc # "off" /\ ~Joining(p) /\ InStep(p) =>
            {mem[p].client.key, mem[p].server.key} \subseteq Trusted(cas[Host])

\* No process records a rotation under which its identity is distrusted
\* already, also if it joined in the middle of one.  (One that could not write
\* its first identity may: after a restart it serves with what an earlier try
\* has left on its disk, if the rotation asks for that slot.)
SyncedTrusted ==
    \A p \in kept :
        mem[p].pc = "up" /\ Synced(p) =>
            {mem[p].client.key, mem[p].server.key} \subseteq Trusted(cas[Host])

\* What the four phases are for: whoever is at most one change behind can
\* talk to an auth server that is at most one change behind, while either of
\* them reloads or after a crash of either.
InStepTrust ==
    \A p \in Nodes :
        /\ mem[p].pc \in {"up", "reg", "reload"} /\ InStep(p)
        /\ mem[Auth].pc # "off" /\ InStep(Auth) /\ CacheInStep
        => CanTalk(mem[p].client)

\* The state on disk goes with the identities on disk: a process can be
\* started again ("continuously attempts to reconnect to the auth service
\* until succeeds").
CanRestart ==
    \A p \in Procs \ strays :
        disk[p].state # NoRotation =>
            ClientIdentity(disk[p]) # NoIdentity /\ ServerIdentity(disk[p]) # NoIdentity

\* A process that is at most one change behind catches up with the cluster,
\* unless the cluster moves on first; a node needs an auth server that is not
\* further behind.
CatchesUp ==
    \A p \in Procs :
        LET able == InStep(p) /\ InStep(Auth)
        IN  able ~> Synced(p) \/ ~able
=============================================================================
