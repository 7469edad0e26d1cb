------------------------- MODULE NodeRotationProofs -------------------------
(***************************************************************************)
(* Proofs about NodeRotation, for any number of processes, rotations and   *)
(* faults: the state is well formed, a process can be started again with   *)
(* what is on its disk, one that has kept up is trusted, and it can talk   *)
(* to an auth server that has kept up.                                     *)
(*                                                                         *)
(* The order of the writes makes a restart possible.  IInv says, for every *)
(* step between the read of the cluster's rotation and the write of it,    *)
(* what the slots of the process storage hold by then: the identity that   *)
(* goes with a state is on disk before the state is.                       *)
(*                                                                         *)
(* The order of the phases makes trust last.  TrustInv says that whoever   *)
(* has kept up is at the record of the cluster or at the one before it,    *)
(* and on which side of the rotation its keys are by then.  StrayInv says  *)
(* the little that is left of it for a process that joined in the middle   *)
(* of a rotation.                                                          *)
(***************************************************************************)
EXTENDS NodeRotation, TLAPS

Swapped == {"update_clients", "update_servers"}

\* A key to sign with, in every phase that may be entered next.
WellFormedCA(ca) ==
    /\ ca.active # {}
    /\ ca.phase # "standby" => ca.additional # {}
    /\ ca.state = "standby" <=> ca.phase = "standby"

WellFormedRotation(r) == r.state = "standby" <=> r.phase = "standby"

\* The identities that go with the state on disk are there.
DiskReady(p) ==
    p \notin strays /\ disk[p].state # NoRotation =>
        /\ disk[p].current # NoIdentity
        /\ disk[p].state.phase \in Swapped => disk[p].replacement # NoIdentity

\* A process that has joined has a state on disk, and is about to write what
\* goes with the rotation it is about to record.
FollowerReady(p) ==
    LET m == mem[p]
    IN  m.pc # "off" /\ ~Joining(p) =>
          /\ disk[p].state # NoRotation
          /\ m.pc # "join"
          /\ m.pc = "reg" => /\ m.remote.phase # "update_servers"
                             /\ m.slot = RegisterSlot(m.remote)
          /\ m.pc = "wid" =>
               /\ m.remote.phase = "update_clients" => m.slot = "replacement"
               /\ m.remote.phase = "update_servers" =>
                      disk[p].replacement # NoIdentity
          /\ m.pc = "wst" /\ m.remote.phase \in Swapped =>
               disk[p].replacement # NoIdentity

\* A process that joins has none, and writes its identity first.
JoinerReady(p) ==
    LET m == mem[p]
    IN  m.pc # "off" /\ Joining(p) =>
          /\ m.pc \in {"join", "wid", "wst"} /\ p \in Nodes
          /\ disk[p].state = NoRotation /\ m.slot = "current"
          /\ m.pc = "wst" /\ p \notin strays => disk[p].current # NoIdentity
          /\ m.ident # NoIdentity

MemReady(p) ==
    /\ mem[p].pc = "wid" => mem[p].ident # NoIdentity
    /\ mem[p].pc \in {"reg", "wid", "wst"} => mem[p].remote.state \in States
    /\ WellFormedRotation(mem[p].remote)

Ready(p) ==
    /\ WellFormedRotation(disk[p].state)
    /\ DiskReady(p) /\ FollowerReady(p) /\ JoinerReady(p) /\ MemReady(p)

IInv ==
    /\ TypeOK
    /\ WellFormedCA(cas[Host]) /\ WellFormedCA(view)
    /\ \A p \in Procs : Ready(p)

Storage ==
    [state : Rotations, current : Identity, replacement : Identity,
     names : 0..MaxNames]
Process ==
    [pc : {"off", "up", "reg", "wid", "wst", "reload", "join"},
     client : Identity, server : Identity,
     remote : Rotations, slot : Slots, ident : Identity]

-----------------------------------------------------------------------------
\* The bounds are numbers.
LEMMA Bounds ==
    /\ MaxRotations \in Nat /\ MaxFaults \in Nat /\ MaxNames \in Nat
    /\ 0 \in IDs /\ 1 \in Keys /\ 0 \notin Keys
    /\ CATypes = {Host} /\ Host \in CATypes
    /\ Auth \in Procs /\ Nodes \subseteq Procs
BY NodeAssumption DEF Procs

\* The rotation record of an authority.
LEMMA RotationType ==
    ASSUME NEW ca \in CertAuthority
    PROVE  /\ Rotation(ca) \in Rotations
           /\ Rotation(ca).state = ca.state /\ Rotation(ca).phase = ca.phase
           /\ Rotation(ca).id = ca.id
           /\ ca.state \in States /\ ca.phase \in Phases
           /\ WellFormedCA(ca) => WellFormedRotation(Rotation(ca))
BY DEF Rotation, Rotations, CertAuthority, WellFormedCA, WellFormedRotation

\* GenerateServerKeys: an authority with an active key signs an identity.
LEMMA IssueType ==
    ASSUME NEW ca \in CertAuthority, ca.active # {}, NEW n \in 0..MaxNames
    PROVE  Issue(ca, n) \in Identity /\ Issue(ca, n) # NoIdentity
<1>1. ca.active \subseteq Keys /\ Trusted(ca) \subseteq Keys
  BY DEF CertAuthority, Trusted
<1>2. (CHOOSE k \in ca.active : TRUE) \in ca.active
  OBVIOUS
<1>3. Issue(ca, n).key \in Keys
  BY <1>1, <1>2 DEF Issue
<1>4. Issue(ca, n).key # NoIdentity.key
  BY <1>3, Bounds DEF NoIdentity
<1>5. QED
  BY <1>1, <1>2, <1>4 DEF Issue, Identity

\* No slot and no record is outside its type when it is empty.
LEMMA EmptyType ==
    /\ NoIdentity \in Identity /\ NoRotation \in Rotations
    /\ NoRotation.state \notin States /\ NoRotation.phase \notin Phases
    /\ NoRotation.phase \notin Swapped
    /\ WellFormedRotation(NoRotation)
BY Bounds DEF NoIdentity, Identity, NoRotation, Rotations, States, Phases,
              Swapped, WellFormedRotation

\* What a process that stops is left with.
LEMMA DownType == Down \in Process
BY EmptyType DEF Down, Process, Slots

\* The identities connect takes from the disk.
LEMMA SlotType ==
    ASSUME NEW d \in Storage
    PROVE  ClientIdentity(d) \in Identity /\ ServerIdentity(d) \in Identity
BY DEF Storage, ClientIdentity, ServerIdentity

-----------------------------------------------------------------------------
\* A step of one process touches no other, so that it is enough to look at
\* the process itself.
LEMMA OwnStep ==
    ASSUME IInv, NEW p \in Procs, NEW m \in Process, NEW d \in Storage,
           UNCHANGED <<cas, before, view>>,
           kept' \subseteq Procs, strays' \subseteq Nodes,
           \A q \in Procs \ {p} : q \in strays' <=> q \in strays,
           mem' = [mem EXCEPT ![p] = m],
           disk' = [disk EXCEPT ![p] = d],
           faults' \in 0..MaxFaults,
           Ready(p)'
    PROVE  IInv'
<1>1. mem \in [Procs -> Process] /\ disk \in [Procs -> Storage]
  BY DEF IInv, TypeOK, Process, Storage
<1>2. mem' \in [Procs -> Process] /\ disk' \in [Procs -> Storage]
  BY <1>1
<1>3. TypeOK'
  BY <1>2 DEF IInv, TypeOK, Process, Storage
<1>4. ASSUME NEW q \in Procs, q # p PROVE Ready(q)'
  <2>1. disk'[q] = disk[q] /\ mem'[q] = mem[q] /\ (q \in strays' <=> q \in strays)
    BY <1>1, <1>4
  <2>2. Ready(q)
    BY DEF IInv
  <2>3. WellFormedRotation(disk[q].state)'
    BY <2>1, <2>2 DEF Ready, WellFormedRotation
  <2>4. DiskReady(q)'
    BY <2>1, <2>2 DEF Ready, DiskReady
  <2>5. FollowerReady(q)'
    BY <2>1, <2>2 DEF Ready, FollowerReady, Joining
  <2>6. JoinerReady(q)'
    BY <2>1, <2>2 DEF Ready, JoinerReady, Joining
  <2>7. MemReady(q)'
    BY <2>1, <2>2 DEF Ready, MemReady, WellFormedRotation
  <2>8. QED
    BY <2>3, <2>4, <2>5, <2>6, <2>7 DEF Ready
<1>5. WellFormedCA(cas[Host])' /\ WellFormedCA(view)'
  BY DEF IInv, WellFormedCA
<1>6. QED
  BY <1>3, <1>4, <1>5 DEF IInv

\* Most steps leave the disk alone.
LEMMA OwnMove ==
    ASSUME IInv, NEW p \in Procs, NEW m \in Process,
           UNCHANGED <<cas, before, view, kept, strays, disk>>, Move(p, m),
           faults' \in 0..MaxFaults,
           Ready(p)'
    PROVE  IInv'
<1>1. disk \in [Procs -> Storage]
  BY DEF IInv, TypeOK, Storage
<1>2. disk[p] \in Storage /\ disk' = [disk EXCEPT ![p] = disk[p]]
  BY <1>1
<1>3. mem' = [mem EXCEPT ![p] = m]
  BY DEF Move
<1>4. kept' \subseteq Procs /\ strays' \subseteq Nodes
  BY DEF IInv, TypeOK
<1>5. QED
  BY <1>2, <1>3, <1>4, OwnStep

\* What is known of a process before its step.
LEMMA Before ==
    ASSUME IInv, NEW p \in Procs
    PROVE  /\ mem \in [Procs -> Process] /\ disk \in [Procs -> Storage]
           /\ mem[p] \in Process /\ disk[p] \in Storage
           /\ view \in CertAuthority /\ cas[Host] \in CertAuthority
           /\ Rotation(view) \in Rotations
           /\ WellFormedRotation(Rotation(view))
           /\ faults \in 0..MaxFaults
           /\ Issue(view, disk[p].names) \in Identity
           /\ Issue(view, disk[p].names) # NoIdentity
<1>1. mem \in [Procs -> Process] /\ disk \in [Procs -> Storage]
  BY DEF IInv, TypeOK, Process, Storage
<1>2. view \in CertAuthority /\ cas[Host] \in CertAuthority /\ faults \in 0..MaxFaults
  BY Bounds DEF IInv, TypeOK
<1>3. WellFormedCA(view)
  BY DEF IInv
<1>4. disk[p].names \in 0..MaxNames
  BY <1>1 DEF Storage
<1>5. view.active # {}
  BY <1>3 DEF WellFormedCA
<1>6. QED
  BY <1>1, <1>2, <1>3, <1>4, <1>5, RotationType, IssueType

-----------------------------------------------------------------------------
\* The steps of a process.

\* connect starts a process with identities that are there.
LEMMA ConnectReady ==
    ASSUME IInv, NEW p \in Procs, Connect(p)
    PROVE  IInv'
<1> DEFINE d == disk[p]
           m == [Down EXCEPT !.pc = "up", !.client = ClientIdentity(d),
                             !.server = ServerIdentity(d)]
<1>1. ClientIdentity(d) \in Identity /\ ServerIdentity(d) \in Identity
  BY Before, SlotType
<1>2. m \in Process
  BY <1>1, DownType DEF Process, Down
<1>3. mem' = [mem EXCEPT ![p] = m] /\ mem'[p] = m /\ Move(p, m)
  BY Before DEF Connect, Move
<1>4. UNCHANGED <<cas, before, view, kept, strays, disk, faults>>
  BY DEF Connect, Cluster
<1>5. Ready(p) /\ d.state # NoRotation /\ ClientIdentity(d) # NoIdentity
  BY DEF IInv, Connect
<1>6. m.pc = "up" /\ m.client # NoIdentity /\ m.remote = NoRotation
  BY <1>5 DEF Down
<1>7. Ready(p)'
  BY <1>3, <1>4, <1>5, <1>6, EmptyType
     DEF Ready, DiskReady, FollowerReady, JoinerReady, MemReady, Joining,
         WellFormedRotation
<1>8. QED
  BY <1>2, <1>3, <1>4, <1>7, OwnMove, Before

\* firstTimeConnect: a process without a state asks for its first identity.
LEMMA JoinReady ==
    ASSUME IInv, NEW p \in Nodes, Join(p)
    PROVE  IInv'
<1> DEFINE m == [Down EXCEPT !.pc = "join", !.ident = Issue(view, disk[p].names)]
<1>1. p \in Procs
  BY Bounds
<1>2. m \in Process
  BY <1>1, Before, DownType DEF Process, Down
<1>3. mem'[p] = m /\ Move(p, m)
  BY <1>1, Before DEF Join, Move
<1>4. UNCHANGED <<cas, before, view, kept, strays, disk, faults>>
  BY DEF Join, Cluster
<1>5. Ready(p) /\ disk[p].state = NoRotation
  BY <1>1 DEF IInv, Join
<1>6. /\ m.pc = "join" /\ m.client = NoIdentity /\ m.remote = NoRotation
      /\ m.slot = "current" /\ m.ident # NoIdentity
  BY <1>1, Before DEF Down
<1>7. Ready(p)'
  BY <1>3, <1>4, <1>5, <1>6, EmptyType
     DEF Ready, DiskReady, FollowerReady, JoinerReady, MemReady, Joining,
         WellFormedRotation
<1>8. QED
  BY <1>1, <1>2, <1>3, <1>4, <1>7, OwnMove, Before

\* It reads the rotation it is going to record.
LEMMA JoinGetReady ==
    ASSUME IInv, NEW p \in Procs, JoinGet(p)
    PROVE  IInv'
<1> DEFINE m == [mem[p] EXCEPT !.pc = "wid", !.remote = Rotation(view)]
<1>1. m \in Process
  BY Before DEF Process
<1>2. mem'[p] = m /\ Move(p, m)
  BY Before DEF JoinGet, Move
<1>3. UNCHANGED <<cas, before, view, kept, strays, disk, faults>>
  BY DEF JoinGet, Cluster
<1>4. Ready(p) /\ mem[p].pc = "join"
  BY DEF IInv, JoinGet
<1>5. Joining(p) /\ mem[p].ident # NoIdentity
  BY <1>4 DEF Ready, FollowerReady, JoinerReady
<1>6. /\ m.pc = "wid" /\ m.client = mem[p].client /\ m.ident = mem[p].ident
      /\ m.slot = mem[p].slot /\ m.remote = Rotation(view)
  BY Before DEF Process
<1>7. Rotation(view).state \in States /\ WellFormedRotation(Rotation(view))
  BY Before, RotationType
<1>8. Ready(p)'
  BY <1>2, <1>3, <1>4, <1>5, <1>6, <1>7
     DEF Ready, DiskReady, FollowerReady, JoinerReady, MemReady, Joining,
         WellFormedRotation
<1>9. QED
  BY <1>1, <1>2, <1>3, <1>8, OwnMove, Before

\* A process that is up has joined.
LEMMA UpFollows ==
    ASSUME IInv, NEW p \in Procs, mem[p].pc \in {"up", "reg", "reload"}
    PROVE  ~Joining(p) /\ disk[p].state # NoRotation /\ Ready(p)
BY DEF IInv, Ready, JoinerReady, FollowerReady

\* The slot a new identity will be written to is the one its record asks for.
LEMMA SyncRegisterReady ==
    ASSUME IInv, NEW p \in Procs, SyncRegister(p)
    PROVE  IInv'
<1> DEFINE remote == Rotation(view)
           m == [mem[p] EXCEPT !.pc = "reg", !.remote = remote,
                               !.slot = RegisterSlot(remote)]
<1>1. m \in Process
  BY Before DEF Process, RegisterSlot, Slots
<1>2. mem'[p] = m /\ Move(p, m)
  BY Before DEF SyncRegister, Move
<1>3. UNCHANGED <<cas, before, view, kept, strays, disk, faults>>
  BY DEF SyncRegister, Cluster
<1>4. Ready(p) /\ mem[p].pc = "up" /\ ~Joining(p) /\ disk[p].state # NoRotation
  BY UpFollows DEF SyncRegister
<1>5. /\ m.pc = "reg" /\ m.client = mem[p].client
      /\ m.slot = RegisterSlot(remote) /\ m.remote = remote
  BY Before DEF Process
<1>6. remote.state \in States /\ WellFormedRotation(remote)
  BY Before, RotationType
<1>7. remote.phase # "update_servers"
  BY <1>6 DEF SyncRegister, MustRegister, WellFormedRotation
<1>8. Ready(p)'
  BY <1>2, <1>3, <1>4, <1>5, <1>6, <1>7
     DEF Ready, DiskReady, FollowerReady, JoinerReady, MemReady, Joining,
         WellFormedRotation
<1>9. QED
  BY <1>1, <1>2, <1>3, <1>8, OwnMove, Before

\* The init phase needs no new identity.
LEMMA SyncInitReady ==
    ASSUME IInv, NEW p \in Procs, SyncInit(p)
    PROVE  IInv'
<1> DEFINE m == [mem[p] EXCEPT !.pc = "wst", !.remote = Rotation(view)]
<1>1. m \in Process
  BY Before DEF Process
<1>2. mem'[p] = m /\ Move(p, m)
  BY Before DEF SyncInit, Move
<1>3. UNCHANGED <<cas, before, view, kept, strays, disk, faults>>
  BY DEF SyncInit, Cluster
<1>4. Ready(p) /\ mem[p].pc = "up" /\ ~Joining(p) /\ disk[p].state # NoRotation
  BY UpFollows DEF SyncInit
<1>5. m.pc = "wst" /\ m.client = mem[p].client /\ m.remote = Rotation(view)
  BY Before DEF Process
<1>6. /\ Rotation(view).state \in States /\ WellFormedRotation(Rotation(view))
      /\ Rotation(view).phase = "init"
  BY Before, RotationType DEF SyncInit
<1>7. Ready(p)'
  BY <1>2, <1>3, <1>4, <1>5, <1>6
     DEF Ready, DiskReady, FollowerReady, JoinerReady, MemReady, Joining,
         WellFormedRotation, Swapped
<1>8. QED
  BY <1>1, <1>2, <1>3, <1>7, OwnMove, Before

\* The replacement that is installed is on disk: a crash after the state has
\* been written finds it.
LEMMA SyncInstallReady ==
    ASSUME IInv, NEW p \in Procs, SyncInstall(p)
    PROVE  IInv'
<1> DEFINE m == [mem[p] EXCEPT !.pc = "wid", !.remote = Rotation(view),
                               !.slot = "current", !.ident = disk[p].replacement]
<1>1. m \in Process
  BY Before DEF Process, Storage, Slots
<1>2. mem'[p] = m /\ Move(p, m)
  BY Before DEF SyncInstall, Move
<1>3. UNCHANGED <<cas, before, view, kept, strays, disk, faults>>
  BY DEF SyncInstall, Cluster
<1>4. Ready(p) /\ mem[p].pc = "up" /\ ~Joining(p) /\ disk[p].state # NoRotation
  BY UpFollows DEF SyncInstall
<1>5. /\ m.pc = "wid" /\ m.client = mem[p].client /\ m.remote = Rotation(view)
      /\ m.ident = disk[p].replacement /\ disk[p].replacement # NoIdentity
  BY Before DEF Process, SyncInstall
<1>6. /\ Rotation(view).state \in States /\ WellFormedRotation(Rotation(view))
      /\ Rotation(view).phase = "update_servers"
  BY Before, RotationType DEF SyncInstall
<1>7. Ready(p)'
  BY <1>2, <1>3, <1>4, <1>5, <1>6
     DEF Ready, DiskReady, FollowerReady, JoinerReady, MemReady, Joining,
         WellFormedRotation
<1>8. QED
  BY <1>1, <1>2, <1>3, <1>7, OwnMove, Before

\* The server signs an identity for the slot.
LEMMA ReRegisterReady ==
    ASSUME IInv, NEW p \in Procs, ReRegister(p)
    PROVE  IInv'
<1> DEFINE m == [mem[p] EXCEPT !.pc = "wid", !.ident = Issue(view, disk[p].names)]
<1>1. m \in Process
  BY Before DEF Process
<1>2. mem'[p] = m /\ Move(p, m)
  BY Before DEF ReRegister, Move
<1>3. UNCHANGED <<cas, before, view, kept, strays, disk, faults>>
  BY DEF ReRegister, Cluster
<1>4. Ready(p) /\ mem[p].pc = "reg" /\ ~Joining(p) /\ disk[p].state # NoRotation
  BY UpFollows DEF ReRegister
<1>5. /\ m.pc = "wid" /\ m.client = mem[p].client /\ m.remote = mem[p].remote
      /\ m.slot = mem[p].slot /\ m.ident # NoIdentity
  BY Before DEF Process
<1>6. /\ mem[p].remote.phase # "update_servers"
      /\ mem[p].remote.phase = "update_clients" => mem[p].slot = "replacement"
  BY <1>4 DEF Ready, FollowerReady, RegisterSlot
<1>7. Ready(p)'
  BY <1>2, <1>3, <1>4, <1>5, <1>6
     DEF Ready, DiskReady, FollowerReady, JoinerReady, MemReady, Joining,
         WellFormedRotation
<1>8. QED
  BY <1>1, <1>2, <1>3, <1>7, OwnMove, Before

\* A process that was refused tries again.
LEMMA ReRegisterRefusedReady ==
    ASSUME IInv, NEW p \in Procs, ReRegisterRefused(p)
    PROVE  IInv'
<1> DEFINE m == [mem[p] EXCEPT !.pc = "up"]
<1>1. m \in Process
  BY Before DEF Process
<1>2. mem'[p] = m /\ Move(p, m)
  BY Before DEF ReRegisterRefused, Move
<1>3. UNCHANGED <<cas, before, view, kept, strays, disk, faults>>
  BY DEF ReRegisterRefused, Cluster
<1>4. Ready(p) /\ mem[p].pc = "reg" /\ ~Joining(p) /\ disk[p].state # NoRotation
  BY UpFollows DEF ReRegisterRefused
<1>5. m.pc = "up" /\ m.client = mem[p].client /\ m.remote = mem[p].remote
  BY Before DEF Process
<1>6. Ready(p)'
  BY <1>2, <1>3, <1>4, <1>5
     DEF Ready, DiskReady, FollowerReady, JoinerReady, MemReady, Joining,
         WellFormedRotation
<1>7. QED
  BY <1>1, <1>2, <1>3, <1>6, OwnMove, Before

\* No slot is ever emptied, and the one a new identity is written to is the
\* one its state asks for.
LEMMA WriteIdentityReady ==
    ASSUME IInv, NEW p \in Procs, WriteIdentity(p)
    PROVE  IInv'
<1> DEFINE m == mem[p]
           next == IF m.remote.state = "standby" /\ disk[p].state.state = "standby"
                     THEN "reload" ELSE "wst"
           n == [m EXCEPT !.pc = next]
           d == [disk[p] EXCEPT ![m.slot] = m.ident]
<1>1. n \in Process /\ d \in Storage /\ m.slot \in Slots
  BY Before DEF Process, Storage, Slots
<1>2. mem' = [mem EXCEPT ![p] = n] /\ mem'[p] = n
  BY Before DEF WriteIdentity, Move
<1>3. disk' = [disk EXCEPT ![p] = d] /\ disk'[p] = d
  BY Before DEF WriteIdentity
<1>4. UNCHANGED <<cas, before, view, kept, strays, faults>>
  BY DEF WriteIdentity, Cluster
<1>5. Ready(p) /\ m.pc = "wid" /\ m.ident # NoIdentity
  BY DEF IInv, WriteIdentity, Ready, MemReady
<1>6. /\ n.pc \in {"reload", "wst"} /\ n.client = m.client /\ n.slot = m.slot
      /\ n.remote = m.remote /\ n.ident = m.ident
  BY Before DEF Process
<1>7. /\ d.state = disk[p].state
      /\ disk[p].current # NoIdentity => d.current # NoIdentity
      /\ disk[p].replacement # NoIdentity => d.replacement # NoIdentity
      /\ m.slot = "current" => d.current # NoIdentity
      /\ m.slot = "replacement" => d.replacement # NoIdentity
  BY <1>1, <1>5, Before DEF Storage, Slots
<1>8. ASSUME Joining(p) PROVE n.pc = "wst"
  <2>1. disk[p].state = NoRotation
    BY <1>5, <1>8 DEF Ready, JoinerReady
  <2>2. QED
    BY <2>1, <1>6 DEF NoRotation
<1>9. DiskReady(p)'
  BY <1>3, <1>4, <1>5, <1>7 DEF Ready, DiskReady
<1>10. FollowerReady(p)'
  BY <1>2, <1>3, <1>4, <1>5, <1>6, <1>7
     DEF Ready, FollowerReady, Joining, Swapped
<1>11. JoinerReady(p)'
  BY <1>2, <1>3, <1>4, <1>5, <1>6, <1>7, <1>8
     DEF Ready, JoinerReady, Joining
<1>12. MemReady(p)' /\ WellFormedRotation(disk[p].state)'
  BY <1>2, <1>3, <1>5, <1>6, <1>7
     DEF Ready, MemReady, WellFormedRotation
<1>13. Ready(p)'
  BY <1>9, <1>10, <1>11, <1>12 DEF Ready
<1>14. strays' \subseteq Nodes /\ kept' \subseteq Procs /\ faults' \in 0..MaxFaults
  BY <1>4 DEF IInv, TypeOK
<1>15. QED
  BY <1>1, <1>2, <1>3, <1>4, <1>13, <1>14, OwnStep

\* Only processes that join become strays, and the auth process does not.
LEMMA StraysAreNodes ==
    ASSUME IInv, NEW p \in Procs, WriteState(p) \/ CallFails(p)
    PROVE  strays' \subseteq Nodes
<1>1. strays \subseteq Nodes /\ Ready(p) /\ mem[p].pc # "off"
  BY DEF IInv, TypeOK, WriteState, CallFails
<1>2. Joining(p) => p \in Nodes
  BY <1>1 DEF Ready, JoinerReady
<1>3. QED
  BY <1>1, <1>2 DEF WriteState, CallFails

\* The state is written last, so that what goes with it is there; a process
\* that joined in the middle of a rotation counts as a stray.
LEMMA WriteStateReady ==
    ASSUME IInv, NEW p \in Procs, WriteState(p), strays' \subseteq Nodes
    PROVE  IInv'
<1> DEFINE m == mem[p]
           joined == [Down EXCEPT !.pc = "up", !.client = m.ident, !.server = m.ident]
           n == CASE Joining(p) -> joined
                  [] ~Joining(p) /\ m.remote.phase = "init" -> [m EXCEPT !.pc = "up"]
                  [] OTHER -> [m EXCEPT !.pc = "reload"]
           d == [disk[p] EXCEPT !.state = m.remote]
<1>1. m \in Process /\ d \in Storage
  BY Before DEF Process, Storage
<1>2. joined \in Process
  BY <1>1, DownType DEF Process, Down
<1>3. n \in Process
  BY <1>1, <1>2 DEF Process
<1>4. mem' = [mem EXCEPT ![p] = n] /\ mem'[p] = n
  BY Before DEF WriteState, Move
<1>5. disk' = [disk EXCEPT ![p] = d] /\ disk'[p] = d
  BY Before DEF WriteState
<1>6. UNCHANGED <<cas, before, view, faults>>
  BY DEF WriteState
<1>7. /\ strays' = IF Joining(p) /\ m.remote.state = "in_progress"
                     THEN strays \cup {p} ELSE strays
      /\ kept' \subseteq Procs /\ faults' \in 0..MaxFaults
  BY DEF WriteState, IInv, TypeOK
<1>8. \A q \in Procs \ {p} : q \in strays' <=> q \in strays
  BY <1>7
<1>9. Ready(p) /\ m.pc = "wst" /\ m.remote.state \in States
      /\ WellFormedRotation(m.remote)
  BY DEF IInv, WriteState, Ready, MemReady
<1>10. m.remote # NoRotation
  BY <1>9, EmptyType
<1>11. /\ d.state = m.remote /\ d.current = disk[p].current
       /\ d.replacement = disk[p].replacement
  BY Before DEF Storage
<1>12. CASE Joining(p)
  <2>1. m.ident # NoIdentity /\ (p \notin strays => disk[p].current # NoIdentity)
    BY <1>9, <1>12 DEF Ready, JoinerReady
  <2>2. n = joined /\ n.pc = "up" /\ n.client # NoIdentity /\ n.remote = NoRotation
    BY <1>12, <2>1 DEF Down
  <2>3. p \notin strays' => m.remote.phase = "standby" /\ p \notin strays
    BY <1>7, <1>9, <1>12 DEF States, WellFormedRotation
  <2>4. DiskReady(p)'
    BY <1>5, <1>11, <2>1, <2>3 DEF DiskReady, Swapped
  <2>5. FollowerReady(p)' /\ JoinerReady(p)' /\ MemReady(p)'
    BY <1>4, <1>5, <1>10, <1>11, <2>2, EmptyType
       DEF FollowerReady, JoinerReady, MemReady, Joining
  <2>6. QED
    BY <1>1, <1>3, <1>4, <1>5, <1>6, <1>7, <1>8, <1>9, <1>11, <2>4, <2>5, OwnStep
       DEF Ready, WellFormedRotation
<1>13. CASE ~Joining(p)
  <2>1. /\ disk[p].state # NoRotation
        /\ m.remote.phase \in Swapped => disk[p].replacement # NoIdentity
    BY <1>9, <1>13 DEF Ready, FollowerReady
  <2>2. /\ n.pc \in {"up", "reload"} /\ n.client = m.client /\ n.remote = m.remote
    BY <1>1, <1>13 DEF Process
  <2>3. strays' = strays
    BY <1>7, <1>13
  <2>4. DiskReady(p)'
    BY <1>5, <1>9, <1>11, <2>1, <2>3 DEF Ready, DiskReady
  <2>5. FollowerReady(p)' /\ JoinerReady(p)' /\ MemReady(p)'
    BY <1>4, <1>5, <1>9, <1>10, <1>11, <1>13, <2>2
       DEF FollowerReady, JoinerReady, MemReady, Joining, WellFormedRotation
  <2>6. QED
    BY <1>1, <1>3, <1>4, <1>5, <1>6, <1>7, <1>8, <1>9, <1>11, <2>4, <2>5, OwnStep
       DEF Ready, WellFormedRotation
<1>14. QED
  BY <1>12, <1>13

\* A failed call leaves everything to the next try, but for the process that
\* joins without having written its identity.
LEMMA CallFailsReady ==
    ASSUME IInv, NEW p \in Procs, CallFails(p), strays' \subseteq Nodes
    PROVE  IInv'
<1> DEFINE m == mem[p]
           n == CASE ~Joining(p) -> [m EXCEPT !.pc = "up"]
                  [] Joining(p) /\ m.pc = "wid" -> [m EXCEPT !.pc = "wst"]
                  [] OTHER -> Down
<1>1. n \in Process
  BY Before, DownType DEF Process
<1>2. mem' = [mem EXCEPT ![p] = n] /\ mem'[p] = n
  BY Before DEF CallFails, Move
<1>3. UNCHANGED <<cas, before, kept, view, disk>> /\ faults' \in 0..MaxFaults
  BY Before, Bounds DEF CallFails
<1>4. disk[p] \in Storage /\ disk' = [disk EXCEPT ![p] = disk[p]] /\ disk'[p] = disk[p]
  BY <1>3, Before
<1>5. /\ strays' = IF Joining(p) /\ m.pc = "wid" THEN strays \cup {p} ELSE strays
      /\ kept' \subseteq Procs
  BY <1>3 DEF CallFails, IInv, TypeOK
<1>6. Ready(p) /\ m.pc \in {"reg", "wid", "wst", "join"}
  BY DEF IInv, CallFails
<1>7. DiskReady(p)' /\ WellFormedRotation(disk[p].state)'
  BY <1>4, <1>5, <1>6 DEF Ready, DiskReady, WellFormedRotation
<1>8. ASSUME ~Joining(p) PROVE Ready(p)'
  <2>1. n.pc = "up" /\ n.client = m.client /\ n.remote = m.remote
    BY <1>8, Before DEF Process
  <2>2. QED
    BY <1>2, <1>4, <1>6, <1>7, <1>8, <2>1
       DEF Ready, FollowerReady, JoinerReady, MemReady, Joining, WellFormedRotation
<1>9. ASSUME Joining(p), m.pc = "wid" PROVE Ready(p)'
  <2>1. /\ n.pc = "wst" /\ n.client = m.client /\ n.remote = m.remote
        /\ n.slot = m.slot /\ n.ident = m.ident
    BY <1>9, Before DEF Process
  <2>2. p \in strays'
    BY <1>5, <1>9
  <2>3. FollowerReady(p)' /\ JoinerReady(p)' /\ MemReady(p)'
    BY <1>2, <1>4, <1>6, <1>9, <2>1, <2>2
       DEF Ready, FollowerReady, JoinerReady, MemReady, Joining, WellFormedRotation
  <2>4. QED
    BY <1>7, <2>3 DEF Ready
<1>10. ASSUME Joining(p), m.pc # "wid" PROVE Ready(p)'
  <2>1. n = Down
    BY <1>10
  <2>2. n.pc = "off" /\ n.remote = NoRotation
    BY <2>1 DEF Down
  <2>3. FollowerReady(p)' /\ JoinerReady(p)' /\ MemReady(p)'
    BY <1>2, <2>2, EmptyType
       DEF FollowerReady, JoinerReady, MemReady
  <2>4. QED
    BY <1>7, <2>3 DEF Ready
<1>11. Ready(p)'
  BY <1>7, <1>8, <1>9, <1>10 DEF Ready
<1>12. \A q \in Procs \ {p} : q \in strays' <=> q \in strays
  BY <1>5
<1>13. QED
  BY <1>1, <1>2, <1>3, <1>4, <1>5, <1>11, <1>12, OwnStep

\* A crash leaves the disk as it is.
LEMMA CrashReady ==
    ASSUME IInv, NEW p \in Procs, Crash(p)
    PROVE  IInv'
<1>1. Down \in Process /\ Down.pc = "off" /\ Down.remote = NoRotation
  BY DownType DEF Down
<1>2. mem'[p] = Down /\ Move(p, Down)
  BY Before DEF Crash, Move
<1>3. UNCHANGED <<cas, before, view, kept, strays, disk>> /\ faults' \in 0..MaxFaults
  BY Before, Bounds DEF Crash, Cluster
<1>4. Ready(p)
  BY DEF IInv
<1>5. Ready(p)'
  BY <1>1, <1>2, <1>3, <1>4, EmptyType
     DEF Ready, DiskReady, FollowerReady, JoinerReady, MemReady, WellFormedRotation
<1>6. QED
  BY <1>1, <1>2, <1>3, <1>5, OwnMove

\* New principals change no identity.
LEMMA ReconfigureReady ==
    ASSUME IInv, NEW p \in Procs, Reconfigure(p)
    PROVE  IInv'
<1> DEFINE d == [disk[p] EXCEPT !.names = @ + 1]
<1>1. d \in Storage
  BY Before, Bounds DEF Storage, Reconfigure
<1>2. disk' = [disk EXCEPT ![p] = d] /\ disk'[p] = d
  <2>1. disk' = [disk EXCEPT ![p] = d]
    BY Before DEF Reconfigure, Storage
  <2>2. QED
    BY <2>1, Before
<1>3. UNCHANGED <<cas, before, view, kept, strays, mem, faults>>
  BY DEF Reconfigure, Cluster
<1>4. mem[p] \in Process /\ mem' = [mem EXCEPT ![p] = mem[p]]
  BY <1>3, Before
<1>5. /\ d.state = disk[p].state /\ d.current = disk[p].current
      /\ d.replacement = disk[p].replacement
  BY Before DEF Storage
<1>6. Ready(p) /\ mem[p].pc = "off"
  BY DEF IInv, Reconfigure
<1>7. Ready(p)'
  BY <1>2, <1>3, <1>5, <1>6
     DEF Ready, DiskReady, FollowerReady, JoinerReady, MemReady, WellFormedRotation
<1>8. strays' \subseteq Nodes /\ kept' \subseteq Procs /\ faults' \in 0..MaxFaults
  BY <1>3 DEF IInv, TypeOK
<1>9. \A q \in Procs \ {p} : q \in strays' <=> q \in strays
  BY <1>3
<1>10. QED
  BY <1>1, <1>2, <1>3, <1>4, <1>7, <1>8, <1>9, OwnStep

-----------------------------------------------------------------------------
\* The rotation moves on, and no process with it.
LEMMA OwnCluster ==
    ASSUME IInv, UNCHANGED <<strays, disk, mem, faults>>,
           cas' \in [CATypes -> CertAuthority], view' \in CertAuthority,
           before' \in Rotations, kept' \subseteq Procs,
           WellFormedCA(cas'[Host]), WellFormedCA(view')
    PROVE  IInv'
<1>1. TypeOK'
  BY DEF IInv, TypeOK
<1>2. ASSUME NEW p \in Procs PROVE Ready(p)'
  BY DEF IInv, Ready, DiskReady, FollowerReady, JoinerReady, MemReady, Joining,
         WellFormedRotation
<1>3. QED
  BY <1>1, <1>2 DEF IInv, WellFormedCA

\* A rotation starts with a new key next to the old one.
LEMMA StartRotationReady == IInv /\ StartRotation => IInv'
<1> SUFFICES ASSUME IInv, StartRotation PROVE IInv'
  OBVIOUS
<1> DEFINE ca == cas[Host]
           new == startNewRotation(ca, "manual", FALSE, {ca.id + 2}, ca.id + 1)
<1>1. cas \in [CATypes -> CertAuthority] /\ ca \in CertAuthority
  BY Bounds DEF IInv, TypeOK
<1>2. ca.id + 2 \in Keys /\ ca.id + 1 \in IDs
  BY <1>1, NodeAssumption DEF CertAuthority, StartRotation
<1>3. new \in CertAuthority
  BY <1>1, <1>2 DEF startNewRotation, CertAuthority, Phases, Modes, States
<1>4. new.active = ca.active /\ new.additional = {ca.id + 2}
      /\ new.phase = "init" /\ new.state = "in_progress"
  BY <1>1 DEF startNewRotation, CertAuthority
<1>5. WellFormedCA(new)
  BY <1>4 DEF WellFormedCA, IInv
<1>6. cas' = [cas EXCEPT ![Host] = new]
  BY <1>1 DEF StartRotation
<1>7. cas' \in [CATypes -> CertAuthority] /\ cas'[Host] = new
  BY <1>1, <1>3, <1>6, Bounds
<1>8. before' \in Rotations /\ kept' \subseteq Procs
  BY <1>1, RotationType DEF StartRotation, NextChange, IInv, TypeOK
<1>9. view' = view /\ view \in CertAuthority /\ WellFormedCA(view)
  BY DEF StartRotation, IInv, TypeOK
<1>10. QED
  BY <1>5, <1>7, <1>8, <1>9, OwnCluster DEF StartRotation

\* Every operation of rotate.go leaves a key to sign with.
LEMMA EnteredWellFormed ==
    ASSUME NEW ca \in CertAuthority, WellFormedCA(ca),
           NEW target \in Phases \ {"init"}, NEW mode \in Modes, CanEnter(ca, target)
    PROVE  Entered(ca, target, mode) \in CertAuthority
           /\ WellFormedCA(Entered(ca, target, mode))
<1>1. Entered(ca, target, mode) \in CertAuthority
  BY DEF Entered, updateClients, updateServers, startRollingBackRotation,
         completeRotation, Swap, CertAuthority, Phases, Modes, States
<1>2. WellFormedCA(Entered(ca, target, mode))
  <2>1. CASE target = "update_clients"
    BY <2>1 DEF CanEnter, Entered, updateClients, Swap, CertAuthority, WellFormedCA
  <2>2. CASE target = "update_servers"
    BY <2>2 DEF CanEnter, Entered, updateServers, CertAuthority, WellFormedCA
  <2>3. CASE target = "rollback"
    BY <2>3 DEF CanEnter, Entered, startRollingBackRotation, Swap, CertAuthority,
                WellFormedCA
  <2>4. CASE target = "standby"
    BY <2>4 DEF CanEnter, Entered, completeRotation, CertAuthority, WellFormedCA
  <2>5. QED
    BY <2>1, <2>2, <2>3, <2>4 DEF Phases
<1>3. QED
  BY <1>1, <1>2

\* Every phase has a key to sign with.
LEMMA EnterPhaseReady == IInv /\ EnterPhase => IInv'
<1> SUFFICES ASSUME IInv, EnterPhase PROVE IInv'
  OBVIOUS
<1>1. cas \in [CATypes -> CertAuthority] /\ cas[Host] \in CertAuthority
      /\ WellFormedCA(cas[Host])
  BY Bounds DEF IInv, TypeOK
<1>2. PICK target \in Phases \ {"init"} :
        /\ CanEnter(cas[Host], target)
        /\ cas' = [cas EXCEPT ![Host] = Entered(@, target, "manual")]
  BY DEF EnterPhase
<1> DEFINE new == Entered(cas[Host], target, "manual")
<1>3. new \in CertAuthority /\ WellFormedCA(new)
  BY <1>1, <1>2, EnteredWellFormed DEF Modes
<1>4. cas' = [cas EXCEPT ![Host] = new]
  BY <1>1, <1>2
<1> HIDE DEF new
<1>5. cas' \in [CATypes -> CertAuthority] /\ cas'[Host] = new
  BY <1>1, <1>3, <1>4, Bounds
<1>6. before' \in Rotations /\ kept' \subseteq Procs
  BY <1>1, RotationType DEF EnterPhase, NextChange, IInv, TypeOK
<1>7. view' = view /\ view \in CertAuthority /\ WellFormedCA(view)
  BY DEF EnterPhase, IInv, TypeOK
<1>8. QED
  BY <1>3, <1>5, <1>6, <1>7, OwnCluster DEF EnterPhase

\* The cache holds an authority the backend held.
LEMMA CacheUpdateReady == IInv /\ CacheUpdate => IInv'
<1> SUFFICES ASSUME IInv, CacheUpdate PROVE IInv'
  OBVIOUS
<1>1. /\ view' = cas[Host] /\ cas' = cas /\ before' = before /\ kept' = kept
      /\ UNCHANGED <<strays, disk, mem, faults>>
  BY DEF CacheUpdate
<1>2. /\ cas \in [CATypes -> CertAuthority] /\ cas[Host] \in CertAuthority
      /\ WellFormedCA(cas[Host]) /\ before \in Rotations /\ kept \subseteq Procs
  BY Bounds DEF IInv, TypeOK
<1>3. QED
  BY <1>1, <1>2, OwnCluster

-----------------------------------------------------------------------------
\* The first auth server has an identity of the only authority there is.
LEMMA InitReady == NodeInit => IInv
<1> SUFFICES ASSUME NodeInit PROVE IInv
  OBVIOUS
<1> DEFINE ca == StandbyCA({1}, 0)
           first == [state |-> Rotation(ca), current |-> Issue(ca, 0),
                     replacement |-> NoIdentity, names |-> 0]
           empty == [first EXCEPT !.state = NoRotation, !.current = NoIdentity]
           up == [Down EXCEPT !.pc = "up", !.client = Issue(ca, 0),
                              !.server = Issue(ca, 0)]
<1>1. ca \in CertAuthority /\ WellFormedCA(ca) /\ ca.active # {}
      /\ ca.state = "standby" /\ ca.phase = "standby"
  BY Bounds DEF StandbyCA, CertAuthority, Phases, Modes, States, WellFormedCA
<1>2. Issue(ca, 0) \in Identity /\ Issue(ca, 0) # NoIdentity
  <2>1. 0 \in 0..MaxNames
    BY Bounds
  <2>2. QED
    BY <1>1, <2>1, IssueType
<1>3. /\ Rotation(ca) \in Rotations /\ Rotation(ca).state = "standby"
      /\ Rotation(ca).phase = "standby" /\ Rotation(ca) # NoRotation
  BY <1>1, RotationType, EmptyType DEF States
<1>4. first \in Storage /\ empty \in Storage
  <2>1. 0 \in 0..MaxNames
    BY Bounds
  <2>2. first \in Storage
    BY <1>2, <1>3, <2>1, EmptyType DEF Storage
  <2>3. QED
    BY <2>2, EmptyType DEF Storage
<1>5. up \in Process
  BY <1>2, DownType DEF Process, Down
<1>6. /\ first.state = Rotation(ca) /\ first.current # NoIdentity
      /\ empty.state = NoRotation
      /\ up.pc = "up" /\ up.client # NoIdentity /\ up.remote = NoRotation
      /\ Down.pc = "off" /\ Down.remote = NoRotation
  BY <1>2 DEF Down
<1>7. /\ cas = [ty \in CATypes |-> ca] /\ view = ca /\ before = Rotation(ca)
      /\ kept = {Auth} /\ strays = {} /\ faults = 0
      /\ disk = [p \in Procs |-> IF p = Auth THEN first ELSE empty]
      /\ mem = [p \in Procs |-> IF p = Auth THEN up ELSE Down]
  BY DEF NodeInit
<1> HIDE DEF ca, first, empty, up
<1>8. TypeOK
  <2>1. disk \in [Procs -> Storage]
    BY <1>4, <1>7
  <2>2. mem \in [Procs -> Process]
    BY <1>5, <1>7, DownType
  <2>3. cas \in [CATypes -> CertAuthority] /\ view \in CertAuthority
    BY <1>1, <1>7
  <2>4. before \in Rotations /\ kept \subseteq Procs /\ strays \subseteq Nodes
        /\ faults \in 0..MaxFaults
    BY <1>3, <1>7, Bounds
  <2>5. QED
    BY <2>1, <2>2, <2>3, <2>4 DEF TypeOK, Process, Storage
<1>9. ASSUME NEW p \in Procs PROVE Ready(p)
  <2>1. CASE p = Auth
    <3>1. disk[p] = first /\ mem[p] = up
      BY <1>7, <2>1
    <3>2. QED
      BY <1>3, <1>6, <3>1, EmptyType
         DEF Ready, DiskReady, FollowerReady, JoinerReady, MemReady, Joining,
             WellFormedRotation, Swapped
  <2>2. CASE p # Auth
    <3>1. disk[p] = empty /\ mem[p] = Down
      BY <1>7, <2>2
    <3>2. QED
      BY <1>6, <3>1, EmptyType
         DEF Ready, DiskReady, FollowerReady, JoinerReady, MemReady,
             WellFormedRotation
  <2>3. QED
    BY <2>1, <2>2
<1>10. WellFormedCA(cas[Host]) /\ WellFormedCA(view)
  BY <1>1, <1>7, Bounds
<1>11. QED
  BY <1>8, <1>9, <1>10 DEF IInv

-----------------------------------------------------------------------------
\* Every step keeps the invariant.
LEMMA StepKeeps == IInv /\ [NodeNext]_vars => IInv'
<1> SUFFICES ASSUME IInv, [NodeNext]_vars PROVE IInv'
  OBVIOUS
<1>1. ASSUME NEW p \in Procs, WriteState(p) PROVE IInv'
  BY <1>1, StraysAreNodes, WriteStateReady
<1>2. ASSUME NEW p \in Procs, CallFails(p) PROVE IInv'
  BY <1>2, StraysAreNodes, CallFailsReady
<1>3. ASSUME NEW p \in Procs, Step(p) PROVE IInv'
  BY <1>1, <1>3, ConnectReady, JoinGetReady, SyncRegisterReady, SyncInitReady,
     SyncInstallReady, ReRegisterReady, ReRegisterRefusedReady, WriteIdentityReady
     DEF Step
<1>4. CASE UNCHANGED vars
  <2>1. ASSUME NEW p \in Procs PROVE Ready(p)'
    BY <1>4 DEF vars, IInv, Ready, DiskReady, FollowerReady, JoinerReady, MemReady,
                Joining, WellFormedRotation
  <2>2. QED
    BY <1>4, <2>1 DEF vars, IInv, TypeOK, WellFormedCA
<1>5. QED
  BY <1>2, <1>3, <1>4, JoinReady, CrashReady, ReconfigureReady, StartRotationReady,
     EnterPhaseReady, CacheUpdateReady
     DEF NodeNext

\* The invariant holds.
LEMMA IInvHolds == NodeSpec => []IInv
BY InitReady, StepKeeps, PTL DEF NodeSpec

\* The authority, the processes and their storage are well formed.
THEOREM NodeTypeCorrect == NodeSpec => []TypeOK
<1>1. IInv => TypeOK
  BY DEF IInv
<1>2. QED
  BY <1>1, IInvHolds, PTL

\* However many processes follow however many rotations, and wherever one of
\* them was stopped: the identities that go with the state on its disk are
\* there, so that connect finds them.
THEOREM ProcessesRestart == NodeSpec => []CanRestart
<1>1. IInv => CanRestart
  <2> SUFFICES ASSUME IInv, NEW p \in Procs \ strays, disk[p].state # NoRotation
               PROVE  ClientIdentity(disk[p]) # NoIdentity
                      /\ ServerIdentity(disk[p]) # NoIdentity
    BY DEF CanRestart
  <2>1. DiskReady(p)
    BY DEF IInv, Ready
  <2>2. QED
    BY <2>1 DEF DiskReady, ClientIdentity, ServerIdentity, Swapped
<1>2. QED
  BY <1>1, IInvHolds, PTL

-----------------------------------------------------------------------------
(***************************************************************************)
(* Trust.  A process that has kept up is at the rotation the cluster is at *)
(* or at the one before it.  The invariant says, for the record it is at   *)
(* and for the one it is about to write, on which side of the rotation its *)
(* keys are: the old keys, the new ones, or either.                        *)
(***************************************************************************)

Old(ca) == IF ca.phase \in Swapped THEN ca.additional ELSE ca.active
New(ca) == IF ca.phase \in Swapped \cup {"standby"} THEN ca.active ELSE ca.additional
Both(ca) == Old(ca) \cup New(ca)

\* What a replacement may be signed with, and what signs the identity of a
\* server in update_clients: in a rollback, either.
NewKeys(ca) == IF ca.phase = "rollback" THEN Both(ca) ELSE New(ca)
StillOld(ca) == IF ca.phase = "update_clients" THEN Old(ca) ELSE Both(ca)

\* The order of the rotation records.
PhaseRank(phase) ==
    CASE phase = "init" -> 1
      [] phase = "update_clients" -> 2
      [] phase = "update_servers" -> 3
      [] phase = "rollback" -> 4
      [] phase = "standby" -> 5
      [] OTHER -> 0
Rank(r) == 6 * r.id + PhaseRank(r.phase)

Now == Rotation(cas[Host])

Past(r) == Rank(r) < Rank(before) \/ r = before \/ r = Now

\* One change of the authority.
Follows(v, c) ==
    \/ /\ v.phase = "standby" /\ c.phase = "init"
       /\ c.id = v.id + 1 /\ c.active = v.active
    \/ /\ v.phase = "init" /\ c.phase = "update_clients"
       /\ c.id = v.id /\ c.active = v.additional /\ c.additional = v.active
    \/ /\ v.phase = "update_clients" /\ c.phase = "update_servers"
       /\ c.id = v.id /\ c.active = v.active /\ c.additional = v.additional
    \/ /\ v.phase = "init" /\ c.phase = "rollback"
       /\ c.id = v.id /\ c.active = v.active /\ c.additional = v.additional
    \/ /\ v.phase \in Swapped /\ c.phase = "rollback"
       /\ c.id = v.id /\ c.active = v.additional /\ c.additional = v.active
    \/ /\ v.phase \in {"update_servers", "rollback"} /\ c.phase = "standby"
       /\ c.id = v.id /\ c.active = v.active

\* The same of rotation records.
NextRotation(r, s) ==
    \/ r.phase = "standby" /\ s.phase = "init" /\ s.id = r.id + 1
    \/ s.id = r.id /\ r.phase = "init" /\ s.phase \in {"update_clients", "rollback"}
    \/ /\ s.id = r.id /\ r.phase = "update_clients"
       /\ s.phase \in {"update_servers", "rollback"}
    \/ /\ s.id = r.id /\ r.phase = "update_servers"
       /\ s.phase \in {"rollback", "standby"}
    \/ s.id = r.id /\ r.phase = "rollback" /\ s.phase = "standby"

\* One key signs, and none but it is trusted while no rotation is under way.
OneKey(ca) ==
    /\ \A k, l \in ca.active : k = l
    /\ \A k, l \in ca.additional : k = l
    /\ ca.phase = "standby" => ca.additional = {}

\* What the auth server answers from is the authority of some time.
History ==
    /\ OneKey(cas[Host]) /\ OneKey(view)
    /\ WellFormedRotation(before) /\ before.state \in States
    /\ before = Now \/ NextRotation(before, Now)
    /\ Past(Rotation(view))
    /\ Rotation(view) = Now => view = cas[Host]
    /\ Rotation(view) = before => view = cas[Host] \/ Follows(view, cas[Host])

\* No process has read more of the rotation than the auth server knows, or
\* will write less than it has written.
InOrder(p) ==
    /\ Past(disk[p].state) /\ Rank(disk[p].state) <= Rank(Rotation(view))
    /\ mem[p].pc \in {"reg", "wid", "wst"} =>
         /\ Past(mem[p].remote)
         /\ Rank(disk[p].state) <= Rank(mem[p].remote)
         /\ Rank(mem[p].remote) <= Rank(Rotation(view))

TrustsEnough(ident, r, ca) ==
    IF r.phase \in {"standby", "init"} THEN Old(ca) \subseteq ident.trusts
                                       ELSE Both(ca) \subseteq ident.trusts

\* The identities on disk go with the rotation record r.
Fit(r, d, ca) ==
    /\ r.phase \in {"standby", "init", "rollback"} =>
           d.current.key \in Old(ca) /\ TrustsEnough(d.current, r, ca)
    /\ r.phase = "update_clients" => d.current.key \in StillOld(ca)
    /\ r.phase \in Swapped =>
           d.replacement.key \in NewKeys(ca) /\ TrustsEnough(d.replacement, r, ca)

\* Those of a process that is up do.
ClientKeys(r, ca) == IF r.phase \in Swapped THEN NewKeys(ca) ELSE Old(ca)
ServerKeys(r, ca) ==
    CASE r.phase = "update_servers" -> NewKeys(ca)
      [] r.phase = "update_clients" -> StillOld(ca)
      [] OTHER -> Old(ca)
UsedFit(r, client, server, ca) ==
    /\ client.key \in ClientKeys(r, ca) /\ server.key \in ServerKeys(r, ca)
    /\ TrustsEnough(client, r, ca)

\* The keys that sign for the auth servers that have kept up.
Shown(was, ca) ==
    IF ca.phase = "update_servers" \/ (ca.phase = "rollback" /\ was.phase # "init")
      THEN Both(ca) ELSE Old(ca)

\* While it reloads, a process uses the identities of the record before.
StillUsed(client, server, was, ca) ==
    /\ client.key \in Both(ca) /\ server.key \in Shown(was, ca)
    /\ ca.phase = "init" => client.key \in Old(ca)
    /\ Shown(was, ca) \subseteq client.trusts

\* What it is about to write goes with the record it has read.
Planned(m, d, ca) ==
    LET r == m.remote
    IN  /\ r.phase # "init"
        /\ r.phase \in {"standby", "rollback"} =>
             /\ m.slot = "current" /\ m.ident.key \in Old(ca)
             /\ TrustsEnough(m.ident, r, ca)
        /\ r.phase = "update_clients" =>
             /\ m.slot = "replacement" /\ m.ident.key \in NewKeys(ca)
             /\ TrustsEnough(m.ident, r, ca)
             /\ d.current.key \in StillOld(ca)
        /\ r.phase = "update_servers" =>
             /\ m.slot = "current" /\ m.ident.key \in NewKeys(ca)
             /\ d.replacement.key \in NewKeys(ca)
             /\ TrustsEnough(d.replacement, r, ca)

KeptUp(m, d, was, ca) ==
    /\ Fit(d.state, d, ca)
    /\ m.pc \in {"up", "reg", "wid", "wst"} => UsedFit(d.state, m.client, m.server, ca)
    /\ m.pc = "reload" => StillUsed(m.client, m.server, was, ca)
    /\ m.pc = "reg" => m.remote.phase # "init"
    /\ m.pc = "wid" => Planned(m, d, ca)
    /\ m.pc = "wst" => /\ Fit(m.remote, d, ca)
                       /\ m.remote.phase = "init" => d.state.state = "standby"

KeepsUp(p) ==
    p \in kept =>
        /\ disk[p].state \in {before, Now}
        /\ p \notin strays => KeptUp(mem[p], disk[p], before, cas[Host])

\* A process that joins while no rotation is under way has the one key.
JoinsRight(p) ==
    LET m == mem[p]
    IN  m.pc # "off" /\ Joining(p) =>
          /\ m.ident.key \in m.ident.trusts
          /\ /\ m.pc \in {"wid", "wst"} /\ p \notin strays
             /\ m.remote.phase = "standby" /\ m.remote = Now
             => m.ident.key \in cas[Host].active
          /\ m.pc = "wst" /\ p \notin strays => disk[p].current = m.ident

Following(p) == InOrder(p) /\ KeepsUp(p) /\ JoinsRight(p)

TrustInv == IInv /\ History /\ \A p \in Procs : Following(p)

-----------------------------------------------------------------------------
\* Records are told apart by their rank.
LEMMA RankInjective ==
    ASSUME NEW r \in Rotations, NEW s \in Rotations,
           WellFormedRotation(r), WellFormedRotation(s), Rank(r) = Rank(s)
    PROVE  r = s
<1>1. r.id \in Nat /\ s.id \in Nat
  BY NodeAssumption DEF Rotations, NoRotation
<1>2. r.phase \in Phases \cup {"none"} /\ s.phase \in Phases \cup {"none"}
  BY DEF Rotations, NoRotation
<1>3. r.id = s.id /\ r.phase = s.phase
  <2>1. PhaseRank(r.phase) \in 0..5 /\ PhaseRank(s.phase) \in 0..5
    BY DEF PhaseRank
  <2>2. r.id = s.id /\ PhaseRank(r.phase) = PhaseRank(s.phase)
    <3> DEFINE a == PhaseRank(r.phase)
               b == PhaseRank(s.phase)
    <3>1. 6 * r.id + a = 6 * s.id + b
      BY DEF Rank
    <3> HIDE DEF a, b
    <3>2. a \in 0..5 /\ b \in 0..5
      BY <2>1 DEF a, b
    <3>3. r.id = s.id /\ a = b
      BY <1>1, <3>1, <3>2
    <3>4. QED
      BY <3>3 DEF a, b
  <2>3. r.phase = s.phase
    BY <1>2, <2>2 DEF PhaseRank, Phases
  <2>4. QED
    BY <2>2, <2>3
<1>4. r.state = s.state
  BY <1>3 DEF Rotations, NoRotation, WellFormedRotation, States, Phases
<1>5. QED
  BY <1>3, <1>4 DEF Rotations, NoRotation

\* Ranks are numbers.
LEMMA RankType ==
    ASSUME NEW r \in Rotations
    PROVE  Rank(r) \in Nat
<1>1. r.id \in Nat
  BY NodeAssumption DEF Rotations, NoRotation
<1>2. QED
  BY <1>1 DEF Rank, PhaseRank

\* A change takes the rotation on.
LEMMA RankNext ==
    ASSUME NEW r \in Rotations, NEW s \in Rotations, NextRotation(r, s)
    PROVE  Rank(r) < Rank(s)
<1>1. r.id \in Nat /\ s.id \in Nat
  BY NodeAssumption DEF Rotations, NoRotation
<1>2. QED
  BY <1>1 DEF NextRotation, Rank, PhaseRank

\* The records of two authorities, one change apart.
LEMMA FollowsNext ==
    ASSUME NEW v \in CertAuthority, NEW c \in CertAuthority, Follows(v, c)
    PROVE  NextRotation(Rotation(v), Rotation(c))
BY DEF Follows, NextRotation, Rotation, Swapped

-----------------------------------------------------------------------------
\* What is known of the records.
LEMMA Records ==
    ASSUME TrustInv
    PROVE  /\ before \in Rotations /\ WellFormedRotation(before)
           /\ Now \in Rotations /\ WellFormedRotation(Now)
           /\ Rotation(view) \in Rotations /\ WellFormedRotation(Rotation(view))
           /\ Rank(before) \in Nat /\ Rank(Now) \in Nat /\ Rank(Rotation(view)) \in Nat
           /\ Rank(before) <= Rank(Now)
           /\ before # Now => Rank(before) < Rank(Now)
           /\ cas[Host] \in CertAuthority /\ view \in CertAuthority
           /\ WellFormedCA(cas[Host]) /\ WellFormedCA(view)
           /\ OneKey(cas[Host]) /\ OneKey(view)
<1>1. /\ cas[Host] \in CertAuthority /\ view \in CertAuthority
      /\ WellFormedCA(cas[Host]) /\ WellFormedCA(view) /\ before \in Rotations
  BY Bounds DEF TrustInv, IInv, TypeOK
<1>2. History
  BY DEF TrustInv
<1>3. /\ Now \in Rotations /\ WellFormedRotation(Now)
      /\ Rotation(view) \in Rotations /\ WellFormedRotation(Rotation(view))
  BY <1>1, RotationType DEF Now
<1>4. Rank(before) \in Nat /\ Rank(Now) \in Nat /\ Rank(Rotation(view)) \in Nat
  BY <1>1, <1>3, RankType
<1>5. before # Now => Rank(before) < Rank(Now)
  BY <1>1, <1>2, <1>3, RankNext DEF History
<1>6. QED
  BY <1>1, <1>2, <1>3, <1>4, <1>5 DEF History

\* A record that is not older than one that has kept up is one of the two.
LEMMA Position ==
    ASSUME TrustInv, NEW r \in {before, Now}, NEW s \in Rotations,
           WellFormedRotation(s), Past(s), Rank(r) <= Rank(s)
    PROVE  /\ s \in {before, Now}
           /\ s = r \/ (r = before /\ s = Now /\ NextRotation(r, s))
<1>1. Rank(s) \in Nat
  BY RankType
<1>2. Rank(before) <= Rank(r)
  BY Records
<1>3. s \in {before, Now}
  BY <1>1, <1>2, Records DEF Past
<1>4. CASE s = before
  <2>1. Rank(r) = Rank(s)
    BY <1>1, <1>2, <1>4, Records
  <2>2. r = s
    BY <2>1, Records, RankInjective
  <2>3. QED
    BY <2>2, <1>3
<1>5. CASE s = Now
  BY <1>3, <1>5 DEF TrustInv, History
<1>6. QED
  BY <1>3, <1>4, <1>5

\* Where a process that has kept up is, what it has read and what the auth
\* server knows.
LEMMA KeptPosition ==
    ASSUME TrustInv, NEW p \in Procs, p \in kept
    PROVE  LET r == disk[p].state
               s == mem[p].remote
           IN  /\ r \in {before, Now}
               /\ mem[p].pc \in {"reg", "wid", "wst"} =>
                    /\ s \in {before, Now}
                    /\ s = r \/ (r = before /\ s = Now /\ NextRotation(r, s))
               /\ \/ view = cas[Host] /\ Rotation(view) = Now
                  \/ /\ Rotation(view) = before /\ r = before
                     /\ Follows(view, cas[Host])
<1> DEFINE r == disk[p].state
           s == mem[p].remote
<1>1. IInv /\ Following(p) /\ r \in {before, Now}
  BY DEF TrustInv, Following, KeepsUp
<1>2. r \in Rotations /\ s \in Rotations /\ WellFormedRotation(s)
  BY <1>1, Before DEF Storage, Process, IInv, Ready, MemReady
<1>3. ASSUME mem[p].pc \in {"reg", "wid", "wst"}
      PROVE  /\ s \in {before, Now}
             /\ s = r \/ (r = before /\ s = Now /\ NextRotation(r, s))
  BY <1>1, <1>2, <1>3, Position DEF Following, InOrder
<1>4. Past(Rotation(view)) /\ Rank(r) <= Rank(Rotation(view))
  BY <1>1 DEF TrustInv, History, Following, InOrder
<1>5. /\ Rotation(view) \in {before, Now}
      /\ Rotation(view) = r \/ (r = before /\ Rotation(view) = Now)
  BY <1>1, <1>4, Records, Position
<1>6. CASE Rotation(view) = Now
  BY <1>1, <1>3, <1>6 DEF TrustInv, History
<1>7. CASE Rotation(view) # Now
  <2>1. Rotation(view) = before /\ r = before
    BY <1>1, <1>5, <1>7
  <2>2. view # cas[Host]
    BY <1>7 DEF Now
  <2>3. Follows(view, cas[Host])
    BY <2>1, <2>2 DEF TrustInv, History
  <2>4. QED
    BY <1>1, <1>3, <2>1, <2>3
<1>8. QED
  BY <1>6, <1>7

-----------------------------------------------------------------------------
\* Keys from one authority to the next.

\* Both sides are what is trusted; none is empty.
LEMMA BothTrusted ==
    ASSUME NEW ca \in CertAuthority, OneKey(ca)
    PROVE  /\ Both(ca) = Trusted(ca) /\ Old(ca) \subseteq Both(ca)
           /\ New(ca) \subseteq Both(ca) /\ ca.active \subseteq Both(ca)
           /\ NewKeys(ca) \subseteq Both(ca) /\ StillOld(ca) \subseteq Both(ca)
           /\ Old(ca) \subseteq StillOld(ca)
           /\ ca.phase = "standby" => Both(ca) = ca.active /\ Old(ca) = ca.active
<1>1. ca.phase \in Phases
  BY DEF CertAuthority
<1>2. CASE ca.phase \in Swapped
  BY <1>2 DEF Both, Old, New, Trusted, NewKeys, StillOld, Swapped
<1>3. CASE ca.phase = "standby"
  BY <1>3 DEF Both, Old, New, Trusted, NewKeys, StillOld, Swapped, OneKey
<1>4. CASE ca.phase \in {"init", "rollback"}
  BY <1>4 DEF Both, Old, New, Trusted, NewKeys, StillOld, Swapped
<1>5. QED
  BY <1>1, <1>2, <1>3, <1>4 DEF Phases, Swapped

\* What a change does to the two sides.
LEMMA SidesStay ==
    ASSUME NEW v \in CertAuthority, NEW c \in CertAuthority, Follows(v, c),
           OneKey(v), OneKey(c)
    PROVE  /\ v.phase # "update_servers" => Old(c) = Old(v)
           /\ v.phase \in {"init", "update_clients"} => Both(c) = Both(v)
           /\ c.phase \in Swapped \cup {"rollback"} => Both(c) = Both(v)
           /\ c.phase # "init" => Both(c) \subseteq Both(v)
           /\ v.phase = "update_clients" =>
                NewKeys(v) \subseteq NewKeys(c) /\ StillOld(v) \subseteq StillOld(c)
           /\ v.phase = "update_servers" =>
                /\ NewKeys(v) \subseteq NewKeys(c)
                /\ c.phase = "standby" => NewKeys(v) = Both(c)
           /\ v.active \subseteq Both(c)
<1> USE DEF Swapped, Old, New, Both, NewKeys, StillOld, OneKey
<1>1. CASE v.phase = "standby" /\ c.phase = "init" /\ c.active = v.active
  BY <1>1
<1>2. CASE /\ v.phase = "init" /\ c.phase = "update_clients"
           /\ c.active = v.additional /\ c.additional = v.active
  BY <1>2
<1>3. CASE /\ v.phase = "update_clients" /\ c.phase = "update_servers"
           /\ c.active = v.active /\ c.additional = v.additional
  BY <1>3
<1>4. CASE /\ v.phase = "init" /\ c.phase = "rollback"
           /\ c.active = v.active /\ c.additional = v.additional
  BY <1>4
<1>5. CASE /\ v.phase \in Swapped /\ c.phase = "rollback"
           /\ c.active = v.additional /\ c.additional = v.active
  BY <1>5
<1>6. CASE /\ v.phase \in {"update_servers", "rollback"} /\ c.phase = "standby"
           /\ c.active = v.active
  BY <1>6
<1>7. QED
  BY <1>1, <1>2, <1>3, <1>4, <1>5, <1>6 DEF Follows

\* Identities that go with a record still do after one change.
LEMMA FitStays ==
    ASSUME NEW v \in CertAuthority, NEW c \in CertAuthority, Follows(v, c),
           OneKey(v), OneKey(c), NEW d, Fit(Rotation(v), d, v)
    PROVE  Fit(Rotation(v), d, c)
<1>1. Rotation(v).phase = v.phase /\ v.phase \in Phases
  BY RotationType
<1>2. CASE v.phase \in {"standby", "init", "rollback"}
  <2>1. Old(c) = Old(v) /\ (v.phase = "rollback" => Both(c) \subseteq Both(v))
    BY <1>2, SidesStay DEF Follows, Swapped
  <2>2. QED
    BY <1>1, <1>2, <2>1 DEF Fit, TrustsEnough, Swapped
<1>3. CASE v.phase = "update_clients"
  <2>1. Both(c) = Both(v) /\ NewKeys(v) \subseteq NewKeys(c)
        /\ StillOld(v) \subseteq StillOld(c)
    BY <1>3, SidesStay
  <2>2. QED
    BY <1>1, <1>3, <2>1 DEF Fit, TrustsEnough, Swapped
<1>4. CASE v.phase = "update_servers"
  <2>1. Both(c) \subseteq Both(v) /\ NewKeys(v) \subseteq NewKeys(c)
    BY <1>4, SidesStay DEF Follows, Swapped
  <2>2. QED
    BY <1>1, <1>4, <2>1 DEF Fit, TrustsEnough, Swapped
<1>5. QED
  BY <1>1, <1>2, <1>3, <1>4 DEF Phases

\* So do those that are in use.
LEMMA UsedFitStays ==
    ASSUME NEW v \in CertAuthority, NEW c \in CertAuthority, Follows(v, c),
           OneKey(v), OneKey(c), NEW client, NEW server,
           UsedFit(Rotation(v), client, server, v)
    PROVE  UsedFit(Rotation(v), client, server, c)
<1>1. Rotation(v).phase = v.phase /\ v.phase \in Phases
  BY RotationType
<1>2. CASE v.phase \in {"standby", "init", "rollback"}
  <2>1. Old(c) = Old(v) /\ (v.phase = "rollback" => Both(c) \subseteq Both(v))
    BY <1>2, SidesStay DEF Follows, Swapped
  <2>2. QED
    BY <1>1, <1>2, <2>1 DEF UsedFit, ClientKeys, ServerKeys, TrustsEnough, Swapped
<1>3. CASE v.phase = "update_clients"
  <2>1. Both(c) = Both(v) /\ NewKeys(v) \subseteq NewKeys(c)
        /\ StillOld(v) \subseteq StillOld(c)
    BY <1>3, SidesStay
  <2>2. QED
    BY <1>1, <1>3, <2>1 DEF UsedFit, ClientKeys, ServerKeys, TrustsEnough, Swapped
<1>4. CASE v.phase = "update_servers"
  <2>1. Both(c) \subseteq Both(v) /\ NewKeys(v) \subseteq NewKeys(c)
    BY <1>4, SidesStay DEF Follows, Swapped
  <2>2. QED
    BY <1>1, <1>4, <2>1 DEF UsedFit, ClientKeys, ServerKeys, TrustsEnough, Swapped
<1>5. QED
  BY <1>1, <1>2, <1>3, <1>4 DEF Phases

\* So does what is about to be written.
LEMMA PlannedStays ==
    ASSUME NEW v \in CertAuthority, NEW c \in CertAuthority, Follows(v, c),
           OneKey(v), OneKey(c), NEW m, NEW d,
           m.remote = Rotation(v), Planned(m, d, v)
    PROVE  Planned(m, d, c)
<1>1. Rotation(v).phase = v.phase /\ v.phase \in Phases
  BY RotationType
<1>2. CASE v.phase \in {"standby", "rollback"}
  <2>1. Old(c) = Old(v) /\ (v.phase = "rollback" => Both(c) \subseteq Both(v))
    BY <1>2, SidesStay DEF Follows, Swapped
  <2>2. QED
    BY <1>1, <1>2, <2>1 DEF Planned, TrustsEnough
<1>3. CASE v.phase = "update_clients"
  <2>1. Both(c) = Both(v) /\ NewKeys(v) \subseteq NewKeys(c)
        /\ StillOld(v) \subseteq StillOld(c)
    BY <1>3, SidesStay
  <2>2. QED
    BY <1>1, <1>3, <2>1 DEF Planned, TrustsEnough
<1>4. CASE v.phase = "update_servers"
  <2>1. Both(c) \subseteq Both(v) /\ NewKeys(v) \subseteq NewKeys(c)
    BY <1>4, SidesStay DEF Follows, Swapped
  <2>2. QED
    BY <1>1, <1>4, <2>1 DEF Planned, TrustsEnough
<1>5. CASE v.phase = "init"
  BY <1>1, <1>5 DEF Planned
<1>6. QED
  BY <1>1, <1>2, <1>3, <1>4, <1>5 DEF Phases

-----------------------------------------------------------------------------
\* Changes of the authority.  A process that is done with the one before
\* stays with the identities that go with it.
LEMMA StartFollows ==
    ASSUME IInv, History, StartRotation
    PROVE  /\ Follows(cas[Host], cas'[Host]) /\ OneKey(cas'[Host])
           /\ cas'[Host] \in CertAuthority
<1> DEFINE ca == cas[Host]
           new == startNewRotation(ca, "manual", FALSE, {ca.id + 2}, ca.id + 1)
<1>1. cas \in [CATypes -> CertAuthority] /\ ca \in CertAuthority /\ WellFormedCA(ca)
  BY Bounds DEF IInv, TypeOK
<1>2. cas'[Host] = new
  BY <1>1, Bounds DEF StartRotation
<1>3. /\ new.active = ca.active /\ new.additional = {ca.id + 2}
      /\ new.phase = "init" /\ new.id = ca.id + 1
  BY <1>1 DEF startNewRotation, CertAuthority
<1>4. ca.phase = "standby"
  BY <1>1 DEF StartRotation, CanEnter, WellFormedCA
<1>5. cas' \in [CATypes -> CertAuthority]
  BY StartRotationReady DEF IInv, TypeOK
<1>6. OneKey(ca)
  BY DEF History
<1> HIDE DEF ca, new
<1>7. cas'[Host] \in CertAuthority
  BY <1>5, Bounds
<1>8. Follows(ca, new)
  BY <1>3, <1>4 DEF Follows
<1>9. OneKey(new)
  BY <1>3, <1>6 DEF OneKey
<1>10. QED
  BY <1>2, <1>7, <1>8, <1>9 DEF ca

\* So does entering a phase: keys change sides, or stay where they are.
LEMMA EnterFollows ==
    ASSUME IInv, History, EnterPhase
    PROVE  /\ Follows(cas[Host], cas'[Host]) /\ OneKey(cas'[Host])
           /\ cas'[Host] \in CertAuthority
<1>1. /\ cas \in [CATypes -> CertAuthority] /\ cas[Host] \in CertAuthority
      /\ WellFormedCA(cas[Host]) /\ OneKey(cas[Host])
  BY Bounds DEF IInv, TypeOK, History
<1>2. PICK target \in Phases \ {"init"} :
        /\ CanEnter(cas[Host], target)
        /\ cas' = [cas EXCEPT ![Host] = Entered(@, target, "manual")]
  BY DEF EnterPhase
<1> DEFINE c == cas[Host]
           new == Entered(c, target, "manual")
<1>3. cas'[Host] = new
  BY <1>1, <1>2, Bounds
<1>4. cas' \in [CATypes -> CertAuthority]
  BY EnterPhaseReady DEF IInv, TypeOK
<1>5. CASE target = "update_clients"
  BY <1>1, <1>2, <1>3, <1>4, <1>5, Bounds
     DEF CanEnter, Entered, updateClients, Swap, CertAuthority, Follows, OneKey
<1>6. CASE target = "update_servers"
  BY <1>1, <1>2, <1>3, <1>4, <1>6, Bounds
     DEF CanEnter, Entered, updateServers, CertAuthority, Follows, OneKey
<1>7. CASE target = "rollback"
  BY <1>1, <1>2, <1>3, <1>4, <1>7, Bounds
     DEF CanEnter, Entered, startRollingBackRotation, Swap, CertAuthority, Follows,
         OneKey, Swapped
<1>8. CASE target = "standby"
  BY <1>1, <1>2, <1>3, <1>4, <1>8, Bounds
     DEF CanEnter, Entered, completeRotation, CertAuthority, Follows, OneKey
<1>9. QED
  BY <1>2, <1>5, <1>6, <1>7, <1>8 DEF Phases

\* The records after a change.
LEMMA HistoryAdvances ==
    ASSUME TrustInv, Follows(cas[Host], cas'[Host]), OneKey(cas'[Host]),
           cas'[Host] \in CertAuthority, before' = Now, view' = view
    PROVE  /\ History'
           /\ Rank(before') < Rank(Now')
           /\ \A r \in Rotations : Past(r) => Past(r)' /\ Rank(r) <= Rank(Now)
<1>1. NextRotation(before', Now')
  BY Records, FollowsNext DEF Now
<1>2. Now' \in Rotations
  BY RotationType DEF Now
<1>3. Rank(before') < Rank(Now') /\ Rank(Now') \in Nat
  BY <1>1, <1>2, Records, RankNext, RankType
<1>4. ASSUME NEW r \in Rotations, Past(r) PROVE Past(r)' /\ Rank(r) <= Rank(Now)
  <2>1. Rank(r) \in Nat
    BY RankType
  <2>2. CASE r = Now
    BY <2>1, <2>2 DEF Past
  <2>3. CASE r # Now
    <3>1. Rank(r) < Rank(before) \/ r = before
      BY <1>4, <2>3 DEF Past
    <3>2. Rank(r) < Rank(Now)
      BY <2>1, <2>3, <3>1, Records
    <3>3. QED
      BY <2>1, <3>2, Records DEF Past
  <2>4. QED
    BY <2>2, <2>3
<1>5. Past(Rotation(view)) /\ Rank(Rotation(view)) <= Rank(Now)
  BY <1>4, Records DEF TrustInv, History
<1>6. Past(Rotation(view))'
  BY <1>4, <1>5, Records
<1>7. Rotation(view') # Now'
  BY <1>3, <1>5, Records
<1>8. Rotation(view') = before' => Follows(view', cas'[Host])
  BY DEF TrustInv, History, Now
<1>9. WellFormedRotation(before') /\ before'.state \in States
  BY Records, RotationType DEF Now
<1>10. OneKey(view')
  BY Records
<1>11. History'
  BY <1>1, <1>6, <1>7, <1>8, <1>9, <1>10 DEF History
<1>12. QED
  BY <1>3, <1>4, <1>11

\* A process that is done with a record is ready for the change after it.
LEMMA KeptUpAdvances ==
    ASSUME TrustInv, NEW p \in Procs, p \in kept, p \notin strays,
           NEW c \in CertAuthority, Follows(cas[Host], c), OneKey(c),
           disk[p].state = Now, mem[p].pc # "reload"
    PROVE  KeptUp(mem[p], disk[p], Now, c)
<1> DEFINE m == mem[p]
           d == disk[p]
           v == cas[Host]
<1>1. KeptUp(m, d, before, v)
  BY DEF TrustInv, Following, KeepsUp
<1>2. v \in CertAuthority /\ OneKey(v) /\ OneKey(c) /\ Follows(v, c)
  BY Records
<1>3. m.pc \in {"reg", "wid", "wst"} => m.remote = Now
  BY KeptPosition, Records
<1>4. Fit(d.state, d, c)
  BY <1>1, <1>2, FitStays DEF KeptUp, Now
<1>5. m.pc \in {"up", "reg", "wid", "wst"} => UsedFit(d.state, m.client, m.server, c)
  BY <1>1, <1>2, UsedFitStays DEF KeptUp, Now
<1>6. m.pc = "wid" => Planned(m, d, c)
  BY <1>1, <1>2, <1>3, PlannedStays DEF KeptUp, Now
<1>7. m.pc = "wst" => Fit(m.remote, d, c)
  BY <1>1, <1>2, <1>3, FitStays DEF KeptUp, Now
<1>8. QED
  BY <1>1, <1>4, <1>5, <1>6, <1>7 DEF KeptUp

\* A change loses only the processes that were not done with the one before.
LEMMA Advance ==
    ASSUME TrustInv, IInv', Follows(cas[Host], cas'[Host]), OneKey(cas'[Host]),
           cas'[Host] \in CertAuthority, before' = Now,
           kept' = {p \in kept : Synced(p) /\ mem[p].pc # "reload"},
           UNCHANGED <<view, strays, disk, mem>>
    PROVE  TrustInv'
<1>1. History' /\ Rank(before') < Rank(Now')
  BY HistoryAdvances
<1>2. ASSUME NEW p \in Procs PROVE Following(p)'
  <2>1. Following(p) /\ IInv
    BY DEF TrustInv
  <2>2. disk[p].state \in Rotations /\ mem[p].remote \in Rotations
    BY <2>1, Before DEF Storage, Process
  <2>3. InOrder(p)'
    BY <2>1, <2>2, HistoryAdvances DEF Following, InOrder
  <2>4. ASSUME p \in kept' PROVE disk[p].state = Now
    <3>1. Matches(disk[p].state, Now) /\ disk[p].state # NoRotation
      <4>1. Matches(disk[p].state, Now)
        BY <2>4 DEF Synced, Now
      <4>2. Now.state \in States
        BY Records, RotationType DEF Now
      <4>3. QED
        BY <4>1, <4>2, EmptyType DEF Matches
    <3>2. Now # NoRotation
      BY <3>1, Records, RotationType, EmptyType DEF Now, Matches
    <3>3. QED
      BY <2>2, <3>1, <3>2, Records DEF Matches, Rotations
  <2>5. KeepsUp(p)'
    <3> SUFFICES ASSUME p \in kept'
                 PROVE  /\ disk[p].state = Now
                        /\ p \notin strays =>
                             KeptUp(mem[p], disk[p], Now, cas'[Host])
      BY DEF KeepsUp
    <3>1. p \in kept /\ mem[p].pc # "reload"
      OBVIOUS
    <3>2. QED
      BY <2>4, <3>1, KeptUpAdvances
  <2>6. JoinsRight(p)'
    <3> SUFFICES ASSUME mem[p].pc \in {"wid", "wst"}, mem[p].remote = Now',
                        JoinsRight(p), Joining(p)
                 PROVE  FALSE
      BY <2>1 DEF Following, JoinsRight, Joining
    <3>1. Rank(mem[p].remote) <= Rank(Rotation(view)) /\ Rank(Rotation(view)) <= Rank(Now)
      BY <2>1, Records, HistoryAdvances DEF Following, InOrder, TrustInv, History
    <3>2. Rank(mem[p].remote) \in Nat
      BY <2>2, RankType
    <3>3. QED
      BY <1>1, <3>1, <3>2, Records
  <2>7. QED
    BY <2>3, <2>5, <2>6 DEF Following
<1>3. QED
  BY <1>1, <1>2 DEF TrustInv

\* Starting a rotation and entering a phase are such changes.
LEMMA RotationTrust ==
    ASSUME TrustInv, StartRotation \/ EnterPhase
    PROVE  TrustInv'
<1>1. IInv /\ IInv' /\ History
  BY StartRotationReady, EnterPhaseReady DEF TrustInv
<1>2. /\ Follows(cas[Host], cas'[Host]) /\ OneKey(cas'[Host])
      /\ cas'[Host] \in CertAuthority
  BY <1>1, StartFollows, EnterFollows
<1>3. /\ before' = Now
      /\ kept' = {p \in kept : Synced(p) /\ mem[p].pc # "reload"}
      /\ UNCHANGED <<view, strays, disk, mem>>
  BY DEF StartRotation, EnterPhase, NextChange, Now
<1>4. QED
  BY <1>1, <1>2, <1>3, Advance

\* The auth server comes to know of it.
LEMMA CacheUpdateTrust ==
    ASSUME TrustInv, CacheUpdate
    PROVE  TrustInv'
<1>1. /\ view' = cas[Host] /\ cas' = cas /\ before' = before /\ kept' = kept
      /\ UNCHANGED <<strays, disk, mem, faults>>
  BY DEF CacheUpdate
<1>2. IInv'
  BY CacheUpdateReady DEF TrustInv
<1>3. Now' = Now /\ Rotation(view') = Now
  BY <1>1 DEF Now
<1>4. History'
  BY <1>1, <1>3 DEF TrustInv, History, Past
<1>5. Rank(Rotation(view)) <= Rank(Now)
  BY Records DEF TrustInv, History, Past
<1>6. ASSUME NEW p \in Procs PROVE Following(p)'
  <2>1. Following(p) /\ IInv
    BY DEF TrustInv
  <2>2. Rank(disk[p].state) \in Nat /\ Rank(mem[p].remote) \in Nat
    BY <2>1, Before, RankType DEF Storage, Process
  <2>3. InOrder(p)'
    BY <1>1, <1>3, <1>5, <2>1, <2>2, Records DEF Following, InOrder, Past
  <2>4. KeepsUp(p)' /\ JoinsRight(p)'
    BY <1>1, <1>3, <2>1 DEF Following, KeepsUp, JoinsRight, Joining
  <2>5. QED
    BY <2>3, <2>4 DEF Following
<1>7. QED
  BY <1>2, <1>4, <1>6 DEF TrustInv

-----------------------------------------------------------------------------
\* Identities, by the record they are asked for or used under.

\* A process that has kept up has a record on disk.
LEMMA KeptHasState ==
    ASSUME TrustInv, NEW p \in Procs, p \in kept
    PROVE  /\ disk[p].state # NoRotation /\ disk[p].state.phase \in Phases
           /\ before.phase \in Phases /\ Now.phase \in Phases
           /\ Now.phase = cas[Host].phase
           /\ mem[p].pc # "off" => ~Joining(p)
<1>1. before.state \in States /\ Now.state \in States
  BY Records, RotationType DEF TrustInv, History, Now
<1>2. before # NoRotation /\ Now # NoRotation
  BY <1>1, EmptyType
<1>3. before.phase \in Phases /\ Now.phase \in Phases
  BY <1>2, Records DEF Rotations
<1>4. disk[p].state \in {before, Now} /\ JoinerReady(p)
  BY KeptPosition DEF TrustInv, IInv, Ready
<1>5. Now.phase = cas[Host].phase
  BY Records, RotationType DEF Now
<1>6. QED
  BY <1>2, <1>3, <1>4, <1>5 DEF JoinerReady

\* GenerateServerKeys signs with a key that it says to trust.
LEMMA Issued ==
    ASSUME NEW ca \in CertAuthority, ca.active # {}, NEW n
    PROVE  /\ Issue(ca, n).key \in ca.active /\ Issue(ca, n).trusts = Trusted(ca)
           /\ Issue(ca, n).key \in Issue(ca, n).trusts
BY DEF Issue, Trusted

\* The identity a process is given goes with the record it asks for it under,
\* even if the rotation has moved on since.
LEMMA IssuedFits ==
    ASSUME TrustInv, NEW p \in Procs, p \in kept, mem[p].pc = "reg", NEW n
    PROVE  LET s == mem[p].remote
               ident == Issue(view, n)
           IN  /\ s.phase \in {"standby", "rollback"} =>
                    ident.key \in Old(cas[Host]) /\ TrustsEnough(ident, s, cas[Host])
               /\ s.phase = "update_clients" =>
                    ident.key \in NewKeys(cas[Host]) /\ TrustsEnough(ident, s, cas[Host])
<1> DEFINE s == mem[p].remote
           ident == Issue(view, n)
           c == cas[Host]
<1>1. /\ view \in CertAuthority /\ c \in CertAuthority /\ OneKey(view) /\ OneKey(c)
      /\ view.active # {}
  BY Records DEF WellFormedCA
<1>2. ident.key \in view.active /\ ident.trusts = Both(view)
  BY <1>1, Issued, BothTrusted
<1>3. /\ s \in {before, Now} /\ Now.phase = c.phase /\ c.phase \in Phases
      /\ before = Now \/ NextRotation(before, Now)
  BY KeptPosition, KeptHasState DEF TrustInv, History
<1>4. CASE view = c
  <2>1. CASE s = Now
    BY <1>1, <1>2, <1>3, <1>4, <2>1, BothTrusted
       DEF TrustsEnough, Old, New, NewKeys, Swapped
  <2>2. CASE s = before /\ NextRotation(before, Now)
    BY <1>1, <1>2, <1>3, <1>4, <2>2, BothTrusted
       DEF TrustsEnough, Old, New, NewKeys, Swapped, NextRotation
  <2>3. QED
    BY <1>3, <2>1, <2>2
<1>5. CASE view # c
  <2>1. Rotation(view) = before /\ Follows(view, c)
    BY <1>5, KeptPosition
  <2>2. Rank(s) <= Rank(before)
    BY <2>1 DEF TrustInv, Following, InOrder
  <2>3. s = before
    BY <1>3, <2>2, Records
  <2>4. s.phase = view.phase
    BY <1>1, <2>1, <2>3, RotationType
  <2>5. CASE view.phase = "standby"
    BY <1>1, <1>2, <2>1, <2>4, <2>5, BothTrusted
       DEF TrustsEnough, Follows, Old, Swapped
  <2>6. CASE view.phase = "rollback"
    BY <1>1, <1>2, <2>1, <2>4, <2>6, BothTrusted
       DEF TrustsEnough, Follows, Old, Swapped
  <2>7. CASE view.phase = "update_clients"
    <3>1. Both(c) = Both(view)
      BY <1>1, <2>1, <2>7, SidesStay
    <3>2. view.active \subseteq NewKeys(c)
      <4>1. CASE c.phase = "update_servers" /\ c.active = view.active
        BY <4>1 DEF NewKeys, New, Swapped
      <4>2. CASE c.phase = "rollback"
        BY <1>1, <2>1, <4>2, SidesStay DEF NewKeys
      <4>3. QED
        BY <2>1, <2>7, <4>1, <4>2 DEF Follows
    <3>3. QED
      BY <1>2, <2>4, <2>7, <3>1, <3>2 DEF TrustsEnough
  <2>8. QED
    BY <2>4, <2>5, <2>6, <2>7
<1>6. QED
  BY <1>4, <1>5

\* connect: the identities that go with the record on disk are used.
LEMMA ConnectedFits ==
    ASSUME NEW d, NEW ca, Fit(d.state, d, ca), d.state.phase \in Phases
    PROVE  UsedFit(d.state, ClientIdentity(d), ServerIdentity(d), ca)
BY DEF Fit, UsedFit, ClientIdentity, ServerIdentity, ClientKeys, ServerKeys,
       TrustsEnough, Swapped, Phases

\* The identities of the record before are good enough to reload with.
LEMMA StillUsable ==
    ASSUME TrustInv, NEW p \in Procs, p \in kept, NEW client, NEW server,
           UsedFit(disk[p].state, client, server, cas[Host])
    PROVE  StillUsed(client, server, before, cas[Host])
<1> DEFINE r == disk[p].state
           c == cas[Host]
<1>1. /\ r \in {before, Now} /\ Now.phase = c.phase /\ c.phase \in Phases
      /\ r.phase \in Phases /\ before.phase \in Phases
      /\ before = Now \/ NextRotation(before, Now)
  BY KeptPosition, KeptHasState DEF TrustInv, History
<1>2. c \in CertAuthority /\ OneKey(c)
  BY Records
<1>3. client.key \in Both(c) /\ server.key \in Both(c)
  BY <1>2, BothTrusted DEF UsedFit, ClientKeys, ServerKeys
<1>4. /\ Old(c) \subseteq client.trusts
      /\ r.phase \in {"update_clients", "update_servers", "rollback"} =>
             Both(c) \subseteq client.trusts
  BY <1>1, <1>2, BothTrusted DEF UsedFit, TrustsEnough
<1>5. CASE c.phase = "standby"
  BY <1>2, <1>3, <1>4, <1>5, BothTrusted DEF StillUsed, Shown
<1>6. CASE c.phase = "init"
  <2>1. r.phase \in {"standby", "init"}
    BY <1>1, <1>6 DEF NextRotation
  <2>2. QED
    BY <1>3, <1>4, <1>6, <2>1
       DEF StillUsed, Shown, UsedFit, ClientKeys, ServerKeys, Swapped
<1>7. CASE c.phase = "update_clients"
  <2>1. r.phase \in {"init", "update_clients"}
    BY <1>1, <1>7 DEF NextRotation
  <2>2. QED
    BY <1>3, <1>4, <1>7, <2>1 DEF StillUsed, Shown, UsedFit, ServerKeys, StillOld
<1>8. CASE c.phase = "update_servers"
  <2>1. r.phase \in {"update_clients", "update_servers"}
    BY <1>1, <1>8 DEF NextRotation
  <2>2. QED
    BY <1>3, <1>4, <1>8, <2>1 DEF StillUsed, Shown
<1>9. CASE c.phase = "rollback" /\ before.phase = "init"
  <2>1. r.phase \in {"init", "rollback"}
    BY <1>1, <1>9
  <2>2. QED
    BY <1>3, <1>4, <1>9, <2>1 DEF StillUsed, Shown, UsedFit, ServerKeys
<1>10. CASE c.phase = "rollback" /\ before.phase # "init"
  <2>1. r.phase \in {"update_clients", "update_servers", "rollback"}
    BY <1>1, <1>10 DEF NextRotation
  <2>2. QED
    BY <1>3, <1>4, <1>10, <2>1 DEF StillUsed, Shown
<1>11. QED
  BY <1>1, <1>5, <1>6, <1>7, <1>8, <1>9, <1>10 DEF Phases

-----------------------------------------------------------------------------
\* The steps of a process, one more time.

\* A step of one process leaves what is known of the others.
LEMMA OwnTrust ==
    ASSUME TrustInv, IInv', NEW p \in Procs, UNCHANGED <<cas, before, view>>,
           \A q \in Procs \ {p} :
               /\ disk'[q] = disk[q] /\ mem'[q] = mem[q]
               /\ q \in kept' <=> q \in kept
               /\ q \in strays' <=> q \in strays,
           Following(p)'
    PROVE  TrustInv'
<1>1. History'
  BY DEF TrustInv, History, Past, Now
<1>2. ASSUME NEW q \in Procs, q # p PROVE Following(q)'
  <2>1. Following(q) /\ Now' = Now
    BY DEF TrustInv, Now
  <2>2. /\ disk'[q] = disk[q] /\ mem'[q] = mem[q]
        /\ q \in kept' <=> q \in kept
        /\ q \in strays' <=> q \in strays
    BY <1>2
  <2>3. InOrder(q)'
    BY <2>1, <2>2 DEF Following, InOrder, Past
  <2>4. KeepsUp(q)'
    BY <2>1, <2>2 DEF Following, KeepsUp
  <2>5. JoinsRight(q)'
    BY <2>1, <2>2 DEF Following, JoinsRight, Joining
  <2>6. QED
    BY <2>3, <2>4, <2>5 DEF Following
<1>3. QED
  BY <1>1, <1>2 DEF TrustInv

\* Where the disk is left alone it is enough to look at what the process is
\* up to.
LEMMA OwnMoveTrust ==
    ASSUME TrustInv, IInv', NEW p \in Procs, NEW m,
           UNCHANGED <<cas, before, view, kept, strays, disk>>, Move(p, m),
           m.pc \in {"reg", "wid", "wst"} =>
               /\ Past(m.remote) /\ Rank(disk[p].state) <= Rank(m.remote)
               /\ Rank(m.remote) <= Rank(Rotation(view)),
           p \in kept /\ p \notin strays => KeptUp(m, disk[p], before, cas[Host]),
           JoinsRight(p)'
    PROVE  TrustInv'
<1>1. mem'[p] = m /\ \A q \in Procs \ {p} : mem'[q] = mem[q]
  BY Before DEF Move, TrustInv
<1>2. Now' = Now /\ Following(p)
  BY DEF TrustInv, Now
<1>3. InOrder(p)'
  BY <1>1, <1>2 DEF Following, InOrder, Past
<1>4. KeepsUp(p)'
  BY <1>1, <1>2 DEF Following, KeepsUp
<1>5. Following(p)'
  BY <1>3, <1>4 DEF Following
<1>6. QED
  BY <1>1, <1>5, OwnTrust

\* What the steps start from.
LEMMA TrustBefore ==
    ASSUME TrustInv, NEW p \in Procs
    PROVE  /\ IInv /\ InOrder(p) /\ JoinsRight(p)
           /\ p \in kept /\ p \notin strays =>
                KeptUp(mem[p], disk[p], before, cas[Host])
           /\ Past(Rotation(view)) /\ Rank(disk[p].state) <= Rank(Rotation(view))
           /\ Rank(Rotation(view)) <= Rank(Rotation(view))
BY Records DEF TrustInv, Following, KeepsUp, InOrder, History

\* A process that starts uses the identities that go with its record.
LEMMA ConnectTrust ==
    ASSUME TrustInv, NEW p \in Procs, Connect(p)
    PROVE  TrustInv'
<1> DEFINE d == disk[p]
           m == [Down EXCEPT !.pc = "up", !.client = ClientIdentity(d),
                             !.server = ServerIdentity(d)]
<1>1. IInv'
  BY ConnectReady, TrustBefore
<1>2. /\ UNCHANGED <<cas, before, view, kept, strays, disk>> /\ Move(p, m)
      /\ ClientIdentity(d) # NoIdentity
  BY DEF Connect, Cluster
<1>3. /\ m.pc = "up" /\ m.client = ClientIdentity(d) /\ m.server = ServerIdentity(d)
  BY DEF Down
<1>4. ASSUME p \in kept, p \notin strays PROVE KeptUp(m, d, before, cas[Host])
  <2>1. Fit(d.state, d, cas[Host])
    BY <1>4, TrustBefore DEF KeptUp
  <2>2. UsedFit(d.state, ClientIdentity(d), ServerIdentity(d), cas[Host])
    BY <1>4, <2>1, KeptHasState, ConnectedFits
  <2>3. QED
    BY <1>3, <2>1, <2>2 DEF KeptUp
<1>5. mem'[p] = m
  BY <1>2, Before, TrustBefore DEF Move
<1>6. JoinsRight(p)'
  BY <1>2, <1>3, <1>5 DEF JoinsRight, Joining
<1>7. QED
  BY <1>1, <1>2, <1>3, <1>4, <1>6, OwnMoveTrust

\* A process that joins has not kept up with anything yet.
LEMMA JoinTrust ==
    ASSUME TrustInv, NEW p \in Nodes, Join(p)
    PROVE  TrustInv'
<1> DEFINE m == [Down EXCEPT !.pc = "join", !.ident = Issue(view, disk[p].names)]
<1>1. p \in Procs /\ IInv'
  BY Bounds, JoinReady, TrustBefore DEF TrustInv
<1>2. UNCHANGED <<cas, before, view, kept, strays, disk>> /\ Move(p, m)
  BY DEF Join, Cluster
<1>3. m.pc = "join" /\ m.ident = Issue(view, disk[p].names)
  BY DEF Down
<1>4. p \notin kept
  BY <1>1, KeptHasState DEF Join
<1>5. mem'[p] = m
  BY <1>1, <1>2, Before, TrustBefore DEF Move
<1>6. view \in CertAuthority /\ view.active # {}
  BY Records DEF WellFormedCA
<1>7. m.ident.key \in m.ident.trusts
  BY <1>3, <1>6, Issued
<1>8. JoinsRight(p)'
  BY <1>3, <1>5, <1>7 DEF JoinsRight
<1>9. QED
  BY <1>1, <1>2, <1>3, <1>4, <1>8, OwnMoveTrust

\* While no rotation is under way, the key of a process that can talk to the
\* auth server is the key of the authority.
LEMMA JoinGetTrust ==
    ASSUME TrustInv, NEW p \in Procs, JoinGet(p)
    PROVE  TrustInv'
<1> DEFINE m == [mem[p] EXCEPT !.pc = "wid", !.remote = Rotation(view)]
<1>1. IInv' /\ IInv /\ Ready(p)
  BY JoinGetReady, TrustBefore DEF IInv
<1>2. UNCHANGED <<cas, before, view, kept, strays, disk>> /\ Move(p, m)
  BY DEF JoinGet, Cluster
<1>3. /\ m.pc = "wid" /\ m.remote = Rotation(view) /\ m.ident = mem[p].ident
      /\ m.client = mem[p].client
  BY <1>1, Before DEF Process
<1>4. Joining(p) /\ mem[p].pc = "join"
  BY <1>1 DEF JoinGet, Ready, FollowerReady
<1>5. p \notin kept
  BY <1>4, KeptHasState
<1>6. mem'[p] = m
  BY <1>1, <1>2, Before DEF Move
<1>7. m.ident.key \in m.ident.trusts
  BY <1>3, <1>4, TrustBefore DEF JoinsRight
<1>8. ASSUME m.remote.phase = "standby", m.remote = Now
      PROVE  m.ident.key \in cas[Host].active
  <2>1. view = cas[Host]
    BY <1>3, <1>8 DEF TrustInv, History
  <2>2. mem[p].ident.key \in Trusted(view)
    BY DEF JoinGet, CanTalk
  <2>3. view.phase = "standby" /\ view.additional = {}
    BY <1>3, <1>8, Records, RotationType DEF OneKey
  <2>4. QED
    BY <1>3, <2>1, <2>2, <2>3 DEF Trusted
<1>9. JoinsRight(p)'
  <2>1. Now' = Now /\ cas'[Host] = cas[Host]
    BY <1>2 DEF Now
  <2>2. QED
    BY <1>2, <1>3, <1>6, <1>7, <1>8, <2>1 DEF JoinsRight
<1>10. QED
  BY <1>2, <1>1, <1>3, <1>5, <1>9, TrustBefore, OwnMoveTrust

\* Reading the rotation changes no identity.
LEMMA SyncRegisterTrust ==
    ASSUME TrustInv, NEW p \in Procs, SyncRegister(p)
    PROVE  TrustInv'
<1> DEFINE remote == Rotation(view)
           m == [mem[p] EXCEPT !.pc = "reg", !.remote = remote,
                               !.slot = RegisterSlot(remote)]
<1>1. IInv' /\ IInv
  BY SyncRegisterReady, TrustBefore
<1>2. UNCHANGED <<cas, before, view, kept, strays, disk>> /\ Move(p, m)
  BY DEF SyncRegister, Cluster
<1>3. /\ m.pc = "reg" /\ m.remote = remote /\ m.client = mem[p].client
      /\ m.server = mem[p].server
  BY <1>1, Before DEF Process
<1>4. mem[p].pc = "up" /\ ~Joining(p)
  BY <1>1, UpFollows DEF SyncRegister
<1>5. remote.phase # "init"
  BY Records DEF SyncRegister, MustRegister, WellFormedRotation
<1>6. p \in kept /\ p \notin strays => KeptUp(m, disk[p], before, cas[Host])
  BY <1>3, <1>4, <1>5, TrustBefore DEF KeptUp
<1>7. mem'[p] = m
  BY <1>1, <1>2, Before DEF Move
<1>8. JoinsRight(p)'
  BY <1>3, <1>4, <1>7 DEF JoinsRight, Joining
<1>9. QED
  BY <1>1, <1>2, <1>3, <1>6, <1>8, TrustBefore, OwnMoveTrust

\* The old keys are the current ones still.
LEMMA SyncInitTrust ==
    ASSUME TrustInv, NEW p \in Procs, SyncInit(p)
    PROVE  TrustInv'
<1> DEFINE m == [mem[p] EXCEPT !.pc = "wst", !.remote = Rotation(view)]
           d == disk[p]
<1>1. IInv' /\ IInv /\ Ready(p)
  BY SyncInitReady, TrustBefore DEF IInv
<1>2. UNCHANGED <<cas, before, view, kept, strays, disk>> /\ Move(p, m)
  BY DEF SyncInit, Cluster
<1>3. /\ m.pc = "wst" /\ m.remote = Rotation(view) /\ m.client = mem[p].client
      /\ m.server = mem[p].server
  BY <1>1, Before DEF Process
<1>4. mem[p].pc = "up" /\ ~Joining(p)
  BY <1>1, UpFollows DEF SyncInit
<1>5. /\ d.state.state = "standby" /\ d.state.phase = "standby"
      /\ Rotation(view).phase = "init"
  BY <1>1, Records, RotationType DEF SyncInit, Ready, WellFormedRotation
<1>6. p \in kept /\ p \notin strays => KeptUp(m, d, before, cas[Host])
  BY <1>3, <1>4, <1>5, TrustBefore DEF KeptUp, Fit, TrustsEnough, Swapped
<1>7. mem'[p] = m
  BY <1>1, <1>2, Before DEF Move
<1>8. JoinsRight(p)'
  BY <1>3, <1>4, <1>7 DEF JoinsRight, Joining
<1>9. QED
  BY <1>1, <1>2, <1>3, <1>6, <1>8, TrustBefore, OwnMoveTrust

\* A process that has kept up has been through update_clients.
LEMMA SyncInstallTrust ==
    ASSUME TrustInv, NEW p \in Procs, SyncInstall(p)
    PROVE  TrustInv'
<1> DEFINE d == disk[p]
           m == [mem[p] EXCEPT !.pc = "wid", !.remote = Rotation(view),
                               !.slot = "current", !.ident = d.replacement]
           c == cas[Host]
<1>1. IInv' /\ IInv
  BY SyncInstallReady, TrustBefore
<1>2. UNCHANGED <<cas, before, view, kept, strays, disk>> /\ Move(p, m)
  BY DEF SyncInstall, Cluster
<1>3. /\ m.pc = "wid" /\ m.remote = Rotation(view) /\ m.client = mem[p].client
      /\ m.server = mem[p].server /\ m.slot = "current" /\ m.ident = d.replacement
  BY <1>1, Before DEF Process
<1>4. mem[p].pc = "up" /\ ~Joining(p)
  BY <1>1, UpFollows DEF SyncInstall
<1>5. Rotation(view).phase = "update_servers"
  BY Records, RotationType DEF SyncInstall
<1>6. ASSUME p \in kept, p \notin strays PROVE KeptUp(m, d, before, c)
  <2>1. d.state.phase \in Swapped
    <3>1. /\ d.state \in {before, Now}
          /\ before = Now \/ NextRotation(before, Now)
          /\ \/ Rotation(view) = Now
             \/ Rotation(view) = before /\ d.state = before
      BY <1>6, KeptPosition DEF TrustInv, History
    <3>2. QED
      BY <1>5, <3>1 DEF NextRotation, Swapped
  <2>2. KeptUp(mem[p], d, before, c)
    BY <1>6, TrustBefore
  <2>3. d.replacement.key \in NewKeys(c) /\ Both(c) \subseteq d.replacement.trusts
    BY <2>1, <2>2 DEF KeptUp, Fit, TrustsEnough, Swapped
  <2>4. Planned(m, d, c)
    BY <1>3, <1>5, <2>3 DEF Planned, TrustsEnough
  <2>5. QED
    BY <1>3, <1>4, <2>2, <2>4 DEF KeptUp
<1>7. mem'[p] = m
  BY <1>1, <1>2, Before DEF Move
<1>8. JoinsRight(p)'
  BY <1>3, <1>4, <1>7 DEF JoinsRight, Joining
<1>9. QED
  BY <1>1, <1>2, <1>3, <1>6, <1>8, TrustBefore, OwnMoveTrust

\* The identity that is issued goes with the record it was asked for under.
LEMMA ReRegisterTrust ==
    ASSUME TrustInv, NEW p \in Procs, ReRegister(p)
    PROVE  TrustInv'
<1> DEFINE d == disk[p]
           m == [mem[p] EXCEPT !.pc = "wid", !.ident = Issue(view, d.names)]
           c == cas[Host]
<1>1. IInv' /\ IInv
  BY ReRegisterReady, TrustBefore
<1>2. UNCHANGED <<cas, before, view, kept, strays, disk>> /\ Move(p, m)
  BY DEF ReRegister, Cluster
<1>3. /\ m.pc = "wid" /\ m.remote = mem[p].remote /\ m.client = mem[p].client
      /\ m.server = mem[p].server /\ m.slot = mem[p].slot
      /\ m.ident = Issue(view, d.names)
  BY <1>1, Before DEF Process
<1>4. mem[p].pc = "reg" /\ ~Joining(p) /\ Ready(p)
  BY <1>1, UpFollows DEF ReRegister
<1>5. /\ m.remote.phase # "update_servers" /\ m.slot = RegisterSlot(m.remote)
  BY <1>3, <1>4 DEF Ready, FollowerReady
<1>6. ASSUME p \in kept, p \notin strays PROVE KeptUp(m, d, before, c)
  <2>1. KeptUp(mem[p], d, before, c)
    BY <1>6, TrustBefore
  <2>2. /\ m.remote.phase \in {"standby", "rollback"} =>
             m.ident.key \in Old(c) /\ TrustsEnough(m.ident, m.remote, c)
        /\ m.remote.phase = "update_clients" =>
             m.ident.key \in NewKeys(c) /\ TrustsEnough(m.ident, m.remote, c)
    BY <1>3, <1>4, <1>6, IssuedFits
  <2>3. m.remote.phase = "update_clients" => d.current.key \in StillOld(c)
    <3> SUFFICES ASSUME m.remote.phase = "update_clients"
                 PROVE  d.current.key \in StillOld(c)
      OBVIOUS
    <3>1. d.state.phase \in {"init", "update_clients"}
      BY <1>3, <1>4, <1>6, KeptPosition DEF NextRotation
    <3>2. Old(c) \subseteq StillOld(c)
      BY Records, BothTrusted
    <3>3. QED
      BY <2>1, <3>1, <3>2 DEF KeptUp, Fit
  <2>4. Planned(m, d, c)
    BY <1>3, <1>4, <1>5, <2>1, <2>2, <2>3 DEF Planned, RegisterSlot, KeptUp
  <2>5. QED
    BY <1>3, <1>4, <2>1, <2>4 DEF KeptUp
<1>7. mem'[p] = m
  BY <1>1, <1>2, Before DEF Move
<1>8. JoinsRight(p)'
  BY <1>3, <1>4, <1>7 DEF JoinsRight, Joining
<1>9. InOrder(p)
  BY TrustBefore
<1>10. QED
  BY <1>1, <1>2, <1>3, <1>4, <1>6, <1>8, <1>9, OwnMoveTrust DEF InOrder

\* A refusal changes no identity.
LEMMA ReRegisterRefusedTrust ==
    ASSUME TrustInv, NEW p \in Procs, ReRegisterRefused(p)
    PROVE  TrustInv'
<1> DEFINE m == [mem[p] EXCEPT !.pc = "up"]
<1>1. IInv' /\ IInv
  BY ReRegisterRefusedReady, TrustBefore
<1>2. UNCHANGED <<cas, before, view, kept, strays, disk>> /\ Move(p, m)
  BY DEF ReRegisterRefused, Cluster
<1>3. m.pc = "up" /\ m.client = mem[p].client /\ m.server = mem[p].server
  BY <1>1, Before DEF Process
<1>4. mem[p].pc = "reg" /\ ~Joining(p)
  BY <1>1, UpFollows DEF ReRegisterRefused
<1>5. p \in kept /\ p \notin strays => KeptUp(m, disk[p], before, cas[Host])
  BY <1>3, <1>4, TrustBefore DEF KeptUp
<1>6. mem'[p] = m
  BY <1>1, <1>2, Before DEF Move
<1>7. JoinsRight(p)'
  BY <1>3, <1>4, <1>6 DEF JoinsRight, Joining
<1>8. QED
  BY <1>1, <1>2, <1>3, <1>5, <1>7, OwnMoveTrust

\* Writing the identity for the next record leaves those for this one usable.
LEMMA WriteIdentityTrust ==
    ASSUME TrustInv, NEW p \in Procs, WriteIdentity(p)
    PROVE  TrustInv'
<1> DEFINE m == mem[p]
           next == IF m.remote.state = "standby" /\ disk[p].state.state = "standby"
                     THEN "reload" ELSE "wst"
           n == [m EXCEPT !.pc = next]
           d == disk[p]
           e == [d EXCEPT ![m.slot] = m.ident]
           r == d.state
           c == cas[Host]
<1>1. IInv' /\ IInv /\ Ready(p)
  BY WriteIdentityReady, TrustBefore DEF IInv
<1>2. UNCHANGED <<cas, before, view, kept, strays>>
  BY DEF WriteIdentity, Cluster
<1>3. m \in Process /\ d \in Storage /\ m.pc = "wid"
  BY <1>1, Before DEF WriteIdentity
<1>4. /\ n.pc \in {"reload", "wst"} /\ n.client = m.client /\ n.server = m.server
      /\ n.remote = m.remote /\ n.ident = m.ident
  BY <1>3 DEF Process
<1>5. /\ mem'[p] = n /\ disk'[p] = e
      /\ \A q \in Procs \ {p} : mem'[q] = mem[q] /\ disk'[q] = disk[q]
  BY <1>1, Before DEF WriteIdentity, Move
<1>6. /\ e.state = d.state
      /\ m.slot = "current" => e.current = m.ident /\ e.replacement = d.replacement
      /\ m.slot = "replacement" => e.replacement = m.ident /\ e.current = d.current
  BY <1>3 DEF Storage, Process, Slots
<1>7. InOrder(p) /\ JoinsRight(p)
  BY TrustBefore
<1>8. Now' = Now
  BY <1>2 DEF Now
<1>9. InOrder(p)'
  BY <1>2, <1>3, <1>4, <1>5, <1>6, <1>7, <1>8 DEF InOrder, Past
<1>10. ASSUME p \in kept PROVE e.state \in {before, Now}
  BY <1>6, <1>10, KeptPosition
<1>11. ASSUME p \in kept, p \notin strays PROVE KeptUp(n, e, before, c)
  <2>1. /\ Fit(r, d, c) /\ UsedFit(r, m.client, m.server, c) /\ Planned(m, d, c)
    BY <1>3, <1>11, TrustBefore DEF KeptUp
  <2>2. /\ r \in {before, Now} /\ r.phase \in Phases
        /\ m.remote = r \/ (r = before /\ m.remote = Now /\ NextRotation(r, m.remote))
        /\ Now.phase = c.phase
        /\ before = Now \/ NextRotation(before, Now)
    BY <1>3, <1>11, KeptPosition, KeptHasState DEF TrustInv, History
  <2>3. c \in CertAuthority /\ OneKey(c)
    BY Records
  <2>4. m.remote.phase \in Phases
    BY <1>11, <2>2, KeptHasState
  <2>5. /\ Old(c) \subseteq Both(c) /\ Old(c) \subseteq StillOld(c)
        /\ NewKeys(c) \subseteq Both(c)
        /\ c.phase = "standby" => Both(c) = Old(c)
    BY <2>3, BothTrusted
  <2>6. CASE m.remote.phase \in {"standby", "rollback"}
    <3>1. /\ m.slot = "current" /\ m.ident.key \in Old(c)
          /\ TrustsEnough(m.ident, m.remote, c)
      BY <2>1, <2>6 DEF Planned
    <3>2. e.current = m.ident /\ e.replacement = d.replacement
      BY <1>6, <3>1
    <3>3. Fit(m.remote, e, c)
      BY <2>6, <3>1, <3>2 DEF Fit, Swapped
    <3>4. Old(c) \subseteq m.ident.trusts
      BY <2>5, <3>1 DEF TrustsEnough
    <3>5. r.phase = "rollback" => Both(c) \subseteq m.ident.trusts
      <4> SUFFICES ASSUME r.phase = "rollback" PROVE Both(c) \subseteq m.ident.trusts
        OBVIOUS
      <4>1. CASE m.remote = r
        BY <3>1, <4>1 DEF TrustsEnough
      <4>2. CASE m.remote # r
        <5>1. c.phase = "standby"
          BY <2>2, <4>2 DEF NextRotation
        <5>2. QED
          BY <2>5, <3>4, <5>1
      <4>3. QED
        BY <4>1, <4>2
    <3>6. Fit(r, e, c)
      BY <2>1, <2>2, <2>5, <3>1, <3>2, <3>4, <3>5
         DEF Fit, TrustsEnough, Swapped, Phases
    <3>7. StillUsed(m.client, m.server, before, c)
      BY <1>11, <2>1, StillUsable
    <3>8. QED
      BY <1>4, <1>6, <2>1, <2>6, <3>3, <3>6, <3>7 DEF KeptUp
  <2>7. CASE m.remote.phase = "update_clients"
    <3>1. /\ m.slot = "replacement" /\ m.ident.key \in NewKeys(c)
          /\ TrustsEnough(m.ident, m.remote, c) /\ d.current.key \in StillOld(c)
      BY <2>1, <2>7 DEF Planned
    <3>2. e.replacement = m.ident /\ e.current = d.current
      BY <1>6, <3>1
    <3>3. Both(c) \subseteq m.ident.trusts
      BY <2>7, <3>1 DEF TrustsEnough
    <3>4. Fit(m.remote, e, c)
      BY <2>7, <3>1, <3>2 DEF Fit, Swapped
    <3>5. Fit(r, e, c)
      BY <2>1, <3>1, <3>2, <3>3 DEF Fit, TrustsEnough, Swapped
    <3>6. StillUsed(m.client, m.server, before, c)
      BY <1>11, <2>1, StillUsable
    <3>7. QED
      BY <1>4, <1>6, <2>1, <2>7, <3>4, <3>5, <3>6 DEF KeptUp
  <2>8. CASE m.remote.phase = "update_servers"
    <3>1. /\ m.slot = "current" /\ m.ident.key \in NewKeys(c)
          /\ d.replacement.key \in NewKeys(c)
          /\ TrustsEnough(d.replacement, m.remote, c)
      BY <2>1, <2>8 DEF Planned
    <3>2. e.current = m.ident /\ e.replacement = d.replacement
      BY <1>6, <3>1
    <3>3. Fit(m.remote, e, c)
      BY <2>8, <3>1, <3>2 DEF Fit, Swapped
    <3>4. r.phase \in Swapped
      BY <2>2, <2>8 DEF NextRotation, Swapped
    <3>5. r.phase = "update_clients" => m.ident.key \in StillOld(c)
      BY <2>2, <2>5, <2>8, <3>1 DEF NextRotation, StillOld
    <3>6. Fit(r, e, c)
      BY <2>1, <3>2, <3>4, <3>5 DEF Fit, Swapped
    <3>7. StillUsed(m.client, m.server, before, c)
      BY <1>11, <2>1, StillUsable
    <3>8. QED
      BY <1>4, <1>6, <2>1, <2>8, <3>3, <3>6, <3>7 DEF KeptUp
  <2>9. QED
    BY <2>1, <2>4, <2>6, <2>7, <2>8 DEF Phases, Planned
<1>12. KeepsUp(p)'
  BY <1>2, <1>5, <1>8, <1>10, <1>11 DEF KeepsUp
<1>13. JoinsRight(p)'
  <2> SUFFICES ASSUME Joining(p)'
               PROVE  JoinsRight(p)'
    BY DEF JoinsRight
  <2>1. Joining(p)
    BY <1>4, <1>5 DEF Joining
  <2>2. m.slot = "current"
    BY <1>1, <1>3, <2>1 DEF Ready, JoinerReady
  <2>3. m.ident.key \in m.ident.trusts
    BY <1>3, <1>7, <2>1 DEF JoinsRight
  <2>4. p \notin strays /\ m.remote.phase = "standby" /\ m.remote = Now
          => m.ident.key \in c.active
    BY <1>3, <1>7, <2>1 DEF JoinsRight
  <2>5. e.current = m.ident
    BY <1>6, <2>2
  <2>6. QED
    BY <1>2, <1>4, <1>5, <1>8, <2>3, <2>4, <2>5 DEF JoinsRight
<1>14. Following(p)'
  BY <1>9, <1>12, <1>13 DEF Following
<1>15. QED
  BY <1>1, <1>2, <1>5, <1>14, OwnTrust

\* What has been written goes with the record that is written now.
LEMMA WriteStateTrust ==
    ASSUME TrustInv, NEW p \in Procs, WriteState(p)
    PROVE  TrustInv'
<1> DEFINE m == mem[p]
           joined == [Down EXCEPT !.pc = "up", !.client = m.ident, !.server = m.ident]
           n == CASE Joining(p) -> joined
                  [] ~Joining(p) /\ m.remote.phase = "init" -> [m EXCEPT !.pc = "up"]
                  [] OTHER -> [m EXCEPT !.pc = "reload"]
           d == disk[p]
           e == [d EXCEPT !.state = m.remote]
           c == cas[Host]
<1>1. IInv' /\ IInv /\ Ready(p)
  BY WriteStateReady, StraysAreNodes, TrustBefore DEF IInv
<1>2. UNCHANGED <<cas, before, view>> /\ Now' = Now
  BY DEF WriteState, Now
<1>3. m \in Process /\ d \in Storage /\ m.pc = "wst"
  BY <1>1, Before DEF WriteState
<1>4. /\ mem'[p] = n /\ disk'[p] = e
      /\ \A q \in Procs \ {p} : mem'[q] = mem[q] /\ disk'[q] = disk[q]
  BY <1>1, Before DEF WriteState, Move
<1>5. e.state = m.remote /\ e.current = d.current /\ e.replacement = d.replacement
  BY <1>3 DEF Storage
<1>6. /\ kept' = IF Joining(p) /\ Matches(m.remote, Now) /\ d.current = m.ident
                     THEN kept \cup {p} ELSE kept
      /\ strays' = IF Joining(p) /\ m.remote.state = "in_progress"
                     THEN strays \cup {p} ELSE strays
  BY DEF WriteState, Now
<1>7. \A q \in Procs \ {p} : /\ q \in kept' <=> q \in kept
                             /\ q \in strays' <=> q \in strays
  BY <1>6
<1>8. /\ Past(m.remote) /\ Rank(m.remote) <= Rank(Rotation(view)) /\ JoinsRight(p)
      /\ m.remote \in Rotations /\ WellFormedRotation(m.remote)
      /\ m.remote.state \in States
  BY <1>1, <1>3, TrustBefore DEF InOrder, Process, Ready, MemReady
<1>9. n.pc \in {"up", "reload"}
  <2>1. joined.pc = "up"
    BY DEF Down
  <2>2. QED
    BY <1>3, <2>1 DEF Process
<1>10. InOrder(p)'
  BY <1>2, <1>4, <1>5, <1>8, <1>9 DEF InOrder, Past
<1>11. ASSUME Joining(p) PROVE KeepsUp(p)' /\ JoinsRight(p)'
  <2>1. p \notin kept
    BY <1>3, <1>11, KeptHasState
  <2>2. n.pc = "up" /\ n.client = m.ident /\ n.server = m.ident
    BY <1>11 DEF Down
  <2>3. m.ident # NoIdentity
    BY <1>1, <1>3, <1>11 DEF Ready, JoinerReady
  <2>4. JoinsRight(p)'
    BY <1>4, <2>2, <2>3 DEF JoinsRight, Joining
  <2>5. KeepsUp(p)'
    <3> SUFFICES ASSUME p \in kept'
                 PROVE  /\ e.state \in {before, Now}
                        /\ p \notin strays' => KeptUp(n, e, before, c)
      BY <1>2, <1>4 DEF KeepsUp
    <3>1. Matches(m.remote, Now)
      BY <1>6, <2>1
    <3>2. m.remote = Now
      <4>1. m.remote # NoRotation /\ Now # NoRotation
        BY <1>8, <3>1, EmptyType DEF Matches
      <4>2. QED
        BY <1>8, <3>1, <4>1, Records DEF Matches, Rotations
    <3>3. ASSUME p \notin strays' PROVE KeptUp(n, e, before, c)
      <4>1. m.remote.phase = "standby" /\ p \notin strays
        BY <1>6, <1>8, <1>11, <3>3 DEF States, WellFormedRotation
      <4>2. /\ m.ident.key \in c.active /\ m.ident.key \in m.ident.trusts
            /\ d.current = m.ident
        BY <1>3, <1>8, <1>11, <3>2, <4>1 DEF JoinsRight
      <4>3. c.phase = "standby" /\ c \in CertAuthority /\ OneKey(c)
        BY <3>2, <4>1, Records, RotationType DEF Now
      <4>4. Old(c) = c.active /\ Old(c) \subseteq m.ident.trusts
        BY <4>2, <4>3, BothTrusted DEF OneKey
      <4>5. Fit(e.state, e, c)
        BY <1>5, <4>1, <4>2, <4>4 DEF Fit, TrustsEnough, Swapped
      <4>6. UsedFit(e.state, m.ident, m.ident, c)
        BY <1>5, <4>1, <4>2, <4>4
           DEF UsedFit, ClientKeys, ServerKeys, TrustsEnough, Swapped
      <4>7. QED
        BY <2>2, <4>5, <4>6 DEF KeptUp
    <3>4. QED
      BY <1>5, <3>2, <3>3
  <2>6. QED
    BY <2>4, <2>5
<1>12. ASSUME ~Joining(p) PROVE KeepsUp(p)' /\ JoinsRight(p)'
  <2>1. n.client = m.client /\ n.server = m.server
    BY <1>3, <1>12 DEF Process
  <2>2. JoinsRight(p)'
    BY <1>4, <1>12, <2>1 DEF JoinsRight, Joining
  <2>3. kept' = kept /\ strays' = strays
    BY <1>6, <1>12
  <2>4. ASSUME p \in kept PROVE e.state \in {before, Now}
    BY <1>3, <1>5, <2>4, KeptPosition
  <2>5. ASSUME p \in kept, p \notin strays PROVE KeptUp(n, e, before, c)
    <3>1. /\ UsedFit(d.state, m.client, m.server, c) /\ Fit(m.remote, d, c)
          /\ m.remote.phase = "init" => d.state.state = "standby"
      BY <1>3, <2>5, TrustBefore DEF KeptUp
    <3>2. Fit(e.state, e, c)
      BY <1>5, <3>1 DEF Fit
    <3>3. CASE m.remote.phase = "init"
      <4>1. d.state.phase = "standby"
        BY <1>1, <3>1, <3>3 DEF Ready, WellFormedRotation
      <4>2. UsedFit(e.state, m.client, m.server, c)
        BY <1>5, <3>1, <3>3, <4>1
           DEF UsedFit, ClientKeys, ServerKeys, TrustsEnough, Swapped
      <4>3. n.pc = "up"
        BY <1>3, <1>12, <3>3 DEF Process
      <4>4. QED
        BY <2>1, <3>2, <4>2, <4>3 DEF KeptUp
    <3>4. CASE m.remote.phase # "init"
      <4>1. n.pc = "reload"
        BY <1>3, <1>12, <3>4 DEF Process
      <4>2. StillUsed(m.client, m.server, before, c)
        BY <2>5, <3>1, StillUsable
      <4>3. QED
        BY <2>1, <3>2, <4>1, <4>2 DEF KeptUp
    <3>5. QED
      BY <3>3, <3>4
  <2>6. KeepsUp(p)'
    BY <1>2, <1>4, <2>3, <2>4, <2>5 DEF KeepsUp
  <2>7. QED
    BY <2>2, <2>6
<1>13. Following(p)'
  BY <1>10, <1>11, <1>12 DEF Following
<1>14. QED
  BY <1>1, <1>2, <1>4, <1>7, <1>13, OwnTrust

\* A call that fails leaves the process where it was.
LEMMA CallFailsTrust ==
    ASSUME TrustInv, NEW p \in Procs, CallFails(p)
    PROVE  TrustInv'
<1> DEFINE m == mem[p]
           n == CASE ~Joining(p) -> [m EXCEPT !.pc = "up"]
                  [] Joining(p) /\ m.pc = "wid" -> [m EXCEPT !.pc = "wst"]
                  [] OTHER -> Down
           c == cas[Host]
<1>1. IInv' /\ IInv
  BY CallFailsReady, StraysAreNodes, TrustBefore
<1>2. UNCHANGED <<cas, before, kept, view, disk>> /\ Now' = Now
  BY DEF CallFails, Now
<1>3. m \in Process /\ m.pc \in {"reg", "wid", "wst", "join"}
  BY <1>1, Before DEF CallFails
<1>4. /\ mem'[p] = n
      /\ \A q \in Procs \ {p} : mem'[q] = mem[q]
  BY <1>1, Before DEF CallFails, Move
<1>5. strays' = IF Joining(p) /\ m.pc = "wid" THEN strays \cup {p} ELSE strays
  BY DEF CallFails
<1>6. \A q \in Procs \ {p} : q \in strays' <=> q \in strays
  BY <1>5
<1>7. InOrder(p) /\ JoinsRight(p)
  BY TrustBefore
<1>8. ASSUME ~Joining(p) PROVE Following(p)'
  <2>1. n.pc = "up" /\ n.client = m.client /\ n.server = m.server
    BY <1>3, <1>8 DEF Process
  <2>2. strays' = strays
    BY <1>5, <1>8
  <2>3. InOrder(p)'
    BY <1>2, <1>4, <1>7, <2>1 DEF InOrder, Past
  <2>4. JoinsRight(p)'
    BY <1>4, <1>8, <2>1 DEF JoinsRight, Joining
  <2>5. m.pc # "join"
    BY <1>1, <1>3, <1>8 DEF IInv, Ready, FollowerReady
  <2>6. p \in kept /\ p \notin strays => KeptUp(n, disk[p], before, c)
    BY <1>3, <2>1, <2>5, TrustBefore DEF KeptUp
  <2>7. p \in kept => disk[p].state \in {before, Now}
    BY KeptPosition
  <2>8. KeepsUp(p)'
    BY <1>2, <1>4, <2>2, <2>6, <2>7 DEF KeepsUp
  <2>9. QED
    BY <2>3, <2>4, <2>8 DEF Following
<1>9. ASSUME Joining(p) PROVE Following(p)'
  <2>1. p \notin kept
    BY <1>3, <1>9, KeptHasState
  <2>2. KeepsUp(p)'
    BY <1>2, <2>1 DEF KeepsUp
  <2>3. CASE m.pc = "wid"
    <3>1. n.pc = "wst" /\ n.remote = m.remote /\ n.ident = m.ident /\ p \in strays'
      BY <1>3, <1>5, <1>9, <2>3 DEF Process
    <3>2. m.ident.key \in m.ident.trusts
      BY <1>3, <1>7, <1>9 DEF JoinsRight
    <3>3. JoinsRight(p)'
      BY <1>4, <3>1, <3>2 DEF JoinsRight
    <3>4. InOrder(p)'
      BY <1>2, <1>4, <1>7, <2>3, <3>1 DEF InOrder, Past
    <3>5. QED
      BY <2>2, <3>3, <3>4 DEF Following
  <2>4. CASE m.pc # "wid"
    <3>1. n.pc = "off"
      BY <1>9, <2>4 DEF Down
    <3>2. InOrder(p)' /\ JoinsRight(p)'
      BY <1>2, <1>4, <1>7, <3>1 DEF InOrder, Past, JoinsRight
    <3>3. QED
      BY <2>2, <3>2 DEF Following
  <2>5. QED
    BY <2>3, <2>4
<1>10. Following(p)'
  BY <1>8, <1>9
<1>11. QED
  BY <1>1, <1>2, <1>4, <1>6, <1>10, OwnTrust

\* What is on disk is enough to go on with.
LEMMA CrashTrust ==
    ASSUME TrustInv, NEW p \in Procs, Crash(p)
    PROVE  TrustInv'
<1>1. IInv' /\ Down.pc = "off"
  BY CrashReady, TrustBefore DEF Down
<1>2. UNCHANGED <<cas, before, view, kept, strays, disk>> /\ Move(p, Down)
  BY DEF Crash, Cluster
<1>3. p \in kept /\ p \notin strays => KeptUp(Down, disk[p], before, cas[Host])
  BY <1>1, TrustBefore DEF KeptUp
<1>4. mem'[p] = Down
  BY <1>2, Before, TrustBefore DEF Move
<1>5. JoinsRight(p)'
  BY <1>1, <1>4 DEF JoinsRight
<1>6. QED
  BY <1>1, <1>2, <1>3, <1>5, OwnMoveTrust

\* Principals do not touch keys.
LEMMA ReconfigureTrust ==
    ASSUME TrustInv, NEW p \in Procs, Reconfigure(p)
    PROVE  TrustInv'
<1> DEFINE d == disk[p]
           e == disk'[p]
<1>1. IInv' /\ IInv
  BY ReconfigureReady, TrustBefore
<1>2. UNCHANGED <<cas, before, view, kept, strays, mem>> /\ mem[p].pc = "off"
  BY DEF Reconfigure, Cluster
<1>3. \A q \in Procs \ {p} : disk'[q] = disk[q]
  BY <1>1, Before DEF Reconfigure
<1>4. /\ e.state = d.state /\ e.current = d.current
      /\ e.replacement = d.replacement
  BY <1>1, Before DEF Reconfigure, Storage
<1>5. InOrder(p)' /\ JoinsRight(p)'
  BY <1>2, <1>4, TrustBefore DEF InOrder, Past, Now, JoinsRight
<1>6. p \in kept => e.state \in {before, Now}
  BY <1>4, KeptPosition
<1>7. p \in kept /\ p \notin strays => KeptUp(mem[p], e, before, cas[Host])
  BY <1>2, <1>4, TrustBefore DEF KeptUp, Fit
<1>8. KeepsUp(p)'
  BY <1>2, <1>6, <1>7 DEF KeepsUp, Now
<1>9. Following(p)'
  BY <1>5, <1>8 DEF Following
<1>10. QED
  BY <1>1, <1>2, <1>3, <1>9, OwnTrust

\* The first auth server has the only key.
LEMMA TrustInit == NodeInit => TrustInv
<1> SUFFICES ASSUME NodeInit PROVE TrustInv
  OBVIOUS
<1> DEFINE ca == StandbyCA({1}, 0)
           first == [state |-> Rotation(ca), current |-> Issue(ca, 0),
                     replacement |-> NoIdentity, names |-> 0]
           empty == [first EXCEPT !.state = NoRotation, !.current = NoIdentity]
           up == [Down EXCEPT !.pc = "up", !.client = Issue(ca, 0),
                              !.server = Issue(ca, 0)]
<1>1. IInv
  BY InitReady
<1>2. /\ cas = [ty \in CATypes |-> ca] /\ view = ca /\ before = Rotation(ca)
      /\ kept = {Auth} /\ strays = {}
      /\ disk = [p \in Procs |-> IF p = Auth THEN first ELSE empty]
      /\ mem = [p \in Procs |-> IF p = Auth THEN up ELSE Down]
  BY DEF NodeInit
<1>3. cas[Host] = ca /\ Now = before /\ Rotation(view) = before
  BY <1>2, Bounds DEF Now
<1>4. /\ ca \in CertAuthority /\ ca.phase = "standby" /\ ca.state = "standby"
      /\ ca.active = {1} /\ ca.additional = {} /\ OneKey(ca)
  BY Bounds DEF StandbyCA, CertAuthority, Phases, Modes, States, OneKey
<1>5. /\ Rotation(ca).phase = "standby" /\ Rotation(ca).state = "standby"
      /\ Rotation(ca) \in Rotations
  BY <1>4, RotationType
<1>6. Issue(ca, 0).key = 1 /\ Issue(ca, 0).trusts = {1}
  BY <1>4, Issued DEF Trusted
<1>7. /\ first.state = Rotation(ca) /\ first.current = Issue(ca, 0)
      /\ empty.state = NoRotation
      /\ up.pc = "up" /\ up.client = Issue(ca, 0) /\ up.server = Issue(ca, 0)
      /\ Down.pc = "off"
  BY DEF Down
<1> HIDE DEF ca, first, empty, up
<1>8. History
  BY <1>2, <1>3, <1>4, <1>5
     DEF History, Past, WellFormedRotation, States
<1>9. Rank(NoRotation) = 0 /\ Rank(Rotation(ca)) \in Nat
  BY <1>5, RankType DEF Rank, PhaseRank, NoRotation
<1>10. Past(NoRotation)
  <2>1. Rank(Rotation(ca)) = 6 * Rotation(ca).id + 5 /\ Rotation(ca).id \in Nat
    BY <1>4, <1>5, NodeAssumption DEF Rank, PhaseRank, Rotation, CertAuthority
  <2>2. QED
    BY <1>2, <1>9, <2>1 DEF Past
<1>11. ASSUME NEW p \in Procs PROVE Following(p)
  <2>1. CASE p = Auth
    <3>1. disk[p] = first /\ mem[p] = up
      BY <1>2, <2>1
    <3>2. InOrder(p)
      BY <1>2, <1>3, <1>7, <1>9, <3>1 DEF InOrder, Past
    <3>3. Old(ca) = {1}
      BY <1>4 DEF Old, Swapped
    <3>4. KeptUp(up, first, before, ca)
      BY <1>5, <1>6, <1>7, <3>3
         DEF KeptUp, Fit, UsedFit, ClientKeys, ServerKeys, TrustsEnough, Swapped
    <3>5. KeepsUp(p)
      BY <1>2, <1>3, <1>7, <3>1, <3>4 DEF KeepsUp
    <3>6. ~Joining(p)
      <4>1. Issue(ca, 0) # NoIdentity
        BY <1>6 DEF NoIdentity
      <4>2. QED
        BY <1>7, <3>1, <4>1 DEF Joining
    <3>7. QED
      BY <3>2, <3>5, <3>6 DEF Following, JoinsRight
  <2>2. CASE p # Auth
    <3>1. disk[p] = empty /\ mem[p] = Down /\ p \notin kept
      BY <1>2, <2>2
    <3>2. QED
      BY <1>2, <1>3, <1>7, <1>9, <1>10, <3>1
         DEF Following, InOrder, KeepsUp, JoinsRight
  <2>3. QED
    BY <2>1, <2>2
<1>12. QED
  BY <1>1, <1>8, <1>11 DEF TrustInv

-----------------------------------------------------------------------------
\* Every step keeps the invariant.
LEMMA TrustStep == TrustInv /\ [NodeNext]_vars => TrustInv'
<1> SUFFICES ASSUME TrustInv, [NodeNext]_vars PROVE TrustInv'
  OBVIOUS
<1>1. ASSUME NEW p \in Procs, Step(p) PROVE TrustInv'
  BY <1>1, ConnectTrust, JoinGetTrust, SyncRegisterTrust, SyncInitTrust,
     SyncInstallTrust, ReRegisterTrust, ReRegisterRefusedTrust, WriteIdentityTrust,
     WriteStateTrust
     DEF Step
<1>2. CASE UNCHANGED vars
  <2>1. IInv'
    BY <1>2, StepKeeps DEF TrustInv
  <2>2. History'
    BY <1>2 DEF vars, TrustInv, History, Past, Now
  <2>3. ASSUME NEW p \in Procs PROVE Following(p)'
    BY <1>2 DEF vars, TrustInv, Following, InOrder, KeepsUp, JoinsRight, Past, Now,
                Joining
  <2>4. QED
    BY <2>1, <2>2, <2>3 DEF TrustInv
<1>3. QED
  BY <1>1, <1>2, RotationTrust, CacheUpdateTrust, JoinTrust, CallFailsTrust,
     CrashTrust, ReconfigureTrust
     DEF NodeNext

\* The invariant holds.
LEMMA TrustHolds == NodeSpec => []TrustInv
BY TrustInit, TrustStep, PTL DEF NodeSpec

\* A process that has kept up with the rotation uses identities the cluster
\* trusts, wherever it was stopped and whatever it had read by then.
THEOREM KeptUpTrusted == NodeSpec => []KeptTrusted
<1>1. TrustInv => KeptTrusted
  <2> SUFFICES ASSUME TrustInv, NEW p \in Procs, mem[p].pc # "off", ~Joining(p),
                      p \in kept, p \notin strays
               PROVE  {mem[p].client.key, mem[p].server.key} \subseteq Trusted(cas[Host])
    BY DEF KeptTrusted, InStep
  <2>1. KeptUp(mem[p], disk[p], before, cas[Host]) /\ IInv
    BY TrustBefore
  <2>2. mem[p].pc \in {"up", "reg", "wid", "wst", "reload"}
    BY <2>1, Before DEF Process, IInv, Ready, FollowerReady
  <2>3. StillUsed(mem[p].client, mem[p].server, before, cas[Host])
    BY <2>1, <2>2, StillUsable DEF KeptUp
  <2>4. /\ Both(cas[Host]) = Trusted(cas[Host])
        /\ Old(cas[Host]) \subseteq Both(cas[Host])
    BY Records, BothTrusted
  <2>5. QED
    BY <2>3, <2>4 DEF StillUsed, Shown
<1>2. QED
  BY <1>1, TrustHolds, PTL

\* What the four phases are for: any process that has kept up can talk to the
\* auth server, if that has kept up too, at every moment of every rotation.
THEOREM PhasesKeepTrust == NodeSpec => []InStepTrust
<1>1. TrustInv => InStepTrust
  <2> SUFFICES ASSUME TrustInv, NEW p \in Nodes,
                      mem[p].pc \in {"up", "reg", "reload"},
                      p \in kept, p \notin strays,
                      mem[Auth].pc # "off", Auth \in kept, Auth \notin strays
               PROVE  CanTalk(mem[p].client)
    BY DEF InStepTrust, InStep
  <2> DEFINE c == cas[Host]
             client == mem[p].client
  <2>1. p \in Procs /\ Auth \in Procs /\ IInv
    BY Bounds, TrustBefore
  <2>2. KeptUp(mem[p], disk[p], before, c) /\ KeptUp(mem[Auth], disk[Auth], before, c)
    BY <2>1, TrustBefore
  <2>3. mem[Auth].pc \in {"up", "reg", "wid", "wst", "reload"}
    <3>1. ~Joining(Auth)
      BY <2>1, NodeAssumption DEF IInv, Ready, JoinerReady
    <3>2. QED
      BY <2>1, <3>1, Before DEF Process, IInv, Ready, FollowerReady
  <2>4. StillUsed(client, mem[p].server, before, c)
    BY <2>1, <2>2, StillUsable DEF KeptUp
  <2>5. StillUsed(mem[Auth].client, mem[Auth].server, before, c)
    BY <2>1, <2>2, <2>3, StillUsable DEF KeptUp
  <2>6. mem[Auth].server.key \in client.trusts
    BY <2>4, <2>5 DEF StillUsed
  <2>7. client.key \in Trusted(view)
    <3>1. /\ c \in CertAuthority /\ view \in CertAuthority /\ OneKey(c) /\ OneKey(view)
      BY Records
    <3>2. client.key \in Both(c) /\ Both(c) = Trusted(c) /\ Both(view) = Trusted(view)
      BY <2>4, <3>1, BothTrusted DEF StillUsed
    <3>3. CASE view = c
      BY <3>2, <3>3
    <3>4. CASE view # c /\ c.phase # "init"
      <4>1. Follows(view, c)
        BY <2>1, <3>4, KeptPosition
      <4>2. QED
        BY <3>1, <3>2, <3>4, <4>1, SidesStay
    <3>5. CASE view # c /\ c.phase = "init"
      <4>1. Follows(view, c) /\ Rotation(view) = before /\ disk[p].state = before
        BY <2>1, <3>5, KeptPosition
      <4>2. view.phase = "standby" /\ Old(c) = view.active
        BY <3>5, <4>1 DEF Follows, Old, Swapped
      <4>3. QED
        BY <2>4, <3>5, <4>2 DEF StillUsed, Trusted
    <3>6. QED
      BY <3>3, <3>4, <3>5
  <2>8. QED
    BY <2>6, <2>7 DEF CanTalk
<1>2. QED
  BY <1>1, TrustHolds, PTL
-----------------------------------------------------------------------------
(***************************************************************************)
(* Processes that joined in the middle of a rotation.  They do not have    *)
(* the identities TrustInv speaks of, but whatever they use under a record *)
(* that still counts is trusted.  A record counts if it is the one of the  *)
(* cluster, or if both records of a process that keeps up belong to one    *)
(* rotation: between its start and its completion no key is distrusted.    *)
(***************************************************************************)

Counts(r, ca) == r = Rotation(ca) \/ ca.phase # "standby"

Usable(ident, ca) == ident = NoIdentity \/ ident.key \in Trusted(ca)

\* The identities on disk that the record r asks for.
OnDisk(r, d, ca) ==
    /\ r.phase # "update_servers" => Usable(d.current, ca)
    /\ r.phase \in Swapped => Usable(d.replacement, ca)

StrayUp(m, d, ca) ==
    /\ Counts(d.state, ca) => OnDisk(d.state, d, ca)
    /\ m.pc \in {"up", "reg", "wid", "wst"} /\ Counts(d.state, ca) =>
           {m.client.key, m.server.key} \subseteq Trusted(ca)
    /\ m.pc = "reg" => m.remote.phase # "init"
    /\ m.pc = "wid" => /\ m.remote.phase # "init"
                       /\ m.slot = RegisterSlot(m.remote)
                       /\ Counts(m.remote, ca) => m.ident.key \in Trusted(ca)
    /\ m.pc = "wst" /\ Counts(m.remote, ca) => OnDisk(m.remote, d, ca)

\* A process that joins is trusted under the record it has read.
JoinsTrusted(m, ca) ==
    m.pc \in {"wid", "wst"} /\ m.client = NoIdentity /\ m.remote = Rotation(ca)
        => m.ident.key \in Trusted(ca)

Stray(p) ==
    /\ p \in kept /\ p \in strays => StrayUp(mem[p], disk[p], cas[Host])
    /\ disk[p].state = NoRotation => disk[p].replacement = NoIdentity
    /\ JoinsTrusted(mem[p], cas[Host])

StrayInv == \A p \in Procs : Stray(p)

\* The start of a rotation and a change of phase distrust no key.
LEMMA TrustLasts ==
    ASSUME NEW v \in CertAuthority, NEW c \in CertAuthority, Follows(v, c),
           OneKey(v), c.phase # "standby"
    PROVE  Trusted(v) \subseteq Trusted(c)
BY DEF Follows, OneKey, Trusted

\* A process that has kept up and has read a newer record is on its way from
\* the record before, in the middle of a rotation or at the start of one.
LEMMA StrayPosition ==
    ASSUME TrustInv, NEW p \in Procs, p \in kept,
           mem[p].pc \in {"reg", "wid", "wst"}
    PROVE  LET r == disk[p].state
               s == mem[p].remote
               c == cas[Host]
           IN  /\ Counts(r, c) => Counts(s, c)
               /\ Counts(s, c) /\ s.phase # "standby" => Counts(r, c)
               /\ s = r \/ NextRotation(r, s)
               /\ r.phase \in Phases /\ s.phase \in Phases
<1> DEFINE r == disk[p].state
           s == mem[p].remote
           c == cas[Host]
<1>1. /\ s \in {before, Now} /\ r \in {before, Now}
      /\ s = r \/ (r = before /\ s = Now /\ NextRotation(r, s))
  BY KeptPosition
<1>2. Now.phase = c.phase /\ r.phase \in Phases /\ before.phase \in Phases
      /\ Now.phase \in Phases
  BY KeptHasState
<1>3. QED
  BY <1>1, <1>2 DEF Counts, Now

\* A change of the authority.
LEMMA StrayAdvance ==
    ASSUME TrustInv, TrustInv', StrayInv, Follows(cas[Host], cas'[Host]),
           cas'[Host] \in CertAuthority, OneKey(cas'[Host]), before' = Now,
           kept' = {p \in kept : Synced(p) /\ mem[p].pc # "reload"},
           UNCHANGED <<view, strays, disk, mem>>
    PROVE  StrayInv'
<1> DEFINE v == cas[Host]
           c == cas'[Host]
<1>1. /\ Rank(before') < Rank(Now') /\ Rank(before) <= Rank(Now)
      /\ Rank(Now) \in Nat /\ Rank(before) \in Nat
      /\ \A r \in Rotations : Past(r) => Rank(r) <= Rank(Now)
  BY HistoryAdvances, Records
<1>2. Now' = Rotation(c) /\ Rank(Now') \in Nat
  BY RotationType, RankType DEF Now
<1>3. ASSUME NEW r \in Rotations, Past(r) PROVE r # Now'
  <2>1. Rank(r) \in Nat /\ Rank(r) <= Rank(Now)
    BY <1>1, <1>3, RankType
  <2>2. QED
    BY <1>1, <1>2, <2>1
<1>4. ASSUME NEW p \in Procs PROVE Stray(p)'
  <2>1. Stray(p) /\ IInv
    BY TrustBefore DEF StrayInv
  <2>2. ASSUME p \in kept', p \in strays PROVE StrayUp(mem[p], disk[p], c)
    <3> DEFINE m == mem[p]
               d == disk[p]
    <3>1. p \in kept /\ StrayUp(m, d, v)
      BY <2>1, <2>2 DEF Stray
    <3>2. d.state = Now
      <4>1. d.state \in {before, Now} /\ disk'[p].state \in {Now, Now'}
        BY <2>2, <3>1 DEF TrustInv, Following, KeepsUp
      <4>2. Now # Now' /\ before # Now'
        BY <1>1, <1>2
      <4>3. QED
        BY <4>1, <4>2
    <3>3. m.pc \in {"reg", "wid", "wst"} => m.remote = Now
      BY <3>1, <3>2, KeptPosition
    <3>4. CASE c.phase = "standby"
      <4>1. ~Counts(Now, c)
        BY <1>1, <1>2, <3>4 DEF Counts
      <4>2. QED
        BY <3>1, <3>2, <3>3, <4>1 DEF StrayUp
    <3>5. CASE c.phase # "standby"
      <4>1. Trusted(v) \subseteq Trusted(c)
        BY <3>5, Records, TrustLasts
      <4>2. Counts(Now, v)
        BY DEF Counts, Now
      <4>3. \A r : OnDisk(r, d, v) => OnDisk(r, d, c)
        BY <4>1 DEF OnDisk, Usable
      <4>4. QED
        BY <3>1, <3>2, <3>3, <4>1, <4>2, <4>3 DEF StrayUp
    <3>6. QED
      BY <3>4, <3>5
  <2>3. JoinsTrusted(mem[p], c)
    <3> SUFFICES ASSUME mem[p].pc \in {"wid", "wst"}, mem[p].remote = Now'
                 PROVE  FALSE
      BY <1>2 DEF JoinsTrusted
    <3>1. Past(mem[p].remote) /\ mem[p].remote \in Rotations
      BY <2>1, Before, TrustBefore DEF InOrder, Process
    <3>2. QED
      BY <1>3, <3>1
  <2>4. QED
    BY <2>1, <2>2, <2>3 DEF Stray
<1>5. QED
  BY <1>4 DEF StrayInv

\* Starting a rotation and entering a phase are such changes.
LEMMA RotationStray ==
    ASSUME TrustInv, StrayInv, StartRotation \/ EnterPhase
    PROVE  StrayInv'
<1>1. IInv /\ History /\ TrustInv'
  BY RotationTrust DEF TrustInv
<1>2. /\ Follows(cas[Host], cas'[Host]) /\ OneKey(cas'[Host])
      /\ cas'[Host] \in CertAuthority
  BY <1>1, StartFollows, EnterFollows
<1>3. /\ before' = Now
      /\ kept' = {p \in kept : Synced(p) /\ mem[p].pc # "reload"}
      /\ UNCHANGED <<view, strays, disk, mem>>
  BY DEF StartRotation, EnterPhase, NextChange, Now
<1>4. QED
  BY <1>1, <1>2, <1>3, StrayAdvance

-----------------------------------------------------------------------------
\* A step of one process leaves what is known of the others.
LEMMA OwnStray ==
    ASSUME StrayInv, NEW p \in Procs, UNCHANGED cas,
           \A q \in Procs \ {p} :
               /\ disk'[q] = disk[q] /\ mem'[q] = mem[q]
               /\ q \in kept' <=> q \in kept
               /\ q \in strays' <=> q \in strays,
           Stray(p)'
    PROVE  StrayInv'
<1>1. ASSUME NEW q \in Procs, q # p PROVE Stray(q)'
  <2>1. /\ disk'[q] = disk[q] /\ mem'[q] = mem[q] /\ Stray(q)
        /\ q \in kept' <=> q \in kept
        /\ q \in strays' <=> q \in strays
    BY <1>1 DEF StrayInv
  <2>2. QED
    BY <2>1 DEF Stray
<1>2. QED
  BY <1>1 DEF StrayInv

\* Where the disk is left alone it is enough to look at what the process is
\* up to.
LEMMA OwnMoveStray ==
    ASSUME TrustInv, StrayInv, NEW p \in Procs, NEW m,
           UNCHANGED <<cas, kept, strays, disk>>, Move(p, m),
           p \in kept /\ p \in strays => StrayUp(m, disk[p], cas[Host]),
           JoinsTrusted(m, cas[Host])
    PROVE  StrayInv'
<1>1. mem'[p] = m /\ \A q \in Procs \ {p} : mem'[q] = mem[q]
  BY Before DEF Move, TrustInv
<1>2. Stray(p)'
  BY <1>1 DEF StrayInv, Stray
<1>3. QED
  BY <1>1, <1>2, OwnStray

\* What the steps start from.
LEMMA StrayBefore ==
    ASSUME TrustInv, StrayInv, NEW p \in Procs
    PROVE  /\ IInv /\ Ready(p) /\ mem[p] \in Process /\ disk[p] \in Storage
           /\ p \in kept /\ p \in strays => StrayUp(mem[p], disk[p], cas[Host])
           /\ JoinsTrusted(mem[p], cas[Host])
           /\ disk[p].state = NoRotation => disk[p].replacement = NoIdentity
<1>1. IInv
  BY TrustBefore
<1>2. QED
  BY <1>1, Before DEF IInv, StrayInv, Stray

\* A process that starts uses identities of its record.
LEMMA ConnectStray ==
    ASSUME TrustInv, StrayInv, NEW p \in Procs, Connect(p)
    PROVE  StrayInv'
<1> DEFINE d == disk[p]
           m == [Down EXCEPT !.pc = "up", !.client = ClientIdentity(d),
                             !.server = ServerIdentity(d)]
           c == cas[Host]
<1>1. UNCHANGED <<cas, kept, strays, disk>> /\ Move(p, m)
  BY DEF Connect, Cluster
<1>2. /\ m.pc = "up" /\ m.client = ClientIdentity(d) /\ m.server = ServerIdentity(d)
      /\ m.client # NoIdentity /\ m.server # NoIdentity
  BY DEF Connect, Down
<1>3. ASSUME p \in kept, p \in strays PROVE StrayUp(m, d, c)
  <2>1. Counts(d.state, c) => OnDisk(d.state, d, c)
    BY <1>3, StrayBefore DEF StrayUp
  <2>2. Counts(d.state, c) => Usable(m.client, c) /\ Usable(m.server, c)
    BY <1>2, <2>1 DEF OnDisk, ClientIdentity, ServerIdentity, Swapped
  <2>3. QED
    BY <1>2, <2>1, <2>2 DEF StrayUp, Usable
<1>4. JoinsTrusted(m, c)
  BY <1>2 DEF JoinsTrusted
<1> HIDE DEF m
<1>5. QED
  BY <1>1, <1>3, <1>4, OwnMoveStray

\* A process that joins has not kept up with anything yet.
LEMMA JoinStray ==
    ASSUME TrustInv, StrayInv, NEW p \in Nodes, Join(p)
    PROVE  StrayInv'
<1> DEFINE m == [Down EXCEPT !.pc = "join", !.ident = Issue(view, disk[p].names)]
<1>1. p \in Procs /\ UNCHANGED <<cas, kept, strays, disk>> /\ Move(p, m)
  BY Bounds DEF Join, Cluster
<1>2. p \notin kept
  BY <1>1, KeptHasState DEF Join
<1>3. JoinsTrusted(m, cas[Host])
  BY DEF JoinsTrusted, Down
<1> HIDE DEF m
<1>4. QED
  BY <1>1, <1>2, <1>3, OwnMoveStray

\* It reads the record from an auth server that trusts its identity.
LEMMA JoinGetStray ==
    ASSUME TrustInv, StrayInv, NEW p \in Procs, JoinGet(p)
    PROVE  StrayInv'
<1> DEFINE m == [mem[p] EXCEPT !.pc = "wid", !.remote = Rotation(view)]
<1>1. UNCHANGED <<cas, kept, strays, disk>> /\ Move(p, m) /\ mem[p].pc = "join"
  BY DEF JoinGet, Cluster
<1>2. m.remote = Rotation(view) /\ m.ident = mem[p].ident
  BY StrayBefore DEF Process
<1>3. Joining(p)
  BY <1>1, StrayBefore DEF Ready, FollowerReady
<1>4. p \notin kept
  BY <1>1, <1>3, KeptHasState
<1>5. m.remote = Now => view = cas[Host]
  BY <1>2 DEF TrustInv, History
<1>6. m.ident.key \in Trusted(view)
  BY <1>2 DEF JoinGet, CanTalk
<1>7. JoinsTrusted(m, cas[Host])
  BY <1>5, <1>6 DEF JoinsTrusted, Now
<1> HIDE DEF m
<1>8. QED
  BY <1>1, <1>4, <1>7, OwnMoveStray

\* Reading the rotation changes no identity.
LEMMA SyncRegisterStray ==
    ASSUME TrustInv, StrayInv, NEW p \in Procs, SyncRegister(p)
    PROVE  StrayInv'
<1> DEFINE remote == Rotation(view)
           m == [mem[p] EXCEPT !.pc = "reg", !.remote = remote,
                               !.slot = RegisterSlot(remote)]
<1>1. UNCHANGED <<cas, kept, strays, disk>> /\ Move(p, m) /\ mem[p].pc = "up"
  BY DEF SyncRegister, Cluster
<1>2. /\ m.pc = "reg" /\ m.remote = remote /\ m.client = mem[p].client
      /\ m.server = mem[p].server
  BY StrayBefore DEF Process
<1>3. remote.phase # "init"
  BY Records DEF SyncRegister, MustRegister, WellFormedRotation
<1> HIDE DEF m
<1>4. p \in kept /\ p \in strays => StrayUp(m, disk[p], cas[Host])
  BY <1>1, <1>2, <1>3, StrayBefore DEF StrayUp
<1>5. JoinsTrusted(m, cas[Host])
  BY <1>2 DEF JoinsTrusted
<1>6. QED
  BY <1>1, <1>4, <1>5, OwnMoveStray

\* The current identity goes on to be the one the record asks for.
LEMMA SyncInitStray ==
    ASSUME TrustInv, StrayInv, NEW p \in Procs, SyncInit(p)
    PROVE  StrayInv'
<1> DEFINE m == [mem[p] EXCEPT !.pc = "wst", !.remote = Rotation(view)]
           d == disk[p]
           c == cas[Host]
<1>1. UNCHANGED <<cas, kept, strays, disk>> /\ Move(p, m) /\ mem[p].pc = "up"
  BY DEF SyncInit, Cluster
<1>2. /\ m.pc = "wst" /\ m.remote = Rotation(view) /\ m.client = mem[p].client
      /\ m.server = mem[p].server
  BY StrayBefore DEF Process
<1>3. d.state.phase = "standby" /\ Rotation(view).phase = "init"
  BY StrayBefore, Records, RotationType DEF SyncInit, Ready, WellFormedRotation
<1>4. ~Joining(p)
  BY <1>1, StrayBefore DEF Ready, JoinerReady
<1> HIDE DEF m
<1>5. ASSUME p \in kept, p \in strays PROVE StrayUp(m, d, c)
  <2>1. StrayUp(mem[p], d, c)
    BY <1>5, StrayBefore
  <2>2. c.phase = "init"
    <3>1. Rotation(view) # d.state
      BY <1>3
    <3>2. Rotation(view) = Now /\ Now.phase = c.phase
      BY <1>5, <3>1, KeptPosition, KeptHasState
    <3>3. QED
      BY <1>3, <3>2
  <2>3. Usable(d.current, c)
    BY <1>3, <2>1, <2>2 DEF StrayUp, Counts, OnDisk
  <2>4. OnDisk(m.remote, d, c)
    BY <1>2, <1>3, <2>3 DEF OnDisk, Swapped
  <2>5. QED
    BY <1>1, <1>2, <2>1, <2>4 DEF StrayUp
<1>6. JoinsTrusted(m, c)
  BY <1>2, <1>4 DEF JoinsTrusted, Joining
<1>7. QED
  BY <1>1, <1>5, <1>6, OwnMoveStray

\* The replacement that is installed is one the record before asked for.
LEMMA SyncInstallStray ==
    ASSUME TrustInv, StrayInv, NEW p \in Procs, SyncInstall(p)
    PROVE  StrayInv'
<1> DEFINE d == disk[p]
           m == [mem[p] EXCEPT !.pc = "wid", !.remote = Rotation(view),
                               !.slot = "current", !.ident = d.replacement]
           c == cas[Host]
<1>1. UNCHANGED <<cas, kept, strays, disk>> /\ Move(p, m) /\ mem[p].pc = "up"
  BY DEF SyncInstall, Cluster
<1>2. /\ m.pc = "wid" /\ m.remote = Rotation(view) /\ m.client = mem[p].client
      /\ m.server = mem[p].server /\ m.slot = "current" /\ m.ident = d.replacement
  BY StrayBefore DEF Process
<1>3. Rotation(view).phase = "update_servers" /\ d.replacement # NoIdentity
  BY Records, RotationType DEF SyncInstall
<1>4. ~Joining(p)
  BY <1>1, StrayBefore DEF Ready, JoinerReady
<1> HIDE DEF m
<1>5. ASSUME p \in kept, p \in strays PROVE StrayUp(m, d, c)
  <2>1. StrayUp(mem[p], d, c)
    BY <1>5, StrayBefore
  <2>2. /\ d.state \in {before, Now} /\ d.state.phase \in Swapped
        /\ Rotation(view) = d.state \/ Rotation(view) = Now
    <3>1. /\ d.state \in {before, Now}
          /\ before = Now \/ NextRotation(before, Now)
          /\ \/ Rotation(view) = Now
             \/ Rotation(view) = before /\ d.state = before
      BY <1>5, KeptPosition DEF TrustInv, History
    <3>2. QED
      BY <1>3, <3>1 DEF NextRotation, Swapped
  <2>3. ASSUME Counts(m.remote, c) PROVE m.ident.key \in Trusted(c)
    <3>1. Now.phase = c.phase
      BY <1>5, KeptHasState
    <3>2. c.phase # "standby"
      BY <1>2, <1>3, <2>3, <3>1 DEF Counts, Now
    <3>3. Usable(d.replacement, c)
      BY <2>1, <2>2, <3>2 DEF StrayUp, Counts, OnDisk
    <3>4. QED
      BY <1>2, <1>3, <3>3 DEF Usable
  <2>4. QED
    BY <1>1, <1>2, <1>3, <2>1, <2>3 DEF StrayUp, RegisterSlot
<1>6. JoinsTrusted(m, c)
  BY <1>2, <1>4 DEF JoinsTrusted, Joining
<1>7. QED
  BY <1>1, <1>5, <1>6, OwnMoveStray

\* The server has made sure that it means the rotation the process means.
LEMMA ReRegisterStray ==
    ASSUME TrustInv, StrayInv, NEW p \in Procs, ReRegister(p)
    PROVE  StrayInv'
<1> DEFINE d == disk[p]
           m == [mem[p] EXCEPT !.pc = "wid", !.ident = Issue(view, d.names)]
           c == cas[Host]
<1>1. UNCHANGED <<cas, kept, strays, disk>> /\ Move(p, m) /\ mem[p].pc = "reg"
  BY DEF ReRegister, Cluster
<1>2. /\ m.pc = "wid" /\ m.remote = mem[p].remote /\ m.client = mem[p].client
      /\ m.server = mem[p].server /\ m.slot = mem[p].slot
      /\ m.ident = Issue(view, d.names)
  BY StrayBefore DEF Process
<1>3. ~Joining(p)
  BY <1>1, StrayBefore DEF Ready, JoinerReady
<1>4. /\ m.slot = RegisterSlot(m.remote) /\ m.remote.state \in States
      /\ m.remote \in Rotations
  BY <1>1, <1>2, <1>3, StrayBefore DEF Ready, FollowerReady, MemReady, Process
<1> HIDE DEF m
<1>5. ASSUME p \in kept, p \in strays PROVE StrayUp(m, d, c)
  <2>1. StrayUp(mem[p], d, c)
    BY <1>5, StrayBefore
  <2>2. m.remote = Rotation(view)
    <3>1. p # Auth
      BY <1>5, StrayBefore, NodeAssumption DEF IInv, TypeOK
    <3>2. Matches(m.remote, Rotation(view))
      BY <1>2, <3>1 DEF ReRegister
    <3>3. Rotation(view).state \in States /\ Rotation(view) \in Rotations
      BY Records, RotationType
    <3>4. m.remote # NoRotation /\ Rotation(view) # NoRotation
      BY <1>4, <3>3, EmptyType
    <3>5. QED
      BY <1>4, <3>2, <3>3, <3>4 DEF Matches, Rotations
  <2>3. m.ident.key \in Trusted(view)
    BY <1>2, Records, Issued DEF WellFormedCA, Trusted
  <2>4. ASSUME Counts(m.remote, c) PROVE m.ident.key \in Trusted(c)
    <3>1. CASE view = c
      BY <2>3, <3>1
    <3>2. CASE view # c
      <4>1. Follows(view, c)
        BY <1>5, <3>2, KeptPosition
      <4>2. c.phase # "standby"
        BY <2>2, <2>4, <3>2 DEF Counts, Now, TrustInv, History
      <4>3. QED
        BY <2>3, <4>1, <4>2, Records, TrustLasts
    <3>3. QED
      BY <3>1, <3>2
  <2>5. QED
    BY <1>1, <1>2, <1>4, <2>1, <2>4 DEF StrayUp
<1>6. JoinsTrusted(m, c)
  BY <1>2, <1>3 DEF JoinsTrusted, Joining
<1>7. QED
  BY <1>1, <1>5, <1>6, OwnMoveStray

\* A refusal changes no identity.
LEMMA ReRegisterRefusedStray ==
    ASSUME TrustInv, StrayInv, NEW p \in Procs, ReRegisterRefused(p)
    PROVE  StrayInv'
<1> DEFINE m == [mem[p] EXCEPT !.pc = "up"]
<1>1. UNCHANGED <<cas, kept, strays, disk>> /\ Move(p, m) /\ mem[p].pc = "reg"
  BY DEF ReRegisterRefused, Cluster
<1>2. m.pc = "up" /\ m.client = mem[p].client /\ m.server = mem[p].server
  BY StrayBefore DEF Process
<1> HIDE DEF m
<1>3. p \in kept /\ p \in strays => StrayUp(m, disk[p], cas[Host])
  BY <1>1, <1>2, StrayBefore DEF StrayUp
<1>4. JoinsTrusted(m, cas[Host])
  BY <1>2 DEF JoinsTrusted
<1>5. QED
  BY <1>1, <1>3, <1>4, OwnMoveStray

\* What is written is trusted under the record before and under the next one.
LEMMA WriteIdentityStray ==
    ASSUME TrustInv, StrayInv, NEW p \in Procs, WriteIdentity(p)
    PROVE  StrayInv'
<1> DEFINE m == mem[p]
           next == IF m.remote.state = "standby" /\ disk[p].state.state = "standby"
                     THEN "reload" ELSE "wst"
           n == [m EXCEPT !.pc = next]
           d == disk[p]
           e == [d EXCEPT ![m.slot] = m.ident]
           r == d.state
           s == m.remote
           c == cas[Host]
<1>1. IInv /\ Ready(p) /\ m \in Process /\ d \in Storage /\ m.pc = "wid"
  BY StrayBefore DEF WriteIdentity
<1>2. UNCHANGED <<cas, kept, strays>>
  BY DEF WriteIdentity, Cluster
<1>3. /\ n.pc \in {"reload", "wst"} /\ n.client = m.client /\ n.server = m.server
      /\ n.remote = m.remote /\ n.ident = m.ident
  BY <1>1 DEF Process
<1>4. /\ mem'[p] = n /\ disk'[p] = e
      /\ \A q \in Procs \ {p} : mem'[q] = mem[q] /\ disk'[q] = disk[q]
  BY <1>1, Before DEF WriteIdentity, Move
<1>5. /\ e.state = d.state
      /\ m.slot = "current" => e.current = m.ident /\ e.replacement = d.replacement
      /\ m.slot = "replacement" => e.replacement = m.ident /\ e.current = d.current
  BY <1>1 DEF Storage, Process, Slots
<1> HIDE DEF n, e
<1>6. ASSUME p \in kept, p \in strays PROVE StrayUp(n, e, c)
  <2>1. /\ StrayUp(m, d, c) /\ s.phase # "init" /\ m.slot = RegisterSlot(s)
        /\ Counts(s, c) => m.ident.key \in Trusted(c)
    BY <1>1, <1>6, StrayBefore DEF StrayUp
  <2>2. /\ Counts(r, c) => Counts(s, c)
        /\ Counts(s, c) /\ s.phase # "standby" => Counts(r, c)
        /\ s = r \/ NextRotation(r, s)
        /\ r.phase \in Phases /\ s.phase \in Phases
    BY <1>1, <1>6, StrayPosition
  <2>3. Counts(r, c) => OnDisk(r, d, c)
    BY <2>1 DEF StrayUp
  <2>4. Counts(s, c) => Usable(m.ident, c)
    BY <2>1 DEF Usable
  <2>5. Counts(r, c) => OnDisk(r, e, c)
    <3>1. m.slot \in {"current", "replacement"}
      BY <2>1 DEF RegisterSlot
    <3>2. QED
      BY <1>5, <2>2, <2>3, <2>4, <3>1 DEF OnDisk
  <2>6. ASSUME Counts(s, c) PROVE OnDisk(s, e, c)
    <3>1. CASE s.phase \in {"standby", "rollback"}
      <4>1. e.current = m.ident
        BY <1>5, <2>1, <3>1 DEF RegisterSlot
      <4>2. QED
        BY <2>4, <2>6, <3>1, <4>1 DEF OnDisk, Swapped
    <3>2. CASE s.phase = "update_clients"
      <4>1. e.replacement = m.ident /\ e.current = d.current
        BY <1>5, <2>1, <3>2 DEF RegisterSlot
      <4>2. r.phase \in {"init", "update_clients"} /\ OnDisk(r, d, c)
        BY <2>2, <2>3, <2>6, <3>2 DEF NextRotation
      <4>3. QED
        BY <2>4, <2>6, <3>2, <4>1, <4>2 DEF OnDisk
    <3>3. CASE s.phase = "update_servers"
      <4>1. e.replacement = d.replacement
        BY <1>5, <2>1, <3>3 DEF RegisterSlot
      <4>2. r.phase \in Swapped /\ OnDisk(r, d, c)
        BY <2>2, <2>3, <2>6, <3>3 DEF NextRotation, Swapped
      <4>3. QED
        BY <3>3, <4>1, <4>2 DEF OnDisk
    <3>4. QED
      BY <2>1, <2>2, <3>1, <3>2, <3>3 DEF Phases
  <2>7. Counts(r, c) => {m.client.key, m.server.key} \subseteq Trusted(c)
    BY <1>1, <2>1 DEF StrayUp
  <2>8. QED
    BY <1>3, <1>5, <2>5, <2>6, <2>7 DEF StrayUp
<1>7. e.state = NoRotation => e.replacement = NoIdentity
  <2> SUFFICES ASSUME d.state = NoRotation PROVE e.replacement = NoIdentity
    BY <1>5
  <2>1. Joining(p)
    BY <1>1 DEF Ready, FollowerReady
  <2>2. m.slot = "current"
    BY <1>1, <2>1 DEF Ready, JoinerReady
  <2>3. QED
    BY <1>5, <2>2, StrayBefore
<1>8. JoinsTrusted(n, c)
  BY <1>1, <1>3, StrayBefore DEF JoinsTrusted
<1>9. Stray(p)'
  BY <1>2, <1>4, <1>6, <1>7, <1>8 DEF Stray
<1>10. QED
  BY <1>2, <1>4, <1>9, OwnStray

\* A process that joins has the identity it has been given, and nothing else,
\* and the cluster trusts it under the record it writes.
LEMMA WriteStateStray ==
    ASSUME TrustInv, StrayInv, NEW p \in Procs, WriteState(p)
    PROVE  StrayInv'
<1> DEFINE m == mem[p]
           joined == [Down EXCEPT !.pc = "up", !.client = m.ident, !.server = m.ident]
           n == CASE Joining(p) -> joined
                  [] ~Joining(p) /\ m.remote.phase = "init" -> [m EXCEPT !.pc = "up"]
                  [] OTHER -> [m EXCEPT !.pc = "reload"]
           d == disk[p]
           e == [d EXCEPT !.state = m.remote]
           c == cas[Host]
<1>1. IInv /\ Ready(p) /\ m \in Process /\ d \in Storage /\ m.pc = "wst"
  BY StrayBefore DEF WriteState
<1>2. UNCHANGED cas
  BY DEF WriteState
<1>3. /\ mem'[p] = n /\ disk'[p] = e
      /\ \A q \in Procs \ {p} : mem'[q] = mem[q] /\ disk'[q] = disk[q]
  BY <1>1, Before DEF WriteState, Move
<1>4. e.state = m.remote /\ e.current = d.current /\ e.replacement = d.replacement
  BY <1>1 DEF Storage
<1>5. /\ kept' = IF Joining(p) /\ Matches(m.remote, Now) /\ d.current = m.ident
                     THEN kept \cup {p} ELSE kept
      /\ strays' = IF Joining(p) /\ m.remote.state = "in_progress"
                     THEN strays \cup {p} ELSE strays
  BY DEF WriteState, Now
<1>6. \A q \in Procs \ {p} : /\ q \in kept' <=> q \in kept
                             /\ q \in strays' <=> q \in strays
  BY <1>5
<1>7. m.remote \in Rotations /\ m.remote.state \in States /\ m.remote # NoRotation
  BY <1>1, EmptyType DEF Process, Ready, MemReady
<1>8. n.pc \in {"up", "reload"}
  <2>1. joined.pc = "up"
    BY DEF Down
  <2>2. QED
    BY <1>1, <2>1 DEF Process
<1>9. ASSUME Joining(p), p \in kept' PROVE StrayUp(n, e, c)
  <2>1. p \notin kept
    BY <1>1, <1>9, KeptHasState
  <2>2. n.pc = "up" /\ n.client = m.ident /\ n.server = m.ident
    BY <1>9 DEF Down
  <2>3. Matches(m.remote, Now) /\ d.current = m.ident
    BY <1>5, <1>9, <2>1
  <2>4. m.remote = Now
    <3>1. Now # NoRotation
      BY Records, RotationType, EmptyType DEF Now
    <3>2. QED
      BY <1>7, <2>3, <3>1, Records DEF Matches, Rotations
  <2>5. m.ident.key \in Trusted(c)
    BY <1>1, <1>9, <2>4, StrayBefore DEF JoinsTrusted, Joining, Now
  <2>6. d.replacement = NoIdentity
    BY <1>1, <1>9, StrayBefore DEF Ready, JoinerReady
  <2> HIDE DEF n, e
  <2>7. OnDisk(e.state, e, c)
    BY <1>4, <2>3, <2>5, <2>6 DEF OnDisk, Usable
  <2>8. QED
    BY <2>2, <2>5, <2>7 DEF StrayUp
<1>10. ASSUME ~Joining(p), p \in kept', p \in strays' PROVE StrayUp(n, e, c)
  <2>1. p \in kept /\ p \in strays
    BY <1>5, <1>10
  <2>2. StrayUp(m, d, c)
    BY <2>1, StrayBefore
  <2>3. n.client = m.client /\ n.server = m.server
    BY <1>1, <1>10 DEF Process
  <2>4. n.pc = "up" => m.remote.phase = "init"
    BY <1>1, <1>10 DEF Process
  <2>5. Counts(m.remote, c) /\ m.remote.phase # "standby" => Counts(d.state, c)
    BY <1>1, <2>1, StrayPosition
  <2> HIDE DEF n, e
  <2>6. Counts(e.state, c) => OnDisk(e.state, e, c)
    BY <1>1, <1>4, <2>2 DEF StrayUp, OnDisk
  <2>7. n.pc = "up" /\ Counts(e.state, c) =>
            {n.client.key, n.server.key} \subseteq Trusted(c)
    BY <1>1, <1>4, <2>2, <2>3, <2>4, <2>5 DEF StrayUp
  <2>8. QED
    BY <1>8, <2>6, <2>7 DEF StrayUp
<1> HIDE DEF n, e
<1>11. Stray(p)'
  <2>1. JoinsTrusted(n, c)
    BY <1>8 DEF JoinsTrusted
  <2>2. QED
    BY <1>2, <1>3, <1>4, <1>7, <1>9, <1>10, <2>1 DEF Stray
<1>12. QED
  BY <1>2, <1>3, <1>6, <1>11, OwnStray

\* A call that fails leaves the process with the identities it had.
LEMMA CallFailsStray ==
    ASSUME TrustInv, StrayInv, NEW p \in Procs, CallFails(p)
    PROVE  StrayInv'
<1> DEFINE m == mem[p]
           n == CASE ~Joining(p) -> [m EXCEPT !.pc = "up"]
                  [] Joining(p) /\ m.pc = "wid" -> [m EXCEPT !.pc = "wst"]
                  [] OTHER -> Down
           c == cas[Host]
<1>1. /\ IInv /\ Ready(p) /\ m \in Process
      /\ m.pc \in {"reg", "wid", "wst", "join"}
  BY StrayBefore DEF CallFails
<1>2. UNCHANGED <<cas, kept, disk>>
  BY DEF CallFails
<1>3. mem'[p] = n /\ \A q \in Procs \ {p} : mem'[q] = mem[q]
  BY <1>1, Before DEF CallFails, Move
<1>4. strays' = IF Joining(p) /\ m.pc = "wid" THEN strays \cup {p} ELSE strays
  BY DEF CallFails
<1>5. \A q \in Procs \ {p} : q \in strays' <=> q \in strays
  BY <1>4
<1>6. CASE ~Joining(p)
  <2>1. /\ n.pc = "up" /\ n.client = m.client /\ n.server = m.server
        /\ m.pc # "join"
    BY <1>1, <1>6 DEF Process, Ready, FollowerReady
  <2> HIDE DEF n
  <2>2. p \in kept /\ p \in strays => StrayUp(n, disk[p], c)
    BY <1>1, <2>1, StrayBefore DEF StrayUp
  <2>3. JoinsTrusted(n, c)
    BY <2>1 DEF JoinsTrusted
  <2>4. Stray(p)'
    BY <1>2, <1>3, <1>4, <1>6, <2>2, <2>3, StrayBefore DEF Stray
  <2>5. QED
    BY <1>2, <1>3, <1>5, <2>4, OwnStray
<1>7. CASE Joining(p)
  <2>1. p \notin kept
    BY <1>1, <1>7, KeptHasState
  <2>2. JoinsTrusted(n, c)
    <3>1. CASE m.pc = "wid"
      <4>1. n.remote = m.remote /\ n.ident = m.ident /\ n.client = m.client
        BY <1>1, <1>7, <3>1 DEF Process
      <4> HIDE DEF n
      <4>2. QED
        BY <3>1, <4>1, StrayBefore DEF JoinsTrusted
    <3>2. CASE m.pc # "wid"
      <4>1. n.pc = "off"
        BY <1>7, <3>2 DEF Down
      <4>2. QED
        BY <4>1 DEF JoinsTrusted
    <3>3. QED
      BY <3>1, <3>2
  <2> HIDE DEF n
  <2>3. Stray(p)'
    BY <1>2, <1>3, <2>1, <2>2, StrayBefore DEF Stray
  <2>4. QED
    BY <1>2, <1>3, <1>5, <2>3, OwnStray
<1>8. QED
  BY <1>6, <1>7

\* What is on disk stays as it is.
LEMMA CrashStray ==
    ASSUME TrustInv, StrayInv, NEW p \in Procs, Crash(p)
    PROVE  StrayInv'
<1>1. UNCHANGED <<cas, kept, strays, disk>> /\ Move(p, Down) /\ Down.pc = "off"
  BY DEF Crash, Cluster, Down
<1>2. p \in kept /\ p \in strays => StrayUp(Down, disk[p], cas[Host])
  BY <1>1, StrayBefore DEF StrayUp
<1>3. JoinsTrusted(Down, cas[Host])
  BY <1>1 DEF JoinsTrusted
<1>4. QED
  BY <1>1, <1>2, <1>3, OwnMoveStray

\* Principals do not touch keys.
LEMMA ReconfigureStray ==
    ASSUME TrustInv, StrayInv, NEW p \in Procs, Reconfigure(p)
    PROVE  StrayInv'
<1> DEFINE d == disk[p]
           e == disk'[p]
<1>1. UNCHANGED <<cas, kept, strays, mem>> /\ mem[p].pc = "off"
  BY DEF Reconfigure, Cluster
<1>2. \A q \in Procs \ {p} : disk'[q] = disk[q]
  BY StrayBefore, Before DEF Reconfigure
<1>3. e.state = d.state /\ e.current = d.current /\ e.replacement = d.replacement
  BY StrayBefore, Before DEF Reconfigure, Storage
<1>4. p \in kept /\ p \in strays => StrayUp(mem[p], e, cas[Host])
  BY <1>1, <1>3, StrayBefore DEF StrayUp, OnDisk
<1>5. Stray(p)'
  BY <1>1, <1>3, <1>4, StrayBefore DEF Stray
<1>6. QED
  BY <1>1, <1>2, <1>5, OwnStray

-----------------------------------------------------------------------------
\* Nobody has joined yet.
LEMMA StrayInit == NodeInit => StrayInv
<1> SUFFICES ASSUME NodeInit, NEW p \in Procs PROVE Stray(p)
  BY DEF StrayInv
<1> DEFINE ca == StandbyCA({1}, 0)
           first == [state |-> Rotation(ca), current |-> Issue(ca, 0),
                     replacement |-> NoIdentity, names |-> 0]
           empty == [first EXCEPT !.state = NoRotation, !.current = NoIdentity]
           up == [Down EXCEPT !.pc = "up", !.client = Issue(ca, 0),
                              !.server = Issue(ca, 0)]
<1>1. /\ strays = {}
      /\ disk[p] = first \/ disk[p] = empty
      /\ mem[p] = up \/ mem[p] = Down
  BY DEF NodeInit
<1>2. /\ first.replacement = NoIdentity /\ empty.replacement = NoIdentity
      /\ up.pc = "up" /\ Down.pc = "off"
  BY DEF Down
<1> HIDE DEF first, empty, up
<1>3. QED
  BY <1>1, <1>2 DEF Stray, JoinsTrusted

\* Every step keeps the invariant.
LEMMA StrayStep ==
    TrustInv /\ TrustInv' /\ StrayInv /\ [NodeNext]_vars => StrayInv'
<1> SUFFICES ASSUME TrustInv, StrayInv, [NodeNext]_vars PROVE StrayInv'
  OBVIOUS
<1>1. ASSUME NEW p \in Procs, Step(p) PROVE StrayInv'
  BY <1>1, ConnectStray, JoinGetStray, SyncRegisterStray, SyncInitStray,
     SyncInstallStray, ReRegisterStray, ReRegisterRefusedStray, WriteIdentityStray,
     WriteStateStray
     DEF Step
<1>2. CASE CacheUpdate
  BY <1>2 DEF CacheUpdate, StrayInv, Stray
<1>3. CASE UNCHANGED vars
  BY <1>3 DEF vars, StrayInv, Stray
<1>4. QED
  BY <1>1, <1>2, <1>3, RotationStray, JoinStray, CallFailsStray, CrashStray,
     ReconfigureStray
     DEF NodeNext

\* The invariant holds.
LEMMA StrayHolds == NodeSpec => []StrayInv
BY StrayInit, StrayStep, TrustHolds, PTL DEF NodeSpec

\* No process is done with a rotation under which the identities it uses are
\* distrusted already, however far the rotation had gone when it joined.
THEOREM SyncedStayTrusted == NodeSpec => []SyncedTrusted
<1>1. TrustInv /\ StrayInv => SyncedTrusted
  <2> SUFFICES ASSUME TrustInv, StrayInv, NEW p \in kept, mem[p].pc = "up", Synced(p)
               PROVE  {mem[p].client.key, mem[p].server.key} \subseteq Trusted(cas[Host])
    BY DEF SyncedTrusted
  <2> DEFINE c == cas[Host]
             m == mem[p]
             d == disk[p]
  <2>1. p \in Procs
    BY DEF TrustInv, IInv, TypeOK
  <2>2. CASE p \notin strays
    <3>1. KeptUp(m, d, before, c)
      BY <2>1, <2>2, TrustBefore
    <3>2. StillUsed(m.client, m.server, before, c)
      BY <2>1, <3>1, StillUsable DEF KeptUp
    <3>3. Both(c) = Trusted(c) /\ Old(c) \subseteq Both(c)
      BY Records, BothTrusted
    <3>4. QED
      BY <3>2, <3>3 DEF StillUsed, Shown
  <2>3. CASE p \in strays
    <3>1. StrayUp(m, d, c) /\ d \in Storage
      BY <2>1, <2>3, StrayBefore
    <3>2. d.state = Now
      <4>1. Matches(d.state, Now)
        BY DEF Synced, Now
      <4>2. d.state # NoRotation /\ Now # NoRotation
        BY <2>1, KeptHasState, EmptyType
      <4>3. QED
        BY <3>1, <4>1, <4>2, Records DEF Matches, Rotations, Storage
    <3>3. Counts(d.state, c)
      BY <3>2 DEF Counts, Now
    <3>4. QED
      BY <3>1, <3>3 DEF StrayUp
  <2>4. QED
    BY <2>2, <2>3
<1>2. QED
  BY <1>1, TrustHolds, StrayHolds, PTL
=============================================================================
