-------------------------- MODULE CARotationProofs --------------------------
(***************************************************************************)
(* Proofs about CAPhases and CARotation.                                   *)
(*                                                                         *)
(* The auth servers implement the atomic state machine: a compare-and-swap *)
(* that succeeds writes what the request would have made of the authority  *)
(* as it is now.  The inductive invariant TaskInv says that what a task is *)
(* about to write is a legal successor of what it has read.  Properties of *)
(* the state machine are proved on the state machine.                      *)
(*                                                                         *)
(* What holds only of servers that share a key store is proved last, from  *)
(* SharedInv: every key is then local to every server, so that no key is   *)
(* added to a rotation besides the fresh one it starts with.               *)
(***************************************************************************)
EXTENDS CARotation, TLAPS

\* CAPhases, whatever the servers do ----------------------------------------

PhaseTypeOK ==
    /\ cas \in [CATypes -> CertAuthority]
    /\ origin \in [CATypes -> SUBSET Keys]

\* Every operation of rotate.go makes a well-formed authority.
LEMMA EnteredType ==
    ASSUME NEW ca \in CertAuthority, NEW target \in Phases \ {"init"},
           NEW mode \in Modes
    PROVE  Entered(ca, target, mode) \in CertAuthority
BY DEF Entered, updateClients, updateServers, startRollingBackRotation,
       completeRotation, Swap, CertAuthority, Phases, Modes, States

\* startNewRotation makes an authority of the right type.
LEMMA StartedType ==
    ASSUME NEW ca \in CertAuthority, NEW mode \in Modes, NEW forced \in BOOLEAN,
           NEW newKeys \in SUBSET Keys, NEW id \in IDs
    PROVE  startNewRotation(ca, mode, forced, newKeys, id) \in CertAuthority
BY DEF startNewRotation, CertAuthority, Phases, Modes, States

\* Adding a key of an auth server keeps the type of an authority.
LEMMA AddedType ==
    ASSUME NEW ca \in CertAuthority, NEW keys \in SUBSET Keys
    PROVE  AddKeys(ca, keys) \in CertAuthority
BY DEF AddKeys, CertAuthority

\* The state machine keeps its authorities well formed.
THEOREM PhaseTypeCorrect == PhaseSpec => []PhaseTypeOK
<1>1. PhaseInit => PhaseTypeOK
  <2> SUFFICES ASSUME PhaseInit PROVE PhaseTypeOK
    OBVIOUS
  <2>1. PICK keys \in [CATypes -> SUBSET Keys], id \in IDs :
          cas = [ty \in CATypes |-> StandbyCA(keys[ty], id)]
    BY DEF PhaseInit
  <2>2. ASSUME NEW ty \in CATypes PROVE StandbyCA(keys[ty], id) \in CertAuthority
    BY DEF StandbyCA, CertAuthority, Phases, Modes, States
  <2>3. ASSUME NEW ty \in CATypes PROVE cas[ty].active \in SUBSET Keys
    BY <2>1, <2>2 DEF CertAuthority
  <2>4. QED
    BY <2>1, <2>2, <2>3 DEF PhaseInit, PhaseTypeOK
<1>2. PhaseTypeOK /\ [PhaseNext]_caVars => PhaseTypeOK'
  <2> SUFFICES ASSUME PhaseTypeOK, [PhaseNext]_caVars PROVE PhaseTypeOK'
    OBVIOUS
  <2> USE DEF PhaseTypeOK
  <2>1. ASSUME NEW ty \in CATypes, Start(ty) PROVE PhaseTypeOK'
    <3>1. cas[ty].active \in SUBSET Keys
      BY DEF CertAuthority
    <3>2. origin' \in [CATypes -> SUBSET Keys]
      BY <2>1, <3>1 DEF Start
    <3>3. cas' \in [CATypes -> CertAuthority]
      <4>1. PICK mode \in Modes \ {""}, forced \in BOOLEAN,
                 newKeys \in SUBSET Keys, id \in IDs :
              cas' = [cas EXCEPT ![ty] =
                          startNewRotation(@, mode, forced, newKeys, id)]
        BY <2>1 DEF Start
      <4>2. startNewRotation(cas[ty], mode, forced, newKeys, id) \in CertAuthority
        BY StartedType
      <4>3. QED
        BY <4>1, <4>2
    <3>4. QED
      BY <3>2, <3>3
  <2>2. ASSUME NEW ty \in CATypes, Enter(ty) PROVE PhaseTypeOK'
    BY <2>2, EnteredType DEF Enter
  <2>3. ASSUME NEW ty \in CATypes, Add(ty) PROVE PhaseTypeOK'
    BY <2>3, AddedType DEF Add
  <2>4. CASE UNCHANGED caVars
    BY <2>4 DEF caVars
  <2>5. QED
    BY <2>1, <2>2, <2>3, <2>4 DEF PhaseNext
<1>3. QED
  BY <1>1, <1>2, PTL DEF PhaseSpec

\* The keys of before a rotation stay within reach of a rollback.
THEOREM OriginStays == PhaseSpec => []OriginRecoverable
<1>1. PhaseInit => OriginRecoverable
  <2> SUFFICES ASSUME PhaseInit, NEW ty \in CATypes
               PROVE  cas[ty].phase = "standby"
    BY DEF OriginRecoverable
  <2>1. PICK keys \in [CATypes -> SUBSET Keys], id \in IDs :
          cas = [tz \in CATypes |-> StandbyCA(keys[tz], id)]
    BY DEF PhaseInit
  <2>2. QED
    BY <2>1 DEF StandbyCA
<1>2. PhaseTypeOK /\ OriginRecoverable /\ [PhaseNext]_caVars
        => OriginRecoverable'
  <2> SUFFICES ASSUME PhaseTypeOK, OriginRecoverable, [PhaseNext]_caVars
               PROVE  OriginRecoverable'
    OBVIOUS
  <2> USE DEF PhaseTypeOK, OriginRecoverable, CertAuthority
  <2>1. ASSUME NEW ty \in CATypes, Start(ty) PROVE OriginRecoverable'
    <3>1. PICK mode \in Modes \ {""}, forced \in BOOLEAN,
               newKeys \in SUBSET Keys, id \in IDs :
            cas' = [cas EXCEPT ![ty] =
                        startNewRotation(@, mode, forced, newKeys, id)]
      BY <2>1 DEF Start
    <3>2. \/ cas'[ty].phase = "standby"
          \/ cas'[ty].phase = "init" /\ cas'[ty].active = cas[ty].active
      BY <3>1 DEF startNewRotation
    <3>3. \A tz \in CATypes \ {ty} : cas'[tz] = cas[tz] /\ origin'[tz] = origin[tz]
      BY <2>1, <3>1 DEF Start
    <3>4. origin'[ty] = cas[ty].active
      BY <2>1 DEF Start
    <3>5. QED
      BY <3>2, <3>3, <3>4
  <2>2. ASSUME NEW ty \in CATypes, Enter(ty) PROVE OriginRecoverable'
    <3>1. PICK target \in Phases \ {"init"}, mode \in Modes :
            /\ CanEnter(cas[ty], target)
            /\ cas' = [cas EXCEPT ![ty] = Entered(@, target, mode)]
      BY <2>2 DEF Enter
    <3>2. origin' = origin
      BY <2>2 DEF Enter
    <3>3. CASE target = "update_clients"
      BY <3>1, <3>2, <3>3 DEF CanEnter, Entered, updateClients, Swap
    <3>4. CASE target = "update_servers"
      BY <3>1, <3>2, <3>4 DEF CanEnter, Entered, updateServers
    <3>5. CASE target = "rollback"
      BY <3>1, <3>2, <3>5 DEF CanEnter, Entered, startRollingBackRotation, Swap
    <3>6. CASE target = "standby"
      BY <3>1, <3>2, <3>6 DEF CanEnter, Entered, completeRotation
    <3>7. QED
      BY <3>3, <3>4, <3>5, <3>6 DEF Phases
  <2>3. ASSUME NEW ty \in CATypes, Add(ty) PROVE OriginRecoverable'
    BY <2>3 DEF Add, AddKeys
  <2>4. CASE UNCHANGED caVars
    BY <2>4 DEF caVars
  <2>5. QED
    BY <2>1, <2>2, <2>3, <2>4 DEF PhaseNext
<1>3. QED
  BY <1>1, <1>2, PhaseTypeCorrect, PTL DEF PhaseSpec

\* No step takes trust from keys that were signing.
THEOREM SigningKeysStayTrusted == PhaseSpec => SigningKeysTrusted
<1>1. PhaseTypeOK /\ [PhaseNext]_caVars =>
        \A ty \in CATypes :
            \/ cas[ty].active \subseteq Trusted(cas'[ty])
            \/ cas'[ty].id # cas[ty].id /\ cas'[ty].state = "standby"
  <2> SUFFICES ASSUME PhaseTypeOK, [PhaseNext]_caVars, NEW ty \in CATypes
               PROVE  \/ cas[ty].active \subseteq Trusted(cas'[ty])
                      \/ cas'[ty].id # cas[ty].id /\ cas'[ty].state = "standby"
    OBVIOUS
  <2> USE DEF PhaseTypeOK, CertAuthority, Trusted
  <2>1. ASSUME NEW tz \in CATypes, Start(tz)
        PROVE  \/ cas[ty].active \subseteq Trusted(cas'[ty])
               \/ cas'[ty].id # cas[ty].id /\ cas'[ty].state = "standby"
    <3>1. PICK mode \in Modes \ {""}, forced \in BOOLEAN,
               newKeys \in SUBSET Keys, id \in IDs :
            /\ id # cas[tz].id
            /\ cas' = [cas EXCEPT ![tz] =
                          startNewRotation(@, mode, forced, newKeys, id)]
      BY <2>1 DEF Start
    <3>2. CASE ty = tz
      BY <3>1, <3>2 DEF startNewRotation
    <3>3. CASE ty # tz
      BY <3>1, <3>3
    <3>4. QED
      BY <3>2, <3>3
  <2>2. ASSUME NEW tz \in CATypes, Enter(tz)
        PROVE  cas[ty].active \subseteq Trusted(cas'[ty])
    <3>1. PICK target \in Phases \ {"init"}, mode \in Modes :
            cas' = [cas EXCEPT ![tz] = Entered(@, target, mode)]
      BY <2>2 DEF Enter
    <3>2. cas[tz].active \subseteq Trusted(Entered(cas[tz], target, mode))
      BY DEF Entered, updateClients, updateServers, startRollingBackRotation,
             completeRotation, Swap, Phases
    <3>3. QED
      BY <3>1, <3>2
  <2>3. ASSUME NEW tz \in CATypes, Add(tz)
        PROVE  cas[ty].active \subseteq Trusted(cas'[ty])
    BY <2>3 DEF Add, AddKeys
  <2>4. CASE UNCHANGED caVars
    BY <2>4 DEF caVars
  <2>5. QED
    BY <2>1, <2>2, <2>3, <2>4 DEF PhaseNext
<1>2. QED
  BY <1>1, PhaseTypeCorrect, PTL DEF PhaseSpec, SigningKeysTrusted

-----------------------------------------------------------------------------
\* CARotation: what a task writes is a legal successor of what it has read.

LegalStart(old, new) ==
    /\ CanEnter(old, "init")
    /\ \E mode \in Modes \ {""}, forced \in BOOLEAN,
          newKeys \in SUBSET Keys, id \in IDs :
         /\ newKeys # {} /\ old.additional \subseteq newKeys
         /\ id # old.id
         /\ new = startNewRotation(old, mode, forced, newKeys, id)

LegalEnter(old, new) ==
    \E target \in Phases \ {"init"}, mode \in Modes :
        CanEnter(old, target) /\ new = Entered(old, target, mode)

LegalAdd(old, new) == \E k \in Keys : new = AddKeys(old, {k})

Legal(old, new) ==
    LegalStart(old, new) \/ LegalEnter(old, new) \/ LegalAdd(old, new)

TaskOK(k, n) ==
    /\ k.pc # "idle" => Len(k.todo) > 0
    /\ k.pc \in {"cas", "addcas"} => Legal(k.old, k.new)
    /\ k.pc \in {"addcas", "addget"} => \E key \in Keys : k.key = {key}
    /\ k.kind = "request" => k.mode # ""
    /\ k.new.id <= n

RInv ==
    /\ TypeOK
    /\ \A ty \in CATypes : cas[ty].id <= rotations
    /\ \A t \in Tasks : TaskOK(task[t], rotations)

\* A phase change keeps the identity of the rotation.
LEMMA EnteredId ==
    ASSUME NEW ca \in CertAuthority, NEW target \in Phases \ {"init"},
           NEW mode \in Modes
    PROVE  Entered(ca, target, mode).id = ca.id
BY DEF Entered, updateClients, updateServers, startRollingBackRotation,
       completeRotation, Swap, CertAuthority, Phases

\* Adding a key leaves the rotation as it was.
LEMMA AddedId ==
    ASSUME NEW ca \in CertAuthority, NEW keys \in SUBSET Keys
    PROVE  AddKeys(ca, keys).id = ca.id
BY DEF AddKeys, CertAuthority

\* A write of a legal successor is a step of the state machine.
LEMMA LegalWrite ==
    ASSUME NEW ty \in CATypes, NEW new, PhaseTypeOK,
           Legal(cas[ty], new),
           cas' = [cas EXCEPT ![ty] = new],
           origin' = IF new.id # cas[ty].id
                       THEN [origin EXCEPT ![ty] = cas[ty].active] ELSE origin
    PROVE  PhaseNext
<1> USE DEF PhaseTypeOK
<1>1. CASE LegalStart(cas[ty], new)
  <2>1. PICK mode \in Modes \ {""}, forced \in BOOLEAN,
             newKeys \in SUBSET Keys, id \in IDs :
          /\ newKeys # {} /\ cas[ty].additional \subseteq newKeys
          /\ id # cas[ty].id
          /\ new = startNewRotation(cas[ty], mode, forced, newKeys, id)
    BY <1>1 DEF LegalStart
  <2>2. new.id # cas[ty].id
    <3>1. cas[ty] \in CertAuthority /\ mode \in Modes
      OBVIOUS
    <3>2. startNewRotation(cas[ty], mode, forced, newKeys, id).id = id
      BY <3>1 DEF startNewRotation, CertAuthority
    <3>3. QED
      BY <2>1, <3>2
  <2>3. cas' = [cas EXCEPT ![ty] =
                    startNewRotation(@, mode, forced, newKeys, id)]
    BY <2>1
  <2>4. Start(ty)
    <3>1. \E m \in Modes \ {""}, f \in BOOLEAN, n \in SUBSET Keys, i \in IDs :
            /\ n # {} /\ cas[ty].additional \subseteq n
            /\ i # cas[ty].id
            /\ cas' = [cas EXCEPT ![ty] = startNewRotation(@, m, f, n, i)]
      BY <2>1, <2>3
    <3>2. CanEnter(cas[ty], "init")
      BY <1>1 DEF LegalStart
    <3>3. QED
      BY <2>2, <3>1, <3>2 DEF Start
  <2>5. QED
    BY <2>4 DEF PhaseNext
<1>2. CASE LegalEnter(cas[ty], new)
  <2>1. PICK target \in Phases \ {"init"}, mode \in Modes :
          CanEnter(cas[ty], target) /\ new = Entered(cas[ty], target, mode)
    BY <1>2 DEF LegalEnter
  <2>2. new.id = cas[ty].id
    BY <2>1, EnteredId
  <2>3. Enter(ty)
    BY <2>1, <2>2 DEF Enter
  <2>4. QED
    BY <2>3 DEF PhaseNext
<1>3. CASE LegalAdd(cas[ty], new)
  <2>1. PICK k \in Keys : new = AddKeys(cas[ty], {k})
    BY <1>3 DEF LegalAdd
  <2>2. new.id = cas[ty].id
    BY <2>1, AddedId
  <2>3. Add(ty)
    BY <2>1, <2>2 DEF Add
  <2>4. QED
    BY <2>3 DEF PhaseNext
<1>4. QED
  BY <1>1, <1>2, <1>3 DEF Legal

\* The authority that a legal request leads to has the right type.
LEMMA LegalType ==
    ASSUME NEW old \in CertAuthority, NEW new, Legal(old, new)
    PROVE  new \in CertAuthority
<1>1. CASE LegalStart(old, new)
  <2>1. PICK mode \in Modes \ {""}, forced \in BOOLEAN,
             newKeys \in SUBSET Keys, id \in IDs :
          new = startNewRotation(old, mode, forced, newKeys, id)
    BY <1>1 DEF LegalStart
  <2>2. QED
    BY <2>1, StartedType
<1>2. CASE LegalEnter(old, new)
  BY <1>2, EnteredType DEF LegalEnter
<1>3. CASE LegalAdd(old, new)
  BY <1>3, AddedType DEF LegalAdd
<1>4. QED
  BY <1>1, <1>2, <1>3 DEF Legal

\* The records the actions store in task.
LEMMA NoCAType == NoCA \in CertAuthority /\ NoCA.id = 0
BY RotationAssumption DEF NoCA, StandbyCA, CertAuthority, Phases, Modes, States

\* An idle task is well formed in every state.
LEMMA IdleOK == Idle \in Task /\ (\A n \in Nat : TaskOK(Idle, n))
<1>1. Idle \in Task
  BY NoCAType DEF Idle, Task, Phases, Modes
<1>2. Idle.pc = "idle" /\ Idle.kind = "none" /\ Idle.new.id = 0
  BY NoCAType DEF Idle
<1>3. QED
  BY <1>1, <1>2 DEF TaskOK

\* The task that goes on to the next type of authority is well formed.
LEMMA NextTypeOK ==
    ASSUME NEW k \in Task, NEW n \in Nat, TaskOK(k, n), k.pc # "idle",
           Len(k.todo) # 1
    PROVE  LET r == [k EXCEPT !.pc = "get", !.todo = Tail(k.todo),
                              !.old = NoCA, !.new = NoCA, !.key = {}]
           IN  r \in Task /\ TaskOK(r, n)
<1> DEFINE r == [k EXCEPT !.pc = "get", !.todo = Tail(k.todo),
                          !.old = NoCA, !.new = NoCA, !.key = {}]
<1>1. k.todo \in Seq(CATypes) /\ Len(k.todo) > 0
  BY DEF Task, TaskOK
<1>2. Tail(k.todo) \in Seq(CATypes) /\ Len(Tail(k.todo)) = Len(k.todo) - 1
  BY <1>1
<1>3. Len(Tail(k.todo)) > 0
  <2> DEFINE m == Len(k.todo)
             l == Len(Tail(k.todo))
  <2>1. m \in Nat /\ m > 0 /\ m # 1 /\ l = m - 1
    BY <1>1, <1>2
  <2> HIDE DEF m, l
  <2>2. l > 0
    BY <2>1
  <2>3. QED
    BY <2>2 DEF l
<1>4. r \in Task
  BY <1>2, NoCAType DEF Task
<1>5. /\ r.pc = "get" /\ r.todo = Tail(k.todo) /\ r.new = NoCA
      /\ r.kind = k.kind /\ r.mode = k.mode
  BY DEF Task
<1>6. TaskOK(r, n)
  <2>1. r.new.id <= n
    BY <1>5, NoCAType
  <2>2. r.kind = "request" => r.mode # ""
    BY <1>5 DEF TaskOK
  <2> HIDE DEF r
  <2>3. QED
    BY <1>3, <1>5, <2>1, <2>2 DEF TaskOK
<1>7. QED
  BY <1>4, <1>6

\* A task that is about to write a legal successor is well formed.
LEMMA PendingOK ==
    ASSUME NEW k \in Task, NEW n \in Nat, TaskOK(k, n), k.pc # "idle",
           NEW old \in CertAuthority, NEW new \in CertAuthority,
           Legal(old, new), new.id <= n
    PROVE  LET r == [k EXCEPT !.pc = "cas", !.old = old, !.new = new]
           IN  r \in Task /\ TaskOK(r, n)
BY DEF Task, TaskOK

\* A task that adds a key to an authority is well formed.
LEMMA AddingOK ==
    ASSUME NEW k \in Task, NEW n \in Nat, TaskOK(k, n), k.pc # "idle",
           NEW old \in CertAuthority, NEW key \in Keys, old.id <= n
    PROVE  LET r == [k EXCEPT !.pc = "addcas", !.old = old,
                              !.new = AddKeys(old, {key}), !.key = {key}]
           IN  r \in Task /\ TaskOK(r, n)
<1>1. AddKeys(old, {key}) \in CertAuthority /\ AddKeys(old, {key}).id = old.id
  BY AddedType, AddedId
<1>2. Legal(old, AddKeys(old, {key}))
  BY DEF Legal, LegalAdd
<1>3. QED
  BY <1>1, <1>2 DEF Task, TaskOK

\* A task that is well formed stays so while rotations are counted.
LEMMA TaskOKLater ==
    ASSUME NEW k \in Task, NEW n \in Nat, NEW m \in Nat, n <= m, TaskOK(k, n)
    PROVE  TaskOK(k, m)
<1>1. k.new.id \in Nat
  BY RotationAssumption DEF Task, CertAuthority
<1>2. k.new.id <= n
  BY DEF TaskOK
<1>3. k.new.id <= m
  BY <1>1, <1>2
<1>4. QED
  BY <1>3 DEF TaskOK

\* What every step does to task: one task moves to a good record.
LEMMA SetOK ==
    ASSUME RInv, NEW t \in Tasks, NEW r \in Task,
           rotations' \in 0..MaxRotations, rotations <= rotations',
           TaskOK(r, rotations'), task' = [task EXCEPT ![t] = r]
    PROVE  /\ task' \in [Tasks -> Task]
           /\ \A u \in Tasks : TaskOK(task'[u], rotations')
<1>1. ASSUME NEW u \in Tasks, u # t PROVE TaskOK(task'[u], rotations')
  <2>1. task'[u] = task[u] /\ task[u] \in Task /\ TaskOK(task[u], rotations)
    BY <1>1 DEF RInv, TypeOK
  <2>2. rotations \in Nat /\ rotations' \in Nat
    BY RotationAssumption DEF RInv, TypeOK
  <2>3. QED
    BY <2>1, <2>2, TaskOKLater
<1>2. TaskOK(task'[t], rotations')
  BY DEF RInv, TypeOK
<1>3. task' \in [Tasks -> Task]
  BY DEF RInv, TypeOK
<1>4. QED
  BY <1>1, <1>2, <1>3

\* The next unused key is a key.
LEMMA NextKeyOK ==
    ASSUME RInv, NEW t \in Tasks, CanMakeKey(t)
    PROVE  /\ NextKey(t) \in Keys
           /\ MakeKey(t) => made' \in [Stores -> 0..MaxKeys]
<1>1. StoreOf[t] \in Stores /\ made \in [Stores -> 0..MaxKeys]
  BY RotationAssumption DEF RInv, TypeOK
<1>2. made[StoreOf[t]] + 1 \in 1..MaxKeys
  BY <1>1, RotationAssumption DEF CanMakeKey
<1>3. Keys = Stores \X (1..MaxKeys) /\ MaxKeys \in Nat
  BY RotationAssumption
<1>4. NextKey(t) \in Keys
  BY <1>1, <1>2, <1>3 DEF NextKey
<1>5. MakeKey(t) => made' \in [Stores -> 0..MaxKeys]
  BY <1>1, <1>2, <1>3 DEF MakeKey
<1>6. QED
  BY <1>4, <1>5

\* The stored authority has the right type.
LEMMA CurrentType ==
    ASSUME RInv, NEW t \in Tasks, task[t].pc # "idle"
    PROVE  Current(t) \in CATypes
<1>1. task[t].todo \in Seq(CATypes) /\ Len(task[t].todo) > 0
  BY DEF RInv, TypeOK, Task, TaskOK
<1>2. QED
  BY <1>1 DEF Current

\* The rotation of a stored authority has been counted.
LEMMA IdOK ==
    ASSUME RInv, NEW ty \in CATypes
    PROVE  cas[ty] \in CertAuthority /\ cas[ty].id \in Nat /\ cas[ty].id <= rotations
BY RotationAssumption DEF RInv, TypeOK, CertAuthority

TasksOK == task' \in [Tasks -> Task] /\ \A u \in Tasks : TaskOK(task'[u], rotations')

\* The number of rotations is a bounded natural number.
LEMMA RotationsNat == RInv => rotations \in Nat /\ rotations \in 0..MaxRotations
BY RotationAssumption DEF RInv, TypeOK

\* A step that replaces one task by a well-formed one keeps all well formed.
LEMMA SetStep ==
    ASSUME RInv, NEW t \in Tasks, NEW r \in Task, TaskOK(r, rotations),
           Set(t, r), rotations' = rotations
    PROVE  TasksOK
<1>1. rotations' \in 0..MaxRotations /\ rotations <= rotations'
  BY RotationsNat
<1>2. TaskOK(r, rotations')
  OBVIOUS
<1>3. task' = [task EXCEPT ![t] = r]
  BY DEF Set
<1>4. QED
  BY <1>1, <1>2, <1>3, SetOK DEF TasksOK

\* A task that goes idle.
LEMMA IdleStep ==
    ASSUME RInv, NEW t \in Tasks, Set(t, Idle), rotations' = rotations
    PROVE  TasksOK
<1>1. Idle \in Task /\ TaskOK(Idle, rotations)
  BY IdleOK, RotationsNat
<1>2. QED
  BY <1>1, SetStep

\* A task that turns to its next type.
LEMMA NextTypeStep ==
    ASSUME RInv, NEW t \in Tasks, task[t].pc # "idle", NextType(t),
           rotations' = rotations
    PROVE  TasksOK
<1>1. CASE Len(task[t].todo) = 1
  <2>1. Set(t, Idle)
    BY <1>1 DEF NextType
  <2>2. QED
    BY <2>1, IdleStep
<1>2. CASE Len(task[t].todo) # 1
  <2> DEFINE r == [task[t] EXCEPT !.pc = "get", !.todo = Tail(task[t].todo),
                                  !.old = NoCA, !.new = NoCA, !.key = {}]
  <2>1. Set(t, r)
    BY <1>2 DEF NextType
  <2>2. task[t] \in Task /\ TaskOK(task[t], rotations)
    BY DEF RInv, TypeOK
  <2>3. r \in Task /\ TaskOK(r, rotations)
    BY <1>2, <2>2, NextTypeOK, RotationsNat
  <2> HIDE DEF r
  <2>4. QED
    BY <2>1, <2>3, SetStep
<1>3. QED
  BY <1>1, <1>2

\* A task about to add a key of its own.
LEMMA AddingStep ==
    ASSUME RInv, NEW t \in Tasks, NEW k \in Task, TaskOK(k, rotations),
           k.pc # "idle", NEW ca \in CertAuthority, ca.id <= rotations,
           NEW key \in Keys,
           Set(t, [k EXCEPT !.pc = "addcas", !.old = ca,
                            !.new = AddKeys(ca, {key}), !.key = {key}]),
           rotations' = rotations
    PROVE  TasksOK
<1> DEFINE r == [k EXCEPT !.pc = "addcas", !.old = ca,
                          !.new = AddKeys(ca, {key}), !.key = {key}]
<1>1. r \in Task /\ TaskOK(r, rotations)
  BY AddingOK, RotationsNat
<1>2. Set(t, r)
  OBVIOUS
<1> HIDE DEF r
<1>3. QED
  BY <1>1, <1>2, SetStep

\* ensureLocalAdditionalKeys keeps the invariant.
LEMMA EnsureLocalStep ==
    ASSUME RInv, NEW t \in Tasks, task[t].pc # "idle",
           NEW ca \in CertAuthority, ca.id <= rotations,
           EnsureLocal(t, ca), rotations' = rotations
    PROVE  TasksOK /\ made' \in [Stores -> 0..MaxKeys]
<1>1. CASE HasLocalKeys(t, ca.additional)
  <2>1. NextType(t) /\ made' = made
    BY <1>1 DEF EnsureLocal
  <2>2. QED
    BY <2>1, NextTypeStep DEF RInv, TypeOK
<1>2. CASE ~HasLocalKeys(t, ca.additional)
  <2>1. /\ CanMakeKey(t) /\ MakeKey(t)
        /\ Set(t, [task[t] EXCEPT !.pc = "addcas", !.old = ca,
                                  !.new = AddKeys(ca, {NextKey(t)}),
                                  !.key = {NextKey(t)}])
    BY <1>2 DEF EnsureLocal
  <2>2. task[t] \in Task /\ TaskOK(task[t], rotations)
    BY DEF RInv, TypeOK
  <2>3. QED
    BY <2>1, <2>2, NextKeyOK, AddingStep
<1>3. QED
  BY <1>1, <1>2

\* A compare-and-swap that succeeds is a step of the state machine.
LEMMA WriteOK ==
    ASSUME RInv, NEW t \in Tasks, task[t].pc \in {"cas", "addcas"}, Write(t)
    PROVE  /\ PhaseNext
           /\ PhaseTypeOK'
           /\ \A ty \in CATypes : cas'[ty].id <= rotations
<1> DEFINE c == Current(t)
           new == task[t].new
<1>1. c \in CATypes
  BY CurrentType
<1>2. /\ cas[c] = task[t].old
      /\ cas' = [cas EXCEPT ![c] = new]
      /\ origin' = IF new.id # cas[c].id
                     THEN [origin EXCEPT ![c] = cas[c].active] ELSE origin
  BY DEF Write
<1>3. Legal(cas[c], new) /\ new.id <= rotations
  BY <1>2 DEF RInv, TaskOK
<1>4. PhaseTypeOK
  BY DEF RInv, TypeOK, PhaseTypeOK
<1>5. PhaseNext
  BY <1>1, <1>2, <1>3, <1>4, LegalWrite
<1>6. cas[c] \in CertAuthority /\ cas[c].active \in SUBSET Keys
  BY <1>1, <1>4 DEF PhaseTypeOK, CertAuthority
<1>7. new \in CertAuthority
  BY <1>3, <1>6, LegalType
<1>8. PhaseTypeOK'
  BY <1>1, <1>2, <1>4, <1>6, <1>7 DEF PhaseTypeOK
<1>9. ASSUME NEW ty \in CATypes PROVE cas'[ty].id <= rotations
  BY <1>1, <1>2, <1>3, <1>4 DEF PhaseTypeOK, RInv
<1>10. QED
  BY <1>5, <1>8, <1>9

\* A step keeps the invariant and is a step of the state machine, or none.
StepOK == RInv' /\ [PhaseNext]_caVars

\* A step that writes no authority keeps the invariant.
LEMMA QuietStep ==
    ASSUME RInv, UNCHANGED <<cas, origin>>, TasksOK,
           made' \in [Stores -> 0..MaxKeys],
           rotations' \in 0..MaxRotations, rotations <= rotations',
           requests' \in 0..MaxRequests
    PROVE  StepOK
<1>1. ASSUME NEW ty \in CATypes PROVE cas'[ty].id <= rotations'
  BY IdOK, RotationsNat, RotationAssumption
<1>2. TypeOK'
  BY DEF RInv, TypeOK, TasksOK
<1>3. QED
  BY <1>1, <1>2 DEF StepOK, RInv, TasksOK, caVars

\* A compare-and-swap of an authority keeps the invariant.
LEMMA WriteStep ==
    ASSUME RInv, NEW t \in Tasks, task[t].pc \in {"cas", "addcas"}, Write(t),
           TasksOK, made' \in [Stores -> 0..MaxKeys],
           UNCHANGED <<rotations, requests>>
    PROVE  StepOK
<1>1. PhaseNext /\ PhaseTypeOK' /\ \A ty \in CATypes : cas'[ty].id <= rotations'
  BY WriteOK
<1>2. TypeOK'
  BY <1>1 DEF RInv, TypeOK, TasksOK, PhaseTypeOK
<1>3. QED
  BY <1>1, <1>2 DEF StepOK, RInv, TasksOK

\* The list of types to rotate is a sequence of types.
LEMMA OneTypeSeq ==
    ASSUME NEW ty \in CATypes PROVE <<ty>> \in Seq(CATypes) /\ Len(<<ty>>) > 0
OBVIOUS

\* RotateCertAuthority keeps the invariant.
LEMMA RequestStep == ASSUME RInv, NEW t \in Tasks, Request(t) PROVE StepOK
<1>1. PICK target \in Phases, mode \in RequestModes, forced \in BOOLEAN,
           todo \in {TypeOrder} \cup {<<ty>> : ty \in CATypes} :
        Set(t, [Idle EXCEPT !.pc = "get", !.kind = "request",
                            !.todo = todo, !.target = target,
                            !.mode = mode, !.forced = forced])
  BY DEF Request
<1> DEFINE r == [Idle EXCEPT !.pc = "get", !.kind = "request", !.todo = todo,
                             !.target = target, !.mode = mode, !.forced = forced]
<1>2. todo \in Seq(CATypes) /\ Len(todo) > 0
  <2>1. ASSUME NEW ty \in CATypes PROVE <<ty>> \in Seq(CATypes) /\ Len(<<ty>>) > 0
    BY OneTypeSeq
  <2>2. TypeOrder \in Seq(CATypes) /\ Len(TypeOrder) > 0
    BY RotationAssumption
  <2>3. QED
    BY <2>1, <2>2
<1>3. mode \in Modes /\ mode # ""
  BY RotationAssumption DEF Modes
<1>4. r \in Task
  BY <1>2, <1>3, IdleOK DEF Task
<1>5. r.pc = "get" /\ r.todo = todo /\ r.mode = mode /\ r.new.id = 0
  BY NoCAType DEF Idle
<1>6. TaskOK(r, rotations)
  <2>1. r.new.id <= rotations
    BY <1>5, RotationsNat
  <2> HIDE DEF r
  <2>2. QED
    BY <1>2, <1>3, <1>5, <2>1 DEF TaskOK
<1>7. TasksOK
  <2>1. Set(t, r) /\ rotations' = rotations
    BY <1>1 DEF Request
  <2> HIDE DEF r
  <2>2. QED
    BY <1>4, <1>6, <2>1, SetStep
<1>8. requests' \in 0..MaxRequests
  BY RotationAssumption DEF Request, RInv, TypeOK
<1>9. QED
  BY <1>7, <1>8, QuietStep, RotationsNat DEF Request, RInv, TypeOK

\* autoRotateCertAuthorities keeps the invariant.
LEMMA TickerStep == ASSUME RInv, NEW t \in Tasks, Ticker(t) PROVE StepOK
<1> DEFINE r == [Idle EXCEPT !.pc = "get", !.kind = "ticker", !.todo = TypeOrder]
<1>1. r \in Task
  BY IdleOK, RotationAssumption DEF Task
<1>2. /\ r.pc = "get" /\ r.kind = "ticker" /\ r.todo = TypeOrder
      /\ r.new.id = 0
  BY NoCAType DEF Idle
<1>3. TaskOK(r, rotations)
  BY <1>2, RotationsNat, RotationAssumption DEF TaskOK
<1>4. TasksOK
  <2>1. Set(t, r) /\ rotations' = rotations
    BY DEF Ticker, counters
  <2> HIDE DEF r
  <2>2. QED
    BY <1>1, <1>3, <2>1, SetStep
<1>5. QED
  BY <1>4, QuietStep, RotationsNat DEF Ticker, counters, RInv, TypeOK

\* The start of an auth server keeps the invariant.
LEMMA StartServerStep == ASSUME RInv, NEW t \in Tasks, StartServer(t) PROVE StepOK
<1> DEFINE k == [Idle EXCEPT !.kind = "start", !.todo = <<HostCA>>, !.pc = "get"]
           ca == cas[HostCA]
<1>1. HostCA \in CATypes
  BY RotationAssumption
<1>2. k \in Task
  <2>1. <<HostCA>> \in Seq(CATypes)
    BY <1>1, OneTypeSeq
  <2>2. QED
    BY <2>1, IdleOK DEF Task
<1>3. k.pc = "get" /\ k.kind = "start" /\ k.todo = <<HostCA>> /\ k.new.id = 0
  BY NoCAType DEF Idle
<1>4. TaskOK(k, rotations)
  BY <1>3, RotationsNat DEF TaskOK
<1>5. ca \in CertAuthority /\ ca.id <= rotations
  BY <1>1, IdOK
<1>6. CanMakeKey(t) /\ MakeKey(t) /\ rotations' = rotations
  BY DEF StartServer
<1>7. NextKey(t) \in Keys /\ made' \in [Stores -> 0..MaxKeys]
  BY <1>6, NextKeyOK
<1>8. Set(t, [k EXCEPT !.pc = "addcas", !.old = ca,
                       !.new = AddKeys(ca, {NextKey(t)}),
                       !.key = {NextKey(t)}])
  BY DEF StartServer, Idle
<1>9. TasksOK
  <2> HIDE DEF k, ca
  <2>1. QED
    BY <1>2, <1>3, <1>4, <1>5, <1>6, <1>7, <1>8, AddingStep
<1>10. QED
  BY <1>7, <1>9, QuietStep, RotationsNat DEF StartServer, RInv, TypeOK

\* A request that returns an error keeps the invariant.
LEMMA FailsStep ==
    ASSUME RInv, NEW t \in Tasks, Fails(t), UNCHANGED <<cas, origin, counters>>
    PROVE  StepOK
BY IdleStep, QuietStep, RotationsNat DEF Fails, counters, RInv, TypeOK

\* A task that prepares the write of a legal successor keeps all well formed.
LEMMA PendingStep ==
    ASSUME RInv, NEW t \in Tasks, task[t].pc # "idle",
           NEW old \in CertAuthority, NEW new \in CertAuthority,
           Legal(old, new), new.id <= rotations',
           rotations' \in 0..MaxRotations, rotations <= rotations',
           Pending(t, old, new)
    PROVE  TasksOK
<1> DEFINE r == [task[t] EXCEPT !.pc = "cas", !.old = old, !.new = new]
<1>1. task[t] \in Task /\ TaskOK(task[t], rotations)
  BY DEF RInv, TypeOK
<1>2. rotations' \in Nat /\ rotations \in Nat
  BY RotationsNat, RotationAssumption
<1>3. TaskOK(task[t], rotations')
  BY <1>1, <1>2, TaskOKLater
<1>5. r \in Task /\ TaskOK(r, rotations')
  BY <1>1, <1>2, <1>3, PendingOK
<1>6. task' = [task EXCEPT ![t] = r]
  BY DEF Pending, Set
<1> HIDE DEF r
<1>7. QED
  BY <1>5, <1>6, SetOK DEF TasksOK

\* The read that begins a rotation keeps the invariant.
LEMMA StartGetStep == ASSUME RInv, NEW t \in Tasks, StartGet(t) PROVE StepOK
<1> DEFINE ca == cas[Current(t)]
           local == HasLocalKeys(t, ca.additional)
           newKeys == ca.additional \cup (IF local THEN {} ELSE {NextKey(t)})
           id == rotations + 1
           new == startNewRotation(ca, task[t].mode, task[t].forced, newKeys, id)
<1>1. /\ task[t].pc # "idle" /\ CanEnter(ca, "init")
      /\ rotations < MaxRotations /\ rotations' = id
      /\ IF local THEN UNCHANGED made ELSE CanMakeKey(t) /\ MakeKey(t)
      /\ Pending(t, ca, new)
      /\ UNCHANGED <<cas, origin, requests>>
  BY DEF StartGet
<1>2. ca \in CertAuthority /\ ca.id \in Nat /\ ca.id <= rotations
  BY <1>1, CurrentType, IdOK
<1>3. /\ newKeys \in SUBSET Keys /\ newKeys # {} /\ ca.additional \subseteq newKeys
      /\ made' \in [Stores -> 0..MaxKeys]
  <2>1. ca.additional \in SUBSET Keys
    BY <1>2 DEF CertAuthority
  <2>2. CASE local
    <3>1. newKeys = ca.additional /\ made' = made
      BY <1>1, <2>2
    <3>2. ca.additional # {}
      BY <2>2 DEF HasLocalKeys
    <3>3. made \in [Stores -> 0..MaxKeys]
      BY DEF RInv, TypeOK
    <3>4. QED
      BY <2>1, <3>1, <3>2, <3>3
  <2>3. CASE ~local
    <3>1. newKeys = ca.additional \cup {NextKey(t)} /\ CanMakeKey(t) /\ MakeKey(t)
      BY <1>1, <2>3
    <3>2. NextKey(t) \in Keys /\ made' \in [Stores -> 0..MaxKeys]
      BY <3>1, NextKeyOK
    <3>3. QED
      BY <2>1, <3>1, <3>2
  <2>4. QED
    BY <2>2, <2>3
<1>4. rotations \in Nat /\ id \in IDs /\ id # ca.id /\ id \in 0..MaxRotations
  BY <1>1, <1>2, RotationsNat, RotationAssumption
<1>5. task[t].mode \in Modes \ {""} /\ task[t].forced \in BOOLEAN
  <2>1. task[t].kind = "request"
    BY DEF StartGet
  <2>2. task[t] \in Task /\ TaskOK(task[t], rotations)
    BY DEF RInv, TypeOK
  <2>3. QED
    BY <2>1, <2>2 DEF Task, TaskOK
<1>6. new \in CertAuthority /\ new.id = id
  <2>1. new \in CertAuthority
    BY <1>2, <1>3, <1>4, <1>5, StartedType
  <2>2. QED
    BY <1>2, <2>1 DEF startNewRotation, CertAuthority
<1>7. Legal(ca, new)
  BY <1>1, <1>3, <1>4, <1>5 DEF Legal, LegalStart
<1>8. new.id <= rotations' /\ rotations' \in 0..MaxRotations /\ rotations <= rotations'
  BY <1>1, <1>4, <1>6
<1>9. TasksOK
  <2> HIDE DEF ca, new
  <2>1. QED
    BY <1>1, <1>2, <1>6, <1>7, <1>8, PendingStep
<1>10. requests' \in 0..MaxRequests
  BY <1>1 DEF RInv, TypeOK
<1>11. QED
  BY <1>1, <1>3, <1>8, <1>9, <1>10, QuietStep

\* What EnterGet and TickerDue have in common.
LEMMA EnterStep ==
    ASSUME RInv, NEW t \in Tasks, task[t].pc # "idle",
           NEW target \in Phases \ {"init"}, NEW mode \in Modes,
           CanEnter(cas[Current(t)], target),
           Pending(t, cas[Current(t)], Entered(cas[Current(t)], target, mode)),
           UNCHANGED <<cas, origin, counters>>
    PROVE  StepOK
<1> DEFINE ca == cas[Current(t)]
           new == Entered(ca, target, mode)
<1>1. ca \in CertAuthority /\ ca.id \in Nat /\ ca.id <= rotations
  BY CurrentType, IdOK
<1>2. new \in CertAuthority /\ new.id = ca.id
  BY <1>1, EnteredType, EnteredId
<1>3. Legal(ca, new)
  BY DEF Legal, LegalEnter
<1>4. /\ rotations' = rotations /\ rotations' \in 0..MaxRotations
      /\ rotations <= rotations' /\ new.id <= rotations'
  BY <1>1, <1>2, RotationsNat DEF counters
<1>5. TasksOK
  <2>1. Pending(t, ca, new)
    OBVIOUS
  <2> HIDE DEF ca, new
  <2>2. QED
    BY <1>1, <1>2, <1>3, <1>4, <2>1, PendingStep
<1>6. QED
  BY <1>4, <1>5, QuietStep DEF counters, RInv, TypeOK

\* The read that begins a phase change keeps the invariant.
LEMMA EnterGetStep == ASSUME RInv, NEW t \in Tasks, EnterGet(t) PROVE StepOK
<1>1. task[t].target \in Phases \ {"init"} /\ task[t].mode \in Modes
  BY DEF EnterGet, RInv, TypeOK, Task
<1>2. QED
  BY <1>1, EnterStep DEF EnterGet

\* A ticker that finds a phase due keeps the invariant.
LEMMA TickerDueStep == ASSUME RInv, NEW t \in Tasks, TickerDue(t) PROVE StepOK
<1> DEFINE ca == cas[Current(t)]
<1>1. /\ task[t].pc # "idle" /\ ca.phase \in DOMAIN Scheduled
      /\ Pending(t, ca, Entered(ca, Scheduled[ca.phase], "auto"))
      /\ UNCHANGED <<cas, origin, counters>>
  BY DEF TickerDue
<1>2. Scheduled[ca.phase] \in Phases \ {"init"} /\ CanEnter(ca, Scheduled[ca.phase])
  BY <1>1 DEF Scheduled, Phases, CanEnter
<1>3. "auto" \in Modes
  BY DEF Modes
<1>4. QED
  BY <1>1, <1>2, <1>3, EnterStep

\* A ticker that finds no phase due keeps the invariant.
LEMMA TickerNotDueStep ==
    ASSUME RInv, NEW t \in Tasks, TickerNotDue(t) PROVE StepOK
<1> DEFINE ca == cas[Current(t)]
<1>1. task[t].pc # "idle" /\ UNCHANGED <<cas, origin, rotations, requests>>
  BY DEF TickerNotDue
<1>2. ca \in CertAuthority /\ ca.id <= rotations
  BY <1>1, CurrentType, IdOK
<1>3. EnsureLocal(t, ca) \/ (NextType(t) /\ UNCHANGED made)
  BY DEF TickerNotDue
<1>4. TasksOK /\ made' \in [Stores -> 0..MaxKeys]
  BY <1>1, <1>2, <1>3, EnsureLocalStep, NextTypeStep DEF RInv, TypeOK
<1>5. QED
  BY <1>1, <1>4, QuietStep, RotationsNat DEF RInv, TypeOK

\* The write of a rotated authority keeps the invariant.
LEMMA CompareAndSwapStep ==
    ASSUME RInv, NEW t \in Tasks, CompareAndSwap(t) PROVE StepOK
<1> DEFINE ca == task[t].old
<1>1. task[t].pc = "cas" /\ Write(t) /\ UNCHANGED <<rotations, requests>>
  BY DEF CompareAndSwap
<1>2. ca \in CertAuthority /\ ca.id <= rotations
  BY <1>1, CurrentType, IdOK DEF Write
<1>3. EnsureLocal(t, ca) \/ (NextType(t) /\ UNCHANGED made)
  BY DEF CompareAndSwap
<1>4. TasksOK /\ made' \in [Stores -> 0..MaxKeys]
  BY <1>1, <1>2, <1>3, EnsureLocalStep, NextTypeStep DEF RInv, TypeOK
<1>5. QED
  BY <1>1, <1>4, WriteStep

\* The write of an added key keeps the invariant.
LEMMA AddSwapStep == ASSUME RInv, NEW t \in Tasks, AddSwap(t) PROVE StepOK
<1>1. /\ task[t].pc = "addcas" /\ Write(t) /\ NextType(t)
      /\ UNCHANGED <<made, rotations, requests>>
  BY DEF AddSwap, counters
<1>2. TasksOK
  BY <1>1, NextTypeStep
<1>3. QED
  BY <1>1, <1>2, WriteStep DEF RInv, TypeOK

\* A lost race for the write of an added key keeps the invariant.
LEMMA AddConflictStep == ASSUME RInv, NEW t \in Tasks, AddConflict(t) PROVE StepOK
<1> DEFINE r == [task[t] EXCEPT !.pc = "addget"]
<1>1. /\ task[t].pc = "addcas" /\ Set(t, r)
      /\ UNCHANGED <<cas, origin, made, rotations, requests>>
  BY DEF AddConflict, counters
<1>2. task[t] \in Task /\ TaskOK(task[t], rotations)
  BY DEF RInv, TypeOK
<1>3. r \in Task /\ TaskOK(r, rotations)
  BY <1>1, <1>2 DEF Task, TaskOK
<1>4. TasksOK
  <2> HIDE DEF r
  <2>1. QED
    BY <1>1, <1>3, SetStep
<1>5. QED
  BY <1>1, <1>4, QuietStep, RotationsNat DEF RInv, TypeOK

\* The read before a key is added keeps the invariant.
LEMMA AddGetStep == ASSUME RInv, NEW t \in Tasks, AddGet(t) PROVE StepOK
<1> DEFINE ca == cas[Current(t)]
<1>1. /\ task[t].pc = "addget"
      /\ UNCHANGED <<cas, origin, made, rotations, requests>>
  BY DEF AddGet, counters
<1>2. ca \in CertAuthority /\ ca.id <= rotations
  BY <1>1, CurrentType, IdOK
<1>3. task[t] \in Task /\ TaskOK(task[t], rotations)
  BY DEF RInv, TypeOK
<1>4. PICK key \in Keys : task[t].key = {key}
  BY <1>1, <1>3 DEF TaskOK
<1>5. TasksOK
  <2>1. CASE NextType(t)
    BY <1>1, <2>1, NextTypeStep
  <2>2. CASE Set(t, [task[t] EXCEPT !.pc = "addcas", !.old = ca,
                                    !.new = AddKeys(ca, task[t].key)])
    <3>1. [task[t] EXCEPT !.pc = "addcas", !.old = ca,
                          !.new = AddKeys(ca, task[t].key)] =
          [task[t] EXCEPT !.pc = "addcas", !.old = ca,
                          !.new = AddKeys(ca, {key}), !.key = {key}]
      BY <1>3, <1>4 DEF Task
    <3>2. Set(t, [task[t] EXCEPT !.pc = "addcas", !.old = ca,
                          !.new = AddKeys(ca, {key}), !.key = {key}])
      BY <2>2, <3>1
    <3>3. QED
      BY <1>1, <1>2, <1>3, <3>2, AddingStep
  <2>3. QED
    BY <2>1, <2>2 DEF AddGet
<1>6. QED
  BY <1>1, <1>5, QuietStep, RotationsNat DEF RInv, TypeOK

\* A failed call of the backend keeps the invariant.
LEMMA BackendFailsStep == ASSUME RInv, NEW t \in Tasks, BackendFails(t) PROVE StepOK
<1>1. Fails(t) /\ UNCHANGED <<made, rotations, requests>>
  BY DEF BackendFails, counters
<1>2. TasksOK /\ made' \in [Stores -> 0..MaxKeys]
  BY <1>1, IdleStep DEF Fails, RInv, TypeOK
<1>3. CASE UNCHANGED <<cas, origin>>
  BY <1>1, <1>2, <1>3, QuietStep, RotationsNat DEF RInv, TypeOK
<1>4. CASE task[t].pc \in {"cas", "addcas"} /\ Write(t)
  BY <1>1, <1>2, <1>4, WriteStep
<1>5. QED
  BY <1>3, <1>4 DEF BackendFails

\* Every step of the servers keeps the invariant and is a step of the state
\* machine or leaves the authorities alone.
LEMMA RotationStep == RInv /\ [RotationNext]_vars => StepOK
<1> SUFFICES ASSUME RInv, [RotationNext]_vars PROVE StepOK
  OBVIOUS
<1>1. CASE UNCHANGED vars
  BY <1>1 DEF StepOK, vars, caVars, RInv, TypeOK
<1>2. ASSUME NEW t \in Tasks, TaskStep(t) PROVE StepOK
  BY <1>2, StartGetStep, EnterGetStep, TickerDueStep, TickerNotDueStep,
     CompareAndSwapStep, AddSwapStep, AddConflictStep, AddGetStep, FailsStep
     DEF TaskStep, RequestRefused, CompareFailed
<1>3. QED
  BY <1>1, <1>2, RequestStep, TickerStep, StartServerStep, BackendFailsStep
     DEF RotationNext

\* A new cluster satisfies the invariant and begins a phase history.
LEMMA RotationStart == RotationInit => RInv /\ PhaseInit
<1> SUFFICES ASSUME RotationInit PROVE RInv /\ PhaseInit
  OBVIOUS
<1> DEFINE first == {<<FirstStore, 1>>}
<1>1. first \in SUBSET Keys /\ 0 \in IDs
  BY RotationAssumption
<1>2. cas = [ty \in CATypes |-> StandbyCA(first, 0)]
  BY DEF RotationInit
<1>3. StandbyCA(first, 0) \in CertAuthority /\ StandbyCA(first, 0).id = 0
      /\ StandbyCA(first, 0).active = first
  BY <1>1 DEF StandbyCA, CertAuthority, Phases, Modes, States
<1>4. PhaseInit
  <2>1. [ty \in CATypes |-> first] \in [CATypes -> SUBSET Keys]
    BY <1>1
  <2>2. cas = [ty \in CATypes |-> StandbyCA([tz \in CATypes |-> first][ty], 0)]
    BY <1>2
  <2>3. QED
    BY <1>1, <2>1, <2>2 DEF PhaseInit, RotationInit
<1>5. /\ cas \in [CATypes -> CertAuthority]
      /\ origin \in [CATypes -> SUBSET Keys]
  BY <1>1, <1>2, <1>3 DEF RotationInit
<1>6. made \in [Stores -> 0..MaxKeys] /\ rotations \in 0..MaxRotations
      /\ requests \in 0..MaxRequests
  BY RotationAssumption DEF RotationInit
<1>7. task \in [Tasks -> Task] /\ \A t \in Tasks : TaskOK(task[t], rotations)
  BY IdleOK DEF RotationInit
<1>8. \A ty \in CATypes : cas[ty].id <= rotations
  <2>1. rotations = 0 /\ \A ty \in CATypes : cas[ty].id = 0
    BY <1>2, <1>3 DEF RotationInit
  <2>2. 0 <= 0
    OBVIOUS
  <2>3. QED
    BY <2>1, <2>2, Zenon
<1>9. QED
  BY <1>4, <1>5, <1>6, <1>7, <1>8 DEF RInv, TypeOK

\* Type correctness: no interleaving of the servers' reads and writes stores
\* a malformed authority, and no task loses the type it works on.
THEOREM RotationTypeCorrect == RotationSpec => []TypeOK
<1>1. RInv => TypeOK
  BY DEF RInv
<1>2. StepOK => RInv'
  BY DEF StepOK
<1>3. QED
  BY <1>1, <1>2, RotationStart, RotationStep, PTL DEF RotationSpec

\* The servers, with their reads, races, retries and lost answers, implement
\* the machine in which every rotation request is atomic.
THEOREM RotationImplementsPhases == RotationSpec => PhaseSpec
<1>1. StepOK => RInv' /\ [PhaseNext]_caVars
  BY DEF StepOK
<1>2. QED
  BY <1>1, RotationStart, RotationStep, PTL DEF RotationSpec, PhaseSpec

\* Whatever the servers do to each other, the keys of before a rotation stay
\* where a rollback finds them.
THEOREM RotationOriginStays == RotationSpec => []OriginRecoverable
BY RotationImplementsPhases, OriginStays, PTL

\* No write of any server takes trust from keys that were signing.
THEOREM RotationKeepsTrust == RotationSpec => SigningKeysTrusted
BY RotationImplementsPhases, SigningKeysStayTrusted, PTL

\* A rotation in automatic mode is in one of the phases of the schedule: a
\* rollback takes it out of that mode and the completion ends it, so autoRotate
\* never meets a phase it refuses, whatever requests and tickers have raced.
THEOREM RotationStaysScheduled == RotationSpec => []AutoPhaseSupported
<1> DEFINE OnSchedule ==
        \A ty \in CATypes : AutoRotates(cas[ty]) =>
            cas[ty].phase \in {"init", "update_clients", "update_servers"}
<1>1. PhaseInit => OnSchedule
  <2> SUFFICES ASSUME PhaseInit, NEW ty \in CATypes
               PROVE  cas[ty].state = "standby"
    BY DEF AutoRotates
  <2>1. PICK keys \in [CATypes -> SUBSET Keys], id \in IDs :
          cas = [tz \in CATypes |-> StandbyCA(keys[tz], id)]
    BY DEF PhaseInit
  <2>2. cas[ty] = StandbyCA(keys[ty], id)
    BY <2>1
  <2>3. StandbyCA(keys[ty], id).state = "standby"
    BY DEF StandbyCA
  <2>4. QED
    BY <2>2, <2>3
<1>2. PhaseTypeOK /\ OnSchedule /\ [PhaseNext]_caVars
        => OnSchedule'
  <2> SUFFICES ASSUME PhaseTypeOK, OnSchedule, [PhaseNext]_caVars
               PROVE  OnSchedule'
    OBVIOUS
  <2> USE DEF PhaseTypeOK, CertAuthority
  <2> HIDE DEF OnSchedule
  <2>1. ASSUME NEW ty \in CATypes, Start(ty) PROVE OnSchedule'
    <3>1. PICK mode \in Modes \ {""}, forced \in BOOLEAN,
               newKeys \in SUBSET Keys, id \in IDs :
            cas' = [cas EXCEPT ![ty] =
                        startNewRotation(@, mode, forced, newKeys, id)]
      BY <2>1 DEF Start
    <3>2. cas'[ty].state = "standby" \/ cas'[ty].phase = "init"
      BY <3>1 DEF startNewRotation
    <3>3. \A tz \in CATypes \ {ty} : cas'[tz] = cas[tz]
      BY <3>1
    <3>4. QED
      BY <3>2, <3>3 DEF OnSchedule, AutoRotates
  <2>2. ASSUME NEW ty \in CATypes, Enter(ty) PROVE OnSchedule'
    <3>1. PICK target \in Phases \ {"init"}, mode \in Modes :
            cas' = [cas EXCEPT ![ty] = Entered(@, target, mode)]
      BY <2>2 DEF Enter
    <3>2. CASE target = "update_clients"
      BY <3>1, <3>2 DEF Entered, updateClients, Swap,
         OnSchedule, AutoRotates
    <3>3. CASE target = "update_servers"
      BY <3>1, <3>3 DEF Entered, updateServers,
         OnSchedule, AutoRotates
    <3>4. CASE target = "rollback"
      BY <3>1, <3>4 DEF Entered, startRollingBackRotation, Swap,
         OnSchedule, AutoRotates
    <3>5. CASE target = "standby"
      BY <3>1, <3>5 DEF Entered, completeRotation,
         OnSchedule, AutoRotates
    <3>6. QED
      BY <3>2, <3>3, <3>4, <3>5 DEF Phases
  <2>3. ASSUME NEW ty \in CATypes, Add(ty) PROVE OnSchedule'
    BY <2>3 DEF Add, AddKeys, OnSchedule, AutoRotates
  <2>4. CASE UNCHANGED caVars
    BY <2>4 DEF caVars, OnSchedule, AutoRotates
  <2>5. QED
    BY <2>1, <2>2, <2>3, <2>4 DEF PhaseNext
<1>3. OnSchedule => AutoPhaseSupported
  BY DEF Scheduled, AutoPhaseSupported
<1>4. QED
  BY <1>1, <1>2, <1>3, RotationImplementsPhases, PhaseTypeCorrect, PTL
     DEF PhaseSpec
-----------------------------------------------------------------------------
\* Servers that share one key store, as all servers without an HSM do.  Every
\* key is then local to every server: none is ever added besides the one that
\* the start of a rotation makes, and that one is fresh.

OneStore == \A t \in Tasks : StoreOf[t] = FirstStore

\* Keys that the shared store has made, and how many there are.
Made == made[FirstStore]
OwnKeys(keys, n) == \A k \in keys : k[1] = FirstStore /\ k[2] <= n

\* An authority between rotations trusts nothing besides its active keys; one
\* that is rotated trusts exactly the keys it goes to, or comes from, besides.
Sound(ca) ==
    /\ ca.active # {}
    /\ ca.active \cap ca.additional = {}
    /\ ca.state = "standby" <=> ca.phase = "standby"
    /\ ca.additional = {} <=> ca.phase = "standby"

\* Where the keys of before the rotation are.
Placed(ca, old) ==
    /\ ca.phase \in {"init", "rollback"} => ca.active = old
    /\ ca.phase \in {"update_clients", "update_servers"} => ca.additional = old

FreshStart(old, new) ==
    \E mode \in Modes \ {""}, forced \in BOOLEAN, key \in Keys, id \in IDs :
        /\ CanEnter(old, "init") /\ key \notin old.active /\ id # old.id
        /\ new = startNewRotation(old, mode, forced, {key}, id)

\* A task adds no key to an authority, and writes one with its fresh key.
SharedWrite(k, n) ==
    /\ k.pc \notin {"addcas", "addget"}
    /\ k.pc = "cas" => /\ FreshStart(k.old, k.new) \/ LegalEnter(k.old, k.new)
                       /\ OwnKeys(Trusted(k.new), n)

SharedInv ==
    /\ \A ty \in CATypes : /\ Sound(cas[ty]) /\ Placed(cas[ty], origin[ty])
                           /\ OwnKeys(Trusted(cas[ty]), Made)
    /\ \A t \in Tasks : SharedWrite(task[t], Made)

\* What rotate.go writes keeps an authority sound and the keys of before the
\* rotation in place.
LEMMA SoundSuccessor ==
    ASSUME NEW ca \in CertAuthority, NEW old, NEW new,
           Sound(ca), Placed(ca, old), FreshStart(ca, new) \/ LegalEnter(ca, new)
    PROVE  /\ Sound(new)
           /\ Placed(new, IF new.id # ca.id THEN ca.active ELSE old)
<1> USE DEF CertAuthority, Sound, Placed
<1>1. CASE FreshStart(ca, new)
  <2>1. PICK mode \in Modes \ {""}, forced \in BOOLEAN, key \in Keys, id \in IDs :
          /\ CanEnter(ca, "init") /\ key \notin ca.active /\ id # ca.id
          /\ new = startNewRotation(ca, mode, forced, {key}, id)
    BY <1>1 DEF FreshStart
  <2>2. ca.phase = "standby" /\ ca.additional = {}
    BY <2>1 DEF CanEnter
  <2>3. CASE forced
    BY <2>1, <2>2, <2>3 DEF startNewRotation
  <2>4. CASE ~forced
    BY <2>1, <2>2, <2>4 DEF startNewRotation
  <2>5. QED
    BY <2>3, <2>4
<1>2. CASE LegalEnter(ca, new)
  <2>1. PICK target \in Phases \ {"init"}, mode \in Modes :
          CanEnter(ca, target) /\ new = Entered(ca, target, mode)
    BY <1>2 DEF LegalEnter
  <2>2. new.id = ca.id
    BY <2>1, EnteredId
  <2>3. CASE target = "update_clients"
    BY <2>1, <2>2, <2>3 DEF CanEnter, Entered, updateClients, Swap
  <2>4. CASE target = "update_servers"
    BY <2>1, <2>2, <2>4 DEF CanEnter, Entered, updateServers
  <2>5. CASE target = "rollback"
    BY <2>1, <2>2, <2>5 DEF CanEnter, Entered, startRollingBackRotation, Swap
  <2>6. CASE target = "standby"
    BY <2>1, <2>2, <2>6 DEF CanEnter, Entered, completeRotation
  <2>7. QED
    BY <2>3, <2>4, <2>5, <2>6 DEF Phases
<1>3. QED
  BY <1>1, <1>2

\* A phase change makes no key.
LEMMA EnteredKeys ==
    ASSUME NEW ca \in CertAuthority, NEW new, LegalEnter(ca, new)
    PROVE  Trusted(new) \subseteq Trusted(ca)
<1>1. PICK target \in Phases \ {"init"}, mode \in Modes :
        new = Entered(ca, target, mode)
  BY DEF LegalEnter
<1>2. QED
  BY <1>1 DEF CertAuthority, Trusted, Entered, updateClients, updateServers,
              startRollingBackRotation, completeRotation, Swap, Phases

\* A server finds its own key wherever there is a key at all.
LEMMA SharedKeysLocal ==
    ASSUME OneStore, NEW t \in Tasks, NEW keys, NEW n, OwnKeys(keys, n)
    PROVE  HasLocalKeys(t, keys) <=> keys # {}
BY DEF OneStore, OwnKeys, HasLocalKeys

\* The store makes keys and loses none.
LEMMA KeysStayOwn ==
    ASSUME NEW keys, NEW n \in Nat, NEW m \in Nat, n <= m, OwnKeys(keys, n),
           \A k \in keys : k[2] \in Nat
    PROVE  OwnKeys(keys, m)
BY DEF OwnKeys

\* The keys of an authority are pairs of a store and a number.
LEMMA KeyNumbers ==
    ASSUME NEW ca \in CertAuthority
    PROVE  \A k \in Trusted(ca) : k[2] \in Nat
BY RotationAssumption DEF CertAuthority, Trusted

\* What the store has made stays within its bound and only grows.
KeysCounted == made' \in [Stores -> 0..MaxKeys] /\ Made <= Made'

\* Keys of an authority that the store has made stay its own.
LEMMA OwnLater ==
    ASSUME RInv, KeysCounted, NEW ca \in CertAuthority, OwnKeys(Trusted(ca), Made)
    PROVE  OwnKeys(Trusted(ca), Made')
<1>1. Made \in Nat /\ Made' \in Nat /\ Made <= Made'
  BY RotationAssumption DEF RInv, TypeOK, KeysCounted, Made
<1>2. \A k \in Trusted(ca) : k[2] \in Nat
  BY KeyNumbers
<1>3. QED
  BY <1>1, <1>2, KeysStayOwn

\* The other tasks go on to write what they have prepared.
LEMMA OtherWrites ==
    ASSUME RInv, SharedInv, KeysCounted, NEW t \in Tasks, NEW r,
           Set(t, r), SharedWrite(r, Made')
    PROVE  \A u \in Tasks : SharedWrite(task'[u], Made')
<1>1. ASSUME NEW u \in Tasks, u # t PROVE SharedWrite(task'[u], Made')
  <2>1. task'[u] = task[u] /\ task[u] \in Task /\ SharedWrite(task[u], Made)
    BY <1>1 DEF Set, RInv, TypeOK, SharedInv
  <2>2. PICK k : k = task'[u]
    OBVIOUS
  <2>3. k \in Task /\ SharedWrite(k, Made) /\ k.new \in CertAuthority
    BY <2>1, <2>2 DEF Task
  <2>4. k.pc = "cas" => OwnKeys(Trusted(k.new), Made')
    BY <2>3, OwnLater DEF SharedWrite
  <2>5. SharedWrite(k, Made')
    BY <2>3, <2>4 DEF SharedWrite
  <2>6. QED
    BY <2>2, <2>5
<1>2. task'[t] = r
  BY DEF Set, RInv, TypeOK
<1>3. QED
  BY <1>1, <1>2

\* A step that writes no authority.
LEMMA SharedQuiet ==
    ASSUME RInv, SharedInv, KeysCounted, UNCHANGED <<cas, origin>>,
           NEW t \in Tasks, NEW r, Set(t, r), SharedWrite(r, Made')
    PROVE  SharedInv'
<1>1. \A u \in Tasks : SharedWrite(task'[u], Made')
  BY OtherWrites
<1>2. ASSUME NEW ty \in CATypes
      PROVE  /\ Sound(cas'[ty]) /\ Placed(cas'[ty], origin'[ty])
             /\ OwnKeys(Trusted(cas'[ty]), Made')
  <2>1. /\ cas[ty] \in CertAuthority /\ Sound(cas[ty])
        /\ Placed(cas[ty], origin[ty]) /\ OwnKeys(Trusted(cas[ty]), Made)
    BY DEF RInv, TypeOK, SharedInv
  <2>2. PICK ca : ca = cas[ty] /\ ca = cas'[ty]
    OBVIOUS
  <2>3. OwnKeys(Trusted(ca), Made')
    BY <2>1, <2>2, OwnLater
  <2>4. QED
    BY <2>1, <2>2, <2>3
<1>3. QED
  BY <1>1, <1>2 DEF SharedInv

\* A compare-and-swap that succeeds.
LEMMA SharedSwap ==
    ASSUME RInv, SharedInv, KeysCounted,
           NEW t \in Tasks, task[t].pc = "cas", Write(t),
           NEW r, Set(t, r), SharedWrite(r, Made')
    PROVE  SharedInv'
<1> DEFINE c == Current(t)
           new == task[t].new
           was == IF new.id # cas[c].id THEN cas[c].active ELSE origin[c]
<1>1. c \in CATypes /\ task[t] \in Task /\ SharedWrite(task[t], Made)
  BY CurrentType DEF RInv, TypeOK, SharedInv
<1>2. /\ cas[c] = task[t].old
      /\ cas' = [cas EXCEPT ![c] = new]
      /\ origin' = IF new.id # task[t].old.id
                     THEN [origin EXCEPT ![c] = task[t].old.active] ELSE origin
  BY DEF Write
<1>3. /\ cas \in [CATypes -> CertAuthority] /\ origin \in [CATypes -> SUBSET Keys]
      /\ Sound(cas[c]) /\ Placed(cas[c], origin[c])
  BY <1>1 DEF RInv, TypeOK, SharedInv
<1>4. /\ FreshStart(cas[c], new) \/ LegalEnter(cas[c], new)
      /\ OwnKeys(Trusted(new), Made) /\ new \in CertAuthority
  BY <1>1, <1>2 DEF SharedWrite, Task
<1>5. Sound(new) /\ Placed(new, was)
  BY <1>1, <1>3, <1>4, SoundSuccessor
<1>6. OwnKeys(Trusted(new), Made')
  BY <1>4, OwnLater
<1>7. cas'[c] = new /\ origin'[c] = was
  BY <1>1, <1>2, <1>3
<1>8. ASSUME NEW ty \in CATypes, ty # c
      PROVE  /\ Sound(cas'[ty]) /\ Placed(cas'[ty], origin'[ty])
             /\ OwnKeys(Trusted(cas'[ty]), Made')
  <2>1. /\ cas[ty] \in CertAuthority /\ Sound(cas[ty])
        /\ Placed(cas[ty], origin[ty]) /\ OwnKeys(Trusted(cas[ty]), Made)
    BY DEF RInv, TypeOK, SharedInv
  <2>2. cas'[ty] = cas[ty] /\ origin'[ty] = origin[ty]
    BY <1>1, <1>2, <1>3, <1>8
  <2>3. PICK ca : ca = cas[ty] /\ ca = cas'[ty]
    BY <2>2
  <2>4. OwnKeys(Trusted(ca), Made')
    BY <2>1, <2>3, OwnLater
  <2>5. QED
    BY <2>1, <2>2, <2>3, <2>4
<1>9. \A u \in Tasks : SharedWrite(task'[u], Made')
  BY OtherWrites
<1> HIDE DEF c, new, was
<1>10. ASSUME NEW ty \in CATypes
       PROVE  /\ Sound(cas'[ty]) /\ Placed(cas'[ty], origin'[ty])
              /\ OwnKeys(Trusted(cas'[ty]), Made')
  <2>1. CASE ty = c
    BY <1>5, <1>6, <1>7, <2>1
  <2>2. QED
    BY <1>8, <2>1
<1>11. QED
  BY <1>9, <1>10 DEF SharedInv

\* A task that turns to its next type, or goes idle.
LEMMA NextTypeShared ==
    ASSUME NEW t \in Tasks, NextType(t), task[t] \in Task
    PROVE  \E r : Set(t, r) /\ (\A n : SharedWrite(r, n))
<1> DEFINE r == IF Len(task[t].todo) = 1
                  THEN Idle
                  ELSE [task[t] EXCEPT !.pc = "get", !.todo = Tail(task[t].todo),
                                       !.old = NoCA, !.new = NoCA, !.key = {}]
<1>1. Set(t, r)
  BY DEF NextType
<1>2. r.pc \in {"idle", "get"}
  BY DEF Idle, Task
<1> HIDE DEF r
<1>3. \A n : SharedWrite(r, n)
  BY <1>2 DEF SharedWrite
<1>4. QED
  BY <1>1, <1>3

\* Idle tasks write nothing.
LEMMA IdleShared == \A n : SharedWrite(Idle, n)
BY DEF SharedWrite, Idle

\* Nothing made: the counter stays.
LEMMA NothingMade == ASSUME RInv, UNCHANGED made PROVE KeysCounted
<1>1. made[FirstStore] \in 0..MaxKeys /\ made \in [Stores -> 0..MaxKeys]
  BY RotationAssumption DEF RInv, TypeOK
<1>2. QED
  BY <1>1, RotationAssumption DEF KeysCounted, Made

\* The read that begins a rotation: the authority is in standby, so it trusts
\* no key besides the active ones and the store makes a fresh one.
LEMMA StartGetShared ==
    ASSUME OneStore, RInv, SharedInv, NEW t \in Tasks, StartGet(t)
    PROVE  SharedInv'
<1> DEFINE ca == cas[Current(t)]
           id == rotations + 1
           new == startNewRotation(ca, task[t].mode, task[t].forced,
                                   {NextKey(t)}, id)
           r == [task[t] EXCEPT !.pc = "cas", !.old = ca, !.new = new]
<1>1. /\ task[t].pc = "get" /\ task[t].kind = "request"
      /\ CanEnter(ca, "init") /\ rotations < MaxRotations
      /\ UNCHANGED <<cas, origin>>
  BY DEF StartGet
<1>2. ca \in CertAuthority /\ ca.id \in Nat /\ ca.id <= rotations
  BY <1>1, CurrentType, IdOK
<1>3. Sound(ca) /\ OwnKeys(Trusted(ca), Made)
  BY <1>1, CurrentType DEF SharedInv
<1>4. ca.additional = {}
  BY <1>1, <1>3 DEF Sound, CanEnter
<1>5. ~HasLocalKeys(t, ca.additional)
  BY <1>4 DEF HasLocalKeys
<1>6. CanMakeKey(t) /\ MakeKey(t) /\ Pending(t, ca, new)
  <2>1. ca.additional \cup {NextKey(t)} = {NextKey(t)}
    BY <1>4
  <2>2. /\ CanMakeKey(t) /\ MakeKey(t)
        /\ Pending(t, ca, startNewRotation(ca, task[t].mode, task[t].forced,
                             ca.additional \cup {NextKey(t)}, rotations + 1))
    BY <1>5, Zenon DEF StartGet
  <2>3. QED
    BY <2>1, <2>2
<1>7. NextKey(t) = <<FirstStore, Made + 1>> /\ NextKey(t) \in Keys
  BY <1>6, NextKeyOK DEF OneStore, NextKey, Made
<1>8. Made \in Nat /\ made' \in [Stores -> 0..MaxKeys] /\ Made' = Made + 1
  <2>1. made \in [Stores -> 0..MaxKeys] /\ FirstStore \in Stores /\ MaxKeys \in Nat
    BY RotationAssumption DEF RInv, TypeOK
  <2>2. made' = [made EXCEPT ![FirstStore] = @ + 1]
    BY <1>6 DEF OneStore, MakeKey
  <2>3. made' \in [Stores -> 0..MaxKeys]
    BY <1>6, NextKeyOK
  <2>4. QED
    BY <2>1, <2>2, <2>3 DEF Made
<1>9. KeysCounted
  BY <1>8 DEF KeysCounted
<1>10. NextKey(t) \notin ca.active
  <2>1. SUFFICES ASSUME NextKey(t) \in ca.active PROVE FALSE
    OBVIOUS
  <2>2. NextKey(t)[2] <= Made
    BY <1>3, <2>1 DEF OwnKeys, Trusted
  <2>3. NextKey(t)[2] = Made + 1
    BY <1>7
  <2>4. QED
    BY <1>8, <2>2, <2>3
<1>11. task[t].mode \in Modes \ {""} /\ task[t].forced \in BOOLEAN /\ id \in IDs
  <2>1. task[t] \in Task /\ TaskOK(task[t], rotations)
    BY DEF RInv, TypeOK
  <2>2. task[t].mode \in Modes \ {""} /\ task[t].forced \in BOOLEAN
    BY <1>1, <2>1 DEF Task, TaskOK
  <2>3. id \in IDs
    BY <1>1, RotationsNat, RotationAssumption
  <2>4. QED
    BY <2>2, <2>3
<1>12. id # ca.id
  BY <1>2, RotationsNat
<1>13. FreshStart(ca, new)
  BY <1>1, <1>7, <1>10, <1>11, <1>12 DEF FreshStart
<1>14. OwnKeys(Trusted(new), Made')
  <2>1. OwnKeys(Trusted(ca), Made')
    BY <1>2, <1>3, <1>9, OwnLater
  <2>2. Trusted(new) \subseteq Trusted(ca) \cup {NextKey(t)}
    BY <1>2 DEF startNewRotation, Trusted, CertAuthority
  <2>3. NextKey(t)[1] = FirstStore /\ NextKey(t)[2] <= Made'
    BY <1>7, <1>8
  <2>4. QED
    BY <2>1, <2>2, <2>3 DEF OwnKeys
<1>15. Set(t, r)
  BY <1>6 DEF Pending
<1>16. r.pc = "cas" /\ r.old = ca /\ r.new = new
  BY DEF RInv, TypeOK, Task
<1> HIDE DEF ca, new, r
<1>17. SharedWrite(r, Made')
  BY <1>13, <1>14, <1>16 DEF SharedWrite
<1>18. QED
  BY <1>1, <1>9, <1>15, <1>17, SharedQuiet

\* The read that begins a change of phase, by a request or by the ticker.
LEMMA EnterShared ==
    ASSUME RInv, SharedInv, NEW t \in Tasks, task[t].pc # "idle",
           NEW target \in Phases \ {"init"}, NEW mode \in Modes,
           CanEnter(cas[Current(t)], target),
           Pending(t, cas[Current(t)], Entered(cas[Current(t)], target, mode)),
           UNCHANGED <<cas, origin, counters>>
    PROVE  SharedInv'
<1> DEFINE ca == cas[Current(t)]
           new == Entered(ca, target, mode)
           r == [task[t] EXCEPT !.pc = "cas", !.old = ca, !.new = new]
<1>1. ca \in CertAuthority /\ OwnKeys(Trusted(ca), Made)
  BY CurrentType, IdOK DEF SharedInv
<1>2. KeysCounted
  BY NothingMade DEF counters
<1>3. LegalEnter(ca, new)
  BY DEF LegalEnter
<1>4. OwnKeys(Trusted(new), Made')
  <2>1. OwnKeys(Trusted(ca), Made')
    BY <1>1, <1>2, OwnLater
  <2>2. QED
    BY <1>1, <1>3, <2>1, EnteredKeys DEF OwnKeys
<1>5. Set(t, r)
  BY DEF Pending
<1>6. r.pc = "cas" /\ r.old = ca /\ r.new = new
  BY DEF RInv, TypeOK, Task
<1> HIDE DEF ca, new, r
<1>7. SharedWrite(r, Made')
  BY <1>3, <1>4, <1>6 DEF SharedWrite
<1>8. QED
  BY <1>2, <1>5, <1>7, SharedQuiet

\* The ticker of a server that shares its store never adds a key of its own:
\* the rotation it looks at has one.
LEMMA EnsureShared ==
    ASSUME OneStore, RInv, SharedInv, NEW t \in Tasks, NEW ty \in CATypes,
           cas[ty].phase = "init", EnsureLocal(t, cas[ty])
    PROVE  NextType(t) /\ UNCHANGED made
<1>1. Sound(cas[ty]) /\ OwnKeys(Trusted(cas[ty]), Made)
  BY DEF SharedInv
<1>2. cas[ty].additional # {}
  BY <1>1 DEF Sound
<1>3. OwnKeys(cas[ty].additional, Made)
  BY <1>1 DEF OwnKeys, Trusted
<1>4. HasLocalKeys(t, cas[ty].additional)
  BY <1>2, <1>3, SharedKeysLocal
<1>5. QED
  BY <1>4 DEF EnsureLocal

\* No step of servers that share a store breaks the invariant.
LEMMA SharedStep ==
    ASSUME OneStore
    PROVE  RInv /\ SharedInv /\ [RotationNext]_vars => SharedInv'
<1> SUFFICES ASSUME RInv, SharedInv, [RotationNext]_vars PROVE SharedInv'
  OBVIOUS
<1>1. CASE UNCHANGED vars
  BY <1>1 DEF vars, SharedInv, Made
<1>2. ASSUME NEW t \in Tasks, Request(t) PROVE SharedInv'
  <2>1. PICK target \in Phases, mode \in RequestModes, forced \in BOOLEAN,
             todo \in {TypeOrder} \cup {<<ty>> : ty \in CATypes} :
          Set(t, [Idle EXCEPT !.pc = "get", !.kind = "request",
                              !.todo = todo, !.target = target,
                              !.mode = mode, !.forced = forced])
    BY <1>2 DEF Request
  <2>2. PICK r : /\ r = [Idle EXCEPT !.pc = "get", !.kind = "request",
                                     !.todo = todo, !.target = target,
                                     !.mode = mode, !.forced = forced]
                 /\ Set(t, r)
    BY <2>1
  <2>3. r.pc = "get"
    BY <2>2 DEF Idle
  <2>4. SharedWrite(r, Made')
    BY <2>3 DEF SharedWrite
  <2>5. QED
    BY <1>2, <2>2, <2>4, SharedQuiet, NothingMade DEF Request
<1>3. ASSUME NEW t \in Tasks, Ticker(t) PROVE SharedInv'
  <2>1. PICK r : /\ r = [Idle EXCEPT !.pc = "get", !.kind = "ticker",
                                     !.todo = TypeOrder]
                 /\ Set(t, r)
    BY <1>3 DEF Ticker
  <2>2. r.pc = "get"
    BY <2>1 DEF Idle
  <2>3. SharedWrite(r, Made')
    BY <2>2 DEF SharedWrite
  <2>4. QED
    BY <1>3, <2>1, <2>3, SharedQuiet, NothingMade DEF Ticker, counters
<1>4. ASSUME NEW t \in Tasks, StartServer(t) PROVE FALSE
  <2>1. HostCA \in CATypes /\ ~HasLocalKeys(t, cas[HostCA].active)
    BY <1>4, RotationAssumption DEF StartServer
  <2>2. Sound(cas[HostCA]) /\ OwnKeys(Trusted(cas[HostCA]), Made)
    BY <2>1 DEF SharedInv
  <2>3. cas[HostCA].active # {} /\ OwnKeys(cas[HostCA].active, Made)
    BY <2>2 DEF Sound, OwnKeys, Trusted
  <2>4. QED
    BY <2>1, <2>3, SharedKeysLocal
<1>5. ASSUME NEW t \in Tasks, EnterGet(t) PROVE SharedInv'
  <2>1. task[t].target \in Phases \ {"init"} /\ task[t].mode \in Modes
    BY <1>5 DEF EnterGet, RInv, TypeOK, Task
  <2>2. QED
    BY <1>5, <2>1, EnterShared DEF EnterGet
<1>6. ASSUME NEW t \in Tasks, TickerDue(t) PROVE SharedInv'
  <2> DEFINE ca == cas[Current(t)]
  <2>1. /\ task[t].pc # "idle" /\ ca.phase \in DOMAIN Scheduled
        /\ Pending(t, ca, Entered(ca, Scheduled[ca.phase], "auto"))
        /\ UNCHANGED <<cas, origin, counters>>
    BY <1>6 DEF TickerDue
  <2>2. /\ Scheduled[ca.phase] \in Phases \ {"init"} /\ "auto" \in Modes
        /\ CanEnter(ca, Scheduled[ca.phase])
    BY <2>1 DEF Scheduled, Phases, Modes, CanEnter
  <2>3. QED
    BY <2>1, <2>2, EnterShared
<1>7. ASSUME NEW t \in Tasks, TickerNotDue(t) PROVE SharedInv'
  <2>1. /\ task[t].pc # "idle" /\ task[t] \in Task
        /\ UNCHANGED <<cas, origin>> /\ Current(t) \in CATypes
    BY <1>7, CurrentType DEF TickerNotDue, RInv, TypeOK
  <2>2. NextType(t) /\ UNCHANGED made
    BY <1>7, <2>1, EnsureShared DEF TickerNotDue
  <2>3. PICK r : Set(t, r) /\ (\A n : SharedWrite(r, n))
    BY <2>1, <2>2, NextTypeShared
  <2>4. QED
    BY <2>1, <2>2, <2>3, SharedQuiet, NothingMade
<1>8. ASSUME NEW t \in Tasks, CompareAndSwap(t) PROVE SharedInv'
  <2>1. /\ task[t].pc = "cas" /\ task[t] \in Task /\ Write(t)
        /\ Current(t) \in CATypes /\ cas[Current(t)] = task[t].old
    BY <1>8, CurrentType DEF CompareAndSwap, RInv, TypeOK, Write
  <2>2. NextType(t) /\ UNCHANGED made
    BY <1>8, <2>1, EnsureShared DEF CompareAndSwap
  <2>3. PICK r : Set(t, r) /\ (\A n : SharedWrite(r, n))
    BY <2>1, <2>2, NextTypeShared
  <2>4. QED
    BY <2>1, <2>2, <2>3, SharedSwap, NothingMade
<1>9. ASSUME NEW t \in Tasks, Fails(t), UNCHANGED <<cas, origin, counters>>
      PROVE  SharedInv'
  BY <1>9, IdleShared, SharedQuiet, NothingMade DEF Fails, counters
<1>10. ASSUME NEW t \in Tasks, AddSwap(t) \/ AddConflict(t) \/ AddGet(t)
       PROVE  FALSE
  <2>1. SharedWrite(task[t], Made)
    BY DEF SharedInv
  <2>2. QED
    BY <1>10, <2>1 DEF AddSwap, AddConflict, AddGet, SharedWrite
<1>11. ASSUME NEW t \in Tasks, BackendFails(t) PROVE SharedInv'
  <2>1. CASE UNCHANGED <<cas, origin>>
    BY <1>9, <1>11, <2>1 DEF BackendFails, counters
  <2>2. CASE task[t].pc \in {"cas", "addcas"} /\ Write(t)
    <3>1. SharedWrite(task[t], Made)
      BY DEF SharedInv
    <3>2. task[t].pc = "cas"
      BY <2>2, <3>1 DEF SharedWrite
    <3>3. Set(t, Idle) /\ UNCHANGED made
      BY <1>11 DEF BackendFails, Fails, counters
    <3>4. QED
      BY <2>2, <3>2, <3>3, IdleShared, SharedSwap, NothingMade
  <2>3. QED
    BY <1>11, <2>1, <2>2 DEF BackendFails
<1>12. ASSUME NEW t \in Tasks, TaskStep(t) PROVE SharedInv'
  BY <1>5, <1>6, <1>7, <1>8, <1>9, <1>10, <1>12, StartGetShared
     DEF TaskStep, RequestRefused, CompareFailed
<1>13. QED
  BY <1>1, <1>2, <1>3, <1>4, <1>11, <1>12 DEF RotationNext

\* The first authority is sound: it is in standby with one key of the store.
LEMMA SharedStart == RotationInit => SharedInv
<1> SUFFICES ASSUME RotationInit PROVE SharedInv
  OBVIOUS
<1> DEFINE ca == StandbyCA({<<FirstStore, 1>>}, 0)
<1>1. Made = 1
  BY RotationAssumption DEF RotationInit, Made
<1>2. /\ ca.active = {<<FirstStore, 1>>} /\ ca.additional = {}
      /\ ca.state = "standby" /\ ca.phase = "standby"
  BY DEF StandbyCA
<1>3. \A ty \in CATypes : cas[ty] = ca
  BY DEF RotationInit
<1> HIDE DEF ca
<1>4. Sound(ca) /\ OwnKeys(Trusted(ca), Made) /\ \A old : Placed(ca, old)
  BY <1>1, <1>2 DEF Sound, OwnKeys, Trusted, Placed
<1>5. \A t \in Tasks : SharedWrite(task[t], Made)
  BY IdleShared DEF RotationInit
<1>6. QED
  BY <1>3, <1>4, <1>5 DEF SharedInv

\* Servers that share a store never sign with a key of the rotation after a
\* rollback: whatever they do to each other, the active keys are exactly those
\* of before.
THEOREM SharedRollbackRestores ==
    ASSUME OneStore PROVE RotationSpec => []RollbackRestores
<1>1. SharedInv => RollbackRestores
  BY DEF SharedInv, Placed, RollbackRestores
<1>2. StepOK => RInv'
  BY DEF StepOK
<1>3. QED
  BY <1>1, <1>2, RotationStart, RotationStep, SharedStart, SharedStep, PTL
     DEF RotationSpec

\* Nor is a key of before a rotation trusted once the rotation has completed
\* forward.
THEOREM SharedOldKeysDropped ==
    ASSUME OneStore PROVE RotationSpec => OldKeysDropped
<1>1. PhaseTypeOK /\ SharedInv /\ [PhaseNext]_caVars =>
        \A ty \in CATypes :
            cas[ty].phase = "update_servers" /\ cas'[ty].phase = "standby"
                => origin[ty] \cap Trusted(cas'[ty]) = {}
  <2> SUFFICES ASSUME PhaseTypeOK, SharedInv, [PhaseNext]_caVars,
                      NEW ty \in CATypes, cas[ty].phase = "update_servers",
                      cas'[ty].phase = "standby"
               PROVE  origin[ty] \cap Trusted(cas'[ty]) = {}
    OBVIOUS
  <2>1. /\ cas[ty] \in CertAuthority /\ cas \in [CATypes -> CertAuthority]
        /\ Sound(cas[ty]) /\ origin[ty] = cas[ty].additional
    BY DEF PhaseTypeOK, SharedInv, Placed
  <2>2. ASSUME NEW tz \in CATypes, Start(tz) PROVE FALSE
    <3>1. tz = ty
      BY <2>1, <2>2 DEF Start
    <3>2. QED
      BY <2>1, <2>2, <3>1 DEF Start, CanEnter, Sound
  <2>3. ASSUME NEW tz \in CATypes, Enter(tz)
        PROVE  origin[ty] \cap Trusted(cas'[ty]) = {}
    <3>1. PICK target \in Phases \ {"init"}, mode \in Modes :
            /\ CanEnter(cas[tz], target)
            /\ cas' = [cas EXCEPT ![tz] = Entered(@, target, mode)]
      BY <2>3 DEF Enter
    <3>2. tz = ty
      BY <2>1, <3>1
    <3>3. cas'[ty] = Entered(cas[ty], target, mode)
      BY <2>1, <3>1, <3>2
    <3>4. target = "standby"
      BY <2>1, <3>1, <3>2, <3>3 DEF CertAuthority, CanEnter, Entered, Swap,
         updateClients, updateServers, startRollingBackRotation, Phases
    <3>5. QED
      BY <2>1, <3>3, <3>4
         DEF CertAuthority, Entered, completeRotation, Sound, Trusted
  <2>4. ASSUME NEW tz \in CATypes, Add(tz) PROVE FALSE
    <3>1. PICK k \in Keys : cas' = [cas EXCEPT ![tz] = AddKeys(@, {k})]
      BY <2>4 DEF Add
    <3>2. cas'[ty].phase = cas[ty].phase
      BY <2>1, <3>1 DEF AddKeys, CertAuthority
    <3>3. QED
      BY <3>2
  <2>5. CASE UNCHANGED caVars
    BY <2>5 DEF caVars
  <2>6. QED
    BY <2>2, <2>3, <2>4, <2>5 DEF PhaseNext
<1>2. StepOK => RInv' /\ [PhaseNext]_caVars
  BY DEF StepOK
<1>3. RInv => PhaseTypeOK
  BY DEF RInv, TypeOK, PhaseTypeOK
<1>4. QED
  BY <1>1, <1>2, <1>3, RotationStart, RotationStep, SharedStart, SharedStep, PTL
     DEF RotationSpec, OldKeysDropped
=============================================================================
