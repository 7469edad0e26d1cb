----------------------------- MODULE CARotation -----------------------------
(***************************************************************************)
(* Auth servers that rotate the certificate authorities they share:        *)
(* RotateCertAuthority, autoRotateCertAuthorities and autoRotate of        *)
(* lib/auth/rotate.go, ensureLocalAdditionalKeys and                       *)
(* addAddtionalTrustedKeysAtomic of lib/auth/auth.go, and the check for    *)
(* local keys at start of lib/auth/init.go.                                *)
(*                                                                         *)
(* A task is a goroutine of some auth server: the handler of one request,  *)
(* the ticker of runPeriodicOperations, or the start of the server.  It    *)
(* reads one authority, computes the next one from what it has read, and   *)
(* writes it with a compare-and-swap; then it turns to the next type.  A   *)
(* read and a write are one step each, so everything another task does in  *)
(* between is there.                                                       *)
(***************************************************************************)
EXTENDS CAPhases, Sequences

CONSTANTS
    TypeOrder,      \* the order in which requests and the ticker visit CATypes
    HostCA,         \* the type whose local keys a starting server makes sure of
    Tasks,          \* goroutines of the auth servers
    Stores,         \* key stores: one that all servers without an HSM share,
                    \* and one per HSM
    StoreOf,        \* the store of the server each task runs on
    FirstStore,     \* the store that made the keys of the first start
    MaxKeys,        \* bound: keys made in one store
    MaxRotations,   \* bound: rotations started
    MaxRequests,    \* bound: requests to RotateCertAuthority
    RequestModes,   \* the modes requests ask for
    ForcedAllowed   \* whether requests may come with a zero grace period

ASSUME RotationAssumption ==
    /\ TypeOrder \in Seq(CATypes) /\ Len(TypeOrder) > 0
    /\ HostCA \in CATypes
    /\ StoreOf \in [Tasks -> Stores]
    /\ FirstStore \in Stores
    /\ MaxKeys \in Nat /\ MaxRotations \in Nat /\ MaxRequests \in Nat
    /\ RequestModes \subseteq {"manual", "auto"}
    /\ ForcedAllowed \in BOOLEAN
    /\ Keys = Stores \X (1..MaxKeys)
    /\ IDs = 0..MaxRotations
    /\ MaxKeys > 0

VARIABLES
    task,       \* what each task is doing
    made,       \* keys made in each store so far
    rotations,  \* rotation ids handed out so far
    requests    \* requests received so far

vars == <<cas, origin, task, made, rotations, requests>>
counters == <<made, rotations, requests>>

-----------------------------------------------------------------------------
NoCA == StandbyCA({}, 0)

Idle == [pc |-> "idle", kind |-> "none", todo |-> <<>>, target |-> "standby",
         mode |-> "", forced |-> FALSE, old |-> NoCA, new |-> NoCA, key |-> {}]

Task ==
    [pc : {"idle", "get", "cas", "addcas", "addget"},
     kind : {"none", "request", "ticker", "start"},
     todo : Seq(CATypes),
     target : Phases, mode : Modes, forced : BOOLEAN,
     old : CertAuthority, new : CertAuthority, key : SUBSET Keys]

TypeOK ==
    /\ cas \in [CATypes -> CertAuthority]
    /\ origin \in [CATypes -> SUBSET Keys]
    /\ task \in [Tasks -> Task]
    /\ made \in [Stores -> 0..MaxKeys]
    /\ rotations \in 0..MaxRotations
    /\ requests \in 0..MaxRequests

\* keySetHasLocalKeys: a store can use the keys it made.
HasLocalKeys(t, keys) == \E k \in keys : k[1] = StoreOf[t]

CanMakeKey(t) == made[StoreOf[t]] < MaxKeys
NextKey(t) == <<StoreOf[t], made[StoreOf[t]] + 1>>
MakeKey(t) == made' = [made EXCEPT ![StoreOf[t]] = @ + 1]

RotationInit ==
    /\ cas = [ty \in CATypes |-> StandbyCA({<<FirstStore, 1>>}, 0)]
    /\ origin = [ty \in CATypes |-> cas[ty].active]
    /\ task = [t \in Tasks |-> Idle]
    /\ made = [s \in Stores |-> IF s = FirstStore THEN 1 ELSE 0]
    /\ rotations = 0
    /\ requests = 0

Set(t, record) == task' = [task EXCEPT ![t] = record]

\* The type a task is working on.
Current(t) == Head(task[t].todo)

\* The task is done with one type and turns to the next one.
NextType(t) ==
    Set(t, IF Len(task[t].todo) = 1
             THEN Idle
             ELSE [task[t] EXCEPT !.pc = "get", !.todo = Tail(task[t].todo),
                                  !.old = NoCA, !.new = NoCA, !.key = {}])

\* The task returns an error and leaves the types that remain alone.
Fails(t) == Set(t, Idle)

-----------------------------------------------------------------------------
\* RotateCertAuthority is called, for all types or for one.
Request(t) ==
    /\ task[t].pc = "idle"
    /\ requests < MaxRequests
    /\ requests' = requests + 1
    /\ \E target \in Phases, mode \in RequestModes,
          forced \in IF ForcedAllowed THEN BOOLEAN ELSE {FALSE},
          todo \in {TypeOrder} \cup {<<ty>> : ty \in CATypes} :
         Set(t, [Idle EXCEPT !.pc = "get", !.kind = "request",
                             !.todo = todo, !.target = target,
                             !.mode = mode, !.forced = forced])
    /\ UNCHANGED <<cas, origin, made, rotations>>

\* The authority a task has read and the one it is about to write.
Pending(t, ca, new) ==
    Set(t, [task[t] EXCEPT !.pc = "cas", !.old = ca, !.new = new])

\* RotateCertAuthority reads an authority in standby and starts a rotation:
\* the additional keys stay, and a store that has none there makes one.
StartGet(t) ==
    LET ca == cas[Current(t)]
        local == HasLocalKeys(t, ca.additional)
        newKeys == ca.additional \cup (IF local THEN {} ELSE {NextKey(t)})
    IN  /\ task[t].pc = "get" /\ task[t].kind = "request"
        /\ task[t].target = "init"
        /\ CanEnter(ca, "init")
        /\ rotations < MaxRotations
        /\ IF local THEN UNCHANGED made ELSE CanMakeKey(t) /\ MakeKey(t)
        /\ rotations' = rotations + 1
        /\ Pending(t, ca, startNewRotation(ca, task[t].mode, task[t].forced,
                                           newKeys, rotations + 1))
        /\ UNCHANGED <<cas, origin, requests>>

\* RotateCertAuthority reads an authority and moves it to another phase.
EnterGet(t) ==
    LET ca == cas[Current(t)]
        target == task[t].target
    IN  /\ task[t].pc = "get" /\ task[t].kind = "request"
        /\ target # "init"
        /\ CanEnter(ca, target)
        /\ Pending(t, ca, Entered(ca, target, task[t].mode))
        /\ UNCHANGED <<cas, origin, counters>>

\* processRotationRequest refuses; the types after this one are not reached.
RequestRefused(t) ==
    /\ task[t].pc = "get" /\ task[t].kind = "request"
    /\ ~CanEnter(cas[Current(t)], task[t].target)
    /\ Fails(t)
    /\ UNCHANGED <<cas, origin, counters>>

-----------------------------------------------------------------------------
\* ensureLocalAdditionalKeys, up to the first compare-and-swap of
\* addAddtionalTrustedKeysAtomic; ca is what the caller has read.
EnsureLocal(t, ca) ==
    IF HasLocalKeys(t, ca.additional)
      THEN NextType(t) /\ UNCHANGED made
      ELSE /\ CanMakeKey(t)
           /\ MakeKey(t)
           /\ Set(t, [task[t] EXCEPT !.pc = "addcas", !.old = ca,
                                     !.new = AddKeys(ca, {NextKey(t)}),
                                     !.key = {NextKey(t)}])

\* The ticker of runPeriodicOperations fires.
Ticker(t) ==
    /\ task[t].pc = "idle"
    /\ Set(t, [Idle EXCEPT !.pc = "get", !.kind = "ticker", !.todo = TypeOrder])
    /\ UNCHANGED <<cas, origin, counters>>

\* Mutant: the schedule ends with the servers.
ScheduledStops == [phase \in {"init", "update_clients"} |->
                     IF phase = "init" THEN "update_clients" ELSE "update_servers"]

\* autoRotate: the phase that follows on the schedule.
Scheduled == [phase \in {"init", "update_clients", "update_servers"} |->
                CASE phase = "init" -> "update_clients"
                  [] phase = "update_clients" -> "update_servers"
                  [] phase = "update_servers" -> "standby"]

AutoRotates(ca) == ca.mode = "auto" /\ ca.state = "in_progress"

\* autoRotate finds an authority that is due for its next phase.
TickerDue(t) ==
    LET ca == cas[Current(t)]
    IN  /\ task[t].pc = "get" /\ task[t].kind = "ticker"
        /\ AutoRotates(ca)
        /\ ca.phase \in DOMAIN Scheduled
        /\ Pending(t, ca, Entered(ca, Scheduled[ca.phase], "auto"))
        /\ UNCHANGED <<cas, origin, counters>>

\* autoRotate finds nothing to do, or that it is too early; in the init phase
\* the server makes sure that it has an additional key of its own.
TickerNotDue(t) ==
    LET ca == cas[Current(t)]
    IN  /\ task[t].pc = "get" /\ task[t].kind = "ticker"
        /\ IF ca.phase = "init" THEN EnsureLocal(t, ca)
                                ELSE NextType(t) /\ UNCHANGED made
        /\ UNCHANGED <<cas, origin, rotations, requests>>

\* A server starts and finds no key of its own among the active keys of the
\* host authority.
StartServer(t) ==
    LET ca == cas[HostCA]
    IN  /\ task[t].pc = "idle"
        /\ ~HasLocalKeys(t, ca.active)
        /\ ~HasLocalKeys(t, ca.additional)
        /\ CanMakeKey(t)
        /\ MakeKey(t)
        /\ Set(t, [Idle EXCEPT !.pc = "addcas", !.kind = "start",
                       !.todo = <<HostCA>>, !.old = ca,
                       !.new = AddKeys(ca, {NextKey(t)}),
                       !.key = {NextKey(t)}])
        /\ UNCHANGED <<cas, origin, rotations, requests>>

-----------------------------------------------------------------------------
\* Mutant: the authority is overwritten, whatever it is by now.
WriteBlind(t) ==
    LET ty == Current(t)
    IN  /\ cas' = [cas EXCEPT ![ty] = task[t].new]
        /\ origin' = IF task[t].new.id # task[t].old.id
                       THEN [origin EXCEPT ![ty] = task[t].old.active]
                       ELSE origin

\* CompareAndSwap of the backend: the authority must still be the one read.
Write(t) ==
    LET ty == Current(t)
    IN  /\ cas[ty] = task[t].old
        /\ cas' = [cas EXCEPT ![ty] = task[t].new]
        /\ origin' = IF task[t].new.id # task[t].old.id
                       THEN [origin EXCEPT ![ty] = task[t].old.active]
                       ELSE origin

\* CompareAndSwapCertAuthority succeeds.  After a scheduled transition out of
\* init the ticker still goes by the authority it had read before.
CompareAndSwap(t) ==
    /\ task[t].pc = "cas"
    /\ Write(t)
    /\ IF task[t].kind = "ticker" /\ task[t].old.phase = "init"
         THEN EnsureLocal(t, task[t].old)
         ELSE NextType(t) /\ UNCHANGED made
    /\ UNCHANGED <<rotations, requests>>

\* The authority has been updated concurrently.
CompareFailed(t) ==
    /\ task[t].pc = "cas"
    /\ cas[Current(t)] # task[t].old
    /\ Fails(t)
    /\ UNCHANGED <<cas, origin, counters>>

\* addAddtionalTrustedKeysAtomic succeeds.
AddSwap(t) ==
    /\ task[t].pc = "addcas"
    /\ Write(t)
    /\ NextType(t)
    /\ UNCHANGED counters

\* It fails because of a concurrent update and goes around.
AddConflict(t) ==
    /\ task[t].pc = "addcas"
    /\ cas[Current(t)] # task[t].old
    /\ Set(t, [task[t] EXCEPT !.pc = "addget"])
    /\ UNCHANGED <<cas, origin, counters>>

\* It reads the authority again, whatever phase that is in by now.
AddGet(t) ==
    LET ca == cas[Current(t)]
    IN  /\ task[t].pc = "addget"
        /\ IF HasLocalKeys(t, ca.additional)
             THEN NextType(t)
             ELSE Set(t, [task[t] EXCEPT !.pc = "addcas", !.old = ca,
                                         !.new = AddKeys(ca, task[t].key)])
        /\ UNCHANGED <<cas, origin, counters>>

\* The server stops or a backend call fails; a write whose answer is lost has
\* happened nevertheless.
BackendFails(t) ==
    /\ task[t].pc # "idle"
    /\ Fails(t)
    /\ \/ UNCHANGED <<cas, origin>>
       \/ task[t].pc \in {"cas", "addcas"} /\ Write(t)
    /\ UNCHANGED counters

TaskStep(t) ==
    \/ StartGet(t) \/ EnterGet(t) \/ RequestRefused(t)
    \/ TickerDue(t) \/ TickerNotDue(t)
    \/ CompareAndSwap(t) \/ CompareFailed(t)
    \/ AddSwap(t) \/ AddConflict(t) \/ AddGet(t)

RotationNext ==
    \E t \in Tasks : \/ Request(t) \/ Ticker(t) \/ StartServer(t)
                     \/ TaskStep(t) \/ BackendFails(t)

RotationSpec == RotationInit /\ [][RotationNext]_vars

\* The ticker fires again and again and every goroutine that has work goes
\* on; a phase is due in the end, and a read or a write that is tried again
\* and again does not fail every time.  Nothing obliges anyone to send a
\* request, to fail or to start.
RotationFairness ==
    \A t \in Tasks :
        /\ WF_vars(Ticker(t))
        /\ WF_vars(TaskStep(t))
        /\ SF_vars(TickerDue(t))
        /\ SF_vars(TickerNotDue(t))
        /\ SF_vars(CompareAndSwap(t))

FairRotationSpec == RotationSpec /\ RotationFairness

-----------------------------------------------------------------------------
\* autoRotate never meets the phase it calls not supported.
AutoPhaseSupported ==
    \A ty \in CATypes : AutoRotates(cas[ty]) => cas[ty].phase \in DOMAIN Scheduled

\* A rotation in automatic mode runs to its end, or someone rolls it back or
\* takes it over by hand, although the servers' tickers race each other.
AutoCompletes ==
    \A ty \in CATypes : AutoRotates(cas[ty]) ~> ~AutoRotates(cas[ty])
=============================================================================
