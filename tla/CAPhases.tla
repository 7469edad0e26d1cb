------------------------------ MODULE CAPhases ------------------------------
(***************************************************************************)
(* The certificate authority rotation of lib/auth/rotate.go as a state     *)
(* machine: what one rotation request does to one certificate authority,   *)
(* and the specification in which every request is atomic.  CARotation     *)
(* shows that concurrent auth servers implement it; NodeRotation puts the  *)
(* nodes of the cluster next to it.                                        *)
(*                                                                         *)
(* A certificate authority is the set of keys that sign, the set of keys   *)
(* that are trusted besides, and the rotation record.  SSH, TLS and JWT    *)
(* key pairs are made, moved and dropped together, so a CAKeySet is a set  *)
(* of keys.  The times of the rotation record are left out: a schedule     *)
(* decides only when a phase may be entered, never which one.              *)
(***************************************************************************)
EXTENDS Naturals

CONSTANTS
    CATypes,    \* HostCA, UserCA, JWTSigner
    Keys,       \* the keys a rotation may generate
    IDs         \* rotation ids

VARIABLES
    cas,        \* the certificate authorities in the backend, one per type
    origin      \* history: the active keys when the last rotation was started

caVars == <<cas, origin>>

Phases == {"standby", "init", "update_clients", "update_servers", "rollback"}
Modes == {"", "manual", "auto"}
States == {"standby", "in_progress"}

CertAuthority ==
    [active : SUBSET Keys, additional : SUBSET Keys,
     state : States, phase : Phases, mode : Modes, id : IDs]

Trusted(ca) == ca.active \cup ca.additional

\* Rotation.Matches: the fields that tell whether a component is in sync.
Matches(r, s) == r.id = s.id /\ r.state = s.state /\ r.phase = s.phase

-----------------------------------------------------------------------------
\* startNewRotation.  forced is a grace period of zero; newKeys holds the
\* additional keys that were there and, if need be, a local one.
startNewRotation(ca, mode, forced, newKeys, id) ==
    IF forced
      THEN [ca EXCEPT !.active = newKeys, !.state = "standby",
                      !.phase = "standby", !.mode = mode, !.id = id]
      ELSE [ca EXCEPT !.additional = newKeys, !.state = "in_progress",
                      !.phase = "init", !.mode = mode, !.id = id]

Swap(ca) == [ca EXCEPT !.active = ca.additional, !.additional = ca.active]

\* Mutant: the old keys are not kept as trusted.
updateClientsDrops(ca, mode) ==
    [ca EXCEPT !.active = ca.additional, !.additional = {},
               !.state = "in_progress", !.phase = "update_clients",
               !.mode = mode]

updateClients(ca, mode) ==
    [Swap(ca) EXCEPT !.state = "in_progress", !.phase = "update_clients",
                     !.mode = mode]

updateServers(ca, mode) ==
    [ca EXCEPT !.phase = "update_servers", !.mode = mode]

\* Mutant: the keys are swapped although they never were.
startRollingBackRotationSwaps(ca) ==
    [Swap(ca) EXCEPT !.mode = "manual", !.state = "in_progress",
                     !.phase = "rollback"]

\* The keys have been swapped in every phase but init.
startRollingBackRotation(ca) ==
    [(IF ca.phase = "init" THEN ca ELSE Swap(ca))
        EXCEPT !.mode = "manual", !.state = "in_progress", !.phase = "rollback"]

\* Mutant: the additional keys stay.
completeRotationKeeps(ca) ==
    [ca EXCEPT !.state = "standby", !.phase = "standby", !.mode = ""]

completeRotation(ca) ==
    [ca EXCEPT !.additional = {}, !.state = "standby", !.phase = "standby",
               !.mode = ""]

\* processRotationRequest: the phases a target phase may be entered from.
CanEnter(ca, target) ==
    CASE target = "init" -> ca.state = "standby"
      [] target = "update_clients" -> ca.phase = "init"
      [] target = "update_servers" -> ca.phase = "update_clients"
      [] target = "rollback" ->
             ca.phase \in {"init", "update_clients", "update_servers"}
      [] target = "standby" -> ca.phase \in {"update_servers", "rollback"}

\* The certificate authority a request to enter any phase but init makes.
Entered(ca, target, mode) ==
    CASE target = "update_clients" -> updateClients(ca, mode)
      [] target = "update_servers" -> updateServers(ca, mode)
      [] target = "rollback" -> startRollingBackRotation(ca)
      [] target = "standby" -> completeRotation(ca)

\* addAddtionalTrustedKeysAtomic: newKeys join the additional keys.
AddKeys(ca, newKeys) == [ca EXCEPT !.additional = @ \cup newKeys]

-----------------------------------------------------------------------------
StandbyCA(keys, id) ==
    [active |-> keys, additional |-> {}, state |-> "standby",
     phase |-> "standby", mode |-> "", id |-> id]

PhaseInit ==
    /\ \E keys \in [CATypes -> SUBSET Keys], id \in IDs :
         cas = [ty \in CATypes |-> StandbyCA(keys[ty], id)]
    /\ origin = [ty \in CATypes |-> cas[ty].active]

Start(ty) ==
    /\ CanEnter(cas[ty], "init")
    /\ \E mode \in Modes \ {""}, forced \in BOOLEAN,
          newKeys \in SUBSET Keys, id \in IDs :
         /\ newKeys # {} /\ cas[ty].additional \subseteq newKeys
         /\ id # cas[ty].id
         /\ cas' = [cas EXCEPT ![ty] =
                        startNewRotation(@, mode, forced, newKeys, id)]
    /\ origin' = [origin EXCEPT ![ty] = cas[ty].active]

Enter(ty) ==
    /\ \E target \in Phases \ {"init"}, mode \in Modes :
         /\ CanEnter(cas[ty], target)
         /\ cas' = [cas EXCEPT ![ty] = Entered(@, target, mode)]
    /\ UNCHANGED origin

Add(ty) ==
    /\ \E k \in Keys : cas' = [cas EXCEPT ![ty] = AddKeys(@, {k})]
    /\ UNCHANGED origin

PhaseNext == \E ty \in CATypes : Start(ty) \/ Enter(ty) \/ Add(ty)

PhaseSpec == PhaseInit /\ [][PhaseNext]_caVars

-----------------------------------------------------------------------------
\* The keys that signed before the rotation are never out of reach: whatever
\* the servers do to each other, up to the end of the rotation they are the
\* active keys or, once swapped, among the trusted ones a rollback brings back.
OriginRecoverable ==
    \A ty \in CATypes :
        /\ cas[ty].phase \in {"init", "rollback"} =>
               origin[ty] \subseteq cas[ty].active
        /\ cas[ty].phase \in {"update_clients", "update_servers"} =>
               origin[ty] \subseteq cas[ty].additional

\* A rollback takes the cluster back to the original state: the active keys
\* are those of before, and no key of the rotation among them.
RollbackRestores ==
    \A ty \in CATypes :
        cas[ty].phase = "rollback" => cas[ty].active = origin[ty]

\* No step takes trust from a key that may just have signed, except a
\* rotation without grace period, which is meant to.
SigningKeysTrusted ==
    [][\A ty \in CATypes :
          \/ cas[ty].active \subseteq Trusted(cas'[ty])
          \/ cas'[ty].id # cas[ty].id /\ cas'[ty].state = "standby"]_caVars

\* A rotation that completes forward removes the old authority: none of the
\* keys that signed before it is trusted after.
OldKeysDropped ==
    [][\A ty \in CATypes :
          cas[ty].phase = "update_servers" /\ cas'[ty].phase = "standby"
              => origin[ty] \cap Trusted(cas'[ty]) = {}]_caVars
=============================================================================
