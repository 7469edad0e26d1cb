---------------------------- MODULE MCLockWatcher ----------------------------
(* One lock, and one session after the other that it applies to.               *)
EXTENDS LockWatcher
AllTargets == [s \in Sessions |-> Names]
=============================================================================
