-------------------------- MODULE MCAccessRequest --------------------------
(* Instances of AccessRequest for TLC. *)
EXTENDS AccessRequest, TLC

MCThresholds ==
    << [approve |-> 2, deny |-> 2, filter |-> Authors],
       [approve |-> 1, deny |-> 1, filter |-> {"ann"}],
       [approve |-> 1, deny |-> 0, filter |-> {"bob", "cyd"}] >>
MCSets == ("dev" :> {{1, 2}} @@ "ops" :> {{1, 2}, {3}})

SameCalls == Permutations(Calls)
=============================================================================
