---------------------------- MODULE MCCARotation ----------------------------
(* Instances of CARotation for TLC. *)
EXTENDS CARotation

MCKeys == Stores \X (1..MaxKeys)
MCIDs == 0..MaxRotations

\* All servers keep raw keys, which every one of them can use.
OneStore == [t \in Tasks |-> "raw"]

\* Two servers, each with a store of its own.
TwoStores == [t \in Tasks |-> IF t = "t1" THEN "hsm1" ELSE "hsm2"]

OneType == <<"host">>
TwoTypes == <<"host", "user">>
=============================================================================
