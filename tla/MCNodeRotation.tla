--------------------------- MODULE MCNodeRotation ---------------------------
(* Instances of NodeRotation for TLC. *)
EXTENDS NodeRotation

MCKeys == 1..(MaxRotations + 1)
MCIDs == 0..MaxRotations
=============================================================================
