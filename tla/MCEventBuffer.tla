--------------------------- MODULE MCEventBuffer ----------------------------
(* Instances of EventBuffer for TLC: one watcher of every key, one of some. *)
EXTENDS EventBuffer, TLC

MCWatches == "w1" :> {"k1", "k2"} @@ "w2" :> {"k1"}
=============================================================================
