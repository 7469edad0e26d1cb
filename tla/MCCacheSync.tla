---------------------------- MODULE MCCacheSync -----------------------------
(* Instances of CacheSync for TLC. *)
EXTENDS CacheSync
=============================================================================
