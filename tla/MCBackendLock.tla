--------------------------- MODULE MCBackendLock ---------------------------
(* The lock of BackendLock between two calls that refresh it. *)
EXTENDS BackendLock
=============================================================================
