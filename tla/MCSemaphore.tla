----------------------------- MODULE MCSemaphore -----------------------------
(* Two holders compete for one lease, for two renewals of it. *)
EXTENDS Semaphore
=============================================================================
