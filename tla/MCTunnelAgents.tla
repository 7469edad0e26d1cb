---------------------------- MODULE MCTunnelAgents ----------------------------
(* Two proxies; three slots, since a slot whose discovery goroutine has names *)
(* left is not free while two leases are out.                                 *)
EXTENDS TunnelAgents
=============================================================================
