------------------------------ MODULE MCTunnel ------------------------------
(* Instances of Tunnel for TLC. *)
EXTENDS Tunnel, TLC

(* Sound where no liveness property is checked. *)
Symmetric == Permutations(Sockets) \cup Permutations(Requests)
=============================================================================
