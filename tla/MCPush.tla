------------------------------- MODULE MCPush -------------------------------
(* An instance of Push for TLC. *)
EXTENDS Push, TLC

(* Agents, phones and deliveries are interchangeable. *)
Symmetric == Permutations(Agents) \cup Permutations(Tokens) \cup Permutations(Deliveries)
=============================================================================
