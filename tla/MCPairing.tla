----------------------------- MODULE MCPairing -----------------------------
(* Instances of Pairing for TLC. *)
EXTENDS Pairing, TLC

(* Sessions are interchangeable; so are agents. *)
Symmetric == Permutations(Agents) \cup Permutations(Sessions)
=============================================================================
