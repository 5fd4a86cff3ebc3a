--------------------------- MODULE MCPairingCrash ---------------------------
(* An instance of PairingCrash for TLC. *)
EXTENDS PairingCrash, TLC

Symmetric == Permutations(Agents) \cup Permutations(Sessions)
=============================================================================
