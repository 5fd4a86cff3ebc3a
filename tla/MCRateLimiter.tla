--------------------------- MODULE MCRateLimiter ---------------------------
(* An instance of RateLimiter for TLC: two pairing codes tried from one     *)
(* address, and the status poll of one agent.                               *)
EXTENDS RateLimiter

CONSTANTS pair1, pair2, ip, status

MCKeys == {pair1, pair2, ip, status}
MCMax == [k \in MCKeys |-> CASE k = ip -> 3 [] k = status -> 1 [] OTHER -> 2]
MCWindow == [k \in MCKeys |-> IF k = status THEN 1 ELSE 2]
MCRequests == {<<pair1, ip>>, <<pair2, ip>>, <<status>>}
=============================================================================
