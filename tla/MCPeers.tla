------------------------------ MODULE MCPeers ------------------------------
(* One peer with a fingerprint and a false one, for TLC. *)
EXTENDS Peers, TLC

CONSTANTS d1, p1, p2, c1, c2

Symmetry == Permutations(Prints) \cup Permutations(Codes)
=============================================================================
