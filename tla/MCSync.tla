------------------------------- MODULE MCSync -------------------------------
(* Three devices for TLC, two record ids. *)
EXTENDS Sync, TLC

CONSTANTS d1, d2, d3, i1, i2

Ranks == (d1 :> 1) @@ (d2 :> 2) @@ (d3 :> 3)
AnyId == Permutations(Ids)
=============================================================================
