---------------------------- MODULE MCTransfer ----------------------------
(* A small offer for TLC: fa of two parts with a checksum, fb of one without. *)
EXTENDS Transfer, TLC

CONSTANTS fa, fb, r1, r2

Sizes == [x \in Files |-> IF x = fa THEN 2 ELSE 1]
AnyRequest == Permutations(Requests)
===========================================================================
