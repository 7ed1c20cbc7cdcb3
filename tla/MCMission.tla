----------------------------- MODULE MCMission -----------------------------
(* Small missions for TLC. *)
EXTENDS Mission, TLC

CONSTANTS a, b, c, e1, e2

\* a (verified by hand) and b are independent, c waits for both.
DiamondDeps == [n \in Nodes |-> IF n = c THEN {a, b} ELSE {}]
\* The seeded FIELD mission: a chain.
ChainDeps == [n \in Nodes |-> IF n = b THEN {a} ELSE IF n = c THEN {b} ELSE {}]
OneRetry == [n \in Nodes |-> IF n = b THEN 1 ELSE 0]

TwoExecutors == Permutations({e1, e2})
============================================================================
