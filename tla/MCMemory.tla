------------------------------ MODULE MCMemory ------------------------------
(* Two stores on one clock and a memory that may expire, for TLC; and small *)
(* tables and graphs on which recall is compared with what it promises.    *)
EXTENDS Memory, Recall, TLC

CONSTANTS m1, s1, s2

SameKind == [i \in Ids |-> "goal"]
NoSkew == [s \in Stores |-> 0]
LifetimesUsed == {2}
AgesUsed == {0, 1}
Symmetry == Permutations(Stores)

Weighed == [1..3 -> [words : {{"x"}}, length : 1..3, importance : 1..2, live : {TRUE}]]
Worded == [1..3 -> [words : {{"x"}, {"x", "y"}}, length : {3}, importance : 1..2, live : BOOLEAN]]
Plain == [m \in 1..5 |-> [words |-> {}, length |-> 1, importance |-> 1, live |-> m # 2]]
Chain == {<<1, 2>>, <<3, 2>>, <<3, 4>>, <<4, 5>>}

ASSUME \A table \in Weighed, ids \in Orders(1..3) \cup {<<1, 2>>, <<1, 1, 2>>}, budget \in 0..7 :
  BestContext(table, ids, budget)
ASSUME \A table \in Worded, query \in {<<"x">>, <<"y", "x">>, <<"z">>}, limit \in 0..3 :
  SoundPrefetch(table, query, limit, 7)
ASSUME \A edges \in SUBSET (Chain \cup {<<1, 5>>, <<2, 4>>, <<3, 3>>}), m \in 1..5, depth \in 0..5 :
  SoundNeighbors(Plain, edges, m, depth)
\* Through the forgotten memory 2, and not farther than three hops.
ASSUME Neighbors(Plain, WithEdge(Chain, 5, 5), 1, 4) = {3, 4}
=============================================================================
