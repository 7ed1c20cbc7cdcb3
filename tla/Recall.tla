------------------------------- MODULE Recall -------------------------------
(***************************************************************************)
(* How memories are found and packed: MemoryStore::search and neighbors,   *)
(* and igris-context, which compiles what was found into a bundle for a    *)
(* prompt.  Pure: a table is a function from ids to memories, each         *)
(* [words, length, importance, live], edges are pairs of ids.  Words       *)
(* stand for what the full-text index and LIKE look at, length for the     *)
(* characters of the content.                                              *)
(***************************************************************************)
EXTENDS Integers, Sequences, FiniteSets

Lesser(x, y) == IF x < y THEN x ELSE y
Elements(seq) == {seq[i] : i \in DOMAIN seq}
Orders(ids) ==
  {seq \in [1..Cardinality(ids) -> ids] : Elements(seq) = ids}

(***************************************************************************)
(* Search.                                                                 *)
(***************************************************************************)
\* fts_query: any of the first eight words.
Asked(query) == {query[i] : i \in 1..Lesser(8, Len(query))}

Found(table, query) == {m \in DOMAIN table : table[m].live /\ table[m].words \cap Asked(query) # {}}

\* LIKE finds a content with the whole query in it, which is short for a text
\* that has all its words.
Alike(table, query) ==
  {m \in DOMAIN table : table[m].live /\ Elements(query) \subseteq table[m].words}

\* ORDER BY importance DESC LIMIT: the database chooses between equals.
Ranked(table, ids, limit) ==
  {SubSeq(seq, 1, Lesser(limit, Len(seq))) :
     seq \in {o \in Orders(ids) : \A i, j \in DOMAIN o :
                i < j => table[o[i]].importance >= table[o[j]].importance}}

\* What search() may return.
Search(table, query, limit) ==
  IF Found(table, query) # {} /\ limit > 0
  THEN Ranked(table, Found(table, query), limit)
  ELSE Ranked(table, Alike(table, query), limit)

(***************************************************************************)
(* The bundle.                                                             *)
(***************************************************************************)
\* sort_by importance, most important first; the sort is stable.
RECURSIVE Sorted(_, _)
Sorted(table, ids) ==
  IF ids = <<>> THEN <<>>
  ELSE LET rest == Sorted(table, Tail(ids))
           before == {i \in DOMAIN rest : table[rest[i]].importance > table[Head(ids)].importance}
           k == Cardinality(before)
       IN  SubSeq(rest, 1, k) \o <<Head(ids)>> \o SubSeq(rest, k + 1, Len(rest))

\* dedup_by: equal neighbours only.
Deduplicated(ids) ==
  LET Keep(i) == i = 1 \/ ids[i] # ids[i - 1]
  IN  [k \in 1..Cardinality({i \in DOMAIN ids : Keep(i)}) |->
         ids[CHOOSE i \in DOMAIN ids : Keep(i) /\ Cardinality({j \in 1..i : Keep(j)}) = k]]

\* The loop over the records: one that does not fit is passed over.
RECURSIVE Packed(_, _, _, _)
Packed(table, ids, used, budget) ==
  IF ids = <<>> THEN <<>>
  ELSE LET total == used + table[Head(ids)].length
       IN  IF total > budget THEN Packed(table, Tail(ids), used, budget)
           ELSE <<Head(ids)>> \o Packed(table, Tail(ids), total, budget)

\* ContextBundle::compile
Compile(table, ids, budget) == Packed(table, Deduplicated(Sorted(table, ids)), 0, budget)

\* prefetch
Prefetch(table, query, limit, budget) ==
  {Compile(table, hits, budget) : hits \in Search(table, query, limit)}

(***************************************************************************)
(* The graph.                                                              *)
(***************************************************************************)
\* add_edge, and the UNION over both directions.
WithEdge(edges, from, to) == edges \cup {<<from, to>>}
Adjacent(edges, m) == {n \in {e[1] : e \in edges} \cup {e[2] : e \in edges} :
                         <<m, n>> \in edges \/ <<n, m>> \in edges}

\* The loop of neighbors(): a queue of ids with their distance.
RECURSIVE Visit(_, _, _, _)
Visit(edges, queue, seen, depth) ==
  IF queue = <<>> THEN seen
  ELSE LET m == Head(queue)[1]
           d == Head(queue)[2]
           new == IF d >= depth THEN {} ELSE Adjacent(edges, m) \ seen
           added == CHOOSE o \in Orders(new) : TRUE
       IN  Visit(edges, Tail(queue) \o [i \in DOMAIN added |-> <<added[i], d + 1>>],
                 seen \cup new, depth)

\* neighbors(): tombstones and expired memories are walked through and left
\* out of the answer.
Neighbors(table, edges, m, depth) ==
  {n \in Visit(edges, <<<<m, 0>>>>, {m}, Lesser(depth, 3)) \ {m} :
     n \in DOMAIN table /\ table[n].live}

(***************************************************************************)
(* What these promise, for TLC to compare over small inputs.               *)
(***************************************************************************)
RECURSIVE Chars(_, _)
Chars(table, ids) ==
  IF ids = <<>> THEN 0 ELSE table[Head(ids)].length + Chars(table, Tail(ids))

\* compile(): the budget is kept; nothing that would still fit is left out;
\* and no memory is passed over unless the more important ones leave no room.
BestContext(table, ids, budget) ==
  LET bundle == Compile(table, ids, budget)
      Above(m) == SelectSeq(bundle, LAMBDA n : table[n].importance >= table[m].importance)
  IN  /\ Chars(table, bundle) <= budget
      /\ Elements(bundle) \subseteq Elements(ids)
      /\ \A m \in Elements(ids) \ Elements(bundle) :
           Chars(table, Above(m)) + table[m].length > budget

\* prefetch(): a context holds no memory that was forgotten, none twice, and
\* is empty only if no match is short enough.
SoundPrefetch(table, query, limit, budget) ==
  \A bundle \in Prefetch(table, query, limit, budget) :
    /\ \A i, j \in DOMAIN bundle : bundle[i] = bundle[j] => i = j
    /\ \A i \in DOMAIN bundle : table[bundle[i]].live
    /\ Len(bundle) <= limit

\* neighbors(): who is reached in at most `depth` hops, and never in more than
\* three, whichever way the edges were drawn.
Within(edges, m, depth) ==
  LET hop[d \in 0..depth] ==
        IF d = 0 THEN {m} ELSE hop[d - 1] \cup UNION {Adjacent(edges, n) : n \in hop[d - 1]}
  IN  hop[depth]

SoundNeighbors(table, edges, m, depth) ==
  Neighbors(table, edges, m, depth)
    = {n \in Within(edges, m, Lesser(depth, 3)) \ {m} : n \in DOMAIN table /\ table[n].live}
=============================================================================
