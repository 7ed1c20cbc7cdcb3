-------------------------- MODULE AnsweringProofs --------------------------
(***************************************************************************)
(* Proofs about deciding and routing: for any providers, statistics,       *)
(* texts and policies, nothing is sent where it must not go, the cache's   *)
(* map and queue agree, and what it remembers of a risky text asks for     *)
(* approval.  For providers like those of with_defaults() no request is    *)
(* sent to one that exceeds its budget.                                    *)
(***************************************************************************)
EXTENDS Answering, SequenceTheorems, FunctionTheorems, FiniteSetTheorems, TLAPS

(***************************************************************************)
(* The cache.                                                              *)
(***************************************************************************)
\* What put() adds is the decision, and what it keeps it keeps as it was.
LEMMA PutKeeps ==
  ASSUME NEW t, NEW d, Put(t, d)
  PROVE  /\ DOMAIN cache' \subseteq DOMAIN cache \cup {t}
         /\ \A u \in DOMAIN cache' : cache'[u] = d \/ (u \in DOMAIN cache /\ cache'[u] = cache[u])
         /\ \A u \in DOMAIN cache' : u \notin DOMAIN cache => u = t /\ cache'[u] = d
         /\ \A u \in DOMAIN cache' : u # t => u \in DOMAIN cache /\ cache'[u] = cache[u]
<1> DEFINE all == Append(cacheOrder, t)
           kept == IF Len(all) > CacheCap THEN SubSeq(all, Len(all) - CacheCap + 1, Len(all)) ELSE all
           map == Evicted(kept)
<1>1. cache' = [u \in DOMAIN map \cup {t} |-> IF u = t THEN d ELSE map[u]]
  BY DEF Put
<1> HIDE DEF kept
<1>2. DOMAIN map \subseteq DOMAIN cache /\ \A u \in DOMAIN map : map[u] = cache[u]
  BY DEF Evicted
<1> HIDE DEF map
<1> QED
  BY <1>1, <1>2

\* The queue remains a queue of texts.
LEMMA PutQueue ==
  ASSUME NEW t \in Texts, NEW d, Put(t, d), cacheOrder \in Seq(Texts), CacheCap \in Nat
  PROVE  cacheOrder' \in Seq(Texts)
<1> DEFINE all == Append(cacheOrder, t)
<1>1. all \in Seq(Texts) /\ Len(all) \in Nat
  BY DEF all
<1>2. cacheOrder' = all
        \/ (Len(all) > CacheCap /\ cacheOrder' = SubSeq(all, Len(all) - CacheCap + 1, Len(all)))
  BY DEF Put
<1> HIDE DEF all
<1>3. CASE Len(all) > CacheCap
  <2> DEFINE first == Len(all) - CacheCap + 1
             last == Len(all)
  <2>1. first \in Int /\ last \in Int /\ first..last \subseteq 1..last
    BY <1>1, <1>3
  <2>2. \A i \in first..last : all[i] \in Texts
    BY <1>1, <2>1
  <2>3. cacheOrder' = SubSeq(all, first, last) \/ cacheOrder' = all
    BY <1>2
  <2> HIDE DEF first, last
  <2>4. SubSeq(all, first, last) \in Seq(Texts)
    BY <2>1, <2>2, SubSeqProperties, Zenon
  <2> QED
    BY <1>1, <2>3, <2>4, Zenon
<1> QED
  BY <1>1, <1>2, <1>3

\* The policy takes no approval and no reasoning away.
LEMMA RiskyIsGated ==
  ASSUME NEW p, NEW t, IsRisky(t)
  PROVE  Escalate(p, Classify(t)).approval /\ Escalate(p, Classify(t)).reasoning
<1>1. Classify(t).approval = TRUE /\ Classify(t).reasoning = TRUE
  BY DEF Classify, Risky
<1>2. /\ Escalate(p, Classify(t)).approval
           = (Classify(t).approval \/ Classify(t).risk >= p.approvalFrom)
      /\ Escalate(p, Classify(t)).reasoning
           = (Classify(t).reasoning \/ Classify(t).confidence < p.minConfidence
                \/ Classify(t).risk >= p.approvalFrom)
  BY DEF Escalate
<1> QED
  BY <1>1, <1>2

LEMMA ReasoningIsBoolean ==
  ASSUME NEW p, NEW d PROVE Escalate(p, d).reasoning \in BOOLEAN
BY DEF Escalate

(***************************************************************************)
(* Types.                                                                  *)
(***************************************************************************)
LEMMA RequestType ==
  ASSUME TypeOK, NEW ask \in Asks
  PROVE  [privacy |-> ask.privacy, task |-> ask.task, vision |-> ask.vision,
          reasoning |-> reasoning, network |-> networkUp] \in RouteRequest
BY AskAssumption DEF TypeOK, RouteRequest

LEMMA TypeInit == Init => TypeOK
<1> SUFFICES ASSUME Init PROVE TypeOK
  OBVIOUS
<1>1. reasoning \in BOOLEAN /\ keySet \in BOOLEAN /\ networkUp \in BOOLEAN
  BY Zenon DEF Init
<1>2. request \in RouteRequest
  BY DEF Init, NoRequest, RouteRequest, TaskType, Public, Secret
<1>3. DOMAIN cache = {} /\ cacheOrder \in Seq(Texts) /\ DOMAIN plan = {}
  BY DEF Init, NoPlan
<1>4. stats \in [Provider -> [ok : Nat, bad : Nat, latency : Nat]]
  BY DEF Init, NoStats
<1>5. /\ reflexPolicy \in ReflexPolicies /\ policy \in RouterPolicies /\ routedUnder \in RouterPolicies
      /\ phase = "idle" /\ tried \subseteq Provider /\ asked \in 0..MaxRequests
  BY PolicyAssumption, BoundAssumption DEF Init
<1> QED
  BY <1>1, <1>2, <1>3, <1>4, <1>5 DEF TypeOK

LEMMA TypeAsk == ASSUME TypeOK, NEW t \in Texts, Ask(t) PROVE TypeOK'
<1>1. /\ asked' \in 0..MaxRequests /\ phase' = "decided" /\ tried' = {} /\ plan' = NoPlan
      /\ request' = NoRequest
      /\ UNCHANGED <<reflexPolicy, router, keySet, networkUp, routedUnder>>
  BY BoundAssumption DEF Ask, TypeOK
<1>2. NoRequest \in RouteRequest /\ DOMAIN NoPlan = {}
  BY DEF NoRequest, NoPlan, RouteRequest, TaskType, Public, Secret
<1>3. CASE t \in DOMAIN cache
  <2>1. reasoning' = cache[t].reasoning /\ UNCHANGED <<cache, cacheOrder>>
    BY <1>3 DEF Ask, ReflexDecide
  <2> QED
    BY <1>1, <1>2, <1>3, <2>1 DEF TypeOK, router
<1>4. CASE t \notin DOMAIN cache
  <2> DEFINE d == Escalate(reflexPolicy, Classify(t))
  <2>1. reasoning' = d.reasoning /\ Put(t, d)
    BY <1>4 DEF Ask, ReflexDecide
  <2>2. d.reasoning \in BOOLEAN
    BY ReasoningIsBoolean
  <2> HIDE DEF d
  <2>3. cacheOrder' \in Seq(Texts)
    BY <2>1, PutQueue, BoundAssumption DEF TypeOK
  <2>4. DOMAIN cache' \subseteq Texts /\ \A u \in DOMAIN cache' : cache'[u].reasoning \in BOOLEAN
    <3>1. DOMAIN cache' \subseteq DOMAIN cache \cup {t}
          /\ \A u \in DOMAIN cache' : cache'[u] = d \/ (u \in DOMAIN cache /\ cache'[u] = cache[u])
      BY <2>1, PutKeeps
    <3>2. DOMAIN cache \subseteq Texts /\ \A u \in DOMAIN cache : cache[u].reasoning \in BOOLEAN
      BY DEF TypeOK
    <3> QED
      BY <2>2, <3>1, <3>2, Zenon
  <2>5. reasoning' \in BOOLEAN
    BY <2>1, <2>2
  <2> QED
    BY <1>1, <1>2, <2>3, <2>4, <2>5 DEF TypeOK, router
<1> QED
  BY <1>3, <1>4

LEMMA TypeNext == TypeOK /\ [Next]_vars => TypeOK'
<1> SUFFICES ASSUME TypeOK, [Next]_vars PROVE TypeOK'
  OBVIOUS
<1>1. ASSUME NEW ask \in Asks, RouteTo(ask) PROVE TypeOK'
  <2>1. /\ request' \in RouteRequest /\ routedUnder' \in RouterPolicies
        /\ phase' \in {"trying", "refused"}
        /\ UNCHANGED <<reflex, router, keySet, networkUp, reasoning, tried, asked>>
    BY <1>1, RequestType DEF RouteTo, TypeOK
  <2>2. DOMAIN plan' \subseteq Provider
    BY <1>1 DEF RouteTo, Plan, NoPlan, Candidates
  <2> QED
    BY <2>1, <2>2 DEF TypeOK, reflex, router
<1>2. ASSUME NEW p \in Provider, NEW ms \in Latencies, Try(p, ms) PROVE TypeOK'
  <2>1. ms \in Nat
    BY BoundAssumption
  <2>2. Fed(stats[p], ms, Generates(p)) \in [ok : Nat, bad : Nat, latency : Nat]
    BY <2>1 DEF Fed, TypeOK
  <2>3. stats' \in [Provider -> [ok : Nat, bad : Nat, latency : Nat]]
    BY <1>2, <2>2 DEF Try, TypeOK
  <2>4. /\ DOMAIN plan' \subseteq Provider /\ tried' \subseteq Provider
        /\ phase' \in {"answered", "failed", "trying"}
        /\ UNCHANGED <<reflex, policy, keySet, networkUp, reasoning, request, routedUnder, asked>>
    BY <1>2 DEF Try, TypeOK
  <2> QED
    BY <2>3, <2>4 DEF TypeOK, reflex
<1>3. CASE SetReflexPolicy
  BY <1>3 DEF SetReflexPolicy, TypeOK, router, caller
<1>4. CASE SetRouterPolicy
  BY <1>4 DEF SetRouterPolicy, TypeOK, reflex, caller
<1>5. CASE Surroundings
  BY <1>5 DEF Surroundings, TypeOK, reflex, router, caller
<1>6. CASE UNCHANGED vars
  BY <1>6 DEF vars, TypeOK, reflex, router, caller
<1> QED
  BY <1>1, <1>2, <1>3, <1>4, <1>5, <1>6, TypeAsk DEF Next, Proceed

\* The engine, the router and the caller keep their types.
THEOREM TypeCorrect == Spec => []TypeOK
BY TypeInit, TypeNext, PTL DEF Spec

(***************************************************************************)
(* What is sent where.                                                     *)
(***************************************************************************)
\* A request that was not routed yet was not sent anywhere.
NothingSentYet == phase = "decided" => tried = {}

LEMMA CandidatesAreAllowed ==
  ASSUME NEW req, NEW p \in Candidates(req)
  PROVE  /\ req.privacy >= Confidential => IsLocal(p)
         /\ ~policy.allowCloud => IsLocal(p)
         /\ ~req.network => IsLocal(p)
BY DEF Candidates, Candidate, PrivacyGate

LEMMA SentNext ==
  NothingSentYet /\ SentWhereAllowed /\ [Next]_vars => (NothingSentYet /\ SentWhereAllowed)'
<1> SUFFICES ASSUME NothingSentYet, SentWhereAllowed, [Next]_vars
             PROVE  NothingSentYet' /\ SentWhereAllowed'
  OBVIOUS
<1>1. ASSUME NEW t \in Texts, Ask(t) PROVE NothingSentYet' /\ SentWhereAllowed'
  BY <1>1 DEF Ask, NothingSentYet, SentWhereAllowed, NoPlan
<1>2. ASSUME NEW ask \in Asks, RouteTo(ask) PROVE NothingSentYet' /\ SentWhereAllowed'
  <2>1. tried' = {} /\ routedUnder' = policy /\ phase' # "decided"
    BY <1>2 DEF RouteTo, NothingSentYet
  <2>2. DOMAIN plan' \subseteq Candidates(request')
    BY <1>2 DEF RouteTo, Plan, NoPlan
  <2>3. \A p \in DOMAIN plan' : /\ request'.privacy >= Confidential => IsLocal(p)
                                /\ ~policy.allowCloud => IsLocal(p)
                                /\ ~request'.network => IsLocal(p)
    BY <2>2, CandidatesAreAllowed
  <2> QED
    BY <2>1, <2>3 DEF NothingSentYet, SentWhereAllowed, IsLocal
<1>3. ASSUME NEW p \in Provider, NEW ms \in Latencies, Try(p, ms)
      PROVE  NothingSentYet' /\ SentWhereAllowed'
  <2>1. tried' \cup DOMAIN plan' \subseteq tried \cup DOMAIN plan
    BY <1>3 DEF Try, IsNext
  <2>2. phase' # "decided" /\ UNCHANGED <<request, routedUnder>>
    BY <1>3 DEF Try
  <2> QED
    BY <2>1, <2>2 DEF NothingSentYet, SentWhereAllowed, IsLocal
<1>4. CASE UNCHANGED caller
  BY <1>4 DEF caller, NothingSentYet, SentWhereAllowed, IsLocal
<1> QED
  BY <1>1, <1>2, <1>3, <1>4 DEF Next, Proceed, SetReflexPolicy, SetRouterPolicy, Surroundings, vars

\* For any providers and statistics, no request reaches a provider, first or
\* as a fallback, that its privacy, the policy or the network ruled out.
THEOREM NothingGoesAstray == Spec => []SentWhereAllowed
<1>1. Init => NothingSentYet /\ SentWhereAllowed
  BY DEF Init, NothingSentYet, SentWhereAllowed, NoPlan
<1> QED
  BY <1>1, SentNext, PTL DEF Spec

\* However often the policies change, a decision remembered for a risky text
\* asks for approval and for reasoning.
THEOREM RiskStaysGated == Spec => []RememberedRiskIsGated
<1>1. Init => RememberedRiskIsGated
  BY DEF Init, RememberedRiskIsGated
<1>2. RememberedRiskIsGated /\ [Next]_vars => RememberedRiskIsGated'
  <2> SUFFICES ASSUME RememberedRiskIsGated, [Next]_vars PROVE RememberedRiskIsGated'
    OBVIOUS
  <2>1. CASE UNCHANGED cache
    BY <2>1 DEF RememberedRiskIsGated, IsRisky
  <2>2. ASSUME NEW t \in Texts, t \notin DOMAIN cache, Ask(t) PROVE RememberedRiskIsGated'
    <3> DEFINE d == Escalate(reflexPolicy, Classify(t))
    <3>1. Put(t, d)
      BY <2>2 DEF Ask, ReflexDecide
    <3>2. IsRisky(t) => d.approval /\ d.reasoning
      BY RiskyIsGated
    <3> HIDE DEF d
    <3>3. \A u \in DOMAIN cache' :
            /\ u # t => u \in DOMAIN cache /\ cache'[u] = cache[u]
            /\ u \notin DOMAIN cache => cache'[u] = d
      BY <3>1, PutKeeps, Zenon
    <3> QED
      BY <2>2, <3>2, <3>3, Zenon DEF RememberedRiskIsGated, IsRisky
  <2> QED
    BY <2>1, <2>2
       DEF Next, Ask, ReflexDecide, Proceed, RouteTo, Try, SetReflexPolicy, SetRouterPolicy,
           Surroundings, vars, reflex
<1> QED
  BY <1>1, <1>2, PTL DEF Spec

(***************************************************************************)
(* The cache's two halves.                                                 *)
(***************************************************************************)
InQueue == {cacheOrder[i] : i \in DOMAIN cacheOrder}

\* The queue names every text of the map once, and CACHE_CAP at most.
QueueInv ==
  /\ cacheOrder \in Seq(Texts)
  /\ \A i, j \in 1..Len(cacheOrder) : cacheOrder[i] = cacheOrder[j] => i = j
  /\ DOMAIN cache = InQueue
  /\ Len(cacheOrder) <= CacheCap

\* put() of a new text: the queue gets it at its end and loses its front if it
\* is too long, and the map loses what the queue lost.
LEMMA QueuePut ==
  ASSUME QueueInv, NEW t \in Texts, t \notin DOMAIN cache, NEW d, Put(t, d)
  PROVE  QueueInv'
<1> DEFINE all == Append(cacheOrder, t)
           kept == IF Len(all) > CacheCap THEN SubSeq(all, Len(all) - CacheCap + 1, Len(all)) ELSE all
           n == Len(cacheOrder)
<1>1. n \in Nat /\ DOMAIN cacheOrder = 1..n
  BY DEF QueueInv
<1>2. /\ all \in Seq(Texts) /\ Len(all) = n + 1 /\ all[n + 1] = t
      /\ \A i \in 1..n : all[i] = cacheOrder[i]
  BY AppendProperties DEF QueueInv
<1>3. \A i \in 1..n : cacheOrder[i] \in DOMAIN cache /\ cacheOrder[i] # t
  BY <1>1 DEF QueueInv, InQueue
<1>4. /\ cacheOrder' = kept
      /\ DOMAIN cache' = (DOMAIN cache \cap {kept[i] : i \in DOMAIN kept}) \cup {t}
  BY DEF Put, Evicted
<1> HIDE DEF all
<1>5. \A i, j \in 1..(n + 1) : all[i] = all[j] => i = j
  BY <1>1, <1>2, <1>3 DEF QueueInv
<1>6. \E skip \in 0..n :
        /\ kept \in Seq(Texts) /\ Len(kept) = n + 1 - skip /\ Len(kept) <= CacheCap
        /\ \A i \in 1..(n + 1 - skip) : kept[i] = all[skip + i]
  <2>1. CASE n + 1 > CacheCap
    <3> DEFINE first == n + 1 - CacheCap + 1
    <3>1. kept = SubSeq(all, first, n + 1)
      <4>1. Len(all) > CacheCap
        BY <1>2, <2>1
      <4>2. kept = SubSeq(all, Len(all) - CacheCap + 1, Len(all))
        BY <4>1, Zenon
      <4>3. Len(all) = n + 1
        BY <1>2
      <4>4. first = Len(all) - CacheCap + 1
        BY <1>1, <4>3, BoundAssumption
      <4> HIDE DEF kept, n, first
      <4> QED
        BY <4>2, <4>3, <4>4, Zenon
    <3>2. first \in Int /\ n + 1 \in Int /\ first..(n + 1) \subseteq 1..(n + 1)
      BY <1>1, <2>1, BoundAssumption
    <3>3. \A i \in first..(n + 1) : all[i] \in Texts
      BY <1>2, <3>2
    <3>4. /\ SubSeq(all, first, n + 1) \in Seq(Texts)
          /\ Len(SubSeq(all, first, n + 1)) = IF first <= n + 1 THEN n + 1 - first + 1 ELSE 0
          /\ \A i \in 1..(n + 1 - first + 1) : SubSeq(all, first, n + 1)[i] = all[first + i - 1]
      <4> HIDE DEF first
      <4> QED
        BY <3>2, <3>3, SubSeqProperties
    <3>5. /\ n + 1 - CacheCap \in 0..n /\ first <= n + 1 /\ CacheCap \in Nat
          /\ n + 1 - first + 1 = CacheCap /\ n + 1 - (n + 1 - CacheCap) = CacheCap
      BY <1>1, <2>1, BoundAssumption
    <3>6. \A i \in 1..CacheCap : first + i - 1 = (n + 1 - CacheCap) + i
      BY <1>1, BoundAssumption
    <3> HIDE DEF kept, first
    <3>7. kept \in Seq(Texts) /\ Len(kept) = CacheCap
      BY <3>1, <3>4, <3>5
    <3>8. \A i \in 1..CacheCap : kept[i] = all[(n + 1 - CacheCap) + i]
      BY <3>1, <3>4, <3>5, <3>6
    <3> DEFINE skip == n + 1 - CacheCap
    <3>9. /\ skip \in 0..n /\ Len(kept) = n + 1 - skip
          /\ \A i \in 1..(n + 1 - skip) : kept[i] = all[skip + i]
      BY <3>5, <3>7, <3>8
    <3>10. Len(kept) <= CacheCap
      BY <3>5, <3>7
    <3> HIDE DEF n, skip
    <3> QED
      BY <3>7, <3>9, <3>10
  <2>2. CASE ~(n + 1 > CacheCap)
    BY <1>1, <1>2, <2>2, BoundAssumption
  <2> QED
    BY <2>1, <2>2
<1> HIDE DEF kept
<1>7. PICK skip \in 0..n :
        /\ kept \in Seq(Texts) /\ Len(kept) = n + 1 - skip /\ Len(kept) <= CacheCap
        /\ \A i \in 1..(n + 1 - skip) : kept[i] = all[skip + i]
  BY <1>6
<1>8. DOMAIN kept = 1..(n + 1 - skip)
  BY <1>7
<1>9. \A i, j \in 1..(n + 1 - skip) : kept[i] = kept[j] => i = j
  BY <1>1, <1>5, <1>7
<1>10. kept[n + 1 - skip] = t /\ n + 1 - skip \in DOMAIN kept
  BY <1>1, <1>2, <1>7, <1>8
<1>11. \A i \in DOMAIN kept : kept[i] = t \/ kept[i] \in DOMAIN cache
  <2> SUFFICES ASSUME NEW i \in DOMAIN kept PROVE kept[i] = t \/ kept[i] \in DOMAIN cache
    OBVIOUS
  <2>1. kept[i] = all[skip + i] /\ (skip + i \in 1..n \/ skip + i = n + 1)
    BY <1>1, <1>7, <1>8
  <2> QED
    BY <1>2, <1>3, <2>1
<1>12. DOMAIN cache' = {kept[i] : i \in DOMAIN kept}
  BY <1>4, <1>10, <1>11
<1> HIDE DEF n
<1>13. InQueue' = {kept[i] : i \in DOMAIN kept}
  BY <1>4, Zenon DEF InQueue
<1> QED
  BY <1>4, <1>7, <1>9, <1>12, <1>13 DEF QueueInv

LEMMA QueueNext == QueueInv /\ [Next]_vars => QueueInv'
<1> SUFFICES ASSUME QueueInv, [Next]_vars PROVE QueueInv'
  OBVIOUS
<1>1. CASE UNCHANGED <<cache, cacheOrder>>
  BY <1>1 DEF QueueInv, InQueue
<1>2. ASSUME NEW t \in Texts, t \notin DOMAIN cache, Ask(t) PROVE QueueInv'
  BY <1>2, QueuePut DEF Ask, ReflexDecide
<1> QED
  BY <1>1, <1>2
     DEF Next, Ask, ReflexDecide, Proceed, RouteTo, Try, SetReflexPolicy, SetRouterPolicy,
         Surroundings, vars, reflex

\* As many texts in the map as in the queue.
LEMMA QueueCounts ==
  ASSUME QueueInv PROVE Cardinality(DOMAIN cache) = Len(cacheOrder)
<1>1. /\ Len(cacheOrder) \in Nat /\ DOMAIN cacheOrder = 1..Len(cacheOrder)
      /\ cacheOrder \in [1..Len(cacheOrder) -> InQueue]
  BY DEF QueueInv, InQueue
<1>2. cacheOrder \in Injection(1..Len(cacheOrder), InQueue)
  BY <1>1, Fun_IsInj DEF QueueInv
<1>3. cacheOrder \in Surjection(1..Len(cacheOrder), InQueue)
  BY <1>1, Fun_IsSurj DEF InQueue
<1>4. ExistsBijection(1..Len(cacheOrder), InQueue)
  BY <1>2, <1>3 DEF ExistsBijection, Bijection
<1> QED
  BY <1>1, <1>4, FS_CountingElements DEF QueueInv

\* For any capacity, texts and policies: the map and the queue of the cache
\* hold the same texts, never too many, and what is remembered is gated.
THEOREM CacheStaysSound == Spec => []CacheIsSound
<1>1. Init => QueueInv
  BY BoundAssumption DEF Init, QueueInv, InQueue
<1>2. QueueInv /\ RememberedRiskIsGated => CacheIsSound
  BY QueueCounts DEF CacheIsSound, QueueInv, InQueue
<1> QED
  BY <1>1, <1>2, QueueNext, RiskStaysGated, PTL DEF Spec

(***************************************************************************)
(* The budget.                                                             *)
(***************************************************************************)
LEMMA ProvidersAreFinite == IsFiniteSet(Provider)
<1>1. Order \in [1..Len(Order) -> Provider] /\ Len(Order) \in Nat /\ DOMAIN Order = 1..Len(Order)
  BY OrderAssumption
<1>2. Order \in Surjection(1..Len(Order), Provider)
  BY <1>1, Fun_IsSurj DEF Provider
<1>3. IsFiniteSet(1..Len(Order))
  BY <1>1, FS_Interval
<1> QED
  BY <1>2, <1>3, FS_Surjection

\* Those that come before q, or with it, among the fallbacks.
UpTo(q, best, req) ==
  {p \in Candidates(req) \ {best} :
     p = q \/ \/ ~ComesLater(p) /\ ComesLater(q)
              \/ (ComesLater(p) <=> ComesLater(q)) /\ Before(p, q, req)}

LEMMA UpToIsFinite ==
  ASSUME NEW q, NEW best, NEW req
  PROVE  IsFiniteSet(UpTo(q, best, req)) /\ Cardinality(UpTo(q, best, req)) \in Nat
<1>1. UpTo(q, best, req) \in SUBSET Provider
  BY DEF UpTo, Candidates
<1> QED
  BY <1>1, ProvidersAreFinite, FS_Subset, FS_CardinalityType

LEMMA PlaceInPlan ==
  ASSUME NEW req, NEW best, NEW q \in Candidates(req)
  PROVE  /\ Plan(best, req)[q] = IF q = best THEN 0 ELSE Cardinality(UpTo(q, best, req))
         /\ q # best => Cardinality(UpTo(q, best, req)) >= 1
<1>1. Plan(best, req)[q] = IF q = best THEN 0 ELSE Cardinality(UpTo(q, best, req))
  BY DEF Plan, UpTo
<1>2. ASSUME q # best PROVE Cardinality(UpTo(q, best, req)) >= 1
  <2>1. q \in UpTo(q, best, req)
    BY <1>2 DEF UpTo
  <2> QED
    BY <2>1, UpToIsFinite, FS_EmptySet
<1> QED
  BY <1>1, <1>2

\* Among the fallbacks those on the device come first.
LEMMA LocalsAhead ==
  ASSUME NEW req, NEW best, NEW l \in Candidates(req) \ {best}, NEW q \in Candidates(req) \ {best},
         IsLocal(l), ~IsLocal(q)
  PROVE  Cardinality(UpTo(l, best, req)) < Cardinality(UpTo(q, best, req))
<1>1. \A p \in UpTo(l, best, req) : IsLocal(p) /\ p \in Candidates(req) \ {best}
  BY DEF UpTo, ComesLater
<1>2. UpTo(l, best, req) \in SUBSET UpTo(q, best, req)
  BY <1>1 DEF UpTo, ComesLater
<1>3. q \in UpTo(q, best, req) /\ q \notin UpTo(l, best, req)
  BY <1>1 DEF UpTo
<1>4. UpTo(l, best, req) # UpTo(q, best, req)
  BY <1>3
<1> HIDE DEF UpTo
<1>5. /\ Cardinality(UpTo(l, best, req)) <= Cardinality(UpTo(q, best, req))
      /\ Cardinality(UpTo(l, best, req)) # Cardinality(UpTo(q, best, req))
  BY <1>2, <1>4, UpToIsFinite, FS_Subset
<1> QED
  BY <1>5, UpToIsFinite

\* While providers are tried: the first to be tried is affordable, a provider
\* on the device is left, and those that are not come after it.
BudgetInv ==
  /\ NothingSentYet
  /\ phase = "trying" =>
       /\ plan \in [DOMAIN plan -> Nat]
       /\ \A p, q \in DOMAIN plan : plan[p] = 0 /\ plan[q] = 0 => p = q
       /\ tried = {} <=> \E b \in DOMAIN plan : plan[b] = 0
       /\ \A b \in DOMAIN plan : plan[b] = 0 => Info[b].cost <= routedUnder.maxCost
       /\ \E l \in DOMAIN plan : IsLocal(l)
       /\ \A l, q \in DOMAIN plan : IsLocal(l) /\ ~IsLocal(q) /\ plan[q] # 0 => plan[l] < plan[q]
  /\ WithinBudget

\* Whatever a request needs, the tiny model on the device can be asked too.
LEMMA FallbackIsThere ==
  ASSUME FreeLocalFallback, NEW req, NEW best \in Candidates(req)
  PROVE  \E l \in Candidates(req) : IsLocal(l)
<1>1. PICK p \in Provider :
        /\ Info[p].class = "LocalTiny"
        /\ (\E q \in Provider : Info[q].vision) => Info[p].vision
  BY DEF FreeLocalFallback
<1>2. IsLocal(p)
  BY <1>1 DEF IsLocal, Networked
<1>3. req.vision => Info[p].vision
  BY <1>1 DEF Candidates, Candidate
<1>4. Candidate(p, req)
  BY <1>1, <1>2, <1>3 DEF Candidate, IsAvailable, PrivacyGate
<1> QED
  BY <1>2, <1>4 DEF Candidates

LEMMA BudgetRoute ==
  ASSUME FreeLocalFallback, BudgetInv, NEW ask \in Asks, RouteTo(ask)
  PROVE  BudgetInv'
<1> DEFINE req == [privacy |-> ask.privacy, task |-> ask.task, vision |-> ask.vision,
                   reasoning |-> reasoning, network |-> networkUp]
<1>1. tried' = {} /\ phase' \in {"trying", "refused"} /\ routedUnder' = policy
  BY DEF RouteTo, BudgetInv, NothingSentYet
<1>2. NothingSentYet' /\ WithinBudget'
  BY <1>1 DEF NothingSentYet, WithinBudget
<1>3. CASE phase' = "refused"
  BY <1>2, <1>3 DEF BudgetInv
<1>4. CASE phase' = "trying"
  <2>1. PICK best \in Provider : IsBest(best, req) /\ plan' = Plan(best, req)
    BY <1>4 DEF RouteTo
  <2> HIDE DEF req
  <2> DEFINE C == Candidates(req)
             size(q) == Cardinality(UpTo(q, best, req))
  <2>2. best \in C /\ Info[best].cost <= policy.maxCost
    BY <2>1 DEF IsBest, Affordable
  <2>3. DOMAIN plan' = C
    BY <2>1 DEF Plan
  <2>4. plan' = [q \in C |-> plan'[q]]
    BY <2>1 DEF Plan
  <2>5. \A q \in C : /\ plan'[q] = IF q = best THEN 0 ELSE size(q)
                     /\ q # best => size(q) >= 1
                     /\ size(q) \in Nat
    BY <2>1, PlaceInPlan, UpToIsFinite
  <2>6. plan' \in [DOMAIN plan' -> Nat]
    BY <2>3, <2>4, <2>5
  <2>7. \A q \in C : plan'[q] = 0 <=> q = best
    BY <2>5
  <2>8. \E l \in C : IsLocal(l)
    BY <2>2, FallbackIsThere
  <2>9. \A l, q \in C : IsLocal(l) /\ ~IsLocal(q) /\ plan'[q] # 0 => plan'[l] < plan'[q]
    <3> SUFFICES ASSUME NEW l \in C, NEW q \in C, IsLocal(l), ~IsLocal(q), plan'[q] # 0
                 PROVE  plan'[l] < plan'[q]
      OBVIOUS
    <3>1. q # best
      BY <2>7
    <3>2. CASE l = best
      BY <2>5, <3>1, <3>2
    <3>3. CASE l # best
      <4>1. size(l) < size(q)
        BY <3>1, <3>3, LocalsAhead
      <4> QED
        BY <2>5, <3>1, <3>3, <4>1
    <3> QED
      BY <3>2, <3>3
  <2> HIDE DEF C
  <2>10. \A l \in C : IsLocal(l)' <=> IsLocal(l)
    BY DEF IsLocal
  <2> QED
    BY <1>1, <1>2, <2>2, <2>3, <2>6, <2>7, <2>8, <2>9 DEF BudgetInv, IsLocal
<1> QED
  BY <1>1, <1>3, <1>4

LEMMA BudgetTry ==
  ASSUME FreeLocalFallback, TypeOK, BudgetInv, NEW p \in Provider, NEW ms \in Latencies, Try(p, ms)
  PROVE  BudgetInv'
<1>1. /\ phase = "trying" /\ p \in DOMAIN plan /\ \A q \in DOMAIN plan : plan[p] <= plan[q]
      /\ tried' = tried \cup {p} /\ plan' = [q \in DOMAIN plan \ {p} |-> plan[q]]
      /\ UNCHANGED routedUnder
      /\ phase' = IF IsLocal(p) THEN "answered" ELSE IF DOMAIN plan = {p} THEN "failed" ELSE "trying"
  BY DEF Try, IsNext, Generates
<1>2. /\ plan \in [DOMAIN plan -> Nat]
      /\ \A a, b \in DOMAIN plan : plan[a] = 0 /\ plan[b] = 0 => a = b
      /\ tried = {} <=> \E b \in DOMAIN plan : plan[b] = 0
      /\ \A b \in DOMAIN plan : plan[b] = 0 => Info[b].cost <= routedUnder.maxCost
      /\ \E l \in DOMAIN plan : IsLocal(l)
      /\ \A l, q \in DOMAIN plan : IsLocal(l) /\ ~IsLocal(q) /\ plan[q] # 0 => plan[l] < plan[q]
  BY <1>1 DEF BudgetInv
<1>3. plan[p] = 0 \/ IsLocal(p)
  BY <1>1, <1>2
<1>4. Info[p].cost <= routedUnder.maxCost
  <2>1. CASE plan[p] = 0
    BY <1>1, <1>2, <2>1
  <2>2. CASE IsLocal(p)
    <3>1. Info[p].cost = 0 /\ routedUnder.maxCost \in Nat
      BY <2>2, PolicyAssumption DEF FreeLocalFallback, TypeOK, RoutingPolicy
    <3> QED
      BY <3>1
  <2> QED
    BY <1>3, <2>1, <2>2
<1>5. WithinBudget'
  BY <1>1, <1>4 DEF BudgetInv, WithinBudget
<1>6. phase' # "decided"
  BY <1>1
<1>7. ASSUME phase' = "trying"
      PROVE  /\ plan' \in [DOMAIN plan' -> Nat]
             /\ \A a, b \in DOMAIN plan' : plan'[a] = 0 /\ plan'[b] = 0 => a = b
             /\ tried' # {} /\ \A b \in DOMAIN plan' : plan'[b] # 0
             /\ \E l \in DOMAIN plan' : IsLocal(l)
             /\ \A l, q \in DOMAIN plan' : IsLocal(l) /\ ~IsLocal(q) => plan'[l] < plan'[q]
  <2>1. ~IsLocal(p) /\ plan[p] = 0
    BY <1>1, <1>3, <1>7
  <2>2. DOMAIN plan' = DOMAIN plan \ {p} /\ \A q \in DOMAIN plan' : plan'[q] = plan[q]
    BY <1>1
  <2> QED
    BY <1>1, <1>2, <2>1, <2>2
<1> QED
  BY <1>5, <1>6, <1>7 DEF BudgetInv, NothingSentYet, IsLocal

\* For providers like those of with_defaults(), any statistics and any policies
\* that change in between: no provider is tried that costs more than the
\* policy allowed when the request was routed.
THEOREM BudgetIsKept == FreeLocalFallback => (Spec => []WithinBudget)
<1> SUFFICES ASSUME FreeLocalFallback PROVE Spec => []WithinBudget
  OBVIOUS
<1>1. Init => BudgetInv
  BY DEF Init, BudgetInv, NothingSentYet, WithinBudget
<1>2. TypeOK /\ BudgetInv /\ [Next]_vars => BudgetInv'
  <2> SUFFICES ASSUME TypeOK, BudgetInv, [Next]_vars PROVE BudgetInv'
    OBVIOUS
  <2>1. ASSUME NEW t \in Texts, Ask(t) PROVE BudgetInv'
    BY <2>1 DEF Ask, BudgetInv, NothingSentYet, WithinBudget
  <2>2. CASE UNCHANGED caller
    BY <2>2 DEF caller, BudgetInv, NothingSentYet, WithinBudget, IsLocal
  <2> QED
    BY <2>1, <2>2, BudgetRoute, BudgetTry
       DEF Next, Proceed, SetReflexPolicy, SetRouterPolicy, Surroundings, vars
<1>3. BudgetInv => WithinBudget
  BY DEF BudgetInv
<1> QED
  BY <1>1, <1>2, <1>3, TypeInit, TypeNext, PTL DEF Spec
=============================================================================
