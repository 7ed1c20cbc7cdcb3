----------------------------- MODULE Answering -----------------------------
(***************************************************************************)
(* How a text gets an answer: the Reflex engine of igris-reflex with its   *)
(* bounded cache, and the ModelRouter of igris-router with its providers,  *)
(* statistics and policy.  A caller decides, routes, and tries the         *)
(* provider chosen and then the fallbacks, recording what came of each.    *)
(*                                                                         *)
(* Both policies are public fields, the cloud's key is an environment      *)
(* variable and the network comes and goes: all may change between a       *)
(* decision and the use made of it.                                        *)
(***************************************************************************)
EXTENDS Intents, Sequences

CONSTANTS
  Order,            \* the providers' ids in the order of their registration
  Info,             \* Info[p]: ModelInfo
  CacheCap,         \* CACHE_CAP
  Texts,            \* what may be asked
  Asks,             \* privacy, task and needs_vision that a text may come with
  ReflexPolicies,   \* values of Reflex.policy
  RouterPolicies,   \* values of ModelRouter.policy
  Latencies,        \* latencies in milliseconds
  MaxRequests       \* bound on the requests

\* PrivacyLevel
Public == 1
Internal == 2
Confidential == 3
Secret == 4

TaskType == {"Simple", "Complex", "Coding", "Creative", "Speech", "Vision"}
Networked == {"FastCloud", "ReasoningCloud", "Vision"}
ModelClass == Networked \cup {"LocalTiny", "LocalSmall", "Speech", "Embedding"}
Provider == {Order[i] : i \in DOMAIN Order}

\* Costs and budgets are in thousandths of a unit for what a request takes.
ModelInfo == [class : ModelClass, cost : Nat, vision : BOOLEAN, reasoning : BOOLEAN]
RouteRequest == [privacy : Public..Secret, task : TaskType, vision : BOOLEAN,
                 reasoning : BOOLEAN, network : BOOLEAN]
RoutingPolicy == [preferLocal : BOOLEAN, allowCloud : BOOLEAN, maxCost : Nat]

ASSUME OrderAssumption ==
  /\ Order \in Seq(Provider)
  /\ \A i, j \in DOMAIN Order : Order[i] = Order[j] => i = j
ASSUME InfoAssumption == Info \in [Provider -> ModelInfo]
ASSUME TextAssumption == Texts \subseteq SUBSET Phrases
ASSUME AskAssumption == Asks \subseteq [privacy : Public..Secret, task : TaskType, vision : BOOLEAN]
ASSUME PolicyAssumption ==
  /\ ReflexPolicies \subseteq [minConfidence : Nat, approvalFrom : Low..Critical]
  /\ DefaultPolicy \in ReflexPolicies
  /\ RouterPolicies \subseteq RoutingPolicy
ASSUME BoundAssumption == CacheCap \in Nat \ {0} /\ MaxRequests \in Nat /\ Latencies \subseteq Nat

VARIABLES
  reflexPolicy,  \* Reflex.policy
  cache,         \* DecisionCache.map
  cacheOrder,    \* DecisionCache.order
  policy,        \* ModelRouter.policy
  stats,         \* ModelRouter.stats
  keySet,        \* IGRIS_CLOUD_API_KEY is set
  networkUp,
  phase,         \* where the caller is
  reasoning,     \* requires_reasoning of what decide() returned
  request,       \* the RouteRequest made of it
  plan,          \* the providers route_to named that it has not tried yet, by place
  routedUnder,   \* history: the router's policy when it was routed
  tried,         \* history: the providers it tried
  asked          \* how many requests there were

reflex == <<reflexPolicy, cache, cacheOrder>>
router == <<policy, stats>>
caller == <<phase, reasoning, request, plan, routedUnder, tried, asked>>
vars == <<reflex, router, keySet, networkUp, caller>>

IsLocal(p) == Info[p].class \notin Networked

(***************************************************************************)
(* Faulty variants of definitions below: each is a plausible slip in the   *)
(* code, and shows that some property would notice it.                     *)
(***************************************************************************)
SecretOnly(p, req) == req.privacy >= Secret => IsLocal(p)
LocalsLast(p) == IsLocal(p)
StrictlyCheaper(p) == Info[p].cost < policy.maxCost
OrderOnly(kept) == cache

(***************************************************************************)
(* The Reflex engine.                                                      *)
(***************************************************************************)
\* What is left of the map when put() has dropped all but the keys kept.
Evicted(kept) == [t \in DOMAIN cache \cap {kept[i] : i \in DOMAIN kept} |-> cache[t]]

\* DecisionCache::put of a key that is not there: first in, first out.
Put(t, d) ==
  LET all == Append(cacheOrder, t)
      kept == IF Len(all) > CacheCap THEN SubSeq(all, Len(all) - CacheCap + 1, Len(all)) ELSE all
      map == Evicted(kept)
  IN  /\ cacheOrder' = kept
      /\ cache' = [u \in DOMAIN map \cup {t} |-> IF u = t THEN d ELSE map[u]]

\* Reflex::decide, from the cache or by the rules.
ReflexDecide(t) ==
  \/ /\ t \in DOMAIN cache
     /\ reasoning' = cache[t].reasoning
     /\ UNCHANGED <<cache, cacheOrder>>
  \/ /\ t \notin DOMAIN cache
     /\ reasoning' = Escalate(reflexPolicy, Classify(t)).reasoning
     /\ Put(t, Escalate(reflexPolicy, Classify(t)))

(***************************************************************************)
(* The router.                                                             *)
(***************************************************************************)
\* route(): the class of model that suits a request.
Route(req) ==
  IF req.privacy >= Confidential THEN IF req.reasoning THEN "LocalSmall" ELSE "LocalTiny"
  ELSE IF req.vision THEN "Vision"
  ELSE IF ~req.network THEN "LocalSmall"
  ELSE CASE req.task \in {"Simple", "Speech"} -> "LocalTiny"
         [] req.task \in {"Coding", "Complex"} ->
              IF req.reasoning THEN "ReasoningCloud" ELSE "FastCloud"
         [] req.task = "Creative" -> "FastCloud"
         [] req.task = "Vision" -> "Vision"

\* A local provider always answers; the cloud's is there if its key is.
IsAvailable(p) == IsLocal(p) \/ keySet

\* What is private stays on the device.
PrivacyGate(p, req) == req.privacy >= Confidential => IsLocal(p)

\* candidate(), without the score.
Candidate(p, req) ==
  /\ IsAvailable(p)
  /\ PrivacyGate(p, req)
  /\ IsLocal(p) \/ policy.allowCloud
  /\ IsLocal(p) \/ req.network
  /\ req.vision => Info[p].vision
  /\ req.reasoning => Info[p].reasoning \/ Info[p].class = "LocalTiny"

Candidates(req) == {p \in Provider : Candidate(p, req)}

\* The score, twentyfold and as a fraction: 1 for the class, 0.6 times the
\* rate of success (0.5 if there is none), 100 / (100 + mean latency) once
\* there is one, 0.25 for a local provider where they are preferred.
Score(p, req) ==
  LET s == stats[p]
      n == s.ok + s.bad
      fixed == (IF Info[p].class = Route(req) THEN 20 ELSE 0)
                 + (IF policy.preferLocal /\ IsLocal(p) THEN 5 ELSE 0)
  IN  IF n = 0 THEN [num |-> fixed + 6, den |-> 1]
      ELSE LET slow == 100 * n + s.latency
           IN  [num |-> fixed * n * slow + 12 * s.ok * slow
                          + (IF s.latency > 0 THEN 2000 * n * n ELSE 0),
                den |-> n * slow]

Higher(a, b) == a.num * b.den > b.num * a.den
Place(p) == CHOOSE i \in DOMAIN Order : Order[i] = p

\* A stable sort of the candidates, the highest score first.
Before(p, q, req) ==
  \/ Higher(Score(p, req), Score(q, req))
  \/ ~Higher(Score(q, req), Score(p, req)) /\ Place(p) < Place(q)

Affordable(p) == Info[p].cost <= policy.maxCost

\* The sort key of a fallback: those without it come first.
ComesLater(p) == ~IsLocal(p)

\* The first of the ranking that is affordable.
IsBest(p, req) ==
  /\ p \in Candidates(req)
  /\ Affordable(p)
  /\ \A q \in Candidates(req) \ {p} : Affordable(q) => Before(p, q, req)

\* The place of every candidate in the decision: the best, then the
\* fallbacks, sorted again.
Plan(best, req) ==
  LET Ahead(p, q) == \/ ~ComesLater(p) /\ ComesLater(q)
                     \/ (ComesLater(p) <=> ComesLater(q)) /\ Before(p, q, req)
  IN  [p \in Candidates(req) |->
         IF p = best THEN 0
         ELSE Cardinality({q \in Candidates(req) \ {best} : q = p \/ Ahead(q, p)})]

Routable(req) == \E p \in Candidates(req) : Affordable(p)
NoPlan == [p \in {} |-> 0]

(***************************************************************************)
(* Actions of the caller.                                                  *)
(***************************************************************************)
NoStats == [ok |-> 0, bad |-> 0, latency |-> 0]
NoRequest == [privacy |-> Public, task |-> "Simple", vision |-> FALSE,
              reasoning |-> FALSE, network |-> FALSE]

Init ==
  /\ reflexPolicy = DefaultPolicy /\ cache = [t \in {} |-> 0] /\ cacheOrder = <<>>
  /\ policy \in RouterPolicies
  /\ stats = [p \in Provider |-> NoStats]
  /\ keySet \in BOOLEAN /\ networkUp \in BOOLEAN
  /\ phase = "idle" /\ reasoning = FALSE /\ request = NoRequest /\ plan = NoPlan
  /\ routedUnder = policy /\ tried = {} /\ asked = 0

\* A text comes in and Reflex decides.
Ask(t) ==
  /\ phase \in {"idle", "answered", "refused", "failed"}
  /\ asked < MaxRequests
  /\ asked' = asked + 1
  /\ ReflexDecide(t)
  /\ phase' = "decided"
  /\ tried' = {} /\ plan' = NoPlan /\ request' = NoRequest
  /\ UNCHANGED <<reflexPolicy, router, keySet, networkUp, routedUnder>>

\* route_to, with the network as it is now.
RouteTo(ask) ==
  LET req == [privacy |-> ask.privacy, task |-> ask.task, vision |-> ask.vision,
              reasoning |-> reasoning, network |-> networkUp]
  IN  /\ phase = "decided"
      /\ request' = req
      /\ routedUnder' = policy
      /\ \/ /\ phase' = "trying"
            /\ \E best \in Provider : IsBest(best, req) /\ plan' = Plan(best, req)
         \/ /\ ~Routable(req)
            /\ phase' = "refused"
            /\ plan' = NoPlan
      /\ UNCHANGED <<reflex, router, keySet, networkUp, reasoning, tried, asked>>

\* record_feedback
Fed(s, ms, success) ==
  [ok |-> IF success THEN s.ok + 1 ELSE s.ok, bad |-> IF success THEN s.bad ELSE s.bad + 1,
   latency |-> s.latency + ms]

\* generate(): an echo always answers, a cloud stub never does.
Generates(p) == IsLocal(p)

IsNext(p) == p \in DOMAIN plan /\ \A q \in DOMAIN plan : plan[p] <= plan[q]

\* The next provider of the plan is tried.
Try(p, ms) ==
  /\ phase = "trying"
  /\ IsNext(p)
  /\ tried' = tried \cup {p}
  /\ plan' = [q \in DOMAIN plan \ {p} |-> plan[q]]
  /\ stats' = [stats EXCEPT ![p] = Fed(@, ms, Generates(p))]
  /\ phase' = IF Generates(p) THEN "answered"
              ELSE IF DOMAIN plan = {p} THEN "failed" ELSE "trying"
  /\ UNCHANGED <<reflex, policy, keySet, networkUp, reasoning, request, routedUnder, asked>>

\* The fields and the surroundings change at any time.
SetReflexPolicy ==
  /\ reflexPolicy' \in ReflexPolicies
  /\ UNCHANGED <<cache, cacheOrder, router, keySet, networkUp, caller>>

SetRouterPolicy ==
  /\ policy' \in RouterPolicies
  /\ UNCHANGED <<reflex, stats, keySet, networkUp, caller>>

Surroundings ==
  /\ keySet' \in BOOLEAN
  /\ networkUp' \in BOOLEAN
  /\ UNCHANGED <<reflex, router, caller>>

Proceed ==
  \/ \E ask \in Asks : RouteTo(ask)
  \/ \E p \in Provider, ms \in Latencies : Try(p, ms)

Next == (\E t \in Texts : Ask(t)) \/ Proceed \/ SetReflexPolicy \/ SetRouterPolicy \/ Surroundings

Spec == Init /\ [][Next]_vars

\* The caller goes on with what it has begun.
FairSpec == Spec /\ WF_vars(Proceed)

(***************************************************************************)
(* Properties.                                                             *)
(***************************************************************************)
TypeOK ==
  /\ reflexPolicy \in ReflexPolicies
  /\ cacheOrder \in Seq(Texts) /\ DOMAIN cache \subseteq Texts
  /\ \A t \in DOMAIN cache : cache[t].reasoning \in BOOLEAN
  /\ policy \in RouterPolicies
  /\ stats \in [Provider -> [ok : Nat, bad : Nat, latency : Nat]]
  /\ keySet \in BOOLEAN /\ networkUp \in BOOLEAN /\ reasoning \in BOOLEAN
  /\ phase \in {"idle", "decided", "trying", "answered", "refused", "failed"}
  /\ request \in RouteRequest
  /\ DOMAIN plan \subseteq Provider /\ tried \subseteq Provider
  /\ routedUnder \in RouterPolicies
  /\ asked \in 0..MaxRequests

\* candidate() gates what is ranked, and the fallbacks are taken from the
\* ranking: whatever the statistics, and however the policy, the key or the
\* network change afterwards, neither the provider chosen nor a fallback is
\* one that the request's privacy, the policy or the network ruled out when
\* it was routed.
SentWhereAllowed ==
  \A p \in tried \cup DOMAIN plan :
    /\ request.privacy >= Confidential => IsLocal(p)
    /\ ~routedUnder.allowCloud => IsLocal(p)
    /\ ~request.network => IsLocal(p)

\* What with_defaults() registers: models on the device cost nothing, and a
\* tiny one is among them that sees whatever any other sees.
FreeLocalFallback ==
  /\ \A p \in Provider : IsLocal(p) => Info[p].cost = 0
  /\ \E p \in Provider :
       /\ Info[p].class = "LocalTiny"
       /\ (\E q \in Provider : Info[q].vision) => Info[p].vision

\* max_cost_per_request is "max spend per request": only the first choice is
\* compared with it, and the fallbacks stay within it because they are sorted
\* with the free local ones in front and those always answer.
WithinBudget == \A p \in tried : Info[p].cost <= routedUnder.maxCost

RememberedRiskIsGated ==
  \A t \in DOMAIN cache : IsRisky(t) => cache[t].approval /\ cache[t].reasoning

\* The cache's map and its queue hold the same texts, CACHE_CAP at most, and
\* what is remembered of a risky text asks for approval and for reasoning,
\* whatever the policy was when it was remembered.
CacheIsSound ==
  /\ DOMAIN cache = {cacheOrder[i] : i \in DOMAIN cacheOrder}
  /\ Cardinality(DOMAIN cache) = Len(cacheOrder)
  /\ Len(cacheOrder) <= CacheCap
  /\ RememberedRiskIsGated

\* "Offline-safe": without a key or a network, under any policy, a request
\* that needs no vision is answered in the end, by a fallback if need be.
AlwaysAnswered ==
  phase = "decided" ~> phase = "answered" \/ (phase = "refused" /\ request.vision)
=============================================================================
