---------------------------- MODULE MCAnswering ----------------------------
(* The providers of with_defaults() and a few texts and policies, for TLC. *)
EXTENDS Answering

DefaultOrder == <<"local-tiny", "local-small", "fast-cloud", "reasoning-cloud">>

\* Costs are those of a thousand tokens.
DefaultInfo ==
  [p \in Provider |->
     CASE p = "local-tiny" -> [class |-> "LocalTiny", cost |-> 0, vision |-> FALSE, reasoning |-> FALSE]
       [] p = "local-small" -> [class |-> "LocalSmall", cost |-> 0, vision |-> FALSE, reasoning |-> TRUE]
       [] p = "fast-cloud" -> [class |-> "FastCloud", cost |-> 2, vision |-> FALSE, reasoning |-> TRUE]
       [] OTHER -> [class |-> "ReasoningCloud", cost |-> 10, vision |-> FALSE, reasoning |-> TRUE]]

ASSUME FreeLocalFallback

\* One the device answers by itself, one risky.
TextsUsed == {{"battery"}, {"send email", "send"}}

AsksUsed ==
  {[privacy |-> Public, task |-> "Coding", vision |-> FALSE],
   [privacy |-> Confidential, task |-> "Creative", vision |-> FALSE],
   [privacy |-> Public, task |-> "Vision", vision |-> TRUE]}

ReflexPoliciesUsed == {DefaultPolicy, [minConfidence |-> 0, approvalFrom |-> Critical]}

\* The default; free only and no cloud; a budget for one of the clouds.
RouterPoliciesUsed ==
  {[preferLocal |-> TRUE, allowCloud |-> TRUE, maxCost |-> 1000],
   [preferLocal |-> TRUE, allowCloud |-> FALSE, maxCost |-> 0],
   [preferLocal |-> FALSE, allowCloud |-> TRUE, maxCost |-> 5]}

LatenciesUsed == {0, 100}
=============================================================================
