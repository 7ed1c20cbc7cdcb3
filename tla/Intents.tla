------------------------------ MODULE Intents ------------------------------
(***************************************************************************)
(* The rule core of igris-reflex: what a text is taken to ask for, with    *)
(* what confidence, and what the escalation policy adds to that.           *)
(*                                                                         *)
(* A text is the set of the listed phrases it contains once normalized,    *)
(* which is all that the classifier looks at.  Confidence is in percent.   *)
(* The tool and the memory scope, which nothing decides by, are left out.  *)
(***************************************************************************)
EXTENDS Integers, FiniteSets

Destructive == {"delete", "format", "rm -rf", "wipe", "shutdown", "pay ", "transfer money"}
ExternalSend == {"send email", "send sms", "send message", "post publicly", "publish"}
TransferVerbs == {"send", "share", "push", "copy to", "move to"}
Payload == {"build", "file", "photo", "video", "document", "doc ", "zip", "apk"}
Targets == <<"laptop", "phone", "server">>
StatusWords == {"battery", "cpu", "storage", "disk space", "memory usage", "how much",
                "status", "health"}
MemoryWords == {"remember", "recall", "what did", "forgot", "note ", "my preference",
                "remind me", "what is my"}
CommWords == {"draft", "remind", "notify", "schedule", "calendar"}
ToolWords == {"build", "test", "run", "open", "compile", "search for", "find "}

NoTarget == "none"
TargetNames == {Targets[i] : i \in 1..3}
Phrases == Destructive \cup ExternalSend \cup TransferVerbs \cup Payload \cup TargetNames
             \cup StatusWords \cup MemoryWords \cup CommWords \cup ToolWords

\* Phrases that contain another phrase: a text with the first has the second.
Closed(t) ==
  /\ t \cap {"send email", "send sms", "send message"} # {} => "send" \in t
  /\ "remind me" \in t => "remind" \in t

Low == 1
Medium == 2
High == 3
Critical == 4

Intent == {"device_transfer", "device_status", "memory_query", "tool_exec",
           "communication", "risky_op", "general"}
ModelHint == {"LocalTiny", "LocalSmall", "FastCloud", "ReasoningCloud"}
Decision == [intent : Intent, target : TargetNames \cup {NoTarget}, reasoning : BOOLEAN,
             risk : Low..Critical, approval : BOOLEAN, hint : ModelHint, confidence : 0..100]

Hits(t, words) == Cardinality(t \cap words)
Calibrate(base, extra) == IF base + 5 * extra > 97 THEN 97 ELSE base + 5 * extra

\* The first of the targets that the text names.
TargetOf(t) ==
  IF TargetNames \cap t = {} THEN NoTarget
  ELSE Targets[CHOOSE i \in 1..3 : Targets[i] \in t /\ \A j \in 1..(i - 1) : Targets[j] \notin t]

IsRisky(t) == t \cap (Destructive \cup ExternalSend) # {}
IsTransfer(t) == t \cap TransferVerbs # {} /\ (TargetOf(t) # NoTarget \/ t \cap Payload # {})

(***************************************************************************)
(* The decisions the rules lead to.                                        *)
(***************************************************************************)
Risky(t) ==
  [intent |-> "risky_op", target |-> NoTarget, reasoning |-> TRUE,
   risk |-> IF t \cap Destructive # {} THEN Critical ELSE High,
   approval |-> TRUE, hint |-> "ReasoningCloud",
   confidence |-> Calibrate(70, Hits(t, Destructive) + Hits(t, ExternalSend) - 1)]

FastSwap(t) ==
  [intent |-> "device_transfer", target |-> TargetOf(t), reasoning |-> FALSE,
   risk |-> Low, approval |-> FALSE, hint |-> "LocalTiny",
   confidence |-> IF TargetOf(t) # NoTarget
                  THEN Calibrate(85, Hits(t, TransferVerbs) + Hits(t, Payload)) ELSE 55]

\* A question the device answers by itself.
Local(intent, base, hits) ==
  [intent |-> intent, target |-> NoTarget, reasoning |-> FALSE, risk |-> Low,
   approval |-> FALSE, hint |-> "LocalTiny", confidence |-> Calibrate(base, hits - 1)]

\* Something a model has to plan.
Planned(intent, hint, base, hits) ==
  [intent |-> intent, target |-> NoTarget, reasoning |-> TRUE, risk |-> Medium,
   approval |-> FALSE, hint |-> hint, confidence |-> Calibrate(base, hits - 1)]

\* A slip: the transfer rule tried before the rule for risky operations.
TransferFirst(t) ==
  IF IsTransfer(t) THEN FastSwap(t)
  ELSE IF IsRisky(t) THEN Risky(t)
  ELSE Planned("general", "FastCloud", 50, 1)

Classify(t) ==
  IF IsRisky(t) THEN Risky(t)
  ELSE IF IsTransfer(t) THEN FastSwap(t)
  ELSE IF t \cap StatusWords # {} THEN Local("device_status", 88, Hits(t, StatusWords))
  ELSE IF t \cap MemoryWords # {} THEN Local("memory_query", 78, Hits(t, MemoryWords))
  ELSE IF t \cap CommWords # {} THEN Planned("communication", "FastCloud", 62, Hits(t, CommWords))
  ELSE IF t \cap ToolWords # {} THEN Planned("tool_exec", "LocalSmall", 60, Hits(t, ToolWords))
  ELSE Planned("general", "FastCloud", 50, 1)

(***************************************************************************)
(* The escalation policy.                                                  *)
(***************************************************************************)
DefaultPolicy == [minConfidence |-> 60, approvalFrom |-> High]

\* EscalationPolicy::apply
Escalate(policy, d) ==
  LET mustAsk == d.risk >= policy.approvalFrom
  IN  [intent |-> d.intent, target |-> d.target, risk |-> d.risk, confidence |-> d.confidence,
       reasoning |-> d.reasoning \/ d.confidence < policy.minConfidence \/ mustAsk,
       approval |-> d.approval \/ mustAsk,
       hint |-> IF d.risk = Critical THEN "ReasoningCloud" ELSE d.hint]

\* The stateless decide().
Decide(t) == Escalate(DefaultPolicy, Classify(t))
=============================================================================
