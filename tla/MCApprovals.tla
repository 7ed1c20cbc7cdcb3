---------------------------- MODULE MCApprovals ----------------------------
(* One approval, two operators who decide it and a client; short histories *)
(* of the skill registry and short audit logs, for TLC.                    *)
EXTENDS Approvals, TLC, Sequences

Skills == INSTANCE Skills
Audit == INSTANCE Audit

CONSTANTS i1, c1, o1, o2

OneTick == [i \in Ids |-> 1]

Manifests ==
  {[name |-> "brief", blank |-> {"inputs"}, kebab |-> TRUE, permissions |-> {0, 1}],
   [name |-> "brief", blank |-> {}, kebab |-> TRUE, permissions |-> {1, 4}],
   [name |-> "brief", blank |-> {"steps"}, kebab |-> TRUE, permissions |-> {}],
   [name |-> "brief", blank |-> {}, kebab |-> TRUE, permissions |-> {Skills!Unknown}],
   [name |-> "deploy", blank |-> {}, kebab |-> TRUE, permissions |-> {3}]}

Calls ==
  {[op |-> "register", name |-> m.name, manifest |-> m] : m \in Manifests}
    \cup {[op |-> op, name |-> "brief", manifest |-> Skills!Empty] :
            op \in {"enable", "disable", "use", "success"}}

ASSUME \A n \in 0..4 : \A calls \in [1..n -> Calls] :
  Skills!FaithfulRegistry(calls)

\* requires_approval "mirrors igris-policy": what a skill must stop for, the
\* gate never lets through by itself, under the default max_auto_level.
ASSUME \A m \in Manifests, mode \in Autonomy, risky \in BOOLEAN :
  Skills!Valid(m) /\ Skills!RequiresApproval(m) => ~AutoApproved(mode, Skills!MaxPermission(m), risky)

ASSUME \A n \in 0..3 : \A log \in Audit!Logs(n, {"x", "y"}, {1, 2}) :
  Audit!EditsAreNoticed(log, {"x", "y"}, {1, 2})
============================================================================
