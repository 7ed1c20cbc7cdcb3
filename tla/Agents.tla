------------------------------- MODULE Agents -------------------------------
(***************************************************************************)
(* igris-agents: the seven roles, the plans they make, who may hand a task *)
(* to whom, and the contract between hosts that do work for each other     *)
(* (a2a).  Prompts, hints and the wording of results are left out, and so  *)
(* is max_iterations, which nothing reads.                                 *)
(***************************************************************************)
EXTENDS Integers, Sequences

Tool == {"memory_search", "messaging", "filesystem", "terminal", "browser", "docker"}

\* allowed_tools of every role's AgentDef.
AllowedTools ==
  [planner      |-> {"memory_search"},
   coder        |-> {"filesystem", "terminal"},
   researcher   |-> {"browser"},
   developer    |-> {"filesystem", "terminal"},
   devops       |-> {"terminal", "docker"},
   communicator |-> {"messaging", "memory_search"},
   assistant    |-> {"memory_search", "messaging"}]

\* capabilities of every role's AgentDef.
Capabilities ==
  [planner      |-> {"decompose_goal", "order_tasks", "estimate_risk"},
   coder        |-> {"read_repository", "modify_source", "run_tests"},
   researcher   |-> {"web_read", "compare", "summarize"},
   developer    |-> {"scaffold_project", "install_deps", "build", "package"},
   devops       |-> {"build_image", "deploy", "monitor", "rollback"},
   communicator |-> {"draft_message", "summarize_thread", "schedule_reminder"},
   assistant    |-> {"greet_user", "clarify_intent", "delegate_task", "present_results"}]

Role == DOMAIN AllowedTools
Capability == UNION {Capabilities[r] : r \in Role}

\* 1: reasons and delegates.  2: a worker.
Tier == [r \in Role |-> IF r \in {"planner", "assistant"} THEN 1 ELSE 2]

CanUse(role, tool) == tool \in AllowedTools[role]
Supports(role, capability) == capability \in Capabilities[role]
CanDelegate(role) == Tier[role] < 2

\* can_handoff; `reasoned`: the reason is not blank.
CanHandoff(from, to, reasoned) == CanDelegate(from) /\ from # to /\ reasoned

(***************************************************************************)
(* Faulty variants of definitions below: each is a plausible slip in the   *)
(* code, and shows that some property would notice it.                     *)
(***************************************************************************)
HandsOnPlans(role) ==
  CASE role \in {"coder", "developer"} -> <<"filesystem", "terminal">>
    [] role = "researcher" -> <<"browser">>
    [] role = "devops" -> <<"terminal", "docker">>
    [] OTHER -> <<"memory_search", "terminal">>
KnownProducerOnly(known, art) == art.producer \in known

(***************************************************************************)
(* Plans.                                                                  *)
(***************************************************************************)
\* plan_for: the tools of the steps.  The task does not change them.
PlanFor(role) ==
  CASE role = "planner" -> <<"memory_search", "memory_search", "memory_search">>
    [] role = "coder" -> <<"filesystem", "filesystem", "terminal">>
    [] role = "researcher" -> <<"browser", "browser">>
    [] role = "developer" -> <<"filesystem", "terminal", "terminal">>
    [] role = "devops" -> <<"terminal", "docker", "terminal">>
    [] role = "communicator" -> <<"memory_search", "messaging">>
    [] role = "assistant" -> <<"memory_search", "memory_search", "messaging", "messaging">>

\* execute_task accepts the task: it is described, and asks for no tool out of
\* the role's scope.  The tools of the context are not looked at.
Accepts(role, task) == task.described /\ \A tool \in task.requested : CanUse(role, tool)

(***************************************************************************)
(* a2a.                                                                    *)
(***************************************************************************)
\* validate_task
ValidTask(card, request) == request.capability \in card /\ request.input # "blank"

\* hash_content: taken to tell the contents of a model apart.
HashContent(content) == <<"hash", content>>

MakeArtifact(task, producer, content) ==
  [task |-> task, producer |-> producer, content |-> content, hash |-> HashContent(content)]

\* verify_artifact; which task it is for is not compared.
ValidArtifact(known, art) == art.producer \in known /\ HashContent(art.content) = art.hash
=============================================================================
