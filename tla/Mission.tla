------------------------------ MODULE Mission ------------------------------
(***************************************************************************)
(* The durable task graph of igris-orchestrator: Mission, TaskNode and     *)
(* their operations, the drivers that run the tasks, an operator who       *)
(* pauses, resumes, cancels and verifies, and a host that saves the        *)
(* mission with to_json and gets it back after a crash with from_json and  *)
(* reclaim_running.                                                        *)
(*                                                                         *)
(* Every operation takes &mut self (behind a mutex in FieldBackend), so    *)
(* each is one step; what interleaves is the drivers' sequences of calls.  *)
(***************************************************************************)
EXTENDS Naturals, Sequences

CONSTANTS
  Nodes,        \* task ids
  Deps,         \* Deps[n]: the ids in n.depends_on
  Gated,        \* the nodes with requires_verification
  MaxRetries,   \* MaxRetries[n]: n.max_retries
  Executors,    \* drivers that take a ready task, run it and record the result
  Steppers,     \* callers of FieldBackend::demo_step
  Controls,     \* what the operator may do: "pause", "cancel", "start"
  MaxCrashes,   \* bound on crashes of the process
  Idle          \* a driver with no task

ASSUME DepsAssumption == Deps \in [Nodes -> SUBSET Nodes]
ASSUME RetriesAssumption == MaxRetries \in [Nodes -> Nat]
ASSUME IdleAssumption == Idle \notin Nodes
\* A host drives a mission in one way: it runs tasks asynchronously, or it
\* steps them synchronously as the FIELD panel does.
ASSUME OneKindOfDriver ==
  /\ Executors \cap Steppers = {}
  /\ Executors = {} \/ Steppers = {}
ASSUME CrashBound == MaxCrashes \in Nat

VARIABLES
  nodes,    \* Mission.nodes: the TaskNode of every id (as new until added)
  order,    \* Mission.order: the ids added, in insertion order
  mstate,   \* Mission.state
  disk,     \* the Mission last saved by to_json
  work,     \* the task each driver holds
  crashes   \* how many times the process has died

mission == <<nodes, order, mstate>>
vars == <<nodes, order, mstate, disk, work, crashes>>

Drivers == Executors \cup Steppers

\* NodeState also has Paused, which only the debug setter `mark` can store.
NodeState == {"Pending", "Running", "Completed", "Failed", "Cancelled"}
MissionState == {"Running", "Paused", "Cancelled", "Completed", "Failed"}

\* last_error is left out: it is written and never read.  A checkpoint is
\* present or not.
TaskNode == [state : NodeState, attempts : Nat, verified : BOOLEAN,
             checkpoint : BOOLEAN]

NewNode == [state |-> "Pending", attempts |-> 0, verified |-> FALSE,
            checkpoint |-> FALSE]

Added == {order[i] : i \in DOMAIN order}

(***************************************************************************)
(* Faulty variants of definitions below: each is a plausible slip in the   *)
(* code, and shows that some property would notice it.                     *)
(***************************************************************************)
DepsCompletedOnly(ns, ids, n) == \A d \in Deps[n] : ns[d].state = "Completed"
ReadyWhileRunning(n) ==
  /\ mstate = "Running" /\ n \in Added
  /\ nodes[n].state \in {"Pending", "Running"}
  /\ \A d \in Deps[n] : nodes[d].state = "Completed" /\ (d \in Gated => nodes[d].verified)
CompletedWhenAllCompleted(ns, ids) ==
  IF mstate = "Running" /\ ids # {} /\ \A n \in ids : ns[n].state = "Completed"
  THEN "Completed" ELSE mstate
NoRunningLeases ==
  \E n \in Added : nodes[n].state = "Pending" /\ \A d \in Deps[n] : nodes[d].state = "Completed"
BeginWithinRetries(n) == mstate = "Running" /\ nodes[n].attempts < MaxRetries[n]
OneRetryMore(r, n) == r.attempts <= MaxRetries[n] + 1

(***************************************************************************)
(* TaskNode and the parts of Mission that only read.                       *)
(***************************************************************************)
\* TaskNode::is_done, for the node n of the node table ns.
IsDone(ns, n) ==
  /\ ns[n].state = "Completed"
  /\ n \in Gated => ns[n].verified

\* Mission::deps_satisfied for the ids of the mission; any other is not done.
DepsSatisfied(ns, ids, n) ==
  \A d \in Deps[n] : d \in ids /\ IsDone(ns, d)

\* Membership in the result of Mission::ready_tasks.
IsReady(n) ==
  /\ mstate = "Running"
  /\ n \in Added
  /\ nodes[n].state = "Pending"
  /\ DepsSatisfied(nodes, Added, n)

\* The first element of ready_tasks(), which follows insertion order.
IsFirstReady(n) ==
  \E i \in DOMAIN order :
    /\ order[i] = n
    /\ IsReady(n)
    /\ \A j \in DOMAIN order : j < i => ~IsReady(order[j])

\* Mission::refresh_state, on the table ns that the caller has just written.
RefreshState(ns, ids) ==
  IF mstate # "Running" THEN mstate
  ELSE IF \E n \in ids : ns[n].state = "Failed" THEN "Failed"
  ELSE IF ids # {} /\ \A n \in ids : IsDone(ns, n) THEN "Completed"
  ELSE mstate

\* Mission::begin returns Ok; it does not look at the node's own state.
CanBegin(n) ==
  /\ mstate = "Running"
  /\ n \in Added
  /\ DepsSatisfied(nodes, Added, n)

\* Mission::resume_point is Some.
HasResumePoint ==
  \E n \in Added : \/ nodes[n].state = "Pending" /\ DepsSatisfied(nodes, Added, n)
                   \/ nodes[n].state = "Running"

(***************************************************************************)
(* What each operation writes to its node.                                 *)
(***************************************************************************)
Begun(r) == [r EXCEPT !.state = "Running", !.attempts = @ + 1]

\* ckpt: record_success is given a checkpoint to store.
Succeeded(r, n, ckpt) ==
  [r EXCEPT !.state = "Completed", !.checkpoint = @ \/ ckpt,
            !.verified = @ \/ n \notin Gated]

\* record_failure requeues while attempts <= max_retries.
WillRetry(r, n) == r.attempts <= MaxRetries[n]

FailedOnce(r, n) ==
  [r EXCEPT !.state = IF WillRetry(r, n) THEN "Pending" ELSE "Failed"]

\* Mission::reclaim_running.
ReclaimRunning(ns) ==
  [n \in Nodes |-> IF ns[n].state = "Running"
                   THEN [ns[n] EXCEPT !.state = "Pending"] ELSE ns[n]]

-----------------------------------------------------------------------------
Init ==
  /\ nodes = [n \in Nodes |-> NewNode]
  /\ order = <<>>
  /\ mstate = "Running"
  /\ disk = [nodes |-> nodes, order |-> order, mstate |-> mstate]
  /\ work = [d \in Drivers |-> Idle]
  /\ crashes = 0

(***************************************************************************)
(* Building the mission.  Every caller adds all the nodes before it drives *)
(* any, and names as dependencies ids that earlier calls of add returned.  *)
(***************************************************************************)
Add(n) ==
  /\ n \notin Added
  /\ Deps[n] \subseteq Added
  /\ \A m \in Added : nodes[m].attempts = 0
  /\ order' = Append(order, n)
  /\ nodes' = [nodes EXCEPT ![n] = NewNode]
  /\ UNCHANGED <<mstate, disk, work, crashes>>

(***************************************************************************)
(* An executor: ready_tasks and begin in one go (as the loop of            *)
(* mission_demo does), then the task runs, then the result is recorded.    *)
(***************************************************************************)
Claim(e) ==
  /\ work[e] = Idle
  /\ \E n \in Nodes :
       /\ IsReady(n)
       /\ CanBegin(n)
       /\ nodes' = [nodes EXCEPT ![n] = Begun(@)]
       /\ work' = [work EXCEPT ![e] = n]
  /\ UNCHANGED <<order, mstate, disk, crashes>>

Checkpoint(e) ==
  /\ work[e] # Idle
  /\ nodes' = [nodes EXCEPT ![work[e]].checkpoint = TRUE]
  /\ UNCHANGED <<order, mstate, disk, work, crashes>>

Succeed(e) ==
  /\ work[e] # Idle
  /\ \E ckpt \in BOOLEAN :
       nodes' = [nodes EXCEPT ![work[e]] = Succeeded(@, work[e], ckpt)]
  /\ mstate' = RefreshState(nodes', Added)
  /\ work' = [work EXCEPT ![e] = Idle]
  /\ UNCHANGED <<order, disk, crashes>>

\* The task returns an error, or run_with_timeout drops it at its deadline.
Fail(e) ==
  /\ work[e] # Idle
  /\ nodes' = [nodes EXCEPT ![work[e]] = FailedOnce(@, work[e])]
  /\ mstate' = RefreshState(nodes', Added)
  /\ work' = [work EXCEPT ![e] = Idle]
  /\ UNCHANGED <<order, disk, crashes>>

(***************************************************************************)
(* FieldBackend::demo_step: the ready task is looked up under one lock and *)
(* run under a second one, so the mission may change in between.           *)
(***************************************************************************)
StepLookup(s) ==
  /\ work[s] = Idle
  /\ \E n \in Nodes : IsFirstReady(n) /\ work' = [work EXCEPT ![s] = n]
  /\ UNCHANGED <<mission, disk, crashes>>

StepRun(s) ==
  /\ work[s] # Idle
  /\ IF CanBegin(work[s])
     THEN /\ nodes' = [nodes EXCEPT ![work[s]] = Succeeded(Begun(@), work[s], TRUE)]
          /\ mstate' = RefreshState(nodes', Added)
     ELSE UNCHANGED <<nodes, mstate>>
  /\ work' = [work EXCEPT ![s] = Idle]
  /\ UNCHANGED <<order, disk, crashes>>

(***************************************************************************)
(* The operator.                                                           *)
(***************************************************************************)
Verify(n) ==
  /\ n \in Added
  /\ nodes[n].state = "Completed"
  /\ nodes' = [nodes EXCEPT ![n].verified = TRUE]
  /\ mstate' = RefreshState(nodes', Added)
  /\ UNCHANGED <<order, disk, work, crashes>>

Pause ==
  /\ "pause" \in Controls
  /\ mstate' = "Paused"
  /\ UNCHANGED <<nodes, order, disk, work, crashes>>

Resume ==
  /\ "pause" \in Controls
  /\ mstate = "Paused"
  /\ mstate' = "Running"
  /\ UNCHANGED <<nodes, order, disk, work, crashes>>

Start ==
  /\ "start" \in Controls
  /\ mstate' = "Running"
  /\ UNCHANGED <<nodes, order, disk, work, crashes>>

Cancel ==
  /\ "cancel" \in Controls
  /\ mstate' = "Cancelled"
  /\ nodes' = [n \in Nodes |->
                 IF n \in Added /\ nodes[n].state \in {"Pending", "Running"}
                 THEN [nodes[n] EXCEPT !.state = "Cancelled"] ELSE nodes[n]]
  /\ UNCHANGED <<order, disk, work, crashes>>

(***************************************************************************)
(* The host: it saves whenever it likes; after a crash it restores what it *)
(* saved last and reclaims the leases of the dead process.  A save that no *)
(* further crash can follow (MaxCrashes) makes no difference and is left   *)
(* out.                                                                    *)
(***************************************************************************)
Save ==
  /\ crashes < MaxCrashes
  /\ disk' = [nodes |-> nodes, order |-> order, mstate |-> mstate]
  /\ UNCHANGED <<mission, work, crashes>>

CrashAndRestore ==
  /\ crashes < MaxCrashes
  /\ crashes' = crashes + 1
  /\ nodes' = ReclaimRunning(disk.nodes)
  /\ order' = disk.order
  /\ mstate' = disk.mstate
  /\ work' = [d \in Drivers |-> Idle]
  /\ UNCHANGED disk

Next ==
  \/ \E n \in Nodes : Add(n) \/ Verify(n)
  \/ \E e \in Executors : Claim(e) \/ Checkpoint(e) \/ Succeed(e) \/ Fail(e)
  \/ \E s \in Steppers : StepLookup(s) \/ StepRun(s)
  \/ Pause \/ Resume \/ Start \/ Cancel
  \/ Save \/ CrashAndRestore

\* The drivers loop while there is work, a task ends or times out, what is
\* built gets built and what waits for verification is verified.  Nothing
\* makes the operator resume, or the host save.
Fairness ==
  /\ \A e \in Executors : WF_vars(Claim(e)) /\ WF_vars(Succeed(e) \/ Fail(e))
  /\ \A s \in Steppers : WF_vars(StepLookup(s)) /\ WF_vars(StepRun(s))
  /\ \A n \in Nodes : WF_vars(Add(n)) /\ WF_vars(Verify(n))

Spec == Init /\ [][Next]_vars
FairSpec == Spec /\ Fairness

-----------------------------------------------------------------------------
(***************************************************************************)
(* Properties.                                                             *)
(***************************************************************************)
\* Every variable has its type, the saved mission included.
TypeOK ==
  /\ nodes \in [Nodes -> TaskNode]
  /\ order \in Seq(Nodes)
  /\ mstate \in MissionState
  /\ disk \in [nodes : [Nodes -> TaskNode], order : Seq(Nodes), mstate : MissionState]
  /\ work \in [Drivers -> Nodes \cup {Idle}]
  /\ crashes \in 0..MaxCrashes

\* A running node is run by exactly one executor, and an executor at work
\* holds a running node or one cancelled under it: no lease outlives its
\* holder across a crash, and no task is run twice at once, although begin
\* never looks at the node's state.
OneOwner ==
  /\ \A e \in Executors : work[e] # Idle => nodes[work[e]].state \in {"Running", "Cancelled"}
  /\ \A e, f \in Executors : work[e] = work[f] /\ work[e] # Idle => e = f
  /\ \A n \in Nodes : nodes[n].state = "Running" => \E e \in Executors : work[e] = n

\* A node that was begun has all its dependencies done (and, where they
\* require it, verified), and they stay so, through retries, cancellation
\* and the return to a saved state: only begin checks them, once.
StartedAfterDeps ==
  \A n \in Nodes :
    nodes[n].state \in {"Running", "Completed", "Failed"} =>
      \A d \in Deps[n] : d \in Added /\ IsDone(nodes, d)

\* A mission that reads Completed has every node done: no late result, retry
\* or restore takes one back.  (refresh_state decides this once.)
CompletedMeansAllDone ==
  mstate = "Completed" => Added # {} /\ \A n \in Added : IsDone(nodes, n)

\* A node is attempted max_retries + 1 times, and once more for each crash:
\* reclaim_running gives the lease back without giving the attempt back.
RetryBudget ==
  \A n \in Nodes : nodes[n].attempts <= MaxRetries[n] + 1 + crashes

\* While the mission runs and nothing failed or was cancelled, either all is
\* done, or there is something to resume, or a completed node waits to be
\* verified: dependencies never leave the mission stuck.
NoDeadEnd ==
  mstate = "Running" /\ (\A n \in Added : nodes[n].state \notin {"Failed", "Cancelled"})
    => \/ \A n \in Added : IsDone(nodes, n)
       \/ HasResumePoint
       \/ \E n \in Added : nodes[n].state = "Completed" /\ ~IsDone(nodes, n)

\* The mission implements the ledger of TaskLedger.
DoneIn(ns) == {n \in Nodes : IsDone(ns, n)}
Ledger == INSTANCE TaskLedger WITH
  tasks <- Added,
  done <- DoneIn(nodes),
  complete <- mstate = "Completed",
  kept <- [tasks |-> {disk.order[i] : i \in DOMAIN disk.order},
           done |-> DoneIn(disk.nodes),
           complete |-> disk.mstate = "Completed"]
ImplementsLedger == Ledger!LedgerSpec

\* Left alone by the operator, whatever the crashes, the mission ends.
MissionSettles == <>[](mstate \in {"Completed", "Failed"})
=============================================================================
