--------------------------- MODULE MissionProofs ---------------------------
(***************************************************************************)
(* Proofs about Mission, for every set of nodes, every dependency relation *)
(* and any number of executors or steppers and of crashes.                 *)
(*                                                                         *)
(* begin checks the dependencies of a node once and never the node's own   *)
(* state, and the record operations check nothing.  That a begun node's    *)
(* dependencies stay done, and that a Completed mission stays done, rests  *)
(* on who holds which node (OneOwner), on what the saved mission says, and *)
(* on a node that was begun having been attempted (it cannot be added      *)
(* anew).                                                                  *)
(*                                                                         *)
(* NoDeadEnd takes the first task, in the order of declaration, that is    *)
(* not done: its dependencies were declared before it (OrderInv).  That    *)
(* the mission implements the ledger is shown step by step from IInv.      *)
(***************************************************************************)
EXTENDS Mission, WellFoundedInduction, TLAPS

Begun1 == {"Running", "Completed", "Failed"}

\* What is true of a node table and its ids, in memory or on disk.
Sound(ns, ids) ==
  /\ \A n \in Nodes : n \notin ids => ns[n] = NewNode
  /\ \A n \in Nodes : ns[n].state \in Begun1 =>
       ns[n].attempts >= 1 /\ DepsSatisfied(ns, ids, n)

\* A Completed mission has all its nodes done.
DoneIfCompleted(ns, ids, st) ==
  st = "Completed" => ids # {} /\ \A n \in ids : IsDone(ns, n)

\* The attempts k crashes leave to a pending node, and to any other.
WithinBudget(ns, k) ==
  \A n \in Nodes :
    /\ ns[n].attempts <= MaxRetries[n] + 1 + k
    /\ ns[n].state = "Pending" => ns[n].attempts <= MaxRetries[n] + k

DiskAdded == {disk.order[i] : i \in DOMAIN disk.order}

\* What an executor holds was begun, and its dependencies are done.
HeldWasBegun ==
  \A e \in Executors : work[e] # Idle =>
    /\ work[e] \in Added
    /\ nodes[work[e]].attempts >= 1
    /\ DepsSatisfied(nodes, Added, work[e])

IInv ==
  /\ TypeOK
  /\ OneOwner
  /\ HeldWasBegun
  /\ Sound(nodes, Added) /\ DoneIfCompleted(nodes, Added, mstate)
  /\ Sound(disk.nodes, DiskAdded) /\ DoneIfCompleted(disk.nodes, DiskAdded, disk.mstate)
  /\ Steppers = {} => WithinBudget(nodes, crashes) /\ WithinBudget(disk.nodes, crashes)

-----------------------------------------------------------------------------
(***************************************************************************)
(* Type correctness.                                                       *)
(***************************************************************************)
LEMMA NewNodeType == NewNode \in TaskNode
BY DEF NewNode, TaskNode, NodeState

LEMMA BegunType == ASSUME NEW r \in TaskNode PROVE Begun(r) \in TaskNode
<1>1. r.attempts + 1 \in Nat /\ "Running" \in NodeState
  BY DEF TaskNode, NodeState
<1> QED BY <1>1 DEF Begun, TaskNode

LEMMA SucceededType ==
  ASSUME NEW r \in TaskNode, NEW n, NEW c \in BOOLEAN
  PROVE  Succeeded(r, n, c) \in TaskNode
<1>1. (r.verified \/ n \notin Gated) \in BOOLEAN /\ (r.checkpoint \/ c) \in BOOLEAN
  OBVIOUS
<1> QED BY <1>1 DEF Succeeded, TaskNode, NodeState

LEMMA FailedOnceType ==
  ASSUME NEW r \in TaskNode, NEW n PROVE FailedOnce(r, n) \in TaskNode
BY DEF FailedOnce, TaskNode, NodeState

LEMMA ReclaimType ==
  ASSUME NEW ns \in [Nodes -> TaskNode] PROVE ReclaimRunning(ns) \in [Nodes -> TaskNode]
BY DEF ReclaimRunning, TaskNode, NodeState

LEMMA RefreshType ==
  ASSUME TypeOK, NEW ns, NEW ids PROVE RefreshState(ns, ids) \in MissionState
BY DEF RefreshState, MissionState, TypeOK

LEMMA AddedType == TypeOK => Added \subseteq Nodes
BY DEF TypeOK, Added

LEMMA InitType == Init => TypeOK
BY NewNodeType, CrashBound
   DEF Init, TypeOK, NewNode, MissionState, Drivers

LEMMA NextType == TypeOK /\ [Next]_vars => TypeOK'
<1> SUFFICES ASSUME TypeOK, [Next]_vars PROVE TypeOK'
  OBVIOUS
<1> USE DEF TypeOK, mission
<1>1. ASSUME NEW n \in Nodes, Add(n) PROVE TypeOK'
  BY <1>1, NewNodeType DEF Add
<1>2. ASSUME NEW n \in Nodes, Verify(n) PROVE TypeOK'
  <2>1. [nodes[n] EXCEPT !.verified = TRUE] \in TaskNode
    BY DEF TaskNode
  <2> QED BY <1>2, <2>1, RefreshType DEF Verify
<1>3. ASSUME NEW e \in Executors, Claim(e) PROVE TypeOK'
  BY <1>3, BegunType DEF Claim, Drivers
<1>4. ASSUME NEW e \in Executors, Checkpoint(e) PROVE TypeOK'
  <2>1. work[e] \in Nodes
    BY <1>4 DEF Checkpoint, Drivers
  <2>2. [nodes[work[e]] EXCEPT !.checkpoint = TRUE] \in TaskNode
    BY <2>1 DEF TaskNode
  <2> QED BY <1>4, <2>1, <2>2 DEF Checkpoint
<1>5. ASSUME NEW e \in Executors, Succeed(e) PROVE TypeOK'
  <2>1. work[e] \in Nodes
    BY <1>5 DEF Succeed, Drivers
  <2>2. nodes' \in [Nodes -> TaskNode]
    BY <1>5, <2>1, SucceededType DEF Succeed
  <2> QED BY <1>5, <2>2, RefreshType DEF Succeed, Drivers
<1>6. ASSUME NEW e \in Executors, Fail(e) PROVE TypeOK'
  <2>1. work[e] \in Nodes
    BY <1>6 DEF Fail, Drivers
  <2> QED BY <1>6, <2>1, FailedOnceType, RefreshType DEF Fail, Drivers
<1>7. ASSUME NEW s \in Steppers, StepLookup(s) PROVE TypeOK'
  BY <1>7 DEF StepLookup, Drivers
<1>8. ASSUME NEW s \in Steppers, StepRun(s) PROVE TypeOK'
  <2>1. work[s] \in Nodes
    BY <1>8 DEF StepRun, Drivers
  <2>2. Succeeded(Begun(nodes[work[s]]), work[s], TRUE) \in TaskNode
    BY <2>1, BegunType, SucceededType
  <2>3. nodes' \in [Nodes -> TaskNode] /\ mstate' \in MissionState
    <3>1. CASE CanBegin(work[s])
      <4>1. nodes' = [nodes EXCEPT ![work[s]] = Succeeded(Begun(nodes[work[s]]), work[s], TRUE)]
        BY <1>8, <3>1 DEF StepRun
      <4>2. mstate' = RefreshState(nodes', Added)
        BY <1>8, <3>1 DEF StepRun
      <4>3. nodes' \in [Nodes -> TaskNode]
        BY <2>2, <4>1
      <4> QED BY <4>2, <4>3, RefreshType
    <3>2. CASE ~CanBegin(work[s])
      BY <1>8, <3>2 DEF StepRun
    <3> QED BY <3>1, <3>2
  <2> QED BY <1>8, <2>3 DEF StepRun, Drivers
<1>9. ASSUME Pause \/ Resume \/ Start PROVE TypeOK'
  BY <1>9 DEF Pause, Resume, Start, MissionState
<1>10. ASSUME Cancel PROVE TypeOK'
  BY <1>10 DEF Cancel, TaskNode, NodeState, MissionState
<1>11. ASSUME Save PROVE TypeOK'
  BY <1>11 DEF Save
<1>12. ASSUME CrashAndRestore PROVE TypeOK'
  BY <1>12, ReclaimType, CrashBound DEF CrashAndRestore
<1>13. CASE UNCHANGED vars
  BY <1>13 DEF vars
<1> QED
  BY <1>1, <1>2, <1>3, <1>4, <1>5, <1>6, <1>7, <1>8, <1>9, <1>10, <1>11, <1>12, <1>13
     DEF Next

\* Every variable of the mission, the saved copy included, keeps its type.
THEOREM TypeCorrect == Spec => []TypeOK
BY InitType, NextType, PTL DEF Spec

-----------------------------------------------------------------------------
(***************************************************************************)
(* One node of a sound table is overwritten.                               *)
(***************************************************************************)
SameBut(ns, ns2, m) == \A k \in Nodes : k # m => ns2[k] = ns[k]

LEMMA UpdateKeepsDone ==
  ASSUME NEW ns, NEW ns2, NEW m \in Nodes, SameBut(ns, ns2, m),
         IsDone(ns, m) => IsDone(ns2, m)
  PROVE  \A n \in Nodes : IsDone(ns, n) => IsDone(ns2, n)
BY DEF IsDone, SameBut

LEMMA KeptDepsStaySatisfied ==
  ASSUME NEW ns, NEW ns2, NEW ids, NEW ids2, NEW n \in Nodes,
         \A m \in Nodes : IsDone(ns, m) => IsDone(ns2, m),
         ids \subseteq ids2,
         DepsSatisfied(ns, ids, n)
  PROVE  DepsSatisfied(ns2, ids2, n)
BY DepsAssumption DEF DepsSatisfied

LEMMA UpdateKeepsSound ==
  ASSUME NEW ns, NEW ns2, NEW ids \in SUBSET Nodes, NEW m \in ids,
         SameBut(ns, ns2, m),
         Sound(ns, ids),
         IsDone(ns, m) => IsDone(ns2, m),
         ns2[m].state \in Begun1 => ns2[m].attempts >= 1 /\ DepsSatisfied(ns, ids, m)
  PROVE  Sound(ns2, ids)
<1>1. \A n \in Nodes : IsDone(ns, n) => IsDone(ns2, n)
  BY UpdateKeepsDone
<1>2. ASSUME NEW n \in Nodes, n \notin ids PROVE ns2[n] = NewNode
  BY <1>2 DEF Sound, SameBut
<1>3. ASSUME NEW n \in Nodes, ns2[n].state \in Begun1
      PROVE  ns2[n].attempts >= 1 /\ DepsSatisfied(ns2, ids, n)
  <2>1. ns2[n].attempts >= 1 /\ DepsSatisfied(ns, ids, n)
    BY <1>3 DEF Sound, SameBut
  <2> QED BY <1>1, <2>1, KeptDepsStaySatisfied
<1> QED BY <1>2, <1>3 DEF Sound

\* refresh_state says Completed only of a table that is done, or leaves the
\* mission's state as it was.
LEMMA RefreshSound ==
  ASSUME NEW ns, NEW ids, RefreshState(ns, ids) = "Completed", mstate # "Completed"
  PROVE  ids # {} /\ \A n \in ids : IsDone(ns, n)
BY DEF RefreshState

LEMMA UpdateKeepsDoneIfCompleted ==
  ASSUME TypeOK, NEW m \in Nodes, NEW ns2, SameBut(nodes, ns2, m),
         DoneIfCompleted(nodes, Added, mstate),
         IsDone(nodes, m) => IsDone(ns2, m)
  PROVE  DoneIfCompleted(ns2, Added, RefreshState(ns2, Added))
<1>1. \A n \in Nodes : IsDone(nodes, n) => IsDone(ns2, n)
  BY UpdateKeepsDone
<1>2. Added \subseteq Nodes
  BY AddedType
<1>3. CASE mstate = "Completed"
  BY <1>1, <1>2, <1>3 DEF DoneIfCompleted
<1>4. CASE mstate # "Completed"
  BY <1>4, RefreshSound DEF DoneIfCompleted
<1> QED BY <1>3, <1>4

LEMMA UpdateKeepsBudget ==
  ASSUME NEW ns, NEW ns2, NEW k, NEW m \in Nodes, SameBut(ns, ns2, m), WithinBudget(ns, k),
         ns2[m].attempts <= MaxRetries[m] + 1 + k,
         ns2[m].state = "Pending" => ns2[m].attempts <= MaxRetries[m] + k
  PROVE  WithinBudget(ns2, k)
BY DEF WithinBudget, SameBut

-----------------------------------------------------------------------------
(***************************************************************************)
(* IInv is inductive: one lemma for each action.                           *)
(***************************************************************************)
LEMMA InitIInv == Init => IInv
<1> SUFFICES ASSUME Init PROVE IInv
  OBVIOUS
<1>1. Added = {} /\ DiskAdded = {}
  BY DEF Init, Added, DiskAdded
<1>2. TypeOK
  BY InitType
<1>3. OneOwner /\ HeldWasBegun
  BY DEF Init, OneOwner, HeldWasBegun, NewNode, Drivers
<1>4. Sound(nodes, Added) /\ Sound(disk.nodes, DiskAdded)
  BY DEF Init, Sound, NewNode, Begun1
<1>5. DoneIfCompleted(nodes, Added, mstate) /\ DoneIfCompleted(disk.nodes, DiskAdded, disk.mstate)
  BY DEF Init, DoneIfCompleted
<1>6. WithinBudget(nodes, crashes) /\ WithinBudget(disk.nodes, crashes)
  BY RetriesAssumption DEF Init, WithinBudget, NewNode
<1> QED BY <1>2, <1>3, <1>4, <1>5, <1>6 DEF IInv

\* What is on disk changes only when the mission is saved.
LEMMA DiskKept ==
  ASSUME IInv, UNCHANGED <<disk, crashes>>
  PROVE  /\ Sound(disk.nodes, DiskAdded)'
         /\ DoneIfCompleted(disk.nodes, DiskAdded, disk.mstate)'
         /\ Steppers = {} => WithinBudget(disk.nodes, crashes)'
<1>1. DiskAdded' = DiskAdded
  BY DEF DiskAdded
<1> QED BY <1>1 DEF IInv, Sound, DoneIfCompleted, WithinBudget, DepsSatisfied, IsDone

LEMMA AddIInv ==
  ASSUME IInv, NEW n \in Nodes, Add(n) PROVE IInv'
<1>1. TypeOK'
  BY NextType DEF IInv, Next
<1>2. Added' = Added \cup {n} /\ Added \subseteq Nodes
  <2>1. order \in Seq(Nodes) /\ order' = Append(order, n)
    BY DEF IInv, TypeOK, Add
  <2>2. /\ DOMAIN order' = 1..(Len(order) + 1) /\ DOMAIN order = 1..Len(order)
        /\ Len(order) \in Nat
        /\ order'[Len(order) + 1] = n
        /\ \A i \in 1..Len(order) : order'[i] = order[i] /\ order[i] \in Nodes
    BY <2>1
  <2>3. \A i \in DOMAIN order' : i = Len(order) + 1 \/ i \in DOMAIN order
    BY <2>2
  <2> QED BY <2>2, <2>3 DEF Added
<1>3. nodes' = nodes
  BY DEF IInv, TypeOK, Sound, Add
<1>4. OneOwner'
  BY <1>3 DEF IInv, OneOwner, Add
<1>5. \A m \in Nodes : DepsSatisfied(nodes, Added, m) => DepsSatisfied(nodes', Added', m)
  BY <1>2, <1>3, KeptDepsStaySatisfied
<1>6. HeldWasBegun'
  BY <1>2, <1>3, <1>5 DEF IInv, HeldWasBegun, Add
<1>7. Sound(nodes, Added)'
  BY <1>2, <1>3, <1>5 DEF IInv, Sound
<1>8. mstate # "Completed"
  <2> SUFFICES ASSUME mstate = "Completed" PROVE FALSE
    OBVIOUS
  <2>1. PICK m \in Added : nodes[m].state = "Completed"
    BY DEF IInv, DoneIfCompleted, IsDone
  <2>2. nodes[m].attempts >= 1
    BY <1>2, <2>1 DEF IInv, Sound, Begun1
  <2>3. nodes[m].attempts = 0
    BY <2>1 DEF Add
  <2> QED BY <2>2, <2>3
<1>9. DoneIfCompleted(nodes, Added, mstate)'
  BY <1>8 DEF DoneIfCompleted, Add
<1>10. Steppers = {} => WithinBudget(nodes, crashes)'
  BY <1>3 DEF IInv, WithinBudget, Add
<1> QED BY <1>1, <1>4, <1>6, <1>7, <1>9, <1>10, DiskKept DEF IInv, Add

LEMMA ClaimIInv ==
  ASSUME IInv, NEW e \in Executors, Claim(e) PROVE IInv'
<1>1. TypeOK /\ TypeOK' /\ Added \in SUBSET Nodes
  BY NextType, AddedType DEF IInv, Next
<1>2. PICK n \in Nodes : /\ IsReady(n)
                        /\ nodes' = [nodes EXCEPT ![n] = Begun(nodes[n])]
                        /\ work' = [work EXCEPT ![e] = n]
  BY DEF Claim
<1>3. n \in Added /\ nodes[n].state = "Pending" /\ DepsSatisfied(nodes, Added, n)
  BY <1>2 DEF IsReady
<1>4. /\ SameBut(nodes, nodes', n)
      /\ nodes'[n].state = "Running"
      /\ nodes'[n].attempts = nodes[n].attempts + 1
      /\ nodes'[n].attempts >= 1
  BY <1>1, <1>2 DEF TypeOK, TaskNode, Begun, SameBut
<1>5. Added' = Added /\ mstate' = mstate /\ crashes' = crashes /\ disk' = disk
  BY DEF Claim, Added
<1>6. /\ work[e] = Idle /\ work'[e] = n
      /\ \A f \in Executors : f # e => work'[f] = work[f]
  BY <1>1, <1>2 DEF Claim, TypeOK, Drivers
<1>7. \A f \in Executors : work[f] # n
  BY <1>3, IdleAssumption DEF IInv, OneOwner
<1>8. OneOwner'
  <2>0. OneOwner
    BY DEF IInv
  <2>1. \A f \in Executors : work'[f] # Idle => nodes'[work'[f]].state \in {"Running", "Cancelled"}
    BY <1>1, <1>4, <1>6, <1>7, <2>0, IdleAssumption DEF OneOwner, SameBut, TypeOK, Drivers
  <2>2. \A f, g \in Executors : work'[f] = work'[g] /\ work'[f] # Idle => f = g
    BY <1>6, <1>7, <2>0 DEF OneOwner
  <2>3. \A m \in Nodes : nodes'[m].state = "Running" => \E f \in Executors : work'[f] = m
    BY <1>4, <1>6, <2>0, IdleAssumption DEF OneOwner, SameBut
  <2> QED BY <2>1, <2>2, <2>3 DEF OneOwner
<1>9. IsDone(nodes, n) => IsDone(nodes', n)
  BY <1>3 DEF IsDone
<1>10. Sound(nodes', Added')
  BY <1>1, <1>3, <1>4, <1>5, <1>9, UpdateKeepsSound DEF IInv
<1>11. \A m \in Nodes : DepsSatisfied(nodes, Added, m) => DepsSatisfied(nodes', Added', m)
  BY <1>4, <1>5, <1>9, UpdateKeepsDone, KeptDepsStaySatisfied
<1>12. HeldWasBegun'
  <2>1. ASSUME NEW f \in Executors, work'[f] # Idle
        PROVE  /\ work'[f] \in Added'
               /\ nodes'[work'[f]].attempts >= 1
               /\ DepsSatisfied(nodes', Added', work'[f])
    <3>1. CASE f = e
      BY <1>3, <1>4, <1>5, <1>6, <1>11, <3>1
    <3>2. CASE f # e
      BY <1>1, <1>4, <1>5, <1>6, <1>7, <1>11, <2>1, <3>2 DEF IInv, HeldWasBegun, SameBut
    <3> QED BY <3>1, <3>2
  <2> QED BY <2>1 DEF HeldWasBegun
<1>13. DoneIfCompleted(nodes', Added', mstate')
  BY <1>1, <1>4, <1>5, <1>9, UpdateKeepsDone DEF IInv, DoneIfCompleted
<1>14. Steppers = {} => WithinBudget(nodes', crashes')
  <2> SUFFICES ASSUME Steppers = {} PROVE WithinBudget(nodes', crashes)
    BY <1>5
  <2>1. WithinBudget(nodes, crashes)
    BY DEF IInv
  <2>2. /\ nodes[n].attempts \in Nat /\ MaxRetries[n] \in Nat /\ crashes \in Nat
        /\ nodes[n].attempts <= MaxRetries[n] + crashes
    BY <1>1, <1>3, <2>1, RetriesAssumption, CrashBound DEF TypeOK, TaskNode, WithinBudget
  <2>3. nodes'[n].attempts <= MaxRetries[n] + 1 + crashes
    BY <1>4, <2>2
  <2> QED BY <1>4, <2>1, <2>3, UpdateKeepsBudget
<1> QED BY <1>1, <1>5, <1>8, <1>10, <1>12, <1>13, <1>14, DiskKept DEF IInv

\* A step that changes only what one node's record says, leaves its state
\* where it was or lets its holder go, and keeps what was done.
LEMMA RecordIInv ==
  ASSUME IInv, TypeOK', NEW n \in Added,
         SameBut(nodes, nodes', n),
         IsDone(nodes, n) => IsDone(nodes', n),
         nodes'[n].attempts >= nodes[n].attempts,
         nodes'[n].state \in Begun1 => nodes'[n].attempts >= 1 /\ DepsSatisfied(nodes, Added, n),
         Steppers = {} => /\ nodes'[n].attempts <= MaxRetries[n] + 1 + crashes
                          /\ nodes'[n].state = "Pending" =>
                               nodes'[n].attempts <= MaxRetries[n] + crashes,
         \A e \in Executors :
           \/ work'[e] = work[e] /\ (work[e] = n => nodes'[n].state = nodes[n].state)
           \/ work'[e] = Idle /\ work[e] = n /\ nodes'[n].state # "Running",
         nodes'[n].state = "Running" => nodes[n].state = "Running",
         \/ mstate' = mstate
         \/ mstate' = RefreshState(nodes', Added),
         UNCHANGED <<order, disk, crashes>>
  PROVE  IInv'
<1>1. TypeOK /\ Added \in SUBSET Nodes /\ n \in Nodes
  BY AddedType DEF IInv
<1>2. Added' = Added
  BY DEF Added
<1>3. \A m \in Nodes : IsDone(nodes, m) => IsDone(nodes', m)
  BY <1>1, UpdateKeepsDone
<1>4. \A m \in Nodes : DepsSatisfied(nodes, Added, m) => DepsSatisfied(nodes', Added', m)
  BY <1>2, <1>3, KeptDepsStaySatisfied
<1>5. OneOwner'
  <2>0. OneOwner
    BY DEF IInv
  <2>1. \A f \in Executors : work'[f] # Idle => nodes'[work'[f]].state \in {"Running", "Cancelled"}
    <3> SUFFICES ASSUME NEW f \in Executors, work'[f] # Idle
                 PROVE  nodes'[work'[f]].state \in {"Running", "Cancelled"}
      OBVIOUS
    <3>1. work'[f] = work[f] /\ (work[f] = n => nodes'[n].state = nodes[n].state)
      OBVIOUS
    <3>2. work[f] \in Nodes
      BY <1>1, <3>1 DEF TypeOK, Drivers
    <3>3. nodes'[work[f]].state = nodes[work[f]].state
      BY <3>1, <3>2 DEF SameBut
    <3> QED BY <2>0, <3>1, <3>3 DEF OneOwner
  <2>2. \A f, g \in Executors : work'[f] = work'[g] /\ work'[f] # Idle => f = g
    BY <2>0 DEF OneOwner
  <2>3. \A m \in Nodes : nodes'[m].state = "Running" => \E f \in Executors : work'[f] = m
    <3> SUFFICES ASSUME NEW m \in Nodes, nodes'[m].state = "Running"
                 PROVE  \E f \in Executors : work'[f] = m
      OBVIOUS
    <3>1. nodes[m].state = "Running"
      BY DEF SameBut
    <3>2. PICK f \in Executors : work[f] = m
      BY <2>0, <3>1 DEF OneOwner
    <3>3. work'[f] = work[f]
      BY <3>2
    <3> QED BY <3>2, <3>3
  <2> QED BY <2>1, <2>2, <2>3 DEF OneOwner
<1>6. HeldWasBegun'
  <2> SUFFICES ASSUME NEW f \in Executors, work'[f] # Idle
               PROVE  /\ work'[f] \in Added'
                      /\ nodes'[work'[f]].attempts >= 1
                      /\ DepsSatisfied(nodes', Added', work'[f])
    BY DEF HeldWasBegun
  <2>1. work'[f] = work[f]
    OBVIOUS
  <2>2. /\ work[f] \in Added /\ nodes[work[f]].attempts >= 1
        /\ DepsSatisfied(nodes, Added, work[f])
    BY <2>1 DEF IInv, HeldWasBegun
  <2>3. nodes'[work[f]].attempts >= 1
    <3>1. CASE work[f] = n
      <4>1. nodes[n].attempts \in Nat /\ nodes'[n].attempts \in Nat
        BY <1>1 DEF TypeOK, TaskNode
      <4> QED BY <2>2, <3>1, <4>1
    <3>2. CASE work[f] # n
      BY <1>1, <2>2, <3>2 DEF SameBut
    <3> QED BY <3>1, <3>2
  <2> QED BY <1>1, <1>2, <1>4, <2>1, <2>2, <2>3
<1>7. Sound(nodes', Added')
  BY <1>1, <1>2, UpdateKeepsSound DEF IInv
<1>8. DoneIfCompleted(nodes', Added', mstate')
  <2>1. CASE mstate' = mstate
    BY <1>1, <1>2, <1>3, <2>1 DEF IInv, DoneIfCompleted
  <2>2. CASE mstate' = RefreshState(nodes', Added)
    BY <1>1, <1>2, <2>2, UpdateKeepsDoneIfCompleted DEF IInv
  <2> QED BY <2>1, <2>2
<1>9. Steppers = {} => WithinBudget(nodes', crashes')
  BY <1>1, UpdateKeepsBudget DEF IInv
<1> QED BY <1>5, <1>6, <1>7, <1>8, <1>9, DiskKept DEF IInv

\* What is known of the node an executor is about to report on.
LEMMA HeldFacts ==
  ASSUME IInv, NEW e \in Executors, work[e] # Idle
  PROVE  /\ work[e] \in Added /\ work[e] \in Nodes
         /\ nodes[work[e]] \in TaskNode
         /\ ~IsDone(nodes, work[e])
         /\ nodes[work[e]].attempts >= 1
         /\ DepsSatisfied(nodes, Added, work[e])
         /\ \A f \in Executors : work[f] = work[e] => f = e
         /\ Steppers = {} => nodes[work[e]].attempts <= MaxRetries[work[e]] + 1 + crashes
<1>1. work[e] \in Nodes /\ nodes[work[e]] \in TaskNode
  BY DEF IInv, TypeOK, Drivers
<1>2. ~IsDone(nodes, work[e])
  BY DEF IInv, OneOwner, IsDone
<1>3. /\ work[e] \in Added /\ nodes[work[e]].attempts >= 1
      /\ DepsSatisfied(nodes, Added, work[e])
  BY DEF IInv, HeldWasBegun
<1>4. \A f \in Executors : work[f] = work[e] => f = e
  BY DEF IInv, OneOwner
<1>5. Steppers = {} => nodes[work[e]].attempts <= MaxRetries[work[e]] + 1 + crashes
  BY <1>1 DEF IInv, WithinBudget
<1> QED BY <1>1, <1>2, <1>3, <1>4, <1>5

LEMMA CheckpointIInv ==
  ASSUME IInv, NEW e \in Executors, Checkpoint(e) PROVE IInv'
<1> DEFINE n == work[e]
<1>1. TypeOK /\ TypeOK'
  BY NextType DEF IInv, Next
<1>2. work[e] # Idle
  BY DEF Checkpoint
<1>3. nodes'[n] = [nodes[n] EXCEPT !.checkpoint = TRUE] /\ SameBut(nodes, nodes', n)
  BY <1>1, <1>2, HeldFacts DEF Checkpoint, TypeOK, SameBut
<1>4. /\ nodes'[n].state = nodes[n].state /\ nodes'[n].attempts = nodes[n].attempts
      /\ nodes'[n].verified = nodes[n].verified
  BY <1>2, <1>3, HeldFacts DEF TaskNode
<1>5. IsDone(nodes, n) => IsDone(nodes', n)
  BY <1>2, HeldFacts
<1>6. nodes[n].attempts \in Nat
  BY <1>2, HeldFacts DEF TaskNode
<1>7. Steppers = {} => (nodes[n].state = "Pending" => nodes[n].attempts <= MaxRetries[n] + crashes)
  BY <1>2, HeldFacts DEF IInv, WithinBudget
<1>8. mstate' = mstate /\ UNCHANGED <<order, disk, crashes, work>>
  BY DEF Checkpoint
<1>9. nodes'[n].attempts >= nodes[n].attempts /\ nodes'[n].attempts >= 1
  BY <1>2, <1>4, <1>6, HeldFacts
<1>10. n \in Added /\ DepsSatisfied(nodes, Added, n)
       /\ (Steppers = {} => nodes'[n].attempts <= MaxRetries[n] + 1 + crashes)
  BY <1>2, <1>4, HeldFacts
<1> HIDE DEF n
<1> QED BY <1>1, <1>3, <1>4, <1>5, <1>7, <1>8, <1>9, <1>10, RecordIInv

LEMMA SucceedIInv ==
  ASSUME IInv, NEW e \in Executors, Succeed(e) PROVE IInv'
<1> DEFINE n == work[e]
<1>1. TypeOK /\ TypeOK'
  BY NextType DEF IInv, Next
<1>2. work[e] # Idle
  BY DEF Succeed
<1>3. PICK ckpt \in BOOLEAN : nodes' = [nodes EXCEPT ![n] = Succeeded(nodes[n], n, ckpt)]
  BY DEF Succeed
<1>4. /\ SameBut(nodes, nodes', n)
      /\ nodes'[n].state = "Completed" /\ nodes'[n].attempts = nodes[n].attempts
  BY <1>1, <1>2, <1>3, HeldFacts DEF TypeOK, SameBut, Succeeded, TaskNode
<1>5. nodes[n].attempts \in Nat
  BY <1>2, HeldFacts DEF TaskNode
<1>6. /\ work'[e] = Idle /\ \A f \in Executors \ {e} : work'[f] = work[f]
      /\ mstate' = RefreshState(nodes', Added) /\ UNCHANGED <<order, disk, crashes>>
  BY <1>1 DEF Succeed, TypeOK, Drivers
<1>7. /\ n \in Added /\ DepsSatisfied(nodes, Added, n)
      /\ ~IsDone(nodes, n) /\ nodes[n].attempts >= 1
      /\ Steppers = {} => nodes[n].attempts <= MaxRetries[n] + 1 + crashes
      /\ \A f \in Executors \ {e} : work[f] # n
  BY <1>2, HeldFacts
<1>8. \A f \in Executors :
        \/ work'[f] = work[f] /\ work[f] # n
        \/ work'[f] = Idle /\ work[f] = n /\ nodes'[n].state # "Running"
  BY <1>4, <1>6, <1>7
<1> HIDE DEF n
<1> QED BY <1>1, <1>4, <1>5, <1>6, <1>7, <1>8, RecordIInv

LEMMA FailIInv ==
  ASSUME IInv, NEW e \in Executors, Fail(e) PROVE IInv'
<1> DEFINE n == work[e]
<1>1. TypeOK /\ TypeOK'
  BY NextType DEF IInv, Next
<1>2. work[e] # Idle
  BY DEF Fail
<1>3. nodes' = [nodes EXCEPT ![n] = FailedOnce(nodes[n], n)]
  BY DEF Fail
<1>4. /\ SameBut(nodes, nodes', n)
      /\ nodes'[n].attempts = nodes[n].attempts
      /\ nodes'[n].state \in {"Pending", "Failed"}
      /\ nodes'[n].state = "Pending" => nodes[n].attempts <= MaxRetries[n]
  BY <1>1, <1>2, <1>3, HeldFacts DEF TypeOK, SameBut, FailedOnce, WillRetry, TaskNode
<1>5. nodes[n].attempts \in Nat /\ MaxRetries[n] \in Nat /\ crashes \in Nat
  BY <1>1, <1>2, HeldFacts, RetriesAssumption, CrashBound DEF TaskNode, TypeOK
<1>6. /\ work'[e] = Idle /\ \A f \in Executors \ {e} : work'[f] = work[f]
      /\ mstate' = RefreshState(nodes', Added) /\ UNCHANGED <<order, disk, crashes>>
  BY <1>1 DEF Fail, TypeOK, Drivers
<1>7. /\ n \in Added /\ DepsSatisfied(nodes, Added, n)
      /\ ~IsDone(nodes, n) /\ nodes[n].attempts >= 1
      /\ Steppers = {} => nodes[n].attempts <= MaxRetries[n] + 1 + crashes
      /\ \A f \in Executors \ {e} : work[f] # n
  BY <1>2, HeldFacts
<1>8. \A f \in Executors :
        \/ work'[f] = work[f] /\ work[f] # n
        \/ work'[f] = Idle /\ work[f] = n /\ nodes'[n].state # "Running"
  BY <1>4, <1>6, <1>7
<1>9. nodes'[n].state = "Pending" => nodes'[n].attempts <= MaxRetries[n] + crashes
  BY <1>4, <1>5
<1> HIDE DEF n
<1> QED BY <1>1, <1>4, <1>5, <1>6, <1>7, <1>8, <1>9, RecordIInv

LEMMA VerifyIInv ==
  ASSUME IInv, NEW n \in Nodes, Verify(n) PROVE IInv'
<1>1. TypeOK /\ TypeOK' /\ n \in Added /\ nodes[n] \in TaskNode
  BY NextType DEF IInv, Next, TypeOK, Verify
<1>2. /\ SameBut(nodes, nodes', n)
      /\ nodes[n].state = "Completed" /\ nodes'[n].state = "Completed"
      /\ nodes'[n].attempts = nodes[n].attempts /\ nodes'[n].verified = TRUE
  BY <1>1 DEF Verify, TypeOK, SameBut, TaskNode
<1>3. IsDone(nodes, n) => IsDone(nodes', n)
  BY <1>2 DEF IsDone
<1>4. /\ nodes[n].attempts \in Nat /\ nodes[n].attempts >= 1
      /\ DepsSatisfied(nodes, Added, n)
      /\ Steppers = {} => nodes[n].attempts <= MaxRetries[n] + 1 + crashes
  BY <1>1, <1>2 DEF IInv, Sound, Begun1, TaskNode, WithinBudget
<1>5. mstate' = RefreshState(nodes', Added) /\ UNCHANGED <<order, disk, crashes, work>>
  BY DEF Verify
<1> QED BY <1>1, <1>2, <1>3, <1>4, <1>5, RecordIInv

LEMMA StepRunIInv ==
  ASSUME IInv, NEW s \in Steppers, StepRun(s) PROVE IInv'
<1> DEFINE n == work[s]
<1>1. TypeOK /\ TypeOK' /\ n \in Nodes /\ nodes[n] \in TaskNode /\ nodes[n].attempts \in Nat
  BY NextType DEF IInv, Next, TypeOK, StepRun, Drivers, TaskNode
<1>2. Executors = {} /\ Steppers # {} /\ UNCHANGED <<order, disk, crashes>>
  BY OneKindOfDriver DEF StepRun
<1>3. CASE CanBegin(n)
  <2>1. nodes' = [nodes EXCEPT ![n] = Succeeded(Begun(nodes[n]), n, TRUE)]
        /\ mstate' = RefreshState(nodes', Added)
    BY <1>3 DEF StepRun
  <2>2. Begun(nodes[n]) \in TaskNode /\ Begun(nodes[n]).attempts = nodes[n].attempts + 1
        /\ Begun(nodes[n]).verified = nodes[n].verified
    BY <1>1, BegunType DEF Begun, TaskNode
  <2>3. /\ SameBut(nodes, nodes', n)
        /\ nodes'[n].state = "Completed" /\ nodes'[n].attempts = nodes[n].attempts + 1
        /\ nodes[n].verified => nodes'[n].verified
    BY <1>1, <2>1, <2>2 DEF TypeOK, SameBut, Succeeded, TaskNode
  <2>4. IsDone(nodes, n) => IsDone(nodes', n)
    BY <2>3 DEF IsDone
  <2>5. n \in Added /\ DepsSatisfied(nodes, Added, n)
    BY <1>3 DEF CanBegin
  <2>6. nodes'[n].attempts >= nodes[n].attempts /\ nodes'[n].attempts >= 1
    BY <1>1, <2>3
  <2> HIDE DEF n
  <2> QED BY <1>1, <1>2, <2>1, <2>3, <2>4, <2>5, <2>6, RecordIInv
<1>4. CASE ~CanBegin(n)
  <2>1. UNCHANGED <<nodes, order, mstate, disk, crashes>>
    BY <1>4 DEF StepRun
  <2>2. Added' = Added
    BY <2>1 DEF Added
  <2>3. OneOwner' /\ HeldWasBegun'
    BY <1>2, <2>1 DEF IInv, OneOwner, HeldWasBegun
  <2>4. /\ Sound(nodes', Added') /\ DoneIfCompleted(nodes', Added', mstate')
        /\ Steppers = {} => WithinBudget(nodes', crashes')
    BY <2>1, <2>2 DEF IInv
  <2> QED BY <1>1, <2>1, <2>3, <2>4, DiskKept DEF IInv
<1> QED BY <1>3, <1>4

\* A step that leaves the nodes alone, and may only take Completed away from
\* the mission.
LEMMA ControlIInv ==
  ASSUME IInv, TypeOK', UNCHANGED <<nodes, order, disk, crashes>>,
         \A e \in Executors : work'[e] = work[e],
         mstate' = "Completed" => mstate = "Completed"
  PROVE  IInv'
<1>1. Added' = Added
  BY DEF Added
<1>2. OneOwner' /\ HeldWasBegun'
  BY <1>1 DEF IInv, OneOwner, HeldWasBegun
<1>3. /\ Sound(nodes', Added') /\ DoneIfCompleted(nodes', Added', mstate')
      /\ Steppers = {} => WithinBudget(nodes', crashes')
  BY <1>1 DEF IInv, DoneIfCompleted
<1> QED BY <1>2, <1>3, DiskKept DEF IInv

LEMMA CancelIInv ==
  ASSUME IInv, Cancel PROVE IInv'
<1>1. TypeOK /\ TypeOK' /\ Added \in SUBSET Nodes
  BY NextType, AddedType DEF IInv, Next
<1>2. UNCHANGED <<order, disk, work, crashes>> /\ Added' = Added /\ mstate' # "Completed"
  BY DEF Cancel, Added
<1>3. \A m \in Nodes :
        /\ nodes'[m].attempts = nodes[m].attempts
        /\ nodes'[m].verified = nodes[m].verified
        /\ nodes'[m].state = nodes[m].state \/ nodes'[m].state = "Cancelled"
        /\ nodes[m].state \notin {"Pending", "Running"} => nodes'[m] = nodes[m]
        /\ m \notin Added => nodes'[m] = nodes[m]
        /\ m \in Added /\ nodes[m].state = "Running" => nodes'[m].state = "Cancelled"
  BY <1>1 DEF Cancel, TypeOK, TaskNode
<1>4. \A m \in Nodes : IsDone(nodes, m) => IsDone(nodes', m)
  BY <1>3 DEF IsDone
<1>5. \A m \in Nodes : DepsSatisfied(nodes, Added, m) => DepsSatisfied(nodes', Added', m)
  BY <1>2, <1>4, KeptDepsStaySatisfied
<1>6. OneOwner'
  <2>0. OneOwner /\ work \in [Drivers -> Nodes \cup {Idle}]
    BY <1>1 DEF IInv, TypeOK
  <2>1. \A f \in Executors : work[f] # Idle => nodes'[work[f]].state \in {"Running", "Cancelled"}
    BY <1>3, <2>0 DEF OneOwner, Drivers
  <2>2. \A m \in Nodes : nodes'[m].state = "Running" => \E f \in Executors : work[f] = m
    BY <1>3, <2>0 DEF OneOwner
  <2> QED BY <1>2, <2>0, <2>1, <2>2 DEF OneOwner
<1>7. HeldWasBegun'
  BY <1>1, <1>2, <1>3, <1>5 DEF IInv, HeldWasBegun
<1>8. Sound(nodes', Added')
  BY <1>2, <1>3, <1>5 DEF IInv, Sound, Begun1
<1>9. Steppers = {} => WithinBudget(nodes', crashes')
  <2> SUFFICES ASSUME Steppers = {} PROVE WithinBudget(nodes', crashes)
    BY <1>2
  <2>1. WithinBudget(nodes, crashes)
    BY DEF IInv
  <2> QED BY <1>3, <2>1 DEF WithinBudget
<1>10. DoneIfCompleted(nodes', Added', mstate')
  BY <1>2 DEF DoneIfCompleted
<1> QED BY <1>1, <1>2, <1>6, <1>7, <1>8, <1>9, <1>10, DiskKept DEF IInv

LEMMA SaveIInv ==
  ASSUME IInv, Save PROVE IInv'
<1>1. TypeOK'
  BY NextType DEF IInv, Next
<1>2. UNCHANGED <<nodes, order, mstate, work, crashes>> /\ Added' = Added
  BY DEF Save, mission, Added
<1>3. disk'.nodes = nodes /\ disk'.mstate = mstate /\ DiskAdded' = Added
  BY DEF Save, DiskAdded, Added
<1>4. OneOwner' /\ HeldWasBegun'
  BY <1>2 DEF IInv, OneOwner, HeldWasBegun
<1>5. /\ Sound(nodes', Added') /\ DoneIfCompleted(nodes', Added', mstate')
      /\ Sound(disk'.nodes, DiskAdded') /\ DoneIfCompleted(disk'.nodes, DiskAdded', disk'.mstate)
      /\ Steppers = {} => WithinBudget(nodes', crashes') /\ WithinBudget(disk'.nodes, crashes')
  BY <1>2, <1>3 DEF IInv
<1> QED BY <1>1, <1>4, <1>5 DEF IInv

\* A crash takes back a sound mission.  The lease given back by
\* reclaim_running leaves the node pending with its attempt spent, which the
\* crash just counted pays for.
LEMMA CrashIInv ==
  ASSUME IInv, CrashAndRestore PROVE IInv'
<1>1. TypeOK /\ TypeOK'
  BY NextType DEF IInv, Next
<1>2. /\ disk' = disk /\ DiskAdded' = DiskAdded /\ Added' = DiskAdded
      /\ mstate' = disk.mstate /\ crashes' = crashes + 1
      /\ \A e \in Executors : work'[e] = Idle
  BY DEF CrashAndRestore, DiskAdded, Added, Drivers
<1>3. \A m \in Nodes :
        /\ nodes'[m].attempts = disk.nodes[m].attempts
        /\ nodes'[m].state # "Running"
        /\ disk.nodes[m].state # "Running" => nodes'[m] = disk.nodes[m]
        /\ disk.nodes[m].state = "Running" => nodes'[m].state = "Pending"
  BY <1>1 DEF CrashAndRestore, ReclaimRunning, TypeOK, TaskNode
<1>4. \A m \in Nodes : IsDone(disk.nodes, m) => IsDone(nodes', m)
  BY <1>3 DEF IsDone
<1>5. \A m \in Nodes : DepsSatisfied(disk.nodes, DiskAdded, m) => DepsSatisfied(nodes', Added', m)
  BY <1>2, <1>4, KeptDepsStaySatisfied
<1>6. OneOwner' /\ HeldWasBegun'
  BY <1>2, <1>3 DEF OneOwner, HeldWasBegun
<1>7. Sound(nodes', Added')
  <2>1. Sound(disk.nodes, DiskAdded)
    BY DEF IInv
  <2>2. ASSUME NEW m \in Nodes, m \notin DiskAdded PROVE nodes'[m] = NewNode
    BY <1>3, <2>1, <2>2 DEF Sound, NewNode
  <2>3. ASSUME NEW m \in Nodes, nodes'[m].state \in Begun1
        PROVE  nodes'[m].attempts >= 1 /\ DepsSatisfied(nodes', Added', m)
    BY <1>3, <1>5, <2>1, <2>3 DEF Sound, Begun1
  <2> QED BY <1>2, <2>2, <2>3 DEF Sound
<1>8. DoneIfCompleted(nodes', Added', mstate')
  <2>1. DoneIfCompleted(disk.nodes, DiskAdded, disk.mstate) /\ DiskAdded \subseteq Nodes
    BY <1>1 DEF IInv, TypeOK, DiskAdded
  <2> QED BY <1>2, <1>4, <2>1 DEF DoneIfCompleted
<1>9. Steppers = {} => WithinBudget(nodes', crashes') /\ WithinBudget(disk.nodes, crashes')
  <2> SUFFICES ASSUME Steppers = {}
               PROVE  WithinBudget(nodes', crashes + 1) /\ WithinBudget(disk.nodes, crashes + 1)
    BY <1>2
  <2>1. WithinBudget(disk.nodes, crashes) /\ crashes \in Nat
    BY <1>1, CrashBound DEF IInv, TypeOK
  <2>2. \A m \in Nodes : MaxRetries[m] \in Nat /\ disk.nodes[m].attempts \in Nat
    BY <1>1, RetriesAssumption DEF TypeOK, TaskNode
  <2>3. \A m \in Nodes : disk.nodes[m].attempts <= MaxRetries[m] + 1 + crashes
    BY <2>1 DEF WithinBudget
  <2>0. \A a, r, c \in Nat : a <= r + 1 + c => a <= r + 1 + (c + 1) /\ a <= r + (c + 1)
    OBVIOUS
  <2>4. \A m \in Nodes : /\ disk.nodes[m].attempts <= MaxRetries[m] + 1 + (crashes + 1)
                         /\ disk.nodes[m].attempts <= MaxRetries[m] + (crashes + 1)
    BY <2>0, <2>1, <2>2, <2>3
  <2> QED BY <1>3, <2>4 DEF WithinBudget
<1>10. /\ Sound(disk'.nodes, DiskAdded') /\ DoneIfCompleted(disk'.nodes, DiskAdded', disk'.mstate)
       /\ Steppers = {} => WithinBudget(disk'.nodes, crashes')
  BY <1>2, <1>9 DEF IInv
<1> QED BY <1>1, <1>6, <1>7, <1>8, <1>9, <1>10 DEF IInv

LEMMA NextIInv == IInv /\ [Next]_vars => IInv'
<1> SUFFICES ASSUME IInv, [Next]_vars PROVE IInv'
  OBVIOUS
<1>1. TypeOK'
  BY NextType DEF IInv
<1>2. ASSUME NEW n \in Nodes, Add(n) \/ Verify(n) PROVE IInv'
  BY <1>2, AddIInv, VerifyIInv
<1>3. ASSUME NEW e \in Executors, Claim(e) \/ Checkpoint(e) \/ Succeed(e) \/ Fail(e) PROVE IInv'
  BY <1>3, ClaimIInv, CheckpointIInv, SucceedIInv, FailIInv
<1>4. ASSUME NEW s \in Steppers, StepLookup(s) PROVE IInv'
  <2>1. Executors = {} /\ UNCHANGED <<nodes, order, mstate, disk, crashes>>
    BY <1>4, OneKindOfDriver DEF StepLookup, mission
  <2> QED BY <1>1, <2>1, ControlIInv
<1>5. ASSUME NEW s \in Steppers, StepRun(s) PROVE IInv'
  BY <1>5, StepRunIInv
<1>6. ASSUME Pause \/ Resume \/ Start PROVE IInv'
  <2>1. UNCHANGED <<nodes, order, disk, work, crashes>> /\ mstate' # "Completed"
    BY <1>6 DEF Pause, Resume, Start
  <2> QED BY <1>1, <2>1, ControlIInv
<1>7. CASE UNCHANGED vars
  BY <1>1, <1>7, ControlIInv DEF vars
<1> QED
  BY <1>2, <1>3, <1>4, <1>5, <1>6, <1>7, CancelIInv, SaveIInv, CrashIInv DEF Next

LEMMA Inductive == Spec => []IInv
BY InitIInv, NextIInv, PTL DEF Spec

-----------------------------------------------------------------------------
\* However many executors work, fail, are cancelled or die, a running node
\* has exactly one of them and each holds a running or cancelled node.
THEOREM LeasesAreOwned == Spec => []OneOwner
<1>1. IInv => OneOwner
  BY DEF IInv
<1> QED BY <1>1, Inductive, PTL

\* Dependencies of a begun node are done, for ever, across retries, operator
\* controls and crashes, though only begin looks at them.
THEOREM DependenciesComeFirst == Spec => []StartedAfterDeps
<1>1. IInv => StartedAfterDeps
  BY DEF IInv, StartedAfterDeps, Sound, Begun1, DepsSatisfied
<1> QED BY <1>1, Inductive, PTL

\* Completed is never said of a mission with an unfinished node.
THEOREM CompletedIsTrue == Spec => []CompletedMeansAllDone
<1>1. IInv => CompletedMeansAllDone
  BY DEF IInv, CompletedMeansAllDone, DoneIfCompleted
<1> QED BY <1>1, Inductive, PTL

\* With executors, a node is attempted at most max_retries + 1 times and once
\* more for each crash.
THEOREM AttemptsAreBounded == ASSUME Steppers = {} PROVE Spec => []RetryBudget
<1>1. IInv => RetryBudget
  BY DEF IInv, RetryBudget, WithinBudget
<1> QED BY <1>1, Inductive, PTL

-----------------------------------------------------------------------------
(***************************************************************************)
(* No dead end.  The dependencies of a node stand before it in the order   *)
(* of insertion, so the first node that is not done has them all done: it  *)
(* is pending and ready, running, or completed and unverified.             *)
(***************************************************************************)
DepsBefore(o) ==
  \A i \in DOMAIN o : \A d \in Deps[o[i]] : \E j \in DOMAIN o : j < i /\ o[j] = d

OrderInv == DepsBefore(order) /\ DepsBefore(disk.order)

LEMMA NextOrderInv == IInv /\ OrderInv /\ [Next]_vars => OrderInv'
<1> SUFFICES ASSUME IInv, OrderInv, [Next]_vars PROVE OrderInv'
  OBVIOUS
<1>1. ASSUME UNCHANGED <<order, disk>> PROVE OrderInv'
  BY <1>1 DEF OrderInv, DepsBefore
<1>2. ASSUME NEW n \in Nodes, Add(n) PROVE OrderInv'
  <2>1. order \in Seq(Nodes) /\ order' = Append(order, n) /\ disk' = disk
    BY <1>2 DEF IInv, TypeOK, Add
  <2>2. /\ DOMAIN order' = 1..(Len(order) + 1) /\ DOMAIN order = 1..Len(order)
        /\ Len(order) \in Nat
        /\ order'[Len(order) + 1] = n
        /\ \A i \in 1..Len(order) : order'[i] = order[i]
    BY <2>1
  <2>3. ASSUME NEW i \in DOMAIN order', NEW d \in Deps[order'[i]]
        PROVE  \E j \in DOMAIN order' : j < i /\ order'[j] = d
    <3>1. CASE i \in DOMAIN order
      <4>1. d \in Deps[order[i]]
        BY <2>2, <3>1
      <4>2. PICK j \in DOMAIN order : j < i /\ order[j] = d
        BY <3>1, <4>1 DEF OrderInv, DepsBefore
      <4> QED BY <2>2, <4>2
    <3>2. CASE i = Len(order) + 1
      <4>1. d \in Added
        BY <1>2, <2>2, <3>2 DEF Add
      <4>2. PICK j \in DOMAIN order : order[j] = d
        BY <4>1 DEF Added
      <4> QED BY <2>2, <3>2, <4>2
    <3> QED BY <2>2, <3>1, <3>2
  <2> QED BY <2>1, <2>3 DEF OrderInv, DepsBefore
<1>3. ASSUME Save PROVE OrderInv'
  <2>1. order' = order /\ disk'.order = order
    BY <1>3 DEF Save, mission
  <2> QED BY <2>1 DEF OrderInv, DepsBefore
<1>4. ASSUME CrashAndRestore PROVE OrderInv'
  <2>1. order' = disk.order /\ disk' = disk
    BY <1>4 DEF CrashAndRestore
  <2> QED BY <2>1 DEF OrderInv, DepsBefore
<1>5. CASE UNCHANGED vars
  BY <1>1, <1>5 DEF vars
<1> QED
  BY <1>1, <1>2, <1>3, <1>4, <1>5
     DEF Next, Verify, Claim, Checkpoint, Succeed, Fail, StepLookup, StepRun,
         Pause, Resume, Start, Cancel, mission

\* A relation well founded on the naturals has a minimal element in each of
\* their sets; for < it is the least.
LEMMA MinimalElement ==
  \A R : IsWellFoundedOn(R, Nat) =>
    \A T \in SUBSET Nat : T # {} => \E x \in T : \A y \in T : ~ (<<y, x>> \in R)
BY WFMin

LEMMA MinimalIsLeast ==
  ASSUME NEW R, IsWellFoundedOn(R, Nat), \A x, y \in Nat : x < y => <<x, y>> \in R,
         NEW T \in SUBSET Nat, T # {}
  PROVE  \E x \in T : \A y \in T : x <= y
<1>1. T \subseteq Nat
  OBVIOUS
<1>2. PICK x \in T : \A y \in T : ~ (<<y, x>> \in R)
  BY MinimalElement, Zenon
<1>3. \A y \in T : ~ (y < x)
  BY <1>1, <1>2, Zenon
<1> QED BY <1>1, <1>3

LEMMA LeastIndex ==
  ASSUME NEW T \in SUBSET Nat, T # {}
  PROVE  \E x \in T : \A y \in T : x <= y
<1>1. \A x, y \in Nat : x < y => <<x, y>> \in OpToRel(<, Nat)
  BY DEF OpToRel
<1> QED BY <1>1, MinimalIsLeast, NatLessThanWellFounded

\* A mission that runs, with no node failed or cancelled, is done, has a
\* resume point or waits for a verification: adding nodes after their
\* dependencies is all it takes, whatever is run, retried, saved or restored.
THEOREM MissionsGoOn == Spec => []NoDeadEnd
<1>1. IInv /\ OrderInv => NoDeadEnd
  <2> SUFFICES ASSUME IInv, OrderInv,
                      \A n \in Added : nodes[n].state \notin {"Failed", "Cancelled"},
                      ~ \A n \in Added : IsDone(nodes, n),
                      ~ \E n \in Added : nodes[n].state = "Completed" /\ ~IsDone(nodes, n)
               PROVE  HasResumePoint
    BY DEF NoDeadEnd
  <2> DEFINE T == {i \in DOMAIN order : ~IsDone(nodes, order[i])}
  <2>1. DOMAIN order \subseteq Nat /\ \A i \in DOMAIN order : order[i] \in Nodes /\ order[i] \in Added
    BY DEF IInv, TypeOK, Added
  <2>2. T \in SUBSET Nat /\ T # {}
    BY <2>1 DEF Added
  <2>3. PICK i \in T : \A j \in T : i <= j
    BY <2>2, LeastIndex
  <2>4. i \in DOMAIN order /\ order[i] \in Added /\ ~IsDone(nodes, order[i])
    BY <2>1, <2>3
  <2>5. ASSUME NEW d \in Deps[order[i]] PROVE d \in Added /\ IsDone(nodes, d)
    <3>1. PICK j \in DOMAIN order : j < i /\ order[j] = d
      BY <2>4 DEF OrderInv, DepsBefore
    <3>2. j \notin T
      BY <2>1, <2>2, <2>3, <3>1
    <3> QED BY <2>1, <3>1, <3>2
  <2>6. nodes[order[i]].state \in {"Pending", "Running"}
    BY <2>1, <2>4 DEF IInv, TypeOK, TaskNode, NodeState
  <2> QED BY <2>4, <2>5, <2>6 DEF HasResumePoint, DepsSatisfied
<1>2. Init => OrderInv
  BY DEF Init, OrderInv, DepsBefore
<1> QED BY <1>1, <1>2, InitIInv, NextIInv, NextOrderInv, PTL DEF Spec

-----------------------------------------------------------------------------
(***************************************************************************)
(* The mission implements the ledger: a step that leaves what is done      *)
(* alone declares, one that finishes a node finishes it in the ledger.     *)
(***************************************************************************)
LEMMA DoneIsAdded == IInv => DoneIn(nodes) \subseteq Added
BY DEF IInv, Sound, DoneIn, IsDone, NewNode

LEMMA CompleteIsAllDone ==
  ASSUME IInv, mstate = "Completed" PROVE DoneIn(nodes) = Added /\ Added # {}
<1>1. Added \subseteq Nodes
  BY AddedType DEF IInv
<1> QED BY <1>1, DoneIsAdded DEF IInv, DoneIfCompleted, DoneIn

LEMMA StepDeclares ==
  ASSUME IInv', UNCHANGED <<Added, DoneIn(nodes), disk>> PROVE Ledger!Declare
<1>1. mstate' = "Completed" => DoneIn(nodes') = Added' /\ Added' # {}
  <2>1. IInv' /\ (mstate = "Completed")' => (DoneIn(nodes) = Added /\ Added # {})'
    BY CompleteIsAllDone, PTL
  <2> QED BY <2>1
<1> QED BY <1>1 DEF Ledger!Declare

LEMMA StepFinishes ==
  ASSUME IInv', NEW n \in Added, n \notin DoneIn(nodes), Deps[n] \subseteq DoneIn(nodes),
         DoneIn(nodes') = DoneIn(nodes) \cup {n}, UNCHANGED <<Added, disk>>
  PROVE  Ledger!Finish(n)
<1>1. mstate' = "Completed" => DoneIn(nodes') = Added'
  <2>1. IInv' /\ (mstate = "Completed")' => (DoneIn(nodes) = Added /\ Added # {})'
    BY CompleteIsAllDone, PTL
  <2> QED BY <2>1
<1> QED BY <1>1 DEF Ledger!Finish

\* A step that rewrites one node, keeps what was done, and makes it done only
\* when its dependencies are.
LEMMA RecordSteps ==
  ASSUME TypeOK, IInv', NEW n \in Added,
         SameBut(nodes, nodes', n), UNCHANGED <<order, disk>>,
         IsDone(nodes, n) => IsDone(nodes', n),
         IsDone(nodes', n) => DepsSatisfied(nodes, Added, n)
  PROVE  Ledger!LedgerNext
<1>1. Added' = Added /\ n \in Nodes
  BY AddedType DEF Added
<1>2. \A m \in Nodes : m # n => (IsDone(nodes', m) <=> IsDone(nodes, m))
  BY DEF SameBut, IsDone
<1>3. CASE IsDone(nodes', n) <=> IsDone(nodes, n)
  <2>1. DoneIn(nodes') = DoneIn(nodes)
    BY <1>2, <1>3 DEF DoneIn
  <2> QED BY <1>1, <2>1, StepDeclares DEF Ledger!LedgerNext
<1>4. CASE IsDone(nodes', n) /\ ~IsDone(nodes, n)
  <2>1. DoneIn(nodes') = DoneIn(nodes) \cup {n} /\ n \notin DoneIn(nodes)
    BY <1>1, <1>2, <1>4 DEF DoneIn
  <2>2. Deps[n] \subseteq DoneIn(nodes)
    BY <1>1, <1>4, DepsAssumption DEF DepsSatisfied, DoneIn
  <2> QED BY <1>1, <2>1, <2>2, StepFinishes DEF Ledger!LedgerNext
<1> QED BY <1>3, <1>4

LEMMA AddEnters == ASSUME IInv, NEW n \in Nodes, Add(n) PROVE Ledger!Enter(n)
<1>1. Added' = Added \cup {n}
  <2>1. order \in Seq(Nodes) /\ order' = Append(order, n)
    BY DEF IInv, TypeOK, Add
  <2>2. /\ DOMAIN order' = 1..(Len(order) + 1) /\ DOMAIN order = 1..Len(order)
        /\ Len(order) \in Nat
        /\ order'[Len(order) + 1] = n
        /\ \A i \in 1..Len(order) : order'[i] = order[i]
    BY <2>1
  <2>3. \A i \in DOMAIN order' : i = Len(order) + 1 \/ i \in DOMAIN order
    BY <2>2
  <2> QED BY <2>2, <2>3 DEF Added
<1>2. nodes' = nodes
  BY DEF IInv, TypeOK, Sound, Add
<1>3. DoneIn(nodes) = {}
  <2> SUFFICES ASSUME NEW m \in Nodes, IsDone(nodes, m) PROVE FALSE
    BY DEF DoneIn
  <2>1. m \in Added
    BY DoneIsAdded DEF DoneIn
  <2>2. nodes[m].attempts = 0 /\ nodes[m].attempts >= 1
    BY <2>1 DEF Add, IInv, Sound, IsDone, Begun1
  <2> QED BY <2>2
<1>4. n \notin Added /\ Deps[n] \subseteq Added /\ UNCHANGED <<mstate, disk>>
  BY DEF Add
<1> QED BY <1>1, <1>2, <1>3, <1>4 DEF Ledger!Enter

LEMMA StepLedger == IInv /\ IInv' /\ [Next]_vars => [Ledger!LedgerNext]_(Ledger!ledgerVars)
<1> SUFFICES ASSUME IInv, IInv', [Next]_vars
             PROVE  Ledger!LedgerNext \/ UNCHANGED (Ledger!ledgerVars)
  OBVIOUS
<1>0. TypeOK /\ \A n \in Nodes : nodes[n] \in TaskNode
  BY DEF IInv, TypeOK
<1>1. ASSUME NEW n \in Nodes, Add(n) PROVE Ledger!LedgerNext
  BY <1>1, AddEnters DEF Ledger!LedgerNext
<1>2. ASSUME NEW n \in Nodes, Verify(n) PROVE Ledger!LedgerNext
  <2>1. SameBut(nodes, nodes', n) /\ n \in Added /\ UNCHANGED <<order, disk>>
    BY <1>0, <1>2 DEF Verify, SameBut, TypeOK
  <2>2. nodes'[n].state = nodes[n].state /\ nodes'[n].verified = TRUE
    BY <1>0, <1>2 DEF Verify, TypeOK, TaskNode
  <2>3. DepsSatisfied(nodes, Added, n)
    BY <1>2 DEF Verify, IInv, Sound, Begun1
  <2> QED BY <1>0, <2>1, <2>2, <2>3, RecordSteps DEF IsDone
<1>3. ASSUME NEW e \in Executors, Claim(e) PROVE Ledger!LedgerNext
  <2>1. PICK n \in Nodes : IsReady(n) /\ nodes' = [nodes EXCEPT ![n] = Begun(nodes[n])]
    BY <1>3 DEF Claim
  <2>2. SameBut(nodes, nodes', n) /\ n \in Added /\ UNCHANGED <<order, disk>>
    BY <1>0, <1>3, <2>1 DEF Claim, SameBut, TypeOK, IsReady
  <2>3. nodes[n].state = "Pending" /\ nodes'[n].state = "Running"
    BY <1>0, <2>1 DEF TypeOK, TaskNode, Begun, IsReady
  <2> QED BY <1>0, <2>2, <2>3, RecordSteps DEF IsDone
<1>4. ASSUME NEW e \in Executors, Checkpoint(e) \/ Succeed(e) \/ Fail(e) PROVE Ledger!LedgerNext
  <2>1. work[e] # Idle /\ UNCHANGED <<order, disk>>
    BY <1>4 DEF Checkpoint, Succeed, Fail
  <2>2. /\ work[e] \in Added /\ work[e] \in Nodes
        /\ ~IsDone(nodes, work[e]) /\ DepsSatisfied(nodes, Added, work[e])
    BY <2>1, HeldFacts
  <2>3. SameBut(nodes, nodes', work[e])
    BY <1>0, <1>4, <2>2 DEF Checkpoint, Succeed, Fail, SameBut, TypeOK
  <2> QED BY <1>0, <2>1, <2>2, <2>3, RecordSteps
<1>5. ASSUME NEW s \in Steppers, StepRun(s) PROVE Ledger!LedgerNext
  <2>1. CASE CanBegin(work[s])
    <3>1. work[s] \in Nodes /\ work[s] \in Added /\ DepsSatisfied(nodes, Added, work[s])
      BY <1>0, <2>1, AddedType DEF CanBegin
    <3>2. nodes' = [nodes EXCEPT ![work[s]] = Succeeded(Begun(nodes[work[s]]), work[s], TRUE)]
          /\ UNCHANGED <<order, disk>>
      BY <1>5, <2>1 DEF StepRun
    <3>3. Begun(nodes[work[s]]) \in TaskNode /\ Begun(nodes[work[s]]).verified = nodes[work[s]].verified
      BY <1>0, <3>1, BegunType DEF Begun, TaskNode
    <3>4. /\ SameBut(nodes, nodes', work[s])
          /\ nodes'[work[s]].state = "Completed"
          /\ nodes[work[s]].verified => nodes'[work[s]].verified
      BY <1>0, <3>1, <3>2, <3>3 DEF TypeOK, SameBut, Succeeded, TaskNode
    <3>5. IsDone(nodes, work[s]) => IsDone(nodes', work[s])
      BY <3>4 DEF IsDone
    <3> QED BY <1>0, <3>1, <3>2, <3>4, <3>5, RecordSteps
  <2>2. CASE ~CanBegin(work[s])
    <3>1. UNCHANGED <<Added, DoneIn(nodes), disk>>
      BY <1>5, <2>2 DEF StepRun, Added
    <3> QED BY <3>1, StepDeclares DEF Ledger!LedgerNext
  <2> QED BY <2>1, <2>2
<1>6. ASSUME NEW s \in Steppers, StepLookup(s) PROVE Ledger!LedgerNext
  <2>1. UNCHANGED <<Added, DoneIn(nodes), disk>>
    BY <1>6 DEF StepLookup, mission, Added
  <2> QED BY <2>1, StepDeclares DEF Ledger!LedgerNext
<1>7. ASSUME Pause \/ Resume \/ Start PROVE Ledger!LedgerNext
  <2>1. UNCHANGED <<Added, DoneIn(nodes), disk>>
    BY <1>7 DEF Pause, Resume, Start, Added
  <2> QED BY <2>1, StepDeclares DEF Ledger!LedgerNext
<1>8. ASSUME Cancel PROVE Ledger!LedgerNext
  <2>1. \A m \in Nodes : \/ nodes'[m] = nodes[m]
                         \/ nodes'[m].state = "Cancelled" /\ nodes[m].state # "Completed"
    BY <1>0, <1>8 DEF Cancel, TypeOK, TaskNode
  <2>2. DoneIn(nodes') = DoneIn(nodes)
    BY <2>1 DEF DoneIn, IsDone
  <2>3. Added' = Added /\ disk' = disk
    BY <1>8 DEF Cancel, Added
  <2> QED BY <2>2, <2>3, StepDeclares DEF Ledger!LedgerNext
<1>9. ASSUME Save PROVE Ledger!LedgerNext
  <2>1. /\ UNCHANGED <<nodes, order, mstate>>
        /\ disk'.nodes = nodes /\ disk'.order = order /\ disk'.mstate = mstate
    BY <1>9 DEF Save, mission
  <2>2. Ledger!Keep
    BY <2>1 DEF Ledger!Keep, Ledger!Entry, Added, DoneIn, IsDone
  <2> QED BY <2>2 DEF Ledger!LedgerNext
<1>10. ASSUME CrashAndRestore PROVE Ledger!LedgerNext
  <2>1. UNCHANGED disk /\ order' = disk.order /\ mstate' = disk.mstate
    BY <1>10 DEF CrashAndRestore
  <2>2. \A m \in Nodes : \/ nodes'[m] = disk.nodes[m]
                         \/ nodes'[m].state = "Pending" /\ disk.nodes[m].state = "Running"
    BY <1>0, <1>10 DEF CrashAndRestore, ReclaimRunning, TypeOK, TaskNode
  <2>3. DoneIn(nodes') = DoneIn(disk.nodes)
    BY <2>2 DEF DoneIn, IsDone
  <2>4. Ledger!GoBack
    BY <2>1, <2>3 DEF Ledger!GoBack, Added
  <2> QED BY <2>4 DEF Ledger!LedgerNext
<1>11. CASE UNCHANGED vars
  <2>1. UNCHANGED <<Added, DoneIn(nodes), disk>>
    BY <1>11 DEF vars, Added
  <2> QED BY <2>1, StepDeclares DEF Ledger!LedgerNext
<1> QED
  BY <1>1, <1>2, <1>3, <1>4, <1>5, <1>6, <1>7, <1>8, <1>9, <1>10, <1>11 DEF Next

LEMMA InitLedger == Init => Ledger!LedgerInit
<1> SUFFICES ASSUME Init PROVE Ledger!LedgerInit
  OBVIOUS
<1>1. Added = {} /\ {disk.order[i] : i \in DOMAIN disk.order} = {}
  BY DEF Init, Added
<1>2. DoneIn(nodes) = {} /\ DoneIn(disk.nodes) = {}
  BY DEF Init, DoneIn, IsDone, NewNode
<1>3. (mstate = "Completed") = FALSE /\ (disk.mstate = "Completed") = FALSE
  BY DEF Init
<1> QED BY <1>1, <1>2, <1>3 DEF Ledger!LedgerInit, Ledger!Entry

\* Whatever the drivers, the operator and the crashes do, the mission is a
\* ledger: a task is finished once its dependencies are, nothing finished is
\* lost but by going back to the saved copy, and completion is never declared
\* of an unfinished ledger.
THEOREM MissionIsALedger == Spec => ImplementsLedger
<1>1. IInv /\ IInv' /\ [Next]_vars => [Ledger!LedgerNext]_(Ledger!ledgerVars)
  BY StepLedger
<1> QED
  BY <1>1, InitLedger, InitIInv, NextIInv, PTL DEF Spec, ImplementsLedger, Ledger!LedgerSpec
=============================================================================
