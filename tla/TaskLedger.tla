----------------------------- MODULE TaskLedger -----------------------------
(***************************************************************************)
(* What a durable mission promises its host: a ledger of tasks done.       *)
(* Tasks are entered first; one that is done had all its dependencies done *)
(* before; the ledger loses entries only by going back, as a whole, to the *)
(* copy kept last; and it is declared complete only when every task is     *)
(* done.  Mission implements this module.                                  *)
(***************************************************************************)
CONSTANTS Nodes, Deps

VARIABLES
  tasks,     \* the tasks entered
  done,      \* those of them that are done
  complete,  \* the mission is declared complete
  kept       \* the copy a crash goes back to

ledgerVars == <<tasks, done, complete, kept>>

Entry == [tasks |-> tasks, done |-> done, complete |-> complete]

LedgerInit ==
  /\ tasks = {}
  /\ done = {}
  /\ complete = FALSE
  /\ kept = Entry

Enter(n) ==
  /\ n \notin tasks
  /\ Deps[n] \subseteq tasks
  /\ done = {}
  /\ tasks' = tasks \cup {n}
  /\ UNCHANGED <<done, complete, kept>>

\* Finishing the last task may declare the ledger complete.
Finish(n) ==
  /\ n \in tasks \ done
  /\ Deps[n] \subseteq done
  /\ done' = done \cup {n}
  /\ complete' = TRUE => done' = tasks
  /\ UNCHANGED <<tasks, kept>>

\* The operator overrides the mission's state; it is declared complete again
\* only while every task is done.
Declare ==
  /\ complete' \in BOOLEAN
  /\ complete' = TRUE => done = tasks /\ tasks # {}
  /\ UNCHANGED <<tasks, done, kept>>

Keep == kept' = Entry /\ UNCHANGED <<tasks, done, complete>>

GoBack ==
  /\ tasks' = kept.tasks
  /\ done' = kept.done
  /\ complete' = kept.complete
  /\ UNCHANGED kept

LedgerNext ==
  \/ \E n \in Nodes : Enter(n) \/ Finish(n)
  \/ Declare \/ Keep \/ GoBack

LedgerSpec == LedgerInit /\ [][LedgerNext]_ledgerVars
=============================================================================
