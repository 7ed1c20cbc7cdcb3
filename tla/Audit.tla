-------------------------------- MODULE Audit --------------------------------
(***************************************************************************)
(* The audit log of igris-policy: entries chained by their hashes.  Pure:  *)
(* a log is a sequence.  `what` stands for actor, action and target; a     *)
(* hash is taken to tell apart all that it is made of.                     *)
(***************************************************************************)
EXTENDS Integers, Sequences

NoHash == <<>>

ChainHash(e) == <<e.prev, e.seq, e.what, e.ok, e.at>>

LastHash(log) == IF log = <<>> THEN NoHash ELSE log[Len(log)].hash

\* AuditLog::record
Recorded(log, id, what, ok, at) ==
  LET e == [seq |-> Len(log), id |-> id, at |-> at, what |-> what, ok |-> ok, prev |-> LastHash(log)]
  IN  Append(log, [seq |-> e.seq, id |-> id, at |-> at, what |-> what, ok |-> ok,
                   prev |-> e.prev, hash |-> ChainHash(e)])

\* AuditLog::verify_chain
VerifyChain(log) ==
  \A i \in DOMAIN log :
    /\ log[i].prev = LastHash(SubSeq(log, 1, i - 1))
    /\ ChainHash(log[i]) = log[i].hash

(***************************************************************************)
(* What the chain promises, for TLC to compare over short logs.            *)
(***************************************************************************)
\* The logs of n entries, each <<what, ok, at>> of the three sets.
Logs(n, Whats, Times) ==
  LET logs[k \in 0..n] ==
        IF k = 0 THEN {<<>>}
        ELSE {Recorded(log, k, what, ok, at) :
                log \in logs[k - 1], what \in Whats, ok \in BOOLEAN, at \in Times}
  IN  logs[n]

Dropped(log, i) == SubSeq(log, 1, i - 1) \o SubSeq(log, i + 1, Len(log))
Swapped(log, i, j) == [log EXCEPT ![i] = log[j], ![j] = log[i]]

\* Whatever is recorded verifies; and an entry that was altered, moved, or
\* left out with others after it, is noticed.  The id of an entry is no part
\* of its hash, and a log cut short verifies.
EditsAreNoticed(log, Whats, Times) ==
  /\ VerifyChain(log)
  /\ \A i \in DOMAIN log :
       /\ \A what \in Whats \ {log[i].what} : ~VerifyChain([log EXCEPT ![i].what = what])
       /\ \A at \in Times \ {log[i].at} : ~VerifyChain([log EXCEPT ![i].at = at])
       /\ ~VerifyChain([log EXCEPT ![i].ok = ~@])
       /\ ~VerifyChain([log EXCEPT ![i].seq = @ + 1])
       /\ i < Len(log) => ~VerifyChain(Dropped(log, i))
       /\ \A j \in DOMAIN log \ {i} : ~VerifyChain(Swapped(log, i, j))
=============================================================================
