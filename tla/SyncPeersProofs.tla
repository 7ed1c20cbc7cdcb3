--------------------------- MODULE SyncPeersProofs ---------------------------
(***************************************************************************)
(* Proofs about what a device keeps: the records it syncs (Sync) and whom  *)
(* it trusts (Peers).                                                      *)
(*                                                                         *)
(* Sync, for any number of devices, ids, stamps, writes and batches.  The  *)
(* argument: a stamp names one record (OneRecordPerStamp of the writes,    *)
(* and NothingInvented), so that SupersededBy orders the records of an id  *)
(* totally, and merging is taking the greater one.                         *)
(*                                                                         *)
(* Peers, for any devices, codes and fingerprints, any lifetime and number *)
(* of attempts, and crashes and failed writes anywhere: the second half of *)
(* the module.                                                             *)
(***************************************************************************)
EXTENDS Sync, Peers, SequenceTheorems, TLAPS

USE RankAssumption, StampAssumption, NoneAssumption

\* Two writes to an id with the same stamp are one write.
OneRecordPerStamp ==
  \A v, w \in written :
    /\ v.id = w.id
    /\ v.record.updated = w.record.updated
    /\ v.record.device = w.record.device
    => v = w

\* The inductive invariant.
IInv == TypeOK /\ NothingInvented /\ OneRecordPerStamp

-----------------------------------------------------------------------------
(***************************************************************************)
(* The operators.                                                          *)
(***************************************************************************)
\* What a batch holds.
LEMMA BatchRecord ==
  ASSUME NEW b \in Batch
  PROVE  DOMAIN b \subseteq Ids /\ \A i \in DOMAIN b : b[i] \in Record
<1>1. PICK S \in SUBSET Ids : b \in [S -> Record]
  BY DEF Batch
<1> QED
  BY <1>1

\* What delta_since returns is a batch, of records of the table.
LEMMA DeltaIsBatch ==
  ASSUME NEW loc \in Table, NEW since \in Int
  PROVE  /\ DeltaSince(loc, since) \in Batch
         /\ \A i \in DOMAIN DeltaSince(loc, since) :
              loc[i] # None /\ DeltaSince(loc, since)[i] = loc[i]
<1> DEFINE S == {j \in Ids : loc[j] # None /\ loc[j].updated > since}
<1>1. DeltaSince(loc, since) = [i \in S |-> loc[i]]
  BY DEF DeltaSince
<1>2. \A i \in S : loc[i] \in Record
  BY DEF Table
<1>3. [i \in S |-> loc[i]] \in [S -> Record]
  BY <1>2
<1>4. S \in SUBSET Ids
  OBVIOUS
<1> QED
  BY <1>1, <1>3, <1>4 DEF Batch

\* Merging keeps the table a table, and takes every record from one side.
LEMMA MergedIsTable ==
  ASSUME NEW loc \in Table, NEW b \in Batch
  PROVE  /\ Merged(loc, b) \in Table
         /\ \A i \in Ids : \/ Merged(loc, b)[i] = loc[i]
                           \/ /\ i \in DOMAIN b /\ Merged(loc, b)[i] = b[i]
                              /\ loc[i] = None \/ SupersededBy(loc[i], b[i])
<1>1. \A i \in DOMAIN b : b[i] \in Record
  BY BatchRecord
<1> QED
  BY <1>1 DEF Merged, Table

\* SupersededBy orders two different stamps one way.
LEMMA StampsCompare ==
  ASSUME NEW r \in Record, NEW s \in Record
  PROVE  /\ SupersededBy(r, s) => ~SupersededBy(s, r)
         /\ ~SupersededBy(r, s) /\ ~SupersededBy(s, r)
              => r.updated = s.updated /\ r.device = s.device
<1>1. /\ r.updated \in Nat /\ s.updated \in Nat
      /\ r.device \in Peers /\ s.device \in Peers
      /\ Rank[r.device] \in Nat /\ Rank[s.device] \in Nat
  BY DEF Record
<1> QED
  BY <1>1 DEF SupersededBy

\* And does so transitively.
LEMMA StampsTransitive ==
  ASSUME NEW r \in Record, NEW s \in Record, NEW t \in Record,
         SupersededBy(r, s), SupersededBy(s, t)
  PROVE  SupersededBy(r, t)
<1>1. /\ r.updated \in Nat /\ s.updated \in Nat /\ t.updated \in Nat
      /\ Rank[r.device] \in Nat /\ Rank[s.device] \in Nat /\ Rank[t.device] \in Nat
  BY DEF Record
<1> QED
  BY <1>1 DEF SupersededBy

\* Records of one id that carry one stamp only if they are one.
Agree(r, s) ==
  r.updated = s.updated /\ r.device = s.device => r = s

\* Two tables that agree stamp by stamp are the same after a full exchange.
LEMMA FullExchange ==
  ASSUME NEW l \in Table, NEW m \in Table,
         \A i \in Ids : l[i] # None /\ m[i] # None => Agree(l[i], m[i])
  PROVE  Merged(l, DeltaSince(m, 0)) = Merged(m, DeltaSince(l, 0))
<1> SUFFICES ASSUME NEW i \in Ids
             PROVE  Merged(l, DeltaSince(m, 0))[i] = Merged(m, DeltaSince(l, 0))[i]
  BY DEF Merged
<1>1. /\ l[i] = None \/ l[i] \in Record
      /\ m[i] = None \/ m[i] \in Record
      /\ None \notin Record
  BY DEF Table, Record
<1>2. /\ i \in DOMAIN DeltaSince(m, 0) <=> m[i] # None
      /\ i \in DOMAIN DeltaSince(l, 0) <=> l[i] # None
  BY <1>1 DEF DeltaSince, Record
<1>3. /\ m[i] # None => DeltaSince(m, 0)[i] = m[i]
      /\ l[i] # None => DeltaSince(l, 0)[i] = l[i]
  BY <1>2 DEF DeltaSince
<1>4. Merged(l, DeltaSince(m, 0))[i] =
        IF m[i] # None /\ (l[i] = None \/ SupersededBy(l[i], m[i])) THEN m[i] ELSE l[i]
  BY <1>2, <1>3 DEF Merged
<1>5. Merged(m, DeltaSince(l, 0))[i] =
        IF l[i] # None /\ (m[i] = None \/ SupersededBy(m[i], l[i])) THEN l[i] ELSE m[i]
  BY <1>2, <1>3 DEF Merged
<1>6. CASE l[i] = None \/ m[i] = None
  BY <1>4, <1>5, <1>6
<1>7. CASE l[i] # None /\ m[i] # None
  <2>1. l[i] \in Record /\ m[i] \in Record /\ Agree(l[i], m[i])
    BY <1>1, <1>7
  <2>2. SupersededBy(l[i], m[i]) => ~SupersededBy(m[i], l[i])
    BY <2>1, StampsCompare
  <2>3. ~SupersededBy(l[i], m[i]) /\ ~SupersededBy(m[i], l[i]) => l[i] = m[i]
    BY <2>1, StampsCompare DEF Agree
  <2> QED
    BY <1>4, <1>5, <1>7, <2>2, <2>3
<1> QED
  BY <1>6, <1>7

\* Merging the record s into r: the greater of the two.
Later(r, s) == IF r = None \/ SupersededBy(r, s) THEN s ELSE r

\* The greater of three does not depend on the order of the merges, and is
\* not changed by merging one of them again.
LEMMA LaterCommutes ==
  ASSUME NEW r \in Record \cup {None}, NEW s \in Record, NEW t \in Record,
         Agree(s, t), r # None => Agree(r, s) /\ Agree(r, t)
  PROVE  /\ Later(Later(r, s), t) = Later(Later(r, t), s)
         /\ Later(Later(Later(r, s), t), s) = Later(Later(r, s), t)
<1>1. None \notin Record
  BY DEF Record
<1>2. \/ SupersededBy(s, t) /\ ~SupersededBy(t, s)
      \/ SupersededBy(t, s) /\ ~SupersededBy(s, t)
      \/ s = t /\ ~SupersededBy(s, t)
  BY StampsCompare DEF Agree
<1>3. ~SupersededBy(s, s) /\ ~SupersededBy(t, t)
  BY StampsCompare
<1>4. CASE r = None
  <2>1. s # None /\ t # None
    BY <1>1
  <2>2. Later(r, s) = s /\ Later(r, t) = t
    BY <1>4 DEF Later
  <2>3. Later(s, t) = Later(t, s)
    BY <1>2, <2>1 DEF Later
  <2>4. Later(Later(s, t), s) = Later(s, t)
    BY <1>2, <1>3, <2>1 DEF Later
  <2> QED
    BY <2>2, <2>3, <2>4
<1>5. CASE r # None
  <2>1. r \in Record /\ r # None /\ s # None /\ t # None
    BY <1>1, <1>5
  <2>2. /\ \/ SupersededBy(r, s) /\ ~SupersededBy(s, r)
           \/ SupersededBy(s, r) /\ ~SupersededBy(r, s)
           \/ r = s /\ ~SupersededBy(r, s)
        /\ \/ SupersededBy(r, t) /\ ~SupersededBy(t, r)
           \/ SupersededBy(t, r) /\ ~SupersededBy(r, t)
           \/ r = t /\ ~SupersededBy(r, t)
    BY <1>5, <2>1, StampsCompare DEF Agree
  <2>3. /\ SupersededBy(r, s) /\ SupersededBy(s, t) => SupersededBy(r, t)
        /\ SupersededBy(r, t) /\ SupersededBy(t, s) => SupersededBy(r, s)
    BY <2>1, StampsTransitive
  <2> QED
    BY <1>2, <1>3, <2>1, <2>2, <2>3 DEF Later
<1> QED
  BY <1>4, <1>5

\* Merging a batch is merging each of its records.
LEMMA MergedPointwise ==
  ASSUME NEW loc \in Table, NEW b \in Batch, NEW i \in Ids
  PROVE  Merged(loc, b)[i] = IF i \in DOMAIN b THEN Later(loc[i], b[i]) ELSE loc[i]
BY DEF Merged, Later

\* Two batches that agree with a table and with each other merge in any order.
LEMMA AnyOrder ==
  ASSUME NEW loc \in Table, NEW b \in Batch, NEW c \in Batch,
         \A i \in DOMAIN b \cap DOMAIN c : Agree(b[i], c[i]),
         \A i \in Ids : loc[i] # None =>
           /\ i \in DOMAIN b => Agree(loc[i], b[i])
           /\ i \in DOMAIN c => Agree(loc[i], c[i])
  PROVE  LET bc == Merged(Merged(loc, b), c) IN
         bc = Merged(Merged(loc, c), b) /\ bc = Merged(bc, b)
<1> DEFINE lb == Merged(loc, b)
           lc == Merged(loc, c)
           bc == Merged(lb, c)
           cb == Merged(lc, b)
           bcb == Merged(bc, b)
<1>1. lb \in Table /\ lc \in Table
  BY MergedIsTable
<1>2. bc \in Table /\ cb \in Table
  BY <1>1, MergedIsTable
<1>3. bcb \in Table
  BY <1>2, MergedIsTable
<1>4. ASSUME NEW i \in Ids PROVE bc[i] = cb[i] /\ bcb[i] = bc[i]
  <2>1. /\ lb[i] = IF i \in DOMAIN b THEN Later(loc[i], b[i]) ELSE loc[i]
        /\ lc[i] = IF i \in DOMAIN c THEN Later(loc[i], c[i]) ELSE loc[i]
    BY MergedPointwise
  <2>2. /\ bc[i] = IF i \in DOMAIN c THEN Later(lb[i], c[i]) ELSE lb[i]
        /\ cb[i] = IF i \in DOMAIN b THEN Later(lc[i], b[i]) ELSE lc[i]
    BY <1>1, MergedPointwise
  <2>3. bcb[i] = IF i \in DOMAIN b THEN Later(bc[i], b[i]) ELSE bc[i]
    BY <1>2, MergedPointwise
  <2>4. loc[i] \in Record \cup {None}
    BY DEF Table
  <2> HIDE DEF lb, lc, bc, cb, bcb
  <2>5. CASE i \notin DOMAIN b
    BY <2>1, <2>2, <2>3, <2>5
  <2>6. CASE i \in DOMAIN b /\ i \notin DOMAIN c
    <3>1. b[i] \in Record
      BY <2>6, BatchRecord
    <3>2. loc[i] # None => Agree(loc[i], b[i])
      BY <2>6
    <3>3. Agree(b[i], b[i])
      BY DEF Agree
    <3>4. Later(Later(Later(loc[i], b[i]), b[i]), b[i]) = Later(Later(loc[i], b[i]), b[i])
      BY <2>4, <3>1, <3>2, <3>3, LaterCommutes
    <3>5. Later(Later(loc[i], b[i]), b[i]) = Later(loc[i], b[i])
      <4>1. None \notin Record
        BY DEF Record
      <4>2. ~SupersededBy(b[i], b[i])
        BY <3>1, StampsCompare
      <4> QED
        BY <3>1, <4>1, <4>2 DEF Later
    <3> QED
      BY <2>1, <2>2, <2>3, <2>6, <3>5
  <2>7. CASE i \in DOMAIN b /\ i \in DOMAIN c
    <3>1. b[i] \in Record /\ c[i] \in Record
      BY <2>7, BatchRecord
    <3>2. Agree(b[i], c[i]) /\ (loc[i] # None => Agree(loc[i], b[i]) /\ Agree(loc[i], c[i]))
      BY <2>7
    <3>3. /\ Later(Later(loc[i], b[i]), c[i]) = Later(Later(loc[i], c[i]), b[i])
          /\ Later(Later(Later(loc[i], b[i]), c[i]), b[i]) = Later(Later(loc[i], b[i]), c[i])
      BY <2>4, <3>1, <3>2, LaterCommutes
    <3> QED
      BY <2>1, <2>2, <2>3, <2>7, <3>3
  <2> QED
    BY <2>5, <2>6, <2>7
<1>5. bc = cb
  BY <1>2, <1>4 DEF Table
<1>6. bcb = bc
  BY <1>2, <1>3, <1>4 DEF Table
<1> QED
  BY <1>5, <1>6

-----------------------------------------------------------------------------
(***************************************************************************)
(* The specification.                                                      *)
(***************************************************************************)
\* The invariant holds at first.
LEMMA InitIInv == Init => IInv
BY DEF Init, IInv, TypeOK, NothingInvented, OneRecordPerStamp, Table

\* A local write keeps it: its stamp is new.
LEMMA PutIInv ==
  ASSUME IInv, NEW p \in Peers, NEW i \in Ids, PutLocal(p, i)
  PROVE  IInv'
<1>1. PICK r \in [updated : 1..MaxStamp, device : {p}, deleted : BOOLEAN] :
        /\ \A w \in written : w.id = i /\ w.record.device = p => w.record.updated # r.updated
        /\ local' = [local EXCEPT ![p][i] = r]
        /\ written' = written \cup {[id |-> i, record |-> r]}
        /\ network' = network
  BY DEF PutLocal
<1>2. r \in Record /\ r.device = p
  BY DEF Record
<1> DEFINE new == [id |-> i, record |-> r]
<1>3. new \in [id : Ids, record : Record]
  BY <1>2
<1>4. \A q \in Peers, j \in Ids :
        local'[q][j] = IF q = p /\ j = i THEN r ELSE local[q][j]
  BY <1>1 DEF IInv, TypeOK, Table
<1>5. TypeOK'
  <2>1. local' \in [Peers -> Table]
    BY <1>1, <1>2 DEF IInv, TypeOK, Table
  <2>2. written' \in SUBSET [id : Ids, record : Record]
    BY <1>1, <1>3 DEF IInv, TypeOK
  <2> QED
    BY <1>1, <2>1, <2>2 DEF IInv, TypeOK
<1>6. NothingInvented'
  BY <1>1, <1>4 DEF IInv, NothingInvented
<1>7. OneRecordPerStamp'
  <2>1. new.id = i /\ new.record = r
    OBVIOUS
  <2>2. ASSUME NEW v \in written', NEW w \in written', v.id = w.id,
               v.record.updated = w.record.updated, v.record.device = w.record.device
        PROVE  v = w
    <3>1. v \in written /\ w \in written => v = w
      BY <2>2 DEF IInv, OneRecordPerStamp
    <3>2. v \in written /\ w = new => FALSE
      BY <1>1, <1>2, <2>1, <2>2
    <3>3. w \in written /\ v = new => FALSE
      BY <1>1, <1>2, <2>1, <2>2
    <3> QED
      BY <1>1, <3>1, <3>2, <3>3
  <2> QED
    BY <2>2 DEF OneRecordPerStamp
<1> QED
  BY <1>5, <1>6, <1>7 DEF IInv

\* Sending keeps it: a delta holds records of the table.
LEMMA SendIInv ==
  ASSUME IInv, NEW p \in Peers, Send(p)
  PROVE  IInv'
<1>1. PICK since \in 0..MaxStamp : network' = network \cup {DeltaSince(local[p], since)}
  BY DEF Send
<1>2. local[p] \in Table /\ since \in Int
  BY DEF IInv, TypeOK
<1> DEFINE delta == DeltaSince(local[p], since)
<1>3. delta \in Batch
  BY <1>2, DeltaIsBatch
<1>4. \A i \in DOMAIN delta : i \in Ids /\ local[p][i] # None /\ delta[i] = local[p][i]
  BY <1>2, <1>3, DeltaIsBatch, BatchRecord
<1>5. local' = local /\ written' = written
  BY DEF Send
<1> HIDE DEF delta
<1>6. network' = network \cup {delta}
  BY <1>1 DEF delta
<1>7. TypeOK'
  BY <1>3, <1>5, <1>6 DEF IInv, TypeOK
<1>8. \A i \in DOMAIN delta : [id |-> i, record |-> delta[i]] \in written
  BY <1>4 DEF IInv, NothingInvented
<1>9. NothingInvented'
  BY <1>5, <1>6, <1>8 DEF IInv, NothingInvented
<1>10. OneRecordPerStamp'
  BY <1>5 DEF IInv, OneRecordPerStamp
<1> QED
  BY <1>7, <1>9, <1>10 DEF IInv

\* Merging keeps it: every record comes from the table or from the batch.
LEMMA MergeIInv ==
  ASSUME IInv, NEW p \in Peers, Merge(p)
  PROVE  IInv'
<1>1. PICK b \in network : local' = [local EXCEPT ![p] = Merged(local[p], b)]
  BY DEF Merge
<1>2. local[p] \in Table /\ b \in Batch
  BY DEF IInv, TypeOK
<1> DEFINE m == Merged(local[p], b)
<1>3. m \in Table /\ \A i \in Ids : m[i] = local[p][i] \/ (i \in DOMAIN b /\ m[i] = b[i])
  BY <1>2, MergedIsTable
<1>4. network' = network /\ written' = written
  BY DEF Merge
<1> HIDE DEF m
<1>5. /\ local' = [local EXCEPT ![p] = m]
      /\ \A q \in Peers : local'[q] = IF q = p THEN m ELSE local[q]
  BY <1>1 DEF IInv, TypeOK, m
<1>6. TypeOK'
  BY <1>3, <1>4, <1>5 DEF IInv, TypeOK
<1>7. \A i \in Ids : m[i] # None => [id |-> i, record |-> m[i]] \in written
  BY <1>3 DEF IInv, NothingInvented
<1>8. NothingInvented'
  BY <1>4, <1>5, <1>7 DEF IInv, NothingInvented
<1>9. OneRecordPerStamp'
  BY <1>4 DEF IInv, OneRecordPerStamp
<1> QED
  BY <1>6, <1>8, <1>9 DEF IInv

\* The invariant is inductive.
LEMMA Inductive == Spec => []IInv
<1>1. IInv /\ [Next]_vars => IInv'
  <2> SUFFICES ASSUME IInv, [Next]_vars PROVE IInv'
    OBVIOUS
  <2>1. CASE \E p \in Peers, i \in Ids : PutLocal(p, i)
    BY <2>1, PutIInv
  <2>2. CASE \E p \in Peers : Send(p)
    BY <2>2, SendIInv
  <2>3. CASE \E p \in Peers : Merge(p)
    BY <2>3, MergeIInv
  <2>4. CASE UNCHANGED vars
    BY <2>4 DEF vars, IInv, TypeOK, NothingInvented, OneRecordPerStamp
  <2> QED
    BY <2>1, <2>2, <2>3, <2>4 DEF Next
<1> QED
  BY <1>1, InitIInv, PTL DEF Spec

\* Every variable has its type, in every reachable state.
THEOREM TypeCorrect == Spec => []TypeOK
<1>1. IInv => TypeOK
  BY DEF IInv
<1> QED
  BY <1>1, Inductive, PTL

\* No merge invents a record: what any peer holds, or any batch carries, was
\* written by put_local on the device it names.
THEOREM RecordsAreWritten == Spec => []NothingInvented
<1>1. IInv => NothingInvented
  BY DEF IInv
<1> QED
  BY <1>1, Inductive, PTL

\* Under the invariant the records of an id agree, wherever they are.
LEMMA WrittenAgree ==
  ASSUME IInv, NEW i, NEW r, NEW s,
         [id |-> i, record |-> r] \in written, [id |-> i, record |-> s] \in written
  PROVE  Agree(r, s)
<1> DEFINE v == [id |-> i, record |-> r]
           w == [id |-> i, record |-> s]
<1>1. v.id = w.id /\ v.record = r /\ w.record = s
  OBVIOUS
<1>2. r.updated = s.updated /\ r.device = s.device => v = w
  BY <1>1 DEF IInv, OneRecordPerStamp
<1> QED
  BY <1>1, <1>2 DEF Agree

\* Any two peers that gave each other everything agree: merge with its
\* tie-break makes "every peer converge identically".
THEOREM PeersConverge == Spec => []ExchangeConverges
<1>1. ASSUME IInv, NEW p \in Peers, NEW q \in Peers
      PROVE  Merged(local[p], DeltaSince(local[q], 0)) = Merged(local[q], DeltaSince(local[p], 0))
  <2>1. local[p] \in Table /\ local[q] \in Table
    BY <1>1 DEF IInv, TypeOK
  <2>2. ASSUME NEW i \in Ids, local[p][i] # None, local[q][i] # None
        PROVE  Agree(local[p][i], local[q][i])
    <3>1. /\ [id |-> i, record |-> local[p][i]] \in written
          /\ [id |-> i, record |-> local[q][i]] \in written
      BY <1>1, <2>2 DEF IInv, NothingInvented
    <3> QED
      BY <1>1, <3>1, WrittenAgree
  <2> QED
    BY <2>1, <2>2, FullExchange
<1>2. IInv => ExchangeConverges
  BY <1>1 DEF ExchangeConverges
<1> QED
  BY <1>2, Inductive, PTL

\* Batches may arrive at a peer in any order and again: the result is one.
THEOREM DeliveryOrderIsIrrelevant == Spec => []OrderIrrelevant
<1>1. ASSUME IInv, NEW p \in Peers, NEW b \in network, NEW c \in network
      PROVE  LET bc == Merged(Merged(local[p], b), c) IN
             bc = Merged(Merged(local[p], c), b) /\ bc = Merged(bc, b)
  <2>1. local[p] \in Table /\ b \in Batch /\ c \in Batch
    BY <1>1 DEF IInv, TypeOK
  <2>2. /\ \A i \in DOMAIN b : [id |-> i, record |-> b[i]] \in written
        /\ \A i \in DOMAIN c : [id |-> i, record |-> c[i]] \in written
        /\ \A i \in Ids : local[p][i] # None => [id |-> i, record |-> local[p][i]] \in written
    BY <1>1 DEF IInv, NothingInvented
  <2>3. \A i \in DOMAIN b \cap DOMAIN c : Agree(b[i], c[i])
    BY <1>1, <2>2, WrittenAgree
  <2>4. \A i \in Ids : local[p][i] # None =>
          /\ i \in DOMAIN b => Agree(local[p][i], b[i])
          /\ i \in DOMAIN c => Agree(local[p][i], c[i])
    BY <1>1, <2>2, WrittenAgree
  <2> QED
    BY <2>1, <2>3, <2>4, AnyOrder
<1>2. IInv => OrderIrrelevant
  BY <1>1 DEF OrderIrrelevant
<1> QED
  BY <1>2, Inductive, PTL

\* A peer's record gives way only to one that supersedes it, or to a write of
\* the peer's own: a tombstone is never undone by a late older copy.
THEOREM StaleLoses == Spec => StaleNeverClobbers
<1> DEFINE Step(p, i) ==
      local'[p][i] # local[p][i] =>
        \/ local[p][i] = None
        \/ SupersededBy(local[p][i], local'[p][i])
        \/ written' # written /\ local'[p][i].device = p
<1>1. ASSUME IInv, [Next]_vars, NEW p \in Peers, NEW i \in Ids
      PROVE  Step(p, i)
  <2>1. CASE UNCHANGED local
    BY <2>1
  <2>2. ASSUME NEW q \in Peers, Merge(q)
        PROVE  Step(p, i)
    <3>1. PICK b \in network : local' = [local EXCEPT ![q] = Merged(local[q], b)]
      BY <2>2 DEF Merge
    <3>2. local[q] \in Table /\ b \in Batch
      BY <1>1 DEF IInv, TypeOK
    <3>3. \/ Merged(local[q], b)[i] = local[q][i]
          \/ /\ Merged(local[q], b)[i] = b[i]
             /\ local[q][i] = None \/ SupersededBy(local[q][i], b[i])
      BY <3>2, MergedIsTable
    <3>4. local'[p] = IF p = q THEN Merged(local[q], b) ELSE local[p]
      BY <1>1, <3>1 DEF IInv, TypeOK
    <3> QED
      BY <3>3, <3>4
  <2>3. ASSUME NEW q \in Peers, NEW j \in Ids, PutLocal(q, j)
        PROVE  Step(p, i)
    <3>1. PICK r \in [updated : 1..MaxStamp, device : {q}, deleted : BOOLEAN] :
            /\ \A w \in written : w.id = j /\ w.record.device = q => w.record.updated # r.updated
            /\ local' = [local EXCEPT ![q][j] = r]
            /\ written' = written \cup {[id |-> j, record |-> r]}
      BY <2>3 DEF PutLocal
    <3> DEFINE new == [id |-> j, record |-> r]
    <3>2. new.id = j /\ new.record = r /\ r.device = q
      OBVIOUS
    <3>3. new \notin written
      BY <3>1, <3>2
    <3>4. written' # written
      BY <3>1, <3>3
    <3>5. local'[p][i] = IF p = q /\ i = j THEN r ELSE local[p][i]
      BY <1>1, <3>1 DEF IInv, TypeOK, Table
    <3> QED
      BY <3>2, <3>4, <3>5
  <2> QED
    BY <1>1, <2>1, <2>2, <2>3 DEF Next, Send, vars
<1>2. IInv /\ [Next]_vars => [\A p \in Peers, i \in Ids : Step(p, i)]_vars
  BY <1>1
<1> QED
  BY <1>2, Inductive, PTL DEF Spec, StaleNeverClobbers

-----------------------------------------------------------------------------
(***************************************************************************)
(* Peers.                                                                  *)
(***************************************************************************)
\* What the file being written says of the process, and back.
JobFitsPhase ==
  /\ job = "identity" <=> phase = "identity"
  /\ job = "trust" => phase = "up"

\* An identity is generated only while there is none on disk, and until it is
\* there the process has gone by no other.
OneIdentity ==
  /\ \A f \in File : disk[f] # "half"
  /\ disk["identity"] = "absent" => usedIds = {}
  /\ phase = "identity" => disk["identity"] = "absent"
  /\ \A i \in usedIds : i = idOnDisk
  /\ phase \in {"trust", "up"} => me = idOnDisk
  /\ phase = "down" => me = NoId

\* Where a decision about a device is to be found.
DecisionsKept ==
  /\ disk["trust"] = "absent" => pinsOnDisk = NoPins
  /\ \A d \in Devices :
       /\ standing[d] = "unsaved" => Up /\ pins[d] = decided[d]
       /\ standing[d] = "saved" => pinsOnDisk[d] = decided[d] /\ (Up => pins[d] = decided[d])

\* A pending code is the device's newest, not yet accepted, and its attempts
\* are the wrong guesses at it.
PendingIsNewest ==
  \A d \in Devices : IsPending(d) =>
    /\ pending[d].issue \in DOMAIN issues
    /\ issues[pending[d].issue].device = d
    /\ issues[pending[d].issue].accepted = 0
    /\ issues[pending[d].issue].wrong = pending[d].attempts
    /\ pending[d].attempts < MaxAttempts
    /\ ~issues[pending[d].issue].superseded

PeersInv ==
  /\ PeersTypeOK
  /\ JobFitsPhase /\ OneIdentity
  /\ DecisionsKept
  /\ PendingIsNewest /\ CodesAreEarned

LEMMA PeersInitInv == PeersInit => PeersInv
<1> SUFFICES ASSUME PeersInit PROVE PeersInv
  OBVIOUS
<1>1. \A f \in File : "absent" \in Extent
  BY DEF Extent
<1>2. PeersTypeOK
  BY <1>1, BoundAssumption
     DEF PeersInit, PeersTypeOK, NoPins, NotPending, NoId, File, Standing
<1>3. JobFitsPhase /\ OneIdentity
  BY DEF PeersInit, JobFitsPhase, OneIdentity, File
<1>4. DecisionsKept /\ PendingIsNewest
  BY DEF PeersInit, DecisionsKept, NoPins, PendingIsNewest, IsPending, NotPending
<1>5. CodesAreEarned
  BY DEF PeersInit, CodesAreEarned
<1> QED BY <1>2, <1>3, <1>4, <1>5 DEF PeersInv

(***************************************************************************)
(* One-time codes.                                                         *)
(***************************************************************************)
\* What CodesAreEarned says of one issue.
Earned(k) ==
  /\ issues[k].accepted + issues[k].wrong <= MaxAttempts
  /\ issues[k].accepted <= 1
  /\ issues[k].accepted = 1 => issues[k].acceptedAt <= issues[k].at + Ttl
  /\ IsPending(issues[k].device) /\ (issues[k].superseded \/ issues[k].accepted = 1)
       => pending[issues[k].device].issue > k

LEMMA EarnedEach == CodesAreEarned <=> \A k \in DOMAIN issues : Earned(k)
BY DEF CodesAreEarned, Earned

LEMMA IssueType ==
  ASSUME PeersTypeOK, NEW k \in DOMAIN issues
  PROVE  /\ k \in Nat /\ issues[k] \in Issue
         /\ issues[k].device \in Devices /\ issues[k].at \in Nat /\ issues[k].wrong \in Nat
         /\ issues[k].accepted \in Nat /\ issues[k].acceptedAt \in Nat
<1>1. issues \in Seq(Issue)
  BY DEF PeersTypeOK
<1>2. k \in 1..Len(issues) /\ Len(issues) \in Nat
  BY <1>1
<1>3. k \in Nat /\ issues[k] \in Issue
  BY <1>1, <1>2
<1> QED BY <1>3 DEF Issue

LEMMA AcceptedRecord ==
  ASSUME NEW i \in Issue, now \in Nat, i.accepted = 0
  PROVE  /\ Accepted(i) \in Issue /\ Accepted(i).device = i.device
         /\ Accepted(i).accepted = 1 /\ Accepted(i).acceptedAt = now
         /\ Accepted(i).wrong = i.wrong /\ Accepted(i).at = i.at
<1> DEFINE j == [i EXCEPT !.accepted = i.accepted + 1]
<1>1. /\ j \in Issue /\ j.accepted = 1
      /\ j.device = i.device /\ j.wrong = i.wrong /\ j.at = i.at
  BY DEF Issue
<1>2. Accepted(i) = [j EXCEPT !.acceptedAt = now]
  BY DEF Accepted, Issue
<1> HIDE DEF j
<1> QED BY <1>1, <1>2 DEF Issue

LEMMA GuessedRecord ==
  ASSUME NEW i \in Issue
  PROVE  /\ WrongGuess(i) \in Issue /\ WrongGuess(i).device = i.device
         /\ WrongGuess(i).accepted = i.accepted /\ WrongGuess(i).superseded = i.superseded
         /\ WrongGuess(i).wrong = i.wrong + 1
<1>1. i.superseded \in BOOLEAN /\ i.wrong \in Nat
  BY DEF Issue
<1> QED BY <1>1 DEF Issue, WrongGuess

\* Codes that lapse, and a clock that goes on, leave the rest as it was.
LEMMA CodesMayLapse ==
  ASSUME PeersInv, issues' = issues,
         \A d \in Devices : pending'[d] = pending[d] \/ pending'[d] = NotPending
  PROVE  PendingIsNewest' /\ CodesAreEarned'
<1>1. \A d \in Devices : IsPending(d)' => IsPending(d) /\ pending'[d] = pending[d]
  BY DEF IsPending, NotPending
<1>2. PendingIsNewest'
  BY <1>1 DEF PeersInv, PendingIsNewest
<1>3. \A k \in DOMAIN issues : issues[k].device \in Devices
  BY IssueType DEF PeersInv
<1>4. CodesAreEarned'
  BY <1>1, <1>3 DEF PeersInv, CodesAreEarned
<1> QED BY <1>2, <1>4

\* One issue's record is rewritten, and the device's code is pending after it
\* or no more.
LEMMA IssueRewritten ==
  ASSUME PeersTypeOK, NEW k \in DOMAIN issues, NEW r \in Issue,
         issues' = [issues EXCEPT ![k] = r]
  PROVE  /\ issues' \in Seq(Issue) /\ DOMAIN issues' = DOMAIN issues
         /\ issues'[k] = r /\ \A j \in DOMAIN issues : j # k => issues'[j] = issues[j]
<1>1. issues \in Seq(Issue) /\ k \in 1..Len(issues) /\ DOMAIN issues = 1..Len(issues)
  BY DEF PeersTypeOK
<1> QED BY <1>1, ExceptSeq

LEMMA GuessKeeps ==
  ASSUME PeersInv, NEW d \in Devices, NEW code \in Codes, Verify(d, code)
  PROVE  /\ issues' \in Seq(Issue) /\ pending' \in [Devices -> [issue : Nat, attempts : Nat]]
         /\ PendingIsNewest' /\ CodesAreEarned'
<1> DEFINE k == pending[d].issue
<1>1. /\ k \in DOMAIN issues /\ issues[k] \in Issue /\ k \in Nat
      /\ issues[k].device = d /\ issues[k].accepted = 0 /\ ~issues[k].superseded
      /\ issues[k].wrong = pending[d].attempts /\ pending[d].attempts \in Nat
      /\ pending[d].attempts < MaxAttempts
      /\ pending[d] \in [issue : Nat, attempts : Nat]
  BY DEF Verify, PeersInv, PendingIsNewest, PeersTypeOK
<1>2. now \in Nat /\ MaxAttempts \in Nat /\ Ttl \in Nat /\ NotPending \in [issue : Nat, attempts : Nat]
  BY BoundAssumption, OtpAssumption DEF PeersInv, PeersTypeOK, NotPending
<1>3. \A j \in DOMAIN issues : issues[j] \in Issue /\ issues[j].device \in Devices /\ j \in Nat
  BY IssueType DEF PeersInv
<1>10. issues[k].at \in Nat
  BY <1>1, IssueType DEF PeersInv
<1>4. CASE pending' = [pending EXCEPT ![d] = NotPending] /\ issues' = issues
  <2>1. \A e \in Devices : pending'[e] = pending[e] \/ pending'[e] = NotPending
    BY <1>4 DEF PeersInv, PeersTypeOK
  <2> QED BY <1>2, <1>4, <2>1, CodesMayLapse DEF PeersInv, PeersTypeOK
<1>5. CASE /\ ~Expired(d) /\ pending' = [pending EXCEPT ![d] = AfterAcceptance(d)]
           /\ issues' = [issues EXCEPT ![k] = Accepted(@)]
  <2> DEFINE r == Accepted(issues[k])
  <2>1. /\ r \in Issue /\ r.device = d /\ r.accepted = 1 /\ r.acceptedAt = now
        /\ r.wrong = issues[k].wrong /\ r.at = issues[k].at /\ r.at \in Nat
    BY <1>1, <1>2, <1>10, AcceptedRecord
  <2>2. issues' = [issues EXCEPT ![k] = r]
    BY <1>5
  <2>3. now <= r.at + Ttl
    BY <1>1, <1>2, <1>5, <2>1 DEF Expired
  <2> HIDE DEF r, k
  <2>4. /\ issues' \in Seq(Issue) /\ DOMAIN issues' = DOMAIN issues
        /\ issues'[k] = r /\ \A j \in DOMAIN issues : j # k => issues'[j] = issues[j]
    BY <1>1, <2>1, <2>2, IssueRewritten DEF PeersInv
  <2>5. /\ pending' \in [Devices -> [issue : Nat, attempts : Nat]]
        /\ pending'[d] = NotPending /\ \A e \in Devices : e # d => pending'[e] = pending[e]
    BY <1>2, <1>5 DEF PeersInv, PeersTypeOK, AfterAcceptance
  <2>6. \A e \in Devices : IsPending(e)' => e # d /\ IsPending(e)
    BY <2>5 DEF IsPending, NotPending
  <2>7. PendingIsNewest'
    <3> SUFFICES ASSUME NEW e \in Devices, IsPending(e)'
                 PROVE  /\ pending'[e].issue \in DOMAIN issues'
                        /\ issues'[pending'[e].issue].device = e
                        /\ issues'[pending'[e].issue].accepted = 0
                        /\ issues'[pending'[e].issue].wrong = pending'[e].attempts
                        /\ pending'[e].attempts < MaxAttempts
                        /\ ~issues'[pending'[e].issue].superseded
      BY DEF PendingIsNewest
    <3>1. e # d /\ IsPending(e) /\ pending'[e] = pending[e]
      BY <2>5, <2>6
    <3>2. /\ pending[e].issue \in DOMAIN issues
          /\ issues[pending[e].issue].device = e
          /\ issues[pending[e].issue].accepted = 0
          /\ issues[pending[e].issue].wrong = pending[e].attempts
          /\ pending[e].attempts < MaxAttempts
          /\ ~issues[pending[e].issue].superseded
      BY <3>1, Zenon DEF PeersInv, PendingIsNewest
    <3>3. pending[e].issue # k
      BY <1>1, <3>1, <3>2
    <3>4. issues'[pending[e].issue] = issues[pending[e].issue]
      BY <2>4, <3>2, <3>3
    <3> QED BY <2>4, <3>1, <3>2, <3>4, Zenon
  <2>8. CodesAreEarned'
    <3> SUFFICES ASSUME NEW j \in DOMAIN issues PROVE Earned(j)'
      BY <2>4 DEF CodesAreEarned, Earned
    <3>1. CASE j = k
      <4>1. issues'[j] = r /\ pending'[d].issue = 0
        BY <2>4, <2>5, <3>1 DEF NotPending
      <4>2. r.accepted + r.wrong <= MaxAttempts
        BY <1>1, <1>2, <2>1
      <4> QED BY <2>1, <2>3, <4>1, <4>2 DEF Earned, IsPending
    <3>2. CASE j # k
      BY <1>3, <2>4, <2>5, <2>6, <3>2, EarnedEach DEF PeersInv, Earned
    <3> QED BY <3>1, <3>2
  <2> QED BY <2>4, <2>5, <2>7, <2>8
<1>6. CASE /\ pending' = [pending EXCEPT ![d] = AfterWrongGuess(d)]
           /\ issues' = [issues EXCEPT ![k] = WrongGuess(@)]
  <2> DEFINE r == WrongGuess(issues[k])
  <2>1. /\ r \in Issue /\ r.device = d /\ r.accepted = 0 /\ ~r.superseded
        /\ r.wrong = pending[d].attempts + 1
    BY <1>1, GuessedRecord
  <2>2. issues' = [issues EXCEPT ![k] = r]
    BY <1>6
  <2>3. \/ AfterWrongGuess(d) = NotPending
        \/ /\ AfterWrongGuess(d) \in [issue : Nat, attempts : Nat]
           /\ AfterWrongGuess(d).issue = k /\ AfterWrongGuess(d).attempts = pending[d].attempts + 1
           /\ pending[d].attempts + 1 < MaxAttempts
    BY <1>1, <1>2 DEF AfterWrongGuess
  <2> HIDE DEF r, k
  <2>4. /\ issues' \in Seq(Issue) /\ DOMAIN issues' = DOMAIN issues
        /\ issues'[k] = r /\ \A j \in DOMAIN issues : j # k => issues'[j] = issues[j]
    BY <1>1, <2>1, <2>2, IssueRewritten DEF PeersInv
  <2>5. /\ pending' \in [Devices -> [issue : Nat, attempts : Nat]]
        /\ pending'[d] = AfterWrongGuess(d) /\ \A e \in Devices : e # d => pending'[e] = pending[e]
    BY <1>2, <1>6, <2>3 DEF PeersInv, PeersTypeOK
  <2>6. /\ \A e \in Devices : e # d => (IsPending(e)' <=> IsPending(e))
        /\ IsPending(d)' => AfterWrongGuess(d).issue = k /\ pending[d].attempts + 1 < MaxAttempts
             /\ AfterWrongGuess(d).attempts = pending[d].attempts + 1
    BY <2>3, <2>5 DEF IsPending, NotPending
  <2>7. IsPending(d) /\ pending[d].issue = k
    BY DEF Verify, k
  <2>8. \A e \in Devices : e # d /\ IsPending(e) => pending[e].issue # k
    BY <1>1 DEF PeersInv, PendingIsNewest
  <2>9. PendingIsNewest'
    <3> SUFFICES ASSUME NEW e \in Devices, IsPending(e)'
                 PROVE  /\ pending'[e].issue \in DOMAIN issues'
                        /\ issues'[pending'[e].issue].device = e
                        /\ issues'[pending'[e].issue].accepted = 0
                        /\ issues'[pending'[e].issue].wrong = pending'[e].attempts
                        /\ pending'[e].attempts < MaxAttempts
                        /\ ~issues'[pending'[e].issue].superseded
      BY DEF PendingIsNewest
    <3>1. CASE e = d
      BY <1>1, <2>1, <2>4, <2>5, <2>6, <3>1
    <3>2. CASE e # d
      BY <2>4, <2>5, <2>6, <2>8, <3>2 DEF PeersInv, PendingIsNewest
    <3> QED BY <3>1, <3>2
  <2>10. CodesAreEarned'
    <3> SUFFICES ASSUME NEW j \in DOMAIN issues PROVE Earned(j)'
      BY <2>4 DEF CodesAreEarned, Earned
    <3>1. CASE j = k
      BY <1>1, <1>2, <2>1, <2>4, <3>1 DEF Earned
    <3>2. CASE j # k
      <4>1. issues'[j] = issues[j] /\ issues[j].device \in Devices /\ Earned(j)
        BY <1>3, <2>4, <3>2, EarnedEach DEF PeersInv
      <4>2. CASE issues[j].device = d
        <5>1. IsPending(d)' => IsPending(d) /\ pending'[d].issue = pending[d].issue
          BY <2>5, <2>6, <2>7
        <5> QED BY <4>1, <4>2, <5>1 DEF Earned
      <4>3. CASE issues[j].device # d
        BY <2>5, <2>6, <4>1, <4>3 DEF Earned
      <4> QED BY <4>2, <4>3
    <3> QED BY <3>1, <3>2
  <2> QED BY <2>4, <2>5, <2>9, <2>10
<1> QED BY <1>4, <1>5, <1>6 DEF Verify

LEMMA SupersededRecord ==
  ASSUME NEW i \in Issue
  PROVE  LET r == [i EXCEPT !.superseded = TRUE]
         IN  /\ r \in Issue /\ r.device = i.device /\ r.at = i.at /\ r.wrong = i.wrong
             /\ r.accepted = i.accepted /\ r.acceptedAt = i.acceptedAt
BY DEF Issue

LEMMA IssueKeeps ==
  ASSUME PeersInv, NEW d \in Devices, NEW code \in Codes, IssueCode(d, code)
  PROVE  /\ issues' \in Seq(Issue) /\ pending' \in [Devices -> [issue : Nat, attempts : Nat]]
         /\ PendingIsNewest' /\ CodesAreEarned'
<1> DEFINE k == pending[d].issue
           old == IF IsPending(d) THEN [issues EXCEPT ![k].superseded = TRUE] ELSE issues
           new == [device |-> d, code |-> code, at |-> now, wrong |-> 0, accepted |-> 0,
                   acceptedAt |-> 0, superseded |-> FALSE]
           N == Len(issues)
<1>1. /\ issues \in Seq(Issue) /\ DOMAIN issues = 1..N /\ N \in Nat
      /\ now \in Nat /\ MaxAttempts \in Nat /\ MaxAttempts >= 1 /\ Ttl \in Nat
  BY BoundAssumption, OtpAssumption DEF PeersInv, PeersTypeOK
<1>2. IsPending(d) => k \in DOMAIN issues /\ issues[k].device = d
  BY DEF PeersInv, PendingIsNewest
<1>3. \A j \in DOMAIN issues : issues[j].device \in Devices /\ j \in Nat /\ issues[j] \in Issue
  BY IssueType DEF PeersInv
<1>4. /\ old \in Seq(Issue) /\ Len(old) = N
      /\ \A j \in DOMAIN issues :
           /\ old[j].device = issues[j].device /\ old[j].at = issues[j].at
           /\ old[j].wrong = issues[j].wrong /\ old[j].accepted = issues[j].accepted
           /\ old[j].acceptedAt = issues[j].acceptedAt
           /\ ~(IsPending(d) /\ j = k) => old[j] = issues[j]
  <2>1. CASE IsPending(d)
    <3> DEFINE r == [issues[k] EXCEPT !.superseded = TRUE]
    <3>1. /\ r \in Issue /\ r.device = issues[k].device /\ r.at = issues[k].at
          /\ r.wrong = issues[k].wrong /\ r.accepted = issues[k].accepted
          /\ r.acceptedAt = issues[k].acceptedAt
      BY <1>2, <1>3, <2>1, SupersededRecord
    <3>2. old = [issues EXCEPT ![k] = r]
      BY <2>1
    <3> HIDE DEF r, old, k
    <3>3. /\ old \in Seq(Issue) /\ Len(old) = N
          /\ \A j \in 1..N : old[j] = IF j = k THEN r ELSE issues[j]
      BY <1>1, <1>2, <2>1, <3>1, <3>2, ExceptSeq
    <3> QED BY <1>1, <2>1, <3>1, <3>3
  <2>2. CASE ~IsPending(d)
    BY <1>1, <2>2
  <2> QED BY <2>1, <2>2
<1>5. /\ issues' = Append(old, new)
      /\ pending' = [pending EXCEPT ![d] = [issue |-> N + 1, attempts |-> 0]]
  BY DEF IssueCode
<1>6. new \in Issue
  BY <1>1 DEF Issue
<1>7. /\ new.device = d /\ new.accepted = 0 /\ new.wrong = 0 /\ new.superseded = FALSE
  OBVIOUS
<1>8. IsPending(d) => \A e \in Devices : e # d /\ IsPending(e) => pending[e].issue # k
  BY <1>2 DEF PeersInv, PendingIsNewest
<1>9. /\ pending' \in [Devices -> [issue : Nat, attempts : Nat]]
      /\ pending'[d].issue = N + 1 /\ pending'[d].attempts = 0
      /\ \A e \in Devices : e # d => pending'[e] = pending[e]
  BY <1>1, <1>5 DEF PeersInv, PeersTypeOK
<1> HIDE DEF new, old, k
<1>10. /\ issues' \in Seq(Issue) /\ DOMAIN issues' = 1..(N + 1)
       /\ issues'[N + 1] = new /\ \A j \in 1..N : issues'[j] = old[j]
  BY <1>1, <1>4, <1>5, <1>6
<1>11. \A e \in Devices : e # d => (IsPending(e)' <=> IsPending(e))
  BY <1>9 DEF IsPending
<1>12. PendingIsNewest'
  <2> SUFFICES ASSUME NEW e \in Devices, IsPending(e)'
               PROVE  /\ pending'[e].issue \in DOMAIN issues'
                      /\ issues'[pending'[e].issue].device = e
                      /\ issues'[pending'[e].issue].accepted = 0
                      /\ issues'[pending'[e].issue].wrong = pending'[e].attempts
                      /\ pending'[e].attempts < MaxAttempts
                      /\ ~issues'[pending'[e].issue].superseded
    BY DEF PendingIsNewest
  <2>1. CASE e = d
    BY <1>1, <1>7, <1>9, <1>10, <2>1
  <2>2. CASE e # d
    <3>1. /\ IsPending(e) /\ pending'[e] = pending[e] /\ pending[e].issue \in 1..N
          /\ ~(IsPending(d) /\ pending[e].issue = k)
      BY <1>1, <1>8, <1>9, <1>11, <2>2 DEF PeersInv, PendingIsNewest
    <3>2. issues'[pending[e].issue] = issues[pending[e].issue]
      BY <1>1, <1>4, <1>10, <3>1
    <3> QED BY <1>1, <1>10, <3>1, <3>2 DEF PeersInv, PendingIsNewest
  <2> QED BY <2>1, <2>2
<1>13. CodesAreEarned'
  <2> SUFFICES ASSUME NEW j \in 1..(N + 1) PROVE Earned(j)'
    BY <1>10 DEF CodesAreEarned, Earned
  <2>1. CASE j = N + 1
    BY <1>1, <1>7, <1>10, <2>1 DEF Earned
  <2>2. CASE j # N + 1
    <3>1. j \in 1..N /\ issues'[j] = old[j] /\ Earned(j) /\ issues[j].device \in Devices
      BY <1>1, <1>3, <1>10, <2>2, EarnedEach DEF PeersInv
    <3>2. CASE issues[j].device = d
      <4>1. /\ issues'[j].device = d /\ issues'[j].at = issues[j].at
            /\ issues'[j].wrong = issues[j].wrong /\ issues'[j].accepted = issues[j].accepted
            /\ issues'[j].acceptedAt = issues[j].acceptedAt
        BY <1>1, <1>4, <3>1, <3>2
      <4>2. pending'[d].issue > j
        BY <1>1, <1>9, <3>1
      <4> QED BY <3>1, <4>1, <4>2 DEF Earned
    <3>3. CASE issues[j].device # d
      <4>1. old[j] = issues[j]
        BY <1>1, <1>2, <1>4, <3>1, <3>3
      <4> QED BY <1>9, <1>11, <3>1, <3>3, <4>1 DEF Earned
    <3> QED BY <3>2, <3>3
  <2> QED BY <2>1, <2>2
<1> QED BY <1>9, <1>10, <1>12, <1>13

(***************************************************************************)
(* The other operations: what each leaves alone.                           *)
(***************************************************************************)
LEMMA OtherStepsKeepCodes ==
  ASSUME PeersInv, [PeersNext]_peersVars,
         \A d \in Devices, code \in Codes : ~IssueCode(d, code) /\ ~Verify(d, code)
  PROVE  issues' = issues /\ \A d \in Devices : pending'[d] = pending[d] \/ pending'[d] = NotPending
BY DEF PeersNext, peersVars, otp, RequirePin, Revoke, SweepExpired, Export, Import, SaveTrust,
       BeginWrite, EndWrite, Rename, IoError, Boot, LoadTrust, Crash, Tick, PeersInv, PeersTypeOK

LEMMA CodesStep == PeersInv /\ [PeersNext]_peersVars => PendingIsNewest' /\ CodesAreEarned'
<1> SUFFICES ASSUME PeersInv, [PeersNext]_peersVars PROVE PendingIsNewest' /\ CodesAreEarned'
  OBVIOUS
<1>1. CASE \E d \in Devices, code \in Codes : IssueCode(d, code) \/ Verify(d, code)
  BY <1>1, IssueKeeps, GuessKeeps
<1>2. CASE \A d \in Devices, code \in Codes : ~IssueCode(d, code) /\ ~Verify(d, code)
  BY <1>2, OtherStepsKeepCodes, CodesMayLapse
<1> QED BY <1>1, <1>2

LEMMA PeersStepType == PeersInv /\ [PeersNext]_peersVars => PeersTypeOK'
<1> SUFFICES ASSUME PeersInv, [PeersNext]_peersVars PROVE PeersTypeOK'
  OBVIOUS
<1> USE DEF PeersTypeOK, otp, files, history, Standing
<1>0. PeersTypeOK /\ \A x \in Extent : x = "absent" \/ x = "half" \/ x = "whole"
  BY DEF PeersInv, Extent
<1>1. ASSUME NEW d \in Devices, NEW code \in Codes, IssueCode(d, code) PROVE PeersTypeOK'
  BY <1>0, <1>1, IssueKeeps DEF IssueCode
<1>2. ASSUME NEW d \in Devices, NEW code \in Codes, Verify(d, code) PROVE PeersTypeOK'
  <2>1. UNCHANGED <<now, pins, exported, phase, me, fresh, files, failures, usedIds, history>>
    BY <1>2 DEF Verify
  <2> QED BY <1>0, <1>2, <2>1, GuessKeeps
<1>3. ASSUME NEW d \in Devices, NEW fp \in Prints, RequirePin(d, fp) PROVE PeersTypeOK'
  <2>1. pins' \in [Devices -> Prints \cup {NoPrint}]
    <3>1. PinnedFor(d, fp) \in Prints \cup {NoPrint}
      BY <1>0 DEF PinnedFor
    <3> QED BY <1>0, <1>3, <3>1 DEF RequirePin
  <2>2. decided' \in [Devices -> Prints \cup {NoPrint}] /\ standing' \in [Devices -> Standing]
    <3>1. CASE pins[d] = NoPrint
      <4>1. Decide(d, fp)
        BY <1>3, <3>1 DEF RequirePin
      <4> QED BY <1>0, <4>1 DEF Decide
    <3>2. CASE pins[d] # NoPrint
      <4>1. UNCHANGED history
        BY <1>3, <3>2 DEF RequirePin
      <4> QED BY <1>0, <4>1
    <3> QED BY <3>1, <3>2
  <2>3. UNCHANGED <<now, otp, exported, phase, me, fresh, files, failures, usedIds>>
    BY <1>3 DEF RequirePin
  <2> QED BY <1>0, <2>1, <2>2, <2>3
<1>4. ASSUME NEW d \in Devices, Revoke(d) PROVE PeersTypeOK'
  BY <1>0, <1>4 DEF Revoke, Decide
<1>5. ASSUME SweepExpired PROVE PeersTypeOK'
  <2>1. NotPending \in [issue : Nat, attempts : Nat]
    BY DEF NotPending
  <2> QED BY <1>0, <1>5, <2>1 DEF SweepExpired
<1>6. ASSUME Export \/ Import PROVE PeersTypeOK'
  <2>1. CASE Export
    BY <1>0, <2>1 DEF Export
  <2>2. CASE Import
    <3>1. pins' \in [Devices -> Prints \cup {NoPrint}] /\ decided' = pins'
      BY <1>0, <2>2 DEF Import
    <3>2. standing' \in [Devices -> Standing]
      BY <2>2 DEF Import
    <3>3. UNCHANGED <<now, otp, exported, phase, me, fresh, files, failures, usedIds>>
      BY <2>2 DEF Import
    <3> QED BY <1>0, <3>1, <3>2, <3>3
  <2> QED BY <1>6, <2>1, <2>2
<1>7. ASSUME SaveTrust PROVE PeersTypeOK'
  BY <1>0, <1>7 DEF SaveTrust, File
<1>15. ASSUME BeginWrite \/ EndWrite PROVE PeersTypeOK'
  <2>1. \E x \in Extent : tmp' = [tmp EXCEPT ![job] = x]
    BY <1>15 DEF BeginWrite, EndWrite, Extent
  <2>2. tmp' \in [File -> Extent]
    BY <1>0, <2>1
  <2> QED BY <1>0, <1>15, <2>2 DEF BeginWrite, EndWrite
<1>8. ASSUME Rename PROVE PeersTypeOK'
  <2>1. tmp' \in [File -> Extent] /\ disk' \in [File -> Extent] /\ job' \in File \cup {"none"}
    BY <1>0, <1>8 DEF Rename, Extent
  <2>2. UNCHANGED <<now, otp, pins, exported, me, fresh, failures, decided>>
    BY <1>8 DEF Rename
  <2>3. /\ idOnDisk' \in 0..fresh /\ phase' \in {"down", "identity", "trust", "up"}
        /\ usedIds' \subseteq 0..fresh
        /\ pinsOnDisk' \in [Devices -> Prints \cup {NoPrint}]
        /\ standing' \in [Devices -> Standing]
    BY <1>0, <1>8 DEF Rename, PinsWritten
  <2> QED BY <1>0, <2>1, <2>2, <2>3
<1>9. ASSUME IoError PROVE PeersTypeOK'
  BY <1>0, <1>9, BoundAssumption DEF IoError, NoId
<1>10. ASSUME Boot PROVE PeersTypeOK'
  <2>1. \/ fresh' = fresh /\ me' \in 0..fresh /\ usedIds' \subseteq 0..fresh
        \/ fresh' = fresh + 1 /\ me' = fresh + 1 /\ usedIds' = usedIds
    BY <1>0, <1>10 DEF Boot
  <2>2. fresh' \in Nat /\ me' \in 0..fresh' /\ idOnDisk \in 0..fresh' /\ usedIds' \subseteq 0..fresh'
    <3>1. fresh \in Nat /\ \A i \in 0..fresh : i \in 0..(fresh + 1)
      BY <1>0
    <3>2. idOnDisk \in 0..fresh /\ usedIds \subseteq 0..fresh
      BY <1>0
    <3>3. CASE fresh' = fresh /\ me' \in 0..fresh /\ usedIds' \subseteq 0..fresh
      BY <3>1, <3>2, <3>3
    <3>4. CASE fresh' = fresh + 1 /\ me' = fresh + 1 /\ usedIds' = usedIds
      <4>1. fresh + 1 \in Nat /\ fresh + 1 \in 0..(fresh + 1)
        BY <3>1
      <4>2. usedIds \subseteq 0..(fresh + 1)
        BY <3>1, <3>2
      <4> QED BY <3>1, <3>2, <3>4, <4>1, <4>2
    <3> QED BY <2>1, <3>3, <3>4
  <2>3. job' \in File \cup {"none"} /\ phase' \in {"down", "identity", "trust", "up"}
    BY <1>0, <1>10 DEF Boot, File
  <2>4. UNCHANGED <<now, otp, pins, exported, tmp, disk, idOnDisk, pinsOnDisk, failures, history>>
    BY <1>10 DEF Boot
  <2> QED BY <1>0, <2>2, <2>3, <2>4
<1>11. ASSUME LoadTrust PROVE PeersTypeOK'
  BY <1>0, <1>11 DEF LoadTrust, NoPins
<1>12. ASSUME Crash PROVE PeersTypeOK'
  BY <1>0, <1>12, BoundAssumption DEF Crash, NoPins, NotPending, NoId
<1>13. ASSUME Tick PROVE PeersTypeOK'
  BY <1>0, <1>13, BoundAssumption DEF Tick
<1>14. CASE UNCHANGED peersVars
  BY <1>0, <1>14 DEF peersVars
<1> QED
  BY <1>1, <1>2, <1>3, <1>4, <1>5, <1>6, <1>7, <1>8, <1>9, <1>10, <1>11, <1>12, <1>13, <1>14, <1>15
     DEF PeersNext

LEMMA IdentityStep == PeersInv /\ [PeersNext]_peersVars => JobFitsPhase' /\ OneIdentity'
<1> SUFFICES ASSUME PeersInv, [PeersNext]_peersVars PROVE JobFitsPhase' /\ OneIdentity'
  OBVIOUS
<1> USE DEF JobFitsPhase, OneIdentity, otp, files
<1>0. JobFitsPhase /\ OneIdentity /\ disk \in [File -> Extent] /\ tmp \in [File -> Extent]
      /\ "identity" \in File /\ "trust" \in File
      /\ \A x \in Extent : x = "absent" \/ x = "half" \/ x = "whole"
  BY DEF PeersInv, PeersTypeOK, File, Extent
<1>1. ASSUME UNCHANGED <<phase, me, job, disk, idOnDisk, usedIds>> PROVE JobFitsPhase' /\ OneIdentity'
  BY <1>0, <1>1
<1>2. ASSUME SaveTrust PROVE JobFitsPhase' /\ OneIdentity'
  BY <1>0, <1>2 DEF SaveTrust, MayPin, Up
<1>3. ASSUME Rename PROVE JobFitsPhase' /\ OneIdentity'
  <2>1. /\ disk'[job] = "whole" /\ \A f \in File : f # job => disk'[f] = disk[f]
        /\ job \in File /\ job' = "none" /\ me' = me
    BY <1>0, <1>3 DEF Rename, Written
  <2>2. CASE job = "identity"
    <3>1. idOnDisk' = me /\ phase' = "trust" /\ usedIds' = usedIds \cup {me}
      BY <1>3, <2>2 DEF Rename
    <3>2. usedIds = {}
      BY <1>0, <2>2
    <3> QED BY <1>0, <2>1, <2>2, <3>1, <3>2
  <2>3. CASE job = "trust"
    <3>1. UNCHANGED <<idOnDisk, phase, usedIds>>
      BY <1>3, <2>3 DEF Rename
    <3> QED BY <1>0, <2>1, <2>3, <3>1
  <2> QED BY <2>1, <2>2, <2>3 DEF File
<1>4. ASSUME IoError PROVE JobFitsPhase' /\ OneIdentity'
  <2>1. CASE job = "identity"
    BY <1>0, <1>4, <2>1 DEF IoError
  <2>2. CASE job # "identity"
    BY <1>0, <1>4, <2>2 DEF IoError
  <2> QED BY <2>1, <2>2
<1>5. ASSUME Boot PROVE JobFitsPhase' /\ OneIdentity'
  BY <1>0, <1>5 DEF Boot
<1>6. ASSUME LoadTrust PROVE JobFitsPhase' /\ OneIdentity'
  BY <1>0, <1>6 DEF LoadTrust
<1>7. ASSUME Crash PROVE JobFitsPhase' /\ OneIdentity'
  BY <1>0, <1>7 DEF Crash
<1>8. CASE UNCHANGED peersVars
  BY <1>1, <1>8 DEF peersVars
<1> QED
  BY <1>1, <1>2, <1>3, <1>4, <1>5, <1>6, <1>7, <1>8
     DEF PeersNext, IssueCode, Verify, RequirePin, Revoke, SweepExpired, Export, Import,
         BeginWrite, EndWrite, Tick

LEMMA DecisionsStep == PeersInv /\ [PeersNext]_peersVars => DecisionsKept'
<1> SUFFICES ASSUME PeersInv, [PeersNext]_peersVars PROVE DecisionsKept'
  OBVIOUS
<1> USE DEF DecisionsKept, Up, otp, files, history
<1>0. /\ DecisionsKept /\ JobFitsPhase
      /\ pins \in [Devices -> Prints \cup {NoPrint}] /\ pinsOnDisk \in [Devices -> Prints \cup {NoPrint}]
      /\ decided \in [Devices -> Prints \cup {NoPrint}] /\ standing \in [Devices -> Standing]
      /\ disk \in [File -> Extent] /\ tmp \in [File -> Extent]
  BY DEF PeersInv, PeersTypeOK
<1>1. ASSUME UNCHANGED <<phase, pins, disk, pinsOnDisk, history>> PROVE DecisionsKept'
  BY <1>0, <1>1
<1>10. ASSUME NEW d \in Devices, NEW fp \in Prints \cup {NoPrint}, Decide(d, fp), Up,
              pins' = [pins EXCEPT ![d] = fp], UNCHANGED <<phase, disk, pinsOnDisk>>
       PROVE  DecisionsKept'
  <2>1. /\ pins'[d] = fp /\ decided'[d] = fp /\ standing'[d] = "unsaved"
        /\ \A e \in Devices : e # d => /\ pins'[e] = pins[e]
                                      /\ decided'[e] = decided[e] /\ standing'[e] = standing[e]
    BY <1>0, <1>10 DEF Decide
  <2> QED BY <1>0, <1>10, <2>1
<1>2. ASSUME NEW d \in Devices, NEW fp \in Prints, RequirePin(d, fp) PROVE DecisionsKept'
  <2>1. CASE pins[d] = NoPrint
    BY <1>2, <1>10, <2>1 DEF RequirePin, PinnedFor, MayPin
  <2>2. CASE pins[d] # NoPrint
    <3>1. pins' = pins
      BY <1>0, <1>2, <2>2 DEF RequirePin, PinnedFor
    <3> QED BY <1>1, <1>2, <2>2, <3>1 DEF RequirePin
  <2> QED BY <2>1, <2>2
<1>3. ASSUME NEW d \in Devices, Revoke(d) PROVE DecisionsKept'
  BY <1>3, <1>10 DEF Revoke, MayPin
<1>4. ASSUME Import PROVE DecisionsKept'
  BY <1>0, <1>4 DEF Import, MayPin
<1>5. ASSUME Rename PROVE DecisionsKept'
  <2>1. CASE job = "identity"
    <3>1. UNCHANGED <<pins, pinsOnDisk, history>> /\ disk'["trust"] = disk["trust"]
      BY <1>0, <1>5, <2>1 DEF Rename, File
    <3>2. phase # "up" /\ phase' = "trust"
      BY <1>0, <1>5, <2>1 DEF JobFitsPhase, Rename
    <3> QED BY <1>0, <3>1, <3>2
  <2>2. CASE job = "trust"
    <3>1. /\ UNCHANGED <<pins, phase, decided>> /\ pinsOnDisk' = pins
          /\ \A d \in Devices :
               standing'[d] = IF standing[d] = "unsaved" THEN "saved" ELSE standing[d]
      BY <1>5, <2>2 DEF Rename, PinsWritten
    <3>2. disk'["trust"] = "whole" /\ phase = "up"
      BY <1>0, <1>5, <2>2 DEF Rename, Written, JobFitsPhase
    <3> QED BY <1>0, <3>1, <3>2
  <2> QED BY <1>5, <2>1, <2>2 DEF Rename, File
<1>6. ASSUME IoError PROVE DecisionsKept'
  BY <1>0, <1>6 DEF IoError, JobFitsPhase
<1>7. ASSUME Boot PROVE DecisionsKept'
  BY <1>0, <1>7 DEF Boot
<1>11. ASSUME LoadTrust PROVE DecisionsKept'
  <2>1. pins' = pinsOnDisk /\ phase = "trust" /\ UNCHANGED <<disk, pinsOnDisk, history>>
    BY <1>0, <1>11 DEF LoadTrust
  <2> QED BY <1>0, <2>1
<1>8. ASSUME Crash PROVE DecisionsKept'
  BY <1>0, <1>8 DEF Crash
<1>9. CASE UNCHANGED peersVars
  BY <1>1, <1>9 DEF peersVars
<1> QED
  BY <1>1, <1>2, <1>3, <1>4, <1>5, <1>6, <1>7, <1>8, <1>9, <1>11
     DEF PeersNext, IssueCode, Verify, SweepExpired, Export, SaveTrust, BeginWrite, EndWrite, Tick

LEMMA PeersInductive == PeersSpec => []PeersInv
<1>1. PeersInv /\ [PeersNext]_peersVars => PeersInv'
  BY PeersStepType, IdentityStep, DecisionsStep, CodesStep DEF PeersInv
<1> QED BY <1>1, PeersInitInv, PTL DEF PeersSpec

-----------------------------------------------------------------------------
\* Every variable of Peers keeps its type.
THEOREM PeersTypeCorrect == PeersSpec => []PeersTypeOK
<1>1. PeersInv => PeersTypeOK
  BY DEF PeersInv
<1> QED BY <1>1, PeersInductive, PTL

\* A code is accepted once, in time and within its attempts, whatever guesses,
\* sweeps, newer codes and crashes come between.
THEOREM CodesStayEarned == PeersSpec => []CodesAreEarned
<1>1. PeersInv => CodesAreEarned
  BY DEF PeersInv
<1> QED BY <1>1, PeersInductive, PTL

\* No torn file and one identity for ever, wherever a process dies and
\* whichever write fails.
THEOREM OneIdentityForEver == PeersSpec => []StateSurvives
<1>1. PeersInv => StateSurvives
  BY DEF PeersInv, PeersTypeOK, OneIdentity, StateSurvives
<1> QED BY <1>1, PeersInductive, PTL

\* What was last decided about a device stands until it is decided anew, and
\* outlives every crash and failed write once it was saved.
THEOREM TrustStands == PeersSpec => []DecisionsStand
<1>1. PeersInv => DecisionsStand
  BY DEF PeersInv, PeersTypeOK, Standing, DecisionsKept, DecisionsStand
<1> QED BY <1>1, PeersInductive, PTL
=============================================================================
