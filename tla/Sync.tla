-------------------------------- MODULE Sync --------------------------------
(***************************************************************************)
(* SyncEngine of igris-device (sync.rs): every peer keeps a table of       *)
(* records, writes its own with put_local, sends what delta_since returns  *)
(* and merges the batches it is sent; the last writer wins by              *)
(* (updated_ms, device_id), and a deletion is a record like any other.     *)
(*                                                                         *)
(* The transport is not in the repository: a batch may be delayed,         *)
(* repeated, reordered or lost, and the peers' clocks need not agree.      *)
(* A record's payload is left out: it takes no part in any decision.       *)
(***************************************************************************)
EXTENDS Integers, FiniteSets

CONSTANTS
  Peers,       \* the devices
  Rank,        \* Rank[d]: the place of the id of device d in string order
  Ids,         \* record ids
  MaxStamp,    \* bound on updated_ms
  MaxWrites,   \* bound on the local writes
  MaxBatches,  \* bound on the batches sent
  None         \* no record

ASSUME RankAssumption ==
  /\ Rank \in [Peers -> Nat]
  /\ \A d, e \in Peers : Rank[d] = Rank[e] => d = e
ASSUME StampAssumption == MaxStamp \in Nat
ASSUME NoneAssumption ==
  None \notin [updated : 1..MaxStamp, device : Peers, deleted : BOOLEAN]

VARIABLES
  local,    \* local[p][i]: SyncEngine.local of peer p at id i
  network,  \* the batches sent, any of which may be delivered any number of times
  written   \* history: the records put locally, each with its id

vars == <<local, network, written>>

Record == [updated : 1..MaxStamp, device : Peers, deleted : BOOLEAN]
Table == [Ids -> Record \cup {None}]

(***************************************************************************)
(* Faulty variants of definitions below: each is a plausible slip in the   *)
(* code, and shows that some property would notice it.                     *)
(***************************************************************************)
NewerOnly(r, other) == other.updated > r.updated
NewerOrEqual(r, other) == other.updated >= r.updated

(***************************************************************************)
(* SyncRecord and SyncEngine.                                              *)
(***************************************************************************)
\* SyncRecord::superseded_by.
SupersededBy(r, other) ==
  \/ other.updated > r.updated
  \/ other.updated = r.updated /\ Rank[other.device] > Rank[r.device]

\* SyncEngine::merge, of a batch with at most one record for an id.
Merged(loc, batch) ==
  [i \in Ids |->
     IF i \in DOMAIN batch /\ (loc[i] = None \/ SupersededBy(loc[i], batch[i]))
     THEN batch[i] ELSE loc[i]]

\* SyncEngine::delta_since, as a function from the ids it returns.
DeltaSince(loc, since) ==
  [i \in {j \in Ids : loc[j] # None /\ loc[j].updated > since} |-> loc[i]]

-----------------------------------------------------------------------------
Init ==
  /\ local = [p \in Peers |-> [i \in Ids |-> None]]
  /\ network = {}
  /\ written = {}

\* put_local overwrites whatever is there, newer or not.  A device's clock may
\* be anywhere, but ticks between its writes to one id: no two of them carry
\* the same stamp (merge takes an identical stamp for a redelivery).
PutLocal(p, i) ==
  /\ Cardinality(written) < MaxWrites
  /\ \E r \in [updated : 1..MaxStamp, device : {p}, deleted : BOOLEAN] :
       /\ \A w \in written :
            w.id = i /\ w.record.device = p => w.record.updated # r.updated
       /\ local' = [local EXCEPT ![p][i] = r]
       /\ written' = written \cup {[id |-> i, record |-> r]}
  /\ UNCHANGED network

Send(p) ==
  /\ Cardinality(network) < MaxBatches
  /\ \E since \in 0..MaxStamp : network' = network \cup {DeltaSince(local[p], since)}
  /\ UNCHANGED <<local, written>>

Merge(p) ==
  /\ \E batch \in network : local' = [local EXCEPT ![p] = Merged(@, batch)]
  /\ UNCHANGED <<network, written>>

Next ==
  \E p \in Peers : (\E i \in Ids : PutLocal(p, i)) \/ Send(p) \/ Merge(p)

Spec == Init /\ [][Next]_vars

-----------------------------------------------------------------------------
(***************************************************************************)
(* Properties.                                                             *)
(***************************************************************************)
Batch == UNION {[S -> Record] : S \in SUBSET Ids}

\* Every variable has its type; a batch holds records only.
TypeOK ==
  /\ local \in [Peers -> Table]
  /\ network \in SUBSET Batch
  /\ written \in SUBSET [id : Ids, record : Record]

\* Whatever a peer or a batch holds was written by the device it names, with
\* the content it was written with: no merge invents or blends a record, so
\* that a stamp stands for one record everywhere.
NothingInvented ==
  /\ \A p \in Peers, i \in Ids :
       local[p][i] # None => [id |-> i, record |-> local[p][i]] \in written
  /\ \A batch \in network : \A i \in DOMAIN batch :
       [id |-> i, record |-> batch[i]] \in written

\* Any two peers that gave each other all they have agree, whatever each had
\* merged and written before: "every peer converges identically".
ExchangeConverges ==
  \A p, q \in Peers :
    Merged(local[p], DeltaSince(local[q], 0)) = Merged(local[q], DeltaSince(local[p], 0))

\* Batches in flight may arrive in either order, and again: the result at
\* any peer is the same.
OrderIrrelevant ==
  \A p \in Peers : \A b, c \in network :
    LET bc == Merged(Merged(local[p], b), c) IN
    /\ bc = Merged(Merged(local[p], c), b)
    /\ bc = Merged(bc, b)

\* "Stale records never clobber": a peer's record gives way only to one that
\* supersedes it or to a write of the peer's own, so a tombstone is never
\* undone by an older copy that arrives late.
StaleNeverClobbers ==
  [][\A p \in Peers, i \in Ids :
       local'[p][i] # local[p][i] =>
         \/ local[p][i] = None
         \/ SupersededBy(local[p][i], local'[p][i])
         \/ written' # written /\ local'[p][i].device = p]_vars
=============================================================================
