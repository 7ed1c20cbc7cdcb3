------------------------------- MODULE Memory -------------------------------
(***************************************************************************)
(* igris-memory: stores of memories, each a table behind one mutex, that   *)
(* exchange JSON exports.                                                  *)
(*                                                                         *)
(* Every method is one statement under the lock, but import_json, which    *)
(* upserts record after record and lets go of the lock in between.  An     *)
(* export is a file: it may be imported late, twice, or by any store.      *)
(***************************************************************************)
EXTENDS Integers

CONSTANTS
  Stores,     \* the MemoryStores
  Ids,        \* ids of memories
  Kind,       \* Kind[i]: the MemoryType of i
  Ahead,      \* Ahead[s]: how far the clock of s is ahead of true time
  Distinct,   \* TRUE: no two versions of a memory have one updated_at
  Ages,       \* how old a record is when it is handed to store or upsert
  Lifetimes,  \* the expires_at a memory may be given, or Never
  MaxTime,    \* bound on the clock
  MaxWrites   \* bound on the contents written

Never == -1

ASSUME AheadAssumption == Ahead \in [Stores -> Nat]
ASSUME DistinctAssumption == Distinct \in BOOLEAN
ASSUME AgeAssumption == Ages \subseteq Nat
ASSUME LifetimeAssumption == Lifetimes \subseteq Nat \cup {Never}
ASSUME BoundAssumption == MaxTime \in Nat /\ MaxWrites \in Nat

VARIABLES
  now,        \* true time
  row,        \* row[s][i]: the row of i in the table of s
  wrote,      \* contents written so far, numbered
  exports,    \* the exports made so far
  importing,  \* importing[s]: what an import_json into s has yet to upsert
  used,       \* history: used[i]: every updated_at a version of i was given
  absorbed,   \* history: absorbed[s]: the versions written at s or imported
  gone        \* history: gone[s][i]: updated_at of the last soft_delete of i

vars == <<now, row, wrote, exports, importing, used, absorbed, gone>>

NoRow == [val |-> 0, stamp |-> 0, expires |-> Never, dead |-> FALSE]
Row == [val : 0..MaxWrites, stamp : Nat, expires : Lifetimes \cup {Never}, dead : BOOLEAN]
Record == [id : Ids, val : 1..MaxWrites, stamp : Nat, expires : Lifetimes \cup {Never}]

(***************************************************************************)
(* Faulty variants of definitions below: each is a plausible slip in the   *)
(* code, and shows that some property would notice it.                     *)
(***************************************************************************)
LastWins(old, stamp) == FALSE
OldestWins(old, stamp) == old.val # 0 /\ stamp > old.stamp
SameStamp(s, i) == row[s][i].stamp

(***************************************************************************)
(* The table.                                                              *)
(***************************************************************************)
\* Utc::now() where s runs.
Clock(s) == now + Ahead[s]

\* upsert: a stale write loses.
Stale(old, stamp) == old.val # 0 /\ stamp < old.stamp

\* upsert, of one record.
Upserted(s, r) ==
  IF Stale(row[s][r.id], r.stamp) THEN row
  ELSE [row EXCEPT ![s][r.id] =
          [val |-> r.val, stamp |-> r.stamp, expires |-> r.expires, dead |-> FALSE]]

\* UPDATE ... WHERE id: the row is there.
Stored(s, i) == row[s][i].val # 0

\* updated_at of a tombstone.
TombstoneStamp(s, i) == Clock(s)

Expired(s, i) == row[s][i].expires # Never /\ row[s][i].expires <= Clock(s)

\* The rows of an export: those without a tombstone.
Live(s) ==
  {[id |-> i, val |-> row[s][i].val, stamp |-> row[s][i].stamp, expires |-> row[s][i].expires] :
     i \in {j \in Ids : Stored(s, j) /\ ~row[s][j].dead}}

MayStamp(i, t) == Distinct => t \notin used[i]

-----------------------------------------------------------------------------
Init ==
  /\ now = 0 /\ wrote = 0 /\ exports = {}
  /\ row = [s \in Stores |-> [i \in Ids |-> NoRow]]
  /\ importing = [s \in Stores |-> {}]
  /\ used = [i \in Ids |-> {}]
  /\ absorbed = [s \in Stores |-> {}]
  /\ gone = [s \in Stores |-> [i \in Ids |-> 0]]

Tick ==
  /\ now < MaxTime
  /\ now' = now + 1
  /\ UNCHANGED <<row, wrote, exports, importing, used, absorbed, gone>>

\* store, or upsert by a caller: a MemoryRecord::new, or a record made or edited
\* earlier, with the updated_at it carries.
Store(s, i, age, expires) ==
  LET r == [id |-> i, val |-> wrote + 1, stamp |-> Clock(s) - age, expires |-> expires] IN
  /\ age <= Clock(s)
  /\ wrote < MaxWrites
  /\ MayStamp(i, r.stamp)
  /\ row' = Upserted(s, r)
  /\ wrote' = wrote + 1
  /\ used' = [used EXCEPT ![i] = @ \cup {r.stamp}]
  /\ absorbed' = [absorbed EXCEPT ![s] = @ \cup {r}]
  /\ UNCHANGED <<now, exports, importing, gone>>

SoftDelete(s, i) ==
  LET t == TombstoneStamp(s, i) IN
  /\ Stored(s, i)
  /\ MayStamp(i, Clock(s))
  /\ row' = [row EXCEPT ![s][i] = [@ EXCEPT !.dead = TRUE, !.stamp = t]]
  /\ used' = [used EXCEPT ![i] = @ \cup {t}]
  /\ gone' = [gone EXCEPT ![s][i] = Clock(s)]
  /\ UNCHANGED <<now, wrote, exports, importing, absorbed>>

Restore(s, i) ==
  /\ Stored(s, i)
  /\ MayStamp(i, Clock(s))
  /\ row' = [row EXCEPT ![s][i] = [@ EXCEPT !.dead = FALSE, !.stamp = Clock(s)]]
  /\ used' = [used EXCEPT ![i] = @ \cup {Clock(s)}]
  /\ UNCHANGED <<now, wrote, exports, importing, absorbed, gone>>

\* forget_by_type and forget_expired: a tombstone, but updated_at stays.
Buried(s, which) ==
  /\ row' = [row EXCEPT ![s] =
               [i \in Ids |-> IF Stored(s, i) /\ i \in which
                               THEN [row[s][i] EXCEPT !.dead = TRUE] ELSE row[s][i]]]
  /\ UNCHANGED <<now, wrote, exports, importing, used, absorbed, gone>>

ForgetByType(s, kind) == Buried(s, {i \in Ids : Kind[i] = kind})

ForgetExpired(s) == Buried(s, {i \in Ids : Expired(s, i)})

ExportJson(s) ==
  /\ exports' = exports \cup {Live(s)}
  /\ UNCHANGED <<now, row, wrote, importing, used, absorbed, gone>>

(***************************************************************************)
(* import_json.  An error, or a crash, ends it half-way.                   *)
(***************************************************************************)
ImportBegin(s) ==
  /\ importing[s] = {}
  /\ \E file \in exports : importing' = [importing EXCEPT ![s] = file]
  /\ UNCHANGED <<now, row, wrote, exports, used, absorbed, gone>>

ImportOne(s) ==
  /\ \E r \in importing[s] :
       /\ row' = Upserted(s, r)
       /\ importing' = [importing EXCEPT ![s] = @ \ {r}]
       /\ absorbed' = [absorbed EXCEPT ![s] = @ \cup {r}]
  /\ UNCHANGED <<now, wrote, exports, used, gone>>

ImportBreaks(s) ==
  /\ importing[s] # {}
  /\ importing' = [importing EXCEPT ![s] = {}]
  /\ UNCHANGED <<now, row, wrote, exports, used, absorbed, gone>>

Next ==
  \/ Tick
  \/ \E s \in Stores :
       \/ \E i \in Ids : SoftDelete(s, i) \/ Restore(s, i)
       \/ \E i \in Ids, age \in Ages, expires \in Lifetimes : Store(s, i, age, expires)
       \/ \E i \in Ids : ForgetByType(s, Kind[i])
       \/ ForgetExpired(s) \/ ExportJson(s)
       \/ ImportBegin(s) \/ ImportOne(s) \/ ImportBreaks(s)

Spec == Init /\ [][Next]_vars

-----------------------------------------------------------------------------
(***************************************************************************)
(* Properties.                                                             *)
(***************************************************************************)
\* Every variable has its type; a row that is not there has nothing in it.
TypeOK ==
  /\ now \in 0..MaxTime /\ wrote \in 0..MaxWrites
  /\ row \in [Stores -> [Ids -> Row]]
  /\ \A s \in Stores, i \in Ids : row[s][i].val = 0 => row[s][i] = NoRow
  /\ exports \subseteq SUBSET Record
  /\ importing \in [Stores -> SUBSET Record]
  /\ used \in [Ids -> SUBSET Nat]
  /\ absorbed \in [Stores -> SUBSET Record]
  /\ gone \in [Stores -> [Ids -> Nat]]

\* Once a store was given a version of a memory, it has it or a later one: not
\* an import half-way, a delete, a restore nor a sweep takes it back to an older.
AbsorbedOrNewer ==
  \A s \in Stores : \A r \in absorbed[s] : Stored(s, r.id) /\ row[s][r.id].stamp >= r.stamp

\* What soft_delete took away, no export made before brings back: if it is there
\* again it was restored or written afterwards.
DeletedStaysDeleted ==
  \A s \in Stores, i \in Ids :
    gone[s][i] > 0 /\ ~row[s][i].dead => row[s][i].stamp > gone[s][i]

\* Two stores that have taken each other's version of a memory agree on it, in
\* whatever order the exports came and were taken.
ExchangeAgrees ==
  \A a, b \in Stores : \A q \in absorbed[a], r \in absorbed[b] :
    /\ q.id = r.id
    /\ q.val = row[b][q.id].val /\ q.stamp = row[b][q.id].stamp
    /\ r.val = row[a][r.id].val /\ r.stamp = row[a][r.id].stamp
    => q.val = r.val
=============================================================================
