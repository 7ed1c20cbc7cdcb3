---------------------------- MODULE MemoryProofs ----------------------------
(***************************************************************************)
(* Proofs about the stores of memories, for any number of them, of         *)
(* memories, exports and imports at once.  AbsorbedOrNewer and what rests  *)
(* on it assume one clock and versions with stamps of their own.           *)
(***************************************************************************)
EXTENDS Memory, TLAPS

NoSkew == \A s \in Stores : Ahead[s] = 0

-----------------------------------------------------------------------------
(***************************************************************************)
(* Types.                                                                  *)
(***************************************************************************)
\* The clock of a store, and the rows and records it makes.
LEMMA ClockType == ASSUME TypeOK, NEW s \in Stores PROVE Clock(s) \in Nat
BY AheadAssumption, BoundAssumption DEF Clock, TypeOK

\* A row is a Row, and one that is there has a value.
LEMMA RowType ==
  ASSUME TypeOK, NEW s \in Stores, NEW i \in Ids
  PROVE  row[s][i] \in Row /\ (Stored(s, i) => row[s][i].val \in 1..MaxWrites)
<1>1. row[s][i] \in Row
  BY DEF TypeOK
<1> QED BY <1>1, BoundAssumption DEF Row, Stored

\* An export holds records.
LEMMA LiveType ==
  ASSUME TypeOK, NEW s \in Stores PROVE Live(s) \subseteq Record
BY RowType DEF Live, Record, Row

\* upsert leaves a table of rows, of which only those not there are empty.
LEMMA UpsertType ==
  ASSUME TypeOK, NEW s \in Stores, NEW r \in [id : Ids, val : 1..MaxWrites, stamp : Nat,
                                              expires : Lifetimes \cup {Never}]
  PROVE  /\ Upserted(s, r) \in [Stores -> [Ids -> Row]]
         /\ \A t \in Stores, i \in Ids :
              Upserted(s, r)[t][i].val = 0 => Upserted(s, r)[t][i] = NoRow
<1> DEFINE new == [val |-> r.val, stamp |-> r.stamp, expires |-> r.expires, dead |-> FALSE]
<1>1. new \in Row /\ new.val # 0
  BY BoundAssumption DEF Row
<1> HIDE DEF new
<1>2. Upserted(s, r) = row \/ Upserted(s, r) = [row EXCEPT ![s][r.id] = new]
  BY DEF Upserted, new
<1>3. [row EXCEPT ![s][r.id] = new] \in [Stores -> [Ids -> Row]]
  BY <1>1 DEF TypeOK
<1>4. \A t \in Stores, i \in Ids :
        \/ [row EXCEPT ![s][r.id] = new][t][i] = row[t][i]
        \/ [row EXCEPT ![s][r.id] = new][t][i] = new
  BY DEF TypeOK
<1>5. CASE Upserted(s, r) = row
  BY <1>5 DEF TypeOK
<1>6. CASE Upserted(s, r) = [row EXCEPT ![s][r.id] = new]
  BY <1>1, <1>3, <1>4, <1>6 DEF TypeOK
<1> QED BY <1>2, <1>5, <1>6

\* Every step keeps the types.
LEMMA NextType == ASSUME TypeOK, [Next]_vars PROVE TypeOK'
<1> USE BoundAssumption
<1>1. ASSUME NEW s \in Stores, NEW i \in Ids, NEW age \in Ages,
             NEW expires \in Lifetimes, Store(s, i, age, expires)
      PROVE  TypeOK'
  <2> DEFINE r == [id |-> i, val |-> wrote + 1, stamp |-> Clock(s) - age, expires |-> expires]
  <2>1. wrote + 1 \in 1..MaxWrites
    BY <1>1 DEF Store, TypeOK
  <2>2. r \in Record /\ r.stamp \in Nat
    <3>1. Clock(s) - age \in Nat
      BY <1>1, ClockType, AgeAssumption DEF Store
    <3> QED BY <2>1, <3>1 DEF Record
  <2>3. row' = Upserted(s, r)
    BY <1>1 DEF Store
  <2>4. /\ absorbed' = [absorbed EXCEPT ![s] = @ \cup {r}]
        /\ used' = [used EXCEPT ![i] = @ \cup {r.stamp}]
        /\ wrote' = wrote + 1 /\ UNCHANGED <<now, exports, importing, gone>>
    BY <1>1 DEF Store
  <2> HIDE DEF r
  <2>5. row' \in [Stores -> [Ids -> Row]]
        /\ \A t \in Stores, j \in Ids : row'[t][j].val = 0 => row'[t][j] = NoRow
    BY <2>2, <2>3, UpsertType DEF Record
  <2>6. absorbed' \in [Stores -> SUBSET Record] /\ used' \in [Ids -> SUBSET Nat]
    BY <2>2, <2>3, <2>4 DEF TypeOK
  <2> QED BY <2>1, <2>4, <2>5, <2>6 DEF TypeOK
<1>2. ASSUME NEW s \in Stores, ImportOne(s) PROVE TypeOK'
  <2>1. PICK r \in importing[s] : /\ row' = Upserted(s, r)
                                  /\ importing' = [importing EXCEPT ![s] = @ \ {r}]
                                  /\ absorbed' = [absorbed EXCEPT ![s] = @ \cup {r}]
    BY <1>2 DEF ImportOne
  <2>2. r \in Record
    BY DEF TypeOK
  <2>3. row' \in [Stores -> [Ids -> Row]]
        /\ \A t \in Stores, j \in Ids : row'[t][j].val = 0 => row'[t][j] = NoRow
    BY <2>1, <2>2, UpsertType DEF Record
  <2>4. importing' \in [Stores -> SUBSET Record] /\ absorbed' \in [Stores -> SUBSET Record]
    BY <2>1, <2>2 DEF TypeOK
  <2>5. UNCHANGED <<now, wrote, exports, used, gone>>
    BY <1>2 DEF ImportOne
  <2> QED BY <2>3, <2>4, <2>5 DEF TypeOK
<1>3. ASSUME NEW s \in Stores, NEW i \in Ids, SoftDelete(s, i) \/ Restore(s, i) PROVE TypeOK'
  <2>1. PICK d \in BOOLEAN :
          row' = [row EXCEPT ![s][i] = [@ EXCEPT !.dead = d, !.stamp = Clock(s)]]
    BY <1>3 DEF SoftDelete, Restore, TombstoneStamp
  <2>2. row[s][i] \in Row /\ row[s][i].val # 0
    BY <1>3, RowType DEF SoftDelete, Restore, Stored
  <2>3. [row[s][i] EXCEPT !.dead = d, !.stamp = Clock(s)] \in Row
        /\ [row[s][i] EXCEPT !.dead = d, !.stamp = Clock(s)].val # 0
    BY <2>2, ClockType DEF Row
  <2>4. row' \in [Stores -> [Ids -> Row]]
        /\ \A t \in Stores, j \in Ids : row'[t][j].val = 0 => row'[t][j] = NoRow
    BY <2>1, <2>3 DEF TypeOK
  <2>5. used' \in [Ids -> SUBSET Nat] /\ gone' \in [Stores -> [Ids -> Nat]]
    <3>1. CASE SoftDelete(s, i)
      <4>1. /\ used' = [used EXCEPT ![i] = @ \cup {Clock(s)}]
            /\ gone' = [gone EXCEPT ![s][i] = Clock(s)]
        BY <3>1 DEF SoftDelete, TombstoneStamp
      <4> QED BY <4>1, ClockType DEF TypeOK
    <3>2. CASE Restore(s, i)
      BY <3>2, ClockType DEF Restore, TypeOK
    <3> QED BY <1>3, <3>1, <3>2
  <2> QED BY <1>3, <2>4, <2>5 DEF SoftDelete, Restore, TypeOK
<1>4. ASSUME NEW s \in Stores, NEW which, Buried(s, which) PROVE TypeOK'
  <2>1. \A i \in Ids : Stored(s, i) => [row[s][i] EXCEPT !.dead = TRUE] \in Row
                                      /\ [row[s][i] EXCEPT !.dead = TRUE].val # 0
    BY RowType DEF Row, Stored
  <2>2. row' = [row EXCEPT ![s] =
           [i \in Ids |-> IF Stored(s, i) /\ i \in which THEN [row[s][i] EXCEPT !.dead = TRUE]
                          ELSE row[s][i]]]
    BY <1>4 DEF Buried, TypeOK
  <2>3. row' \in [Stores -> [Ids -> Row]]
        /\ \A t \in Stores, j \in Ids : row'[t][j].val = 0 => row'[t][j] = NoRow
    BY <2>1, <2>2 DEF TypeOK
  <2> QED BY <1>4, <2>3 DEF Buried, TypeOK
<1>5. ASSUME NEW s \in Stores, ExportJson(s) PROVE TypeOK'
  BY <1>5, LiveType DEF ExportJson, TypeOK
<1>6. ASSUME NEW s \in Stores, ImportBegin(s) \/ ImportBreaks(s) PROVE TypeOK'
  BY <1>6 DEF ImportBegin, ImportBreaks, TypeOK
<1>7. CASE Tick
  BY <1>7 DEF Tick, TypeOK
<1>8. CASE UNCHANGED vars
  BY <1>8 DEF vars, TypeOK
<1> QED
  BY <1>1, <1>2, <1>3, <1>4, <1>5, <1>6, <1>7, <1>8 DEF Next, ForgetByType, ForgetExpired

\* The empty tables have their types.
LEMMA InitType == Init => TypeOK
BY BoundAssumption DEF Init, TypeOK, NoRow, Row

\* Every variable of the stores and of the exchange keeps its type.
THEOREM TypeCorrect == Spec => []TypeOK
BY InitType, NextType, PTL DEF Spec

-----------------------------------------------------------------------------
(***************************************************************************)
(* What a step does to the rows and to the records that are about.         *)
(***************************************************************************)
Records ==
  {r \in Record : \/ \E file \in exports : r \in file
                  \/ \E s \in Stores : r \in importing[s] \/ r \in absorbed[s]}

\* One row takes the version of a record that is not older.
Takes(s, r) ==
  /\ ~Stale(row[s][r.id], r.stamp)
  /\ row'[s][r.id].val = r.val /\ row'[s][r.id].stamp = r.stamp /\ ~row'[s][r.id].dead
  /\ \A t \in Stores, i \in Ids : <<t, i>> # <<s, r.id>> => row'[t][i] = row[t][i]

Keeps(s, r) == Stale(row[s][r.id], r.stamp) /\ UNCHANGED row

\* upsert takes the version or, if it is stale, changes nothing.
LEMMA UpsertTakes ==
  ASSUME TypeOK, NEW s \in Stores, NEW r \in Record, row' = Upserted(s, r)
  PROVE  Keeps(s, r) \/ Takes(s, r)
<1> DEFINE new == [val |-> r.val, stamp |-> r.stamp, expires |-> r.expires, dead |-> FALSE]
<1>1. r.id \in Ids
  BY DEF Record
<1>2. CASE Stale(row[s][r.id], r.stamp)
  BY <1>2 DEF Upserted, Keeps
<1>3. CASE ~Stale(row[s][r.id], r.stamp)
  <2>1. row' = [row EXCEPT ![s][r.id] = new]
    BY <1>3 DEF Upserted
  <2>2. row'[s][r.id] = new
    BY <1>1, <2>1 DEF TypeOK
  <2>3. \A t \in Stores, i \in Ids : <<t, i>> # <<s, r.id>> => row'[t][i] = row[t][i]
    BY <1>1, <2>1 DEF TypeOK
  <2> QED BY <1>3, <2>2, <2>3 DEF Takes
<1> QED BY <1>2, <1>3

\* store takes a record with a time that has been and a value of its own.
LEMMA Storing ==
  ASSUME TypeOK, NoSkew, NEW s \in Stores, NEW i \in Ids, NEW age \in Ages,
         NEW expires \in Lifetimes, Store(s, i, age, expires)
  PROVE  \E r \in Record :
           /\ r.id = i /\ r.stamp \in 0..now /\ MayStamp(i, r.stamp)
           /\ Keeps(s, r) \/ Takes(s, r)
           /\ Records' \subseteq Records \cup {r} /\ absorbed' = [absorbed EXCEPT ![s] = @ \cup {r}]
           /\ used' = [used EXCEPT ![i] = @ \cup {r.stamp}] /\ UNCHANGED <<now, gone>>
<1> DEFINE r == [id |-> i, val |-> wrote + 1, stamp |-> Clock(s) - age, expires |-> expires]
<1>1. Clock(s) = now
  BY DEF NoSkew, Clock, TypeOK
<1>2. wrote + 1 \in 1..MaxWrites /\ now \in Nat
  BY BoundAssumption DEF Store, TypeOK
<1>3. r \in Record /\ r.id = i /\ r.stamp \in 0..now
  <2>1. Clock(s) - age \in 0..now
    BY <1>1, <1>2, AgeAssumption DEF Store
  <2> QED BY <1>2, <2>1 DEF Record
<1>4. /\ row' = Upserted(s, r) /\ MayStamp(i, r.stamp)
      /\ absorbed' = [absorbed EXCEPT ![s] = @ \cup {r}]
      /\ used' = [used EXCEPT ![i] = @ \cup {r.stamp}]
      /\ UNCHANGED <<now, exports, importing, gone>>
  BY DEF Store
<1> HIDE DEF r
<1>5. \A t \in Stores : absorbed'[t] \subseteq absorbed[t] \cup {r}
  BY <1>4 DEF TypeOK
<1>6. Records' \subseteq Records \cup {r}
  BY <1>4, <1>5 DEF Records
<1> QED BY <1>3, <1>4, <1>6, UpsertTakes

\* import_json upserts a record of its file.
LEMMA Importing ==
  ASSUME TypeOK, NEW s \in Stores, ImportOne(s)
  PROVE  \E r \in Records :
           /\ Keeps(s, r) \/ Takes(s, r)
           /\ Records' \subseteq Records /\ absorbed' = [absorbed EXCEPT ![s] = @ \cup {r}]
           /\ UNCHANGED <<now, used, gone>>
<1>1. PICK r \in importing[s] : /\ row' = Upserted(s, r)
                                /\ importing' = [importing EXCEPT ![s] = @ \ {r}]
                                /\ absorbed' = [absorbed EXCEPT ![s] = @ \cup {r}]
  BY DEF ImportOne
<1>2. r \in Record
  BY DEF TypeOK
<1>3. r \in Records
  BY <1>2 DEF Records
<1>4. UNCHANGED <<now, used, gone, exports>>
  BY DEF ImportOne
<1>5. \A t \in Stores : absorbed'[t] \subseteq absorbed[t] \cup {r} /\ importing'[t] \subseteq importing[t]
  BY <1>1 DEF TypeOK
<1>6. Records' \subseteq Records
  BY <1>3, <1>4, <1>5 DEF Records
<1> QED BY <1>1, <1>2, <1>3, <1>4, <1>6, UpsertTakes

\* soft_delete and restore stamp one row with the time.
LEMMA Stamping ==
  ASSUME TypeOK, NoSkew, NEW s \in Stores, NEW i \in Ids, SoftDelete(s, i) \/ Restore(s, i)
  PROVE  /\ Stored(s, i) /\ MayStamp(i, now)
         /\ row'[s][i].val = row[s][i].val /\ row'[s][i].stamp = now
         /\ row'[s][i].dead <=> SoftDelete(s, i)
         /\ \A t \in Stores, j \in Ids : <<t, j>> # <<s, i>> => row'[t][j] = row[t][j]
         /\ used' = [used EXCEPT ![i] = @ \cup {now}] /\ UNCHANGED <<now, absorbed, Records>>
         /\ IF SoftDelete(s, i) THEN gone' = [gone EXCEPT ![s][i] = now] ELSE UNCHANGED gone
<1>1. Clock(s) = now
  BY DEF NoSkew, Clock, TypeOK
<1>2. row[s][i] \in Row
  BY RowType
<1>3. UNCHANGED <<now, exports, importing, absorbed>>
  BY DEF SoftDelete, Restore
<1>4. UNCHANGED Records
  BY <1>3 DEF Records
<1>5. ASSUME NEW d \in BOOLEAN, row' = [row EXCEPT ![s][i] = [@ EXCEPT !.dead = d, !.stamp = now]]
      PROVE  /\ row'[s][i].val = row[s][i].val /\ row'[s][i].stamp = now /\ row'[s][i].dead = d
             /\ \A t \in Stores, j \in Ids : <<t, j>> # <<s, i>> => row'[t][j] = row[t][j]
  <2>1. row'[s][i] = [row[s][i] EXCEPT !.dead = d, !.stamp = now]
    BY <1>5 DEF TypeOK
  <2>2. \A t \in Stores, j \in Ids : <<t, j>> # <<s, i>> => row'[t][j] = row[t][j]
    BY <1>5 DEF TypeOK
  <2> QED BY <1>2, <2>1, <2>2 DEF Row
<1>6. CASE SoftDelete(s, i)
  <2>1. /\ Stored(s, i) /\ MayStamp(i, now)
        /\ row' = [row EXCEPT ![s][i] = [@ EXCEPT !.dead = TRUE, !.stamp = now]]
        /\ used' = [used EXCEPT ![i] = @ \cup {now}] /\ gone' = [gone EXCEPT ![s][i] = now]
    BY <1>1, <1>6 DEF SoftDelete, TombstoneStamp
  <2> QED BY <1>3, <1>4, <1>5, <1>6, <2>1
<1>7. CASE ~SoftDelete(s, i) /\ Restore(s, i)
  <2>1. /\ Stored(s, i) /\ MayStamp(i, now)
        /\ row' = [row EXCEPT ![s][i] = [@ EXCEPT !.dead = FALSE, !.stamp = now]]
        /\ used' = [used EXCEPT ![i] = @ \cup {now}] /\ UNCHANGED gone
    BY <1>1, <1>7 DEF Restore
  <2> QED BY <1>3, <1>4, <1>5, <1>7, <2>1
<1> QED BY <1>6, <1>7

\* The two sweeps change no version.
LEMMA Burying ==
  ASSUME TypeOK, NEW s \in Stores, NEW which, Buried(s, which)
  PROVE  /\ \A t \in Stores, i \in Ids :
              /\ row'[t][i].val = row[t][i].val /\ row'[t][i].stamp = row[t][i].stamp
              /\ row[t][i].dead => row'[t][i].dead
         /\ UNCHANGED <<now, absorbed, used, gone, Records>>
<1>1. row' = [row EXCEPT ![s] =
         [i \in Ids |-> IF Stored(s, i) /\ i \in which THEN [row[s][i] EXCEPT !.dead = TRUE]
                        ELSE row[s][i]]]
  BY DEF Buried
<1>2. \A t \in Stores, i \in Ids :
        row'[t][i] = row[t][i] \/ row'[t][i] = [row[t][i] EXCEPT !.dead = TRUE]
  BY <1>1 DEF TypeOK
<1>3. UNCHANGED <<now, absorbed, used, gone, exports, importing>>
  BY DEF Buried
<1>4. UNCHANGED Records
  BY <1>3 DEF Records
<1>5. ASSUME NEW t \in Stores, NEW i \in Ids
      PROVE  /\ row'[t][i].val = row[t][i].val /\ row'[t][i].stamp = row[t][i].stamp
             /\ row[t][i].dead => row'[t][i].dead
  <2>1. row[t][i] \in Row
    BY RowType
  <2>2. CASE row'[t][i] = row[t][i]
    BY <2>2
  <2>3. CASE row'[t][i] = [row[t][i] EXCEPT !.dead = TRUE]
    BY <2>1, <2>3 DEF Row
  <2> QED BY <1>2, <2>2, <2>3
<1> QED BY <1>3, <1>4, <1>5

\* The rest moves records about, which an export makes from the live rows.
LEMMA Moving ==
  ASSUME TypeOK, NEW s \in Stores, ExportJson(s) \/ ImportBegin(s) \/ ImportBreaks(s)
  PROVE  /\ Records' \subseteq Records \cup Live(s)
         /\ UNCHANGED <<now, row, absorbed, used, gone>>
<1>1. UNCHANGED <<now, row, absorbed, used, gone>>
  BY DEF ExportJson, ImportBegin, ImportBreaks
<1>3. \A file \in exports' : file \in exports \/ file = Live(s)
  BY DEF ExportJson, ImportBegin, ImportBreaks
<1>4. \A t \in Stores : \/ importing'[t] \subseteq importing[t]
                        \/ \E file \in exports : importing'[t] = file
  <2>1. CASE ImportBegin(s)
    <3>1. PICK file \in exports : importing' = [importing EXCEPT ![s] = file]
      BY <2>1 DEF ImportBegin
    <3> QED BY <3>1 DEF TypeOK
  <2>2. CASE ImportBreaks(s)
    BY <2>2 DEF ImportBreaks, TypeOK
  <2>3. CASE ExportJson(s)
    BY <2>3 DEF ExportJson
  <2> QED BY <2>1, <2>2, <2>3
<1>5. ASSUME NEW r \in Records', r \notin Records PROVE r \in Live(s)
  <2>1. r \in Record /\ ~(\E t \in Stores : r \in importing'[t] \/ r \in absorbed'[t])
    BY <1>1, <1>4, <1>5 DEF Records
  <2>2. PICK file \in exports' : r \in file
    BY <1>5, <2>1 DEF Records
  <2>3. file \notin exports
    BY <1>5, <2>1, <2>2 DEF Records
  <2> QED BY <1>3, <2>2, <2>3
<1> QED BY <1>1, <1>5


\* Time passes, and nothing else.
LEMMA Ticking ==
  ASSUME TypeOK, Tick \/ UNCHANGED vars
  PROVE  UNCHANGED <<row, absorbed, used, gone, Records>> /\ now <= now'
<1>1. UNCHANGED <<row, exports, importing, absorbed, used, gone>> /\ now <= now'
  BY DEF Tick, vars, TypeOK
<1> QED BY <1>1 DEF Records

-----------------------------------------------------------------------------
(***************************************************************************)
(* Which versions there are, in the rows and in the records that are       *)
(* about, and what stamps they have.                                       *)
(***************************************************************************)
Holds(i, t, v) ==
  \/ \E r \in Records : r.id = i /\ r.stamp = t /\ r.val = v
  \/ \E s \in Stores : Stored(s, i) /\ row[s][i].stamp = t /\ row[s][i].val = v

Stamps ==
  /\ \A i \in Ids, t, v \in Nat : Holds(i, t, v) => t \in used[i]
  /\ \A i \in Ids : \A t \in used[i] : t <= now
  /\ \A s \in Stores, i \in Ids : gone[s][i] > 0 => gone[s][i] \in used[i]

OneVersion ==
  \A i \in Ids, t, v, w \in Nat : Holds(i, t, v) /\ Holds(i, t, w) => v = w

\* What a step adds to the versions: at most one, with a stamp it may have.
Fresh(j, at, w) ==
  \A i \in Ids, t, v \in Nat :
    Holds(i, t, v)' => \/ Holds(i, t, v)
                       \/ i = j /\ t = at /\ v = w /\ MayStamp(i, at) /\ at \in used'[i]

\* What a step does to the stamps used.
StampsMove ==
  /\ now <= now'
  /\ \A i \in Ids : used[i] \subseteq used'[i] /\ used'[i] \subseteq used[i] \cup 0..now
  /\ \A i \in Ids : used'[i] # used[i] => now' = now
  /\ \A s \in Stores, i \in Ids : gone'[s][i] # gone[s][i] => gone'[s][i] \in used'[i]

\* A step that stores a record, or takes it from an import, adds its version only.
LEMMA TakingAdds ==
  ASSUME TypeOK, NEW s \in Stores, NEW r \in Record, Keeps(s, r) \/ Takes(s, r),
         Records' \subseteq Records \cup {r}
  PROVE  \A i \in Ids, t, v \in Nat :
           Holds(i, t, v)' => Holds(i, t, v) \/ (i = r.id /\ t = r.stamp /\ v = r.val)
<1> SUFFICES ASSUME NEW i \in Ids, NEW t \in Nat, NEW v \in Nat, Holds(i, t, v)',
                    ~(i = r.id /\ t = r.stamp /\ v = r.val)
             PROVE  Holds(i, t, v)
  OBVIOUS
<1>1. CASE \E q \in Records' : q.id = i /\ q.stamp = t /\ q.val = v
  BY <1>1 DEF Holds
<1>2. CASE \E u \in Stores : Stored(u, i)' /\ row'[u][i].stamp = t /\ row'[u][i].val = v
  <2>1. PICK u \in Stores : Stored(u, i)' /\ row'[u][i].stamp = t /\ row'[u][i].val = v
    BY <1>2
  <2>2. row'[u][i] = row[u][i]
    BY <2>1 DEF Keeps, Takes
  <2> QED BY <2>1, <2>2 DEF Holds, Stored
<1> QED BY <1>1, <1>2 DEF Holds

\* A step that leaves the versions of the rows alone, and only passes on records
\* made of versions there are, adds none.
LEMMA NothingNew ==
  ASSUME TypeOK, NEW S \in SUBSET Stores, Records' \subseteq Records \cup UNION {Live(s) : s \in S},
         \A s \in Stores, i \in Ids : row'[s][i].val = row[s][i].val /\ row'[s][i].stamp = row[s][i].stamp
  PROVE  \A i \in Ids, t, v \in Nat : Holds(i, t, v)' => Holds(i, t, v)
<1> SUFFICES ASSUME NEW i \in Ids, NEW t \in Nat, NEW v \in Nat, Holds(i, t, v)'
             PROVE  Holds(i, t, v)
  OBVIOUS
<1>1. CASE \E q \in Records' : q.id = i /\ q.stamp = t /\ q.val = v
  <2>1. PICK q \in Records' : q.id = i /\ q.stamp = t /\ q.val = v
    BY <1>1
  <2>2. CASE q \in Records
    BY <2>1, <2>2 DEF Holds
  <2>3. ASSUME NEW s \in Stores, q \in Live(s) PROVE Holds(i, t, v)
    BY <2>1, <2>3 DEF Holds, Live
  <2> QED BY <2>2, <2>3
<1>2. CASE \E s \in Stores : Stored(s, i)' /\ row'[s][i].stamp = t /\ row'[s][i].val = v
  BY <1>2 DEF Holds, Stored
<1> QED BY <1>1, <1>2 DEF Holds

\* Every step adds at most one version, with a stamp of its own.
LEMMA StepIsFresh ==
  ASSUME TypeOK, NoSkew, [Next]_vars
  PROVE  (\E j, at, w : Fresh(j, at, w)) /\ StampsMove
<1>1. ASSUME NEW s \in Stores, NEW i \in Ids, NEW age \in Ages,
             NEW expires \in Lifetimes, Store(s, i, age, expires)
      PROVE  (\E j, at, w : Fresh(j, at, w)) /\ StampsMove
  <2>1. PICK r \in Record :
           /\ r.id = i /\ r.stamp \in 0..now /\ MayStamp(i, r.stamp)
           /\ Keeps(s, r) \/ Takes(s, r)
           /\ Records' \subseteq Records \cup {r}
           /\ used' = [used EXCEPT ![i] = @ \cup {r.stamp}] /\ UNCHANGED <<now, gone>>
    BY <1>1, Storing
  <2>2. Fresh(i, r.stamp, r.val)
    BY <2>1, TakingAdds DEF Fresh, TypeOK
  <2>3. StampsMove
    BY <2>1 DEF StampsMove, TypeOK
  <2> QED BY <2>2, <2>3
<1>2. ASSUME NEW s \in Stores, ImportOne(s) PROVE (\E j, at, w : Fresh(j, at, w)) /\ StampsMove
  <2>1. PICK r \in Records : /\ Keeps(s, r) \/ Takes(s, r)
                             /\ Records' \subseteq Records /\ UNCHANGED <<now, used, gone>>
    BY <1>2, Importing
  <2>2. Holds(r.id, r.stamp, r.val) /\ r \in Record
    BY DEF Holds, Records
  <2>3. \A i \in Ids, t, v \in Nat : Holds(i, t, v)' => Holds(i, t, v)
    BY <2>1, <2>2, TakingAdds
  <2>4. Fresh(0, 0, 0)
    BY <2>3 DEF Fresh
  <2> QED BY <2>1, <2>4 DEF StampsMove, TypeOK
<1>3. ASSUME NEW s \in Stores, NEW i \in Ids, SoftDelete(s, i) \/ Restore(s, i)
      PROVE  (\E j, at, w : Fresh(j, at, w)) /\ StampsMove
  <2>1. /\ Stored(s, i) /\ MayStamp(i, now)
        /\ row'[s][i].val = row[s][i].val /\ row'[s][i].stamp = now
        /\ \A t \in Stores, j \in Ids : <<t, j>> # <<s, i>> => row'[t][j] = row[t][j]
        /\ used' = [used EXCEPT ![i] = @ \cup {now}] /\ UNCHANGED <<now, Records>>
        /\ gone' = [gone EXCEPT ![s][i] = now] \/ UNCHANGED gone
    BY <1>3, Stamping
  <2>2. Fresh(i, now, row[s][i].val)
    <3> SUFFICES ASSUME NEW j \in Ids, NEW t \in Nat, NEW v \in Nat, Holds(j, t, v)', ~Holds(j, t, v)
                 PROVE  j = i /\ t = now /\ v = row[s][i].val /\ MayStamp(j, now) /\ now \in used'[j]
      BY DEF Fresh
    <3>1. PICK u \in Stores : Stored(u, j)' /\ row'[u][j].stamp = t /\ row'[u][j].val = v
      BY <2>1 DEF Holds
    <3>2. u = s /\ j = i
      BY <2>1, <3>1 DEF Holds, Stored
    <3> QED BY <2>1, <3>1, <3>2 DEF TypeOK
  <2>3. StampsMove
    BY <2>1 DEF StampsMove, TypeOK
  <2> QED BY <2>2, <2>3
<1>4. ASSUME NEW s \in Stores, NEW which, Buried(s, which)
      PROVE  (\E j, at, w : Fresh(j, at, w)) /\ StampsMove
  <2>1. Fresh(0, 0, 0)
    BY <1>4, Burying, NothingNew DEF Fresh
  <2> QED BY <1>4, <2>1, Burying DEF StampsMove, TypeOK
<1>5. ASSUME NEW s \in Stores, ExportJson(s) \/ ImportBegin(s) \/ ImportBreaks(s)
      PROVE  (\E j, at, w : Fresh(j, at, w)) /\ StampsMove
  <2>1. /\ Records' \subseteq Records \cup UNION {Live(t) : t \in {s}}
        /\ UNCHANGED <<now, row, absorbed, used, gone>>
    BY <1>5, Moving
  <2>2. Fresh(0, 0, 0)
    BY <2>1, NothingNew DEF Fresh
  <2> QED BY <2>1, <2>2 DEF StampsMove, TypeOK
<1>6. CASE Tick \/ UNCHANGED vars
  <2>1. Fresh(0, 0, 0)
    BY <1>6, Ticking, NothingNew DEF Fresh
  <2> QED BY <1>6, <2>1, Ticking DEF StampsMove, TypeOK
<1> QED
  BY <1>1, <1>2, <1>3, <1>4, <1>5, <1>6 DEF Next, ForgetByType, ForgetExpired

-----------------------------------------------------------------------------
(***************************************************************************)
(* The invariants, with one clock.                                         *)
(***************************************************************************)
\* Stamps are times that have been, and each has one version.
LEMMA StampsStep ==
  ASSUME TypeOK, NoSkew, Stamps, [Next]_vars PROVE Stamps'
<1>1. PICK j, at, w : Fresh(j, at, w)
  BY StepIsFresh
<1>2. StampsMove
  BY StepIsFresh
<1>3. now \in Nat /\ now' \in Nat /\ used \in [Ids -> SUBSET Nat]
  BY NextType DEF TypeOK
<1>4. \A i \in Ids, t, v \in Nat : Holds(i, t, v)' => t \in used'[i]
  BY <1>1, <1>2 DEF Fresh, Stamps, StampsMove
<1>5. \A i \in Ids : \A t \in used'[i] : t <= now'
  <2> SUFFICES ASSUME NEW i \in Ids, NEW t \in used'[i] PROVE t <= now'
    OBVIOUS
  <2>1. t \in used[i] \/ t \in 0..now
    BY <1>2 DEF StampsMove
  <2>2. t <= now /\ t \in Nat
    BY <1>3, <2>1 DEF Stamps
  <2> QED BY <1>2, <1>3, <2>2 DEF StampsMove
<1>6. \A s \in Stores, i \in Ids : gone'[s][i] > 0 => gone'[s][i] \in used'[i]
  BY <1>2 DEF Stamps, StampsMove
<1> QED BY <1>4, <1>5, <1>6 DEF Stamps

\* With stamps of their own, no step gives a stamp to a second version.
LEMMA OneVersionStep ==
  ASSUME TypeOK, NoSkew, Distinct, Stamps, OneVersion, [Next]_vars PROVE OneVersion'
<1>1. PICK j, at, w : Fresh(j, at, w)
  BY StepIsFresh
<1>2. SUFFICES ASSUME NEW i \in Ids, NEW t \in Nat, NEW v \in Nat, NEW u \in Nat,
                      Holds(i, t, v)', Holds(i, t, u)'
               PROVE  v = u
  BY DEF OneVersion
<1>3. CASE Holds(i, t, v) /\ Holds(i, t, u)
  BY <1>3 DEF OneVersion
<1>4. CASE ~Holds(i, t, v) /\ ~Holds(i, t, u)
  BY <1>1, <1>2, <1>4 DEF Fresh
<1>5. ASSUME Holds(i, t, v) \/ Holds(i, t, u) PROVE t # at \/ ~MayStamp(i, at)
  BY <1>5 DEF Stamps, MayStamp
<1> QED BY <1>1, <1>2, <1>3, <1>4, <1>5 DEF Fresh

\* No step takes a row back before a version its store was given.
LEMMA AbsorbedStep ==
  ASSUME TypeOK, NoSkew, Stamps, AbsorbedOrNewer, [Next]_vars PROVE AbsorbedOrNewer'
<1> SUFFICES ASSUME NEW u \in Stores, NEW q \in absorbed'[u]
             PROVE  Stored(u, q.id)' /\ row'[u][q.id].stamp >= q.stamp
  BY DEF AbsorbedOrNewer
<1>1. q \in Record /\ q.id \in Ids /\ q.stamp \in Nat
  BY NextType DEF TypeOK, Record
<1>2. row[u][q.id].stamp \in Nat /\ now \in Nat
  BY <1>1, RowType DEF Row, TypeOK
<1>3. q \in absorbed[u] => Stored(u, q.id) /\ row[u][q.id].stamp >= q.stamp
  BY DEF AbsorbedOrNewer
<1>4. ASSUME NEW s \in Stores, NEW r \in Record, Keeps(s, r) \/ Takes(s, r),
             absorbed' = [absorbed EXCEPT ![s] = @ \cup {r}]
      PROVE  Stored(u, q.id)' /\ row'[u][q.id].stamp >= q.stamp
  <2>1. q \in absorbed[u] \/ (u = s /\ q = r)
    BY <1>4 DEF TypeOK
  <2>2. r.val # 0
    BY BoundAssumption DEF Record
  <2>3. CASE Keeps(s, r)
    BY <1>1, <1>2, <1>3, <2>1, <2>3 DEF Keeps, Stale, Stored
  <2>4. CASE Takes(s, r)
    <3>1. CASE u = s /\ q.id = r.id
      BY <1>1, <1>2, <1>3, <2>1, <2>2, <2>4, <3>1 DEF Takes, Stale, Stored, Record
    <3>2. CASE ~(u = s /\ q.id = r.id)
      BY <1>1, <1>3, <2>1, <2>4, <3>2 DEF Takes, Stored
    <3> QED BY <3>1, <3>2
  <2> QED BY <1>4, <2>3, <2>4
<1>5. ASSUME NEW s \in Stores, NEW i \in Ids, NEW age \in Ages,
             NEW expires \in Lifetimes, Store(s, i, age, expires)
      PROVE  Stored(u, q.id)' /\ row'[u][q.id].stamp >= q.stamp
  BY <1>4, <1>5, Storing
<1>6. ASSUME NEW s \in Stores, ImportOne(s)
      PROVE  Stored(u, q.id)' /\ row'[u][q.id].stamp >= q.stamp
  <2>1. PICK r \in Records : /\ Keeps(s, r) \/ Takes(s, r)
                             /\ absorbed' = [absorbed EXCEPT ![s] = @ \cup {r}]
    BY <1>6, Importing
  <2>2. r \in Record
    BY DEF Records
  <2> QED BY <1>4, <2>1, <2>2
<1>7. ASSUME NEW s \in Stores, NEW i \in Ids, SoftDelete(s, i) \/ Restore(s, i)
      PROVE  Stored(u, q.id)' /\ row'[u][q.id].stamp >= q.stamp
  <2>1. /\ Stored(s, i) /\ row'[s][i].val = row[s][i].val /\ row'[s][i].stamp = now
        /\ \A t \in Stores, j \in Ids : <<t, j>> # <<s, i>> => row'[t][j] = row[t][j]
        /\ UNCHANGED absorbed
    BY <1>7, Stamping
  <2>2. CASE u = s /\ q.id = i
    <3>1. row[u][q.id].val \in Nat
      BY <1>1, RowType, BoundAssumption DEF Row
    <3>2. Holds(q.id, row[u][q.id].stamp, row[u][q.id].val)
      BY <2>1, <2>2 DEF Holds
    <3>3. row[u][q.id].stamp <= now
      BY <1>1, <1>2, <3>1, <3>2 DEF Stamps
    <3> QED BY <1>1, <1>2, <1>3, <2>1, <2>2, <3>3 DEF Stored
  <2>3. CASE ~(u = s /\ q.id = i)
    BY <1>1, <1>3, <2>1, <2>3 DEF Stored
  <2> QED BY <2>2, <2>3
<1>8. ASSUME NEW s \in Stores, NEW which, Buried(s, which)
      PROVE  Stored(u, q.id)' /\ row'[u][q.id].stamp >= q.stamp
  BY <1>1, <1>3, <1>8, Burying DEF Stored
<1>9. ASSUME NEW s \in Stores, ExportJson(s) \/ ImportBegin(s) \/ ImportBreaks(s)
      PROVE  Stored(u, q.id)' /\ row'[u][q.id].stamp >= q.stamp
  BY <1>3, <1>9, Moving DEF Stored
<1>10. CASE Tick \/ UNCHANGED vars
  BY <1>3, <1>10, Ticking DEF Stored
<1> QED
  BY <1>5, <1>6, <1>7, <1>8, <1>9, <1>10 DEF Next, ForgetByType, ForgetExpired

-----------------------------------------------------------------------------
(***************************************************************************)
(* What was deleted.                                                       *)
(***************************************************************************)
\* Since a soft_delete with the stamp g: the row is there, with that stamp or a
\* later one; no record has that stamp, and no live row.
DeletedAt(s, i, g) ==
  /\ Stored(s, i) /\ row[s][i].stamp >= g
  /\ \A r \in Records : r.id = i => r.stamp # g
  /\ \A t \in Stores : Stored(t, i) /\ row[t][i].stamp = g => row[t][i].dead

Deleted ==
  \A s \in Stores, i \in Ids : gone[s][i] > 0 => DeletedAt(s, i, gone[s][i])

\* A soft_delete, with a stamp of its own, makes it so.
LEMMA DeletedNow ==
  ASSUME TypeOK, NoSkew, Distinct, Stamps, NEW s \in Stores, NEW i \in Ids, SoftDelete(s, i)
  PROVE  DeletedAt(s, i, now)'
<1>1. /\ Stored(s, i) /\ now \notin used[i]
      /\ row'[s][i].val = row[s][i].val /\ row'[s][i].stamp = now /\ row'[s][i].dead
      /\ \A t \in Stores, j \in Ids : <<t, j>> # <<s, i>> => row'[t][j] = row[t][j]
      /\ UNCHANGED <<now, Records>>
  BY Stamping DEF MayStamp
<1>2. \A r \in Records : r.id = i => r.stamp # now
  <2> SUFFICES ASSUME NEW r \in Records, r.id = i PROVE r.stamp \in used[i]
    BY <1>1
  <2>1. r.stamp \in Nat /\ r.val \in Nat
    BY BoundAssumption DEF Records, Record
  <2>2. Holds(i, r.stamp, r.val)
    BY DEF Holds
  <2> QED BY <2>1, <2>2 DEF Stamps
<1>3. \A t \in Stores : Stored(t, i) => row[t][i].stamp # now
  <2> SUFFICES ASSUME NEW t \in Stores, Stored(t, i) PROVE row[t][i].stamp \in used[i]
    BY <1>1
  <2>1. row[t][i].stamp \in Nat /\ row[t][i].val \in Nat
    BY RowType, BoundAssumption DEF Row
  <2>2. Holds(i, row[t][i].stamp, row[t][i].val)
    BY DEF Holds
  <2> QED BY <2>1, <2>2 DEF Stamps
<1>4. \A t \in Stores : Stored(t, i)' /\ row'[t][i].stamp = now => row'[t][i].dead
  BY <1>1, <1>3 DEF Stored
<1>5. now >= now
  BY DEF TypeOK
<1>6. Stored(s, i)'
  BY <1>1 DEF Stored
<1> QED BY <1>1, <1>2, <1>4, <1>5, <1>6 DEF DeletedAt

\* Every other step leaves it so.
LEMMA DeletedKept ==
  ASSUME TypeOK, NoSkew, Distinct, Stamps, [Next]_vars,
         NEW u \in Stores, NEW k \in Ids, NEW g \in used[k], DeletedAt(u, k, g)
  PROVE  DeletedAt(u, k, g)'
<1>1. g \in Nat /\ g <= now /\ now \in Nat
  BY DEF TypeOK, Stamps
<1>2. \A t \in Stores : row[t][k].stamp \in Nat
  BY RowType DEF Row
<1>3. ASSUME NEW s \in Stores, NEW r \in Record, Keeps(s, r) \/ Takes(s, r),
             Records' \subseteq Records \cup {r}, r.id = k => r.stamp # g
      PROVE  DeletedAt(u, k, g)'
  <2>1. r.val # 0 /\ r.id \in Ids /\ r.stamp \in Nat
    BY BoundAssumption DEF Record
  <2>2. \A q \in Records' : q.id = k => q.stamp # g
    BY <1>3 DEF DeletedAt
  <2>3. CASE Keeps(s, r)
    BY <2>2, <2>3 DEF Keeps, DeletedAt, Stored
  <2>4. CASE Takes(s, r)
    <3>1. Stored(u, k)' /\ row'[u][k].stamp >= g
      <4>1. CASE s = u /\ r.id = k
        BY <1>1, <1>2, <2>1, <2>4, <4>1 DEF Takes, Stale, DeletedAt, Stored
      <4>2. CASE ~(s = u /\ r.id = k)
        BY <2>4, <4>2 DEF Takes, DeletedAt, Stored
      <4> QED BY <4>1, <4>2
    <3>2. \A t \in Stores : Stored(t, k)' /\ row'[t][k].stamp = g => row'[t][k].dead
      BY <1>3, <2>4 DEF Takes, DeletedAt, Stored
    <3> QED BY <2>2, <3>1, <3>2 DEF DeletedAt
  <2> QED BY <1>3, <2>3, <2>4
<1>4. ASSUME NEW s \in Stores, NEW i \in Ids, NEW age \in Ages,
             NEW expires \in Lifetimes, Store(s, i, age, expires)
      PROVE  DeletedAt(u, k, g)'
  <2>1. PICK r \in Record :
           /\ r.id = i /\ MayStamp(i, r.stamp)
           /\ Keeps(s, r) \/ Takes(s, r)
           /\ Records' \subseteq Records \cup {r}
    BY <1>4, Storing
  <2> QED BY <1>3, <2>1 DEF MayStamp
<1>5. ASSUME NEW s \in Stores, ImportOne(s) PROVE DeletedAt(u, k, g)'
  <2>1. PICK r \in Records : Keeps(s, r) \/ Takes(s, r)
    BY <1>5, Importing
  <2>2. Records' \subseteq Records
    BY <1>5, Importing
  <2>3. r \in Record /\ (r.id = k => r.stamp # g)
    BY DEF Records, DeletedAt
  <2> QED BY <1>3, <2>1, <2>2, <2>3
<1>6. ASSUME NEW s \in Stores, NEW i \in Ids, SoftDelete(s, i) \/ Restore(s, i)
      PROVE  DeletedAt(u, k, g)'
  <2>1. /\ Stored(s, i) /\ now \notin used[i]
        /\ row'[s][i].val = row[s][i].val /\ row'[s][i].stamp = now
        /\ \A t \in Stores, j \in Ids : <<t, j>> # <<s, i>> => row'[t][j] = row[t][j]
        /\ UNCHANGED <<Records>>
    BY <1>6, Stamping DEF MayStamp
  <2>2. Stored(u, k)' /\ row'[u][k].stamp >= g
    BY <1>1, <2>1 DEF DeletedAt, Stored
  <2>3. \A t \in Stores : Stored(t, k)' /\ row'[t][k].stamp = g => row'[t][k].dead
    BY <2>1 DEF DeletedAt, Stored
  <2> QED BY <2>1, <2>2, <2>3 DEF DeletedAt
<1>7. ASSUME NEW s \in Stores, NEW which, Buried(s, which) PROVE DeletedAt(u, k, g)'
  BY <1>7, Burying DEF DeletedAt, Stored
<1>8. ASSUME NEW s \in Stores, ExportJson(s) \/ ImportBegin(s) \/ ImportBreaks(s)
      PROVE  DeletedAt(u, k, g)'
  <2>1. Records' \subseteq Records \cup Live(s) /\ UNCHANGED row
    BY <1>8, Moving
  <2>2. \A r \in Live(s) : r.id = k => r.stamp # g
    BY DEF Live, DeletedAt
  <2> QED BY <2>1, <2>2 DEF DeletedAt, Stored
<1>9. CASE Tick \/ UNCHANGED vars
  BY <1>9, Ticking DEF DeletedAt, Stored
<1> QED
  BY <1>4, <1>5, <1>6, <1>7, <1>8, <1>9 DEF Next, ForgetByType, ForgetExpired


\* So every step keeps what is said of the deletes so far, and of a new one.
LEMMA DeletedStep ==
  ASSUME TypeOK, NoSkew, Distinct, Stamps, Deleted, [Next]_vars PROVE Deleted'
<1> SUFFICES ASSUME NEW u \in Stores, NEW k \in Ids, gone'[u][k] > 0
             PROVE  DeletedAt(u, k, gone[u][k])'
  BY DEF Deleted
<1>1. CASE gone'[u][k] = gone[u][k]
  <2>1. PICK g \in used[k] : g = gone[u][k] /\ DeletedAt(u, k, g)
    BY <1>1 DEF Stamps, Deleted
  <2>2. DeletedAt(u, k, g)'
    BY <2>1, DeletedKept
  <2> QED BY <1>1, <2>1, <2>2 DEF DeletedAt
<1>2. CASE gone'[u][k] # gone[u][k]
  <2>1. PICK s \in Stores, i \in Ids : SoftDelete(s, i)
    <3>1. \A s \in Stores, i \in Ids, age \in Ages, expires \in Lifetimes :
            Store(s, i, age, expires) => gone' = gone
      BY DEF Store
    <3>2. \A s \in Stores, i \in Ids : Restore(s, i) => gone' = gone
      BY DEF Restore
    <3>3. \A s \in Stores : ImportOne(s) => gone' = gone
      BY DEF ImportOne
    <3>4. CASE Tick \/ UNCHANGED vars
      BY <1>2, <3>4 DEF Tick, vars
    <3> QED
      BY <1>2, <3>1, <3>2, <3>3, <3>4
         DEF Next, ForgetByType, ForgetExpired, Buried, ExportJson, ImportBegin, ImportBreaks
  <2>2. gone' = [gone EXCEPT ![s][i] = now]
    BY <2>1, Stamping
  <2>3. u = s /\ k = i /\ gone'[u][k] = now
    BY <1>2, <2>2 DEF TypeOK
  <2>4. DeletedAt(s, i, now)' /\ UNCHANGED now
    BY <2>1, DeletedNow, Stamping
  <2> QED BY <2>3, <2>4 DEF DeletedAt
<1> QED BY <1>1, <1>2

Inv ==
  /\ TypeOK /\ Stamps /\ AbsorbedOrNewer
  /\ Distinct => OneVersion /\ Deleted

\* The invariant holds at the start, and every step keeps it.
LEMMA Invariance == ASSUME NoSkew PROVE Spec => []Inv
<1>1. Init => Inv
  BY InitType DEF Init, Inv, Stamps, Holds, Records, Stored, NoRow, AbsorbedOrNewer, OneVersion,
                  Deleted
<1>2. Inv /\ [Next]_vars => Inv'
  BY NextType, StampsStep, AbsorbedStep, OneVersionStep, DeletedStep DEF Inv
<1> QED BY <1>1, <1>2, PTL DEF Spec

\* With one clock, no store goes back before a version it was given: not by an
\* import that is half-way, repeated or late, nor by a delete or a sweep.
THEOREM NoStoreGoesBack == ASSUME NoSkew PROVE Spec => []AbsorbedOrNewer
<1>1. Inv => AbsorbedOrNewer
  BY DEF Inv
<1> QED BY <1>1, Invariance, PTL

\* With one clock, and versions that have stamps of their own, no export made
\* before a soft_delete brings back what it took away.
THEOREM DeletesHold == ASSUME NoSkew, Distinct PROVE Spec => []DeletedStaysDeleted
<1>1. Inv => DeletedStaysDeleted
  <2> SUFFICES ASSUME Inv, NEW s \in Stores, NEW i \in Ids, gone[s][i] > 0, ~row[s][i].dead
               PROVE  row[s][i].stamp > gone[s][i]
    BY DEF DeletedStaysDeleted
  <2>1. /\ Stored(s, i) /\ row[s][i].stamp >= gone[s][i]
        /\ row[s][i].stamp # gone[s][i]
    BY DEF Inv, Deleted, DeletedAt
  <2>2. row[s][i].stamp \in Nat /\ gone[s][i] \in Nat
    BY RowType DEF Inv, TypeOK, Row
  <2> QED BY <2>1, <2>2
<1> QED BY <1>1, Invariance, PTL

\* With one clock, and versions that have stamps of their own, two stores that
\* took each other's version of a memory have the same one.
THEOREM StoresAgree == ASSUME NoSkew, Distinct PROVE Spec => []ExchangeAgrees
<1>1. Inv => ExchangeAgrees
  <2> SUFFICES ASSUME Inv, NEW a \in Stores, NEW b \in Stores,
                      NEW q \in absorbed[a], NEW r \in absorbed[b], q.id = r.id,
                      q.val = row[b][q.id].val, q.stamp = row[b][q.id].stamp,
                      r.val = row[a][r.id].val, r.stamp = row[a][r.id].stamp
               PROVE  q.val = r.val
    BY DEF ExchangeAgrees
  <2>1. q \in Record /\ r \in Record
    BY DEF Inv, TypeOK
  <2>2. q \in Records /\ r \in Records
    BY <2>1 DEF Records
  <2>3. /\ q.id \in Ids /\ q.stamp \in Nat /\ q.val \in Nat
        /\ r.stamp \in Nat /\ r.val \in Nat
    BY <2>1, BoundAssumption DEF Record
  <2>4. q.stamp = r.stamp
    BY <2>3 DEF Inv, AbsorbedOrNewer
  <2>5. Holds(q.id, q.stamp, q.val) /\ Holds(q.id, q.stamp, r.val)
    BY <2>2, <2>4 DEF Holds
  <2> QED BY <2>3, <2>5 DEF Inv, OneVersion
<1> QED BY <1>1, Invariance, PTL

=============================================================================
