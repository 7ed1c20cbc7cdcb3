--------------------------- MODULE CatalogProofs ---------------------------
(* Proofs about the catalogue of tools, for any callers, tools and pool. *)
EXTENDS Catalog, TLAPS, FunctionTheorems, FiniteSetTheorems

-----------------------------------------------------------------------------
(***************************************************************************)
(* Types.                                                                  *)
(***************************************************************************)
\* The audit after a result: it has its type and its limit.
LEMMA LatestType ==
  ASSUME NEW log \in Seq(Names \X BOOLEAN), Len(log) <= AuditCap + 1
  PROVE  Latest(log) \in Seq(Names \X BOOLEAN) /\ Len(Latest(log)) <= AuditCap
<1> USE SizeAssumption
<1>1. CASE Len(log) <= AuditCap
  BY <1>1 DEF Latest
<1>2. CASE Len(log) > AuditCap
  <2>1. Len(log) = AuditCap + 1 /\ Len(log) \in Nat
    BY <1>2
  <2>2. Latest(log) = SubSeq(log, 2, Len(log))
    BY <2>1, <1>2 DEF Latest
  <2> QED BY <2>1, <2>2
<1> QED BY <1>1, <1>2

\* Catalog::new has the types.
LEMMA InitType == Init => TypeOK
BY SizeAssumption, BoundAssumption
DEF Init, TypeOK, Call, NoCall, Listing

\* Offering a tool and asking for one keep the types.
LEMMA RegisterFactoryType ==
  ASSUME TypeOK, NEW n \in Names, RegisterFactory(n) PROVE TypeOK'
BY BoundAssumption DEF TypeOK, RegisterFactory

\* So does the first half of ensure_loaded.
LEMMA ExecuteType ==
  ASSUME TypeOK, NEW c \in Callers, NEW n \in Names, NEW mode \in Mode, Execute(c, n, mode)
  PROVE  TypeOK'
<1>1. [at |-> IF n \in tools THEN "lookup" ELSE "load", name |-> n, mode |-> mode] \in Call
  BY DEF Call
<1> QED BY <1>1 DEF TypeOK, Execute, loading

\* What is known of a call by where it is.
LEMMA CallAt ==
  ASSUME TypeOK, NEW c \in Callers
  PROVE  /\ call[c].at \in {"load", "build", "lookup"} =>
              call[c] \in [at : {"load", "build", "lookup"}, name : Names, mode : Mode]
         /\ call[c].at = "run" =>
              call[c] \in [at : {"run"}, name : Names, mode : Mode, run : Nat]
         /\ call[c].at = "record" =>
              call[c] \in [at : {"record"}, name : Names, mode : Mode, ok : BOOLEAN]
         /\ call[c].at = "list" =>
              call[c] \in [at : {"list"}, allowed : SUBSET Names, seen : SUBSET Names,
                           owed : SUBSET Names]
BY DEF TypeOK, Call, NoCall

\* A step of a caller alone keeps the types.
LEMMA StepType ==
  ASSUME TypeOK, NEW c \in Callers, Step(c) PROVE TypeOK'
<1> USE BoundAssumption, CallAt
<1>1. CASE TakeFactory(c)
  <2>1. call[c].at = "load" => [call[c] EXCEPT !.at = "build"] \in Call
    BY DEF Call
  <2>2. call' \in [Callers -> Call]
    BY <1>1, <2>1 DEF TakeFactory, TypeOK, Call
  <2>3. \A d \in Callers : call'[d].at = "run" => call'[d] = call[d]
    BY <1>1 DEF TakeFactory, TypeOK, NoCall
  <2>4. factories' \in SUBSET Names
    BY <1>1 DEF TakeFactory, TypeOK, Without
  <2> QED BY <1>1, <2>2, <2>3, <2>4 DEF TakeFactory, TypeOK
<1>2. CASE Register(c)
  <2>1. call[c].at = "build" /\ call[c].name \in Names
    BY <1>2 DEF Register
  <2>2. [call[c] EXCEPT !.at = "lookup"] \in Call
    BY <2>1 DEF Call
  <2>3. call' \in [Callers -> Call]
    BY <1>2, <2>2 DEF Register, TypeOK
  <2>4. /\ tools' = tools \cup {call[c].name}
        /\ built' = [built EXCEPT ![call[c].name] = @ + 1]
        /\ UNCHANGED <<factories, audit, runs, listed, offered>>
    BY <1>2 DEF Register, With
  <2>5. \A d \in Callers : call'[d].at = "run" => call'[d] = call[d]
    BY <1>2 DEF Register, TypeOK, Call
  <2>6. tools' \in SUBSET Names /\ built' \in [Names -> Nat]
    BY <2>1, <2>4 DEF TypeOK
  <2> QED BY <2>3, <2>4, <2>5, <2>6 DEF TypeOK
<1>3. CASE Refuse(c)
  <2>1. [at |-> "record", name |-> call[c].name, mode |-> call[c].mode, ok |-> FALSE] \in Call
    BY <1>3 DEF Refuse, Call
  <2> QED BY <1>3, <2>1 DEF Refuse, TypeOK, loading
<1>4. CASE Launch(c)
  <2>1. call[c].at = "lookup" BY <1>4 DEF Launch
  <2> DEFINE r == [name |-> call[c].name,
                   state |-> IF call[c].mode = "execute" THEN "running" ELSE "queued"]
  <2>2. r \in Run
    BY <2>1 DEF Run
  <2>3. runs' = Append(runs, r) /\ runs' \in Seq(Run) /\ Len(runs') = Len(runs) + 1
    BY <1>4, <2>2 DEF Launch, TypeOK
  <2>4. DOMAIN runs' = 1..Len(runs) + 1 /\ DOMAIN runs = 1..Len(runs) /\ Len(runs) \in Nat
    BY <2>3 DEF TypeOK
  <2>5. [at |-> "run", name |-> call[c].name, mode |-> call[c].mode, run |-> Len(runs) + 1] \in Call
    BY <2>1, <2>4 DEF Call
  <2>6. call' = [call EXCEPT ![c] =
          [at |-> "run", name |-> call[c].name, mode |-> call[c].mode, run |-> Len(runs) + 1]]
    BY <1>4 DEF Launch
  <2>7. \A d \in Callers : call'[d].at = "run" => call'[d].run \in DOMAIN runs'
    BY <2>4, <2>6 DEF TypeOK
  <2> HIDE DEF r
  <2> QED BY <1>4, <2>3, <2>5, <2>6, <2>7 DEF Launch, TypeOK, loading
<1>5. CASE Collect(c)
  <2>1. [at |-> "record", name |-> call[c].name, mode |-> call[c].mode,
         ok |-> runs[call[c].run].state = "ok"] \in Call
    BY <1>5 DEF Collect, Call
  <2> QED BY <1>5, <2>1 DEF Collect, TypeOK, loading
<1>6. CASE TimesOut(c)
  <2>1. [at |-> "record", name |-> call[c].name, mode |-> call[c].mode, ok |-> TimeoutOk] \in Call
    BY <1>6 DEF TimesOut, Call, TimeoutOk
  <2> QED BY <1>6, <2>1 DEF TimesOut, TypeOK, loading
<1>7. CASE Record(c)
  <2>1. Append(audit, <<call[c].name, call[c].ok>>) \in Seq(Names \X BOOLEAN)
        /\ Len(Append(audit, <<call[c].name, call[c].ok>>)) <= AuditCap + 1
    BY <1>7, SizeAssumption DEF Record, TypeOK
  <2>2. NoCall \in Call
    BY DEF Call
  <2> QED BY <1>7, <2>1, <2>2, LatestType DEF Record, TypeOK, loading, NoCall
<1>8. CASE ListLoaded(c)
  <2>1. [seen |-> call[c].seen \cup (tools \cap call[c].allowed), owed |-> call[c].owed] \in Listing
    BY <1>8 DEF ListLoaded, Listing, TypeOK
  <2>2. NoCall \in Call
    BY DEF Call
  <2> QED BY <1>8, <2>1, <2>2 DEF ListLoaded, TypeOK, loading, NoCall
<1> QED
  BY <1>1, <1>2, <1>3, <1>4, <1>5, <1>6, <1>7, <1>8 DEF Step

\* The pool, whose runs change their state in place.
LEMMA PoolType ==
  ASSUME TypeOK, NEW r \in DOMAIN runs,
         RunStarts(r) \/ \E ok \in BOOLEAN : RunEnds(r, ok)
  PROVE  TypeOK'
<1>1. PICK s \in {"running", "ok", "failed"} : runs' = [runs EXCEPT ![r].state = s]
  BY DEF RunStarts, RunEnds
<1>2. runs \in Seq(Run) /\ runs[r] \in Run /\ DOMAIN runs = 1..Len(runs)
  BY DEF TypeOK
<1>3. [runs[r] EXCEPT !.state = s] \in Run
  BY <1>2 DEF Run
<1>4. runs' = [runs EXCEPT ![r] = [runs[r] EXCEPT !.state = s]]
  BY <1>1
<1>5. runs' \in Seq(Run) /\ DOMAIN runs' = DOMAIN runs
  BY <1>2, <1>3, <1>4
<1> QED BY <1>5 DEF TypeOK, RunStarts, RunEnds, loading

\* definitions_for keeps the types.
LEMMA ListType ==
  ASSUME TypeOK, NEW c \in Callers, NEW allowed \in SUBSET Names, List(c, allowed)
  PROVE  TypeOK'
<1>1. [at |-> "list", allowed |-> allowed, seen |-> Described(allowed),
       owed |-> (factories \cup tools) \cap allowed] \in Call
  BY DEF Call, Described, TypeOK
<1> QED BY <1>1 DEF List, TypeOK, loading

\* So does every step.
LEMMA NextType == TypeOK /\ [Next]_vars => TypeOK'
<1>1. CASE UNCHANGED vars
  BY <1>1 DEF vars, TypeOK
<1> QED
  BY <1>1, RegisterFactoryType, StepType, ExecuteType, ListType, PoolType DEF Next

\* Every variable of the catalogue, the registry and the pool keeps its type.
THEOREM TypeCorrect == Spec => []TypeOK
BY InitType, NextType, PTL DEF Spec

\* A caller's step moves that caller alone, never into a listing, and to a build
\* or from one only by a load.
LEMMA Moves ==
  ASSUME TypeOK, NEW c \in Callers, Step(c)
  PROVE  /\ \A d \in Callers : d # c => call'[d] = call[d]
         /\ call'[c].at \in {"idle", "build", "lookup", "run", "record"}
         /\ call'[c].at = "build" => TakeFactory(c)
         /\ call[c].at = "build" => Register(c)
<1> USE DEF TypeOK
<1>1. CASE TakeFactory(c)
  <2>1. CASE call[c].name \in factories
    <3>1. call' = [call EXCEPT ![c].at = "build"] /\ call[c].at = "load"
      BY <1>1, <2>1 DEF TakeFactory
    <3>2. call'[c].at = "build"
      BY <3>1, CallAt
    <3> QED BY <1>1, <3>1, <3>2
  <2>2. CASE call[c].name \notin factories
    BY <1>1, <2>2 DEF TakeFactory, NoCall
  <2> QED BY <2>1, <2>2
<1>2. CASE Register(c)
  <2>1. call' = [call EXCEPT ![c].at = "lookup"] /\ call[c].at = "build"
    BY <1>2 DEF Register
  <2>2. call'[c].at = "lookup"
    BY <2>1, CallAt
  <2> QED BY <1>2, <2>1, <2>2
<1>3. CASE Refuse(c)
  BY <1>3 DEF Refuse
<1>4. CASE Launch(c)
  BY <1>4 DEF Launch
<1>5. CASE Collect(c)
  BY <1>5 DEF Collect
<1>6. CASE TimesOut(c)
  BY <1>6 DEF TimesOut
<1>7. CASE Record(c)
  BY <1>7 DEF Record, NoCall
<1>8. CASE ListLoaded(c)
  BY <1>8 DEF ListLoaded, NoCall
<1> QED BY <1>1, <1>2, <1>3, <1>4, <1>5, <1>6, <1>7, <1>8 DEF Step

-----------------------------------------------------------------------------
(***************************************************************************)
(* Listing.  Tools only become more, so what the listing missed among the  *)
(* factories is still among the tools when it looks there.                 *)
(***************************************************************************)
ListInHand ==
  \A c \in Callers : call[c].at = "list" =>
    call[c].owed \subseteq call[c].allowed /\ call[c].owed \subseteq call[c].seen \cup tools

\* Every step keeps the list being made complete.
LEMMA ListingKept ==
  ASSUME TypeOK, ListInHand, ListedWhateverLoads, [Next]_vars
  PROVE  ListInHand' /\ ListedWhateverLoads'
<1>1. tools \subseteq tools'
  BY DEF Next, vars, Step, With, RegisterFactory, TakeFactory, Register, Refuse, Launch, Collect,
     TimesOut, Record, ListLoaded, Execute, List, RunStarts, RunEnds, loading
<1>2. ASSUME NEW c \in Callers, NEW allowed \in SUBSET Names, List(c, allowed)
      PROVE  ListInHand' /\ ListedWhateverLoads'
  BY <1>1, <1>2 DEF List, Described, ListInHand, ListedWhateverLoads, TypeOK, loading
<1>3. ASSUME NEW c \in Callers, ListLoaded(c) PROVE ListInHand' /\ ListedWhateverLoads'
  <2>1. call[c].owed \subseteq call[c].seen \cup (tools \cap call[c].allowed)
    BY <1>3 DEF ListLoaded, ListInHand
  <2>2. ListedWhateverLoads'
    BY <1>3, <2>1 DEF ListLoaded, ListedWhateverLoads, TypeOK
  <2>3. ListInHand'
    BY <1>1, <1>3 DEF ListLoaded, ListInHand, TypeOK, NoCall
  <2> QED BY <2>2, <2>3
<1>4. ASSUME UNCHANGED listed,
             \A c \in Callers : call'[c].at = "list" => call'[c] = call[c]
      PROVE  ListInHand' /\ ListedWhateverLoads'
  BY <1>1, <1>4 DEF ListInHand, ListedWhateverLoads
<1>5. ASSUME NEW c \in Callers, Step(c), ~ListLoaded(c)
      PROVE  UNCHANGED listed /\ \A d \in Callers : call'[d].at = "list" => call'[d] = call[d]
  <2>1. UNCHANGED listed
    BY <1>5 DEF Step, TakeFactory, Register, Refuse, Launch, Collect, TimesOut, Record
  <2> QED BY <1>5, <2>1, Moves
<1>6. ASSUME NEW c \in Callers, NEW n \in Names, NEW mode \in Mode, Execute(c, n, mode)
      PROVE  UNCHANGED listed /\ \A d \in Callers : call'[d].at = "list" => call'[d] = call[d]
  BY <1>6 DEF Execute, TypeOK
<1>7. CASE UNCHANGED <<call, listed>>
  BY <1>4, <1>7
<1> QED
  BY <1>2, <1>3, <1>4, <1>5, <1>6, <1>7 DEF Next, vars, RegisterFactory, RunStarts, RunEnds

\* definitions_for omits no tool the catalogue held, loaded or not.
THEOREM ListingIsComplete == Spec => []ListedWhateverLoads
<1> DEFINE I == TypeOK /\ ListInHand /\ ListedWhateverLoads
<1>1. Init => I
  BY InitType DEF Init, ListInHand, ListedWhateverLoads, NoCall
<1>2. I /\ [Next]_vars => I'
  BY NextType, ListingKept
<1> QED BY <1>1, <1>2, PTL DEF Spec

-----------------------------------------------------------------------------
(***************************************************************************)
(* Loading.  A factory waits, is being turned into a tool by one caller,   *)
(* or has become one.                                                      *)
(***************************************************************************)
LEMMA BuildingIsFinite ==
  ASSUME NEW n PROVE IsFiniteSet(Building(n)) /\ Cardinality(Building(n)) \in Nat
BY CallersAssumption, FS_Subset, FS_CardinalityType DEF Building

\* Steps but the two halves of a load leave the builders alone.
LEMMA BuildersStay ==
  ASSUME TypeOK, [Next]_vars, NEW n \in Names,
         \A c \in Callers : ~TakeFactory(c) /\ ~Register(c)
  PROVE  Building(n)' = Building(n) /\ UNCHANGED <<tools, built>>
<1>1. ASSUME NEW c \in Callers, Step(c)
      PROVE  Building(n)' = Building(n) /\ UNCHANGED <<tools, built>>
  <2>1. UNCHANGED <<tools, built>>
    BY <1>1 DEF Step, Refuse, Launch, Collect, TimesOut, Record, ListLoaded, loading
  <2>2. call'[c].at # "build" /\ call[c].at # "build"
    BY <1>1, Moves
  <2>3. \A d \in Callers : d # c => call'[d] = call[d]
    BY <1>1, Moves
  <2> QED BY <2>1, <2>2, <2>3 DEF Building
<1>2. ASSUME NEW c \in Callers, NEW m \in Names, NEW mode \in Mode, Execute(c, m, mode)
      PROVE  Building(n)' = Building(n) /\ UNCHANGED <<tools, built>>
  BY <1>2 DEF Execute, TypeOK, Building, NoCall, loading
<1>3. ASSUME NEW c \in Callers, NEW allowed \in SUBSET Names, List(c, allowed)
      PROVE  Building(n)' = Building(n) /\ UNCHANGED <<tools, built>>
  BY <1>3 DEF List, TypeOK, Building, NoCall, loading
<1>4. CASE UNCHANGED <<call, tools, built>>
  BY <1>4 DEF Building
<1> QED
  BY <1>1, <1>2, <1>3, <1>4 DEF Next, vars, RegisterFactory, RunStarts, RunEnds, loading

\* A load takes the factory out and joins the builders, unless there is none.
LEMMA Taking ==
  ASSUME TypeOK, NEW c \in Callers, TakeFactory(c), NEW n \in Names
  PROVE  /\ UNCHANGED <<tools, offered, built>>
         /\ \/ Building(n)' = Building(n) /\ (n \in factories' <=> n \in factories)
            \/ /\ n \in factories /\ n \notin factories'
               /\ c \notin Building(n) /\ Building(n)' = Building(n) \cup {c}
<1>1. UNCHANGED <<tools, offered, built>>
  BY DEF TakeFactory
<1>2. CASE call[c].name \notin factories
  <2>1. call[c].at # "build" /\ call' = [call EXCEPT ![c] = NoCall] /\ UNCHANGED factories
    BY <1>2 DEF TakeFactory
  <2>2. call'[c].at # "build" /\ \A d \in Callers : d # c => call'[d] = call[d]
    BY <2>1 DEF TypeOK, NoCall
  <2> QED BY <1>1, <2>1, <2>2 DEF Building
<1>3. CASE call[c].name \in factories
  <2>1. factories' = factories \ {call[c].name}
        /\ call' = [call EXCEPT ![c].at = "build"] /\ call[c].at = "load"
    BY <1>3 DEF TakeFactory, Without
  <2>2. \A d \in Callers : d # c => call'[d] = call[d]
    BY <2>1 DEF TypeOK
  <2>3. call'[c].at = "build" /\ call'[c].name = call[c].name
    BY <2>1, CallAt DEF TypeOK
  <2>4. CASE call[c].name = n
    BY <1>1, <1>3, <2>1, <2>2, <2>3, <2>4 DEF Building
  <2>5. CASE call[c].name # n
    BY <1>1, <2>1, <2>2, <2>3, <2>5 DEF Building
  <2> QED BY <2>4, <2>5
<1> QED BY <1>2, <1>3

\* And the second half leaves the builders a tool.
LEMMA Registering ==
  ASSUME TypeOK, NEW c \in Callers, Register(c), NEW n \in Names
  PROVE  /\ UNCHANGED <<factories, offered>> /\ tools \subseteq tools'
         /\ \/ Building(n)' = Building(n) /\ built'[n] = built[n]
            \/ /\ c \in Building(n) /\ Building(n)' = Building(n) \ {c}
               /\ built'[n] = built[n] + 1 /\ n \in tools'
<1>1. call[c].at = "build" /\ call[c].name \in Names
  BY CallAt DEF Register
<1>2. \A d \in Callers : d # c => call'[d] = call[d]
  BY DEF Register, TypeOK
<1>3. call'[c].at = "lookup"
  BY <1>1, CallAt DEF Register, TypeOK
<1>4. built' = [built EXCEPT ![call[c].name] = @ + 1] /\ tools' = tools \cup {call[c].name}
  BY DEF Register, With
<1>5. CASE call[c].name = n
  BY <1>1, <1>2, <1>3, <1>4, <1>5 DEF Building, Register, TypeOK
<1>6. CASE call[c].name # n
  BY <1>1, <1>2, <1>3, <1>4, <1>6 DEF Building, Register, TypeOK
<1> QED BY <1>5, <1>6

\* No step loses a tool, or uses a factory twice.
LEMMA LoadsKept ==
  ASSUME TypeOK, NeverLost, BuiltOnce, [Next]_vars
  PROVE  NeverLost' /\ BuiltOnce'
<1> DEFINE Free(n) == IF n \in factories THEN 1 ELSE 0
           Lost(n) == offered[n] > 0 => n \in factories \cup tools \/ Building(n) # {}
           Once(n) == built[n] + Cardinality(Building(n)) + Free(n) <= offered[n]
<1> SUFFICES ASSUME NEW n \in Names PROVE Lost(n)' /\ Once(n)'
  BY DEF NeverLost, BuiltOnce
<1>1. Lost(n) /\ Once(n)
  BY DEF NeverLost, BuiltOnce
<1>2. built[n] \in Nat /\ offered[n] \in Nat /\ Cardinality(Building(n)) \in Nat
  BY BuildingIsFinite, BoundAssumption DEF TypeOK
<1>3. ASSUME NEW c \in Callers, TakeFactory(c) PROVE Lost(n)' /\ Once(n)'
  <2>1. CASE Building(n)' = Building(n) /\ (n \in factories' <=> n \in factories)
    BY <1>1, <1>3, <2>1, Taking
  <2>2. CASE n \in factories /\ n \notin factories'
             /\ c \notin Building(n) /\ Building(n)' = Building(n) \cup {c}
    <3>1. Cardinality(Building(n)') = Cardinality(Building(n)) + 1
      BY <2>2, BuildingIsFinite, FS_AddElement
    <3> QED BY <1>1, <1>2, <1>3, <2>2, <3>1, Taking
  <2> QED BY <1>3, <2>1, <2>2, Taking
<1>4. ASSUME NEW c \in Callers, Register(c) PROVE Lost(n)' /\ Once(n)'
  <2>1. CASE Building(n)' = Building(n) /\ built'[n] = built[n]
    BY <1>1, <1>4, <2>1, Registering
  <2>2. CASE c \in Building(n) /\ Building(n)' = Building(n) \ {c}
             /\ built'[n] = built[n] + 1 /\ n \in tools'
    <3>1. Cardinality(Building(n)') = Cardinality(Building(n)) - 1
      BY <2>2, BuildingIsFinite, FS_RemoveElement
    <3> QED BY <1>1, <1>2, <1>4, <2>2, <3>1, Registering
  <2> QED BY <1>4, <2>1, <2>2, Registering
<1>5. CASE \A c \in Callers : ~TakeFactory(c) /\ ~Register(c)
  <2>1. Building(n)' = Building(n) /\ UNCHANGED <<tools, built>>
    BY <1>5, BuildersStay
  <2>2. CASE UNCHANGED <<factories, offered>>
    BY <1>1, <2>1, <2>2
  <2>3. ASSUME NEW m \in Names, RegisterFactory(m) PROVE Lost(n)' /\ Once(n)'
    <3>1. factories' = factories \cup {m} /\ offered' = [offered EXCEPT ![m] = @ + 1]
      BY <2>3 DEF RegisterFactory
    <3>2. CASE m = n
      BY <1>1, <1>2, <2>1, <3>1, <3>2 DEF TypeOK
    <3>3. CASE m # n
      BY <1>1, <1>2, <2>1, <3>1, <3>3 DEF TypeOK
    <3> QED BY <3>2, <3>3
  <2> HIDE DEF Lost, Once
  <2> QED
    BY <1>5, <2>2, <2>3
    DEF Next, vars, Step, Refuse, Launch, Collect, TimesOut, Record, ListLoaded, Execute, List,
        RunStarts, RunEnds, loading
<1> QED BY <1>3, <1>4, <1>5

\* So what the loads keep holds throughout.
LEMMA LoadInvariant == Spec => [](TypeOK /\ NeverLost /\ BuiltOnce)
<1>1. Init => TypeOK /\ NeverLost /\ BuiltOnce
  <2>1. ASSUME Init, NEW n \in Names PROVE Building(n) = {}
    BY <2>1 DEF Init, Building, NoCall
  <2>2. Cardinality({}) = 0
    BY FS_EmptySet
  <2>3. ASSUME Init, NEW n \in Names
        PROVE  built[n] = 0 /\ offered[n] = 0 /\ n \notin factories /\ Cardinality(Building(n)) = 0
    BY <2>1, <2>2, <2>3 DEF Init
  <2>4. Init => BuiltOnce /\ NeverLost
    BY <2>3 DEF BuiltOnce, NeverLost
  <2> QED BY <2>4, InitType
<1>2. (TypeOK /\ NeverLost /\ BuiltOnce) /\ [Next]_vars => (TypeOK /\ NeverLost /\ BuiltOnce)'
  BY NextType, LoadsKept
<1>3. Spec => Init /\ [][Next]_vars
  BY DEF Spec
<1> QED BY <1>1, <1>2, <1>3, PTL

\* A tool that was offered is never lost to a race for it.
THEOREM NoToolIsLost == Spec => []NeverLost
BY LoadInvariant, PTL

\* A factory makes at most one tool, whoever races for it.
THEOREM FactoriesAreUsedOnce == Spec => []BuiltOnce
BY LoadInvariant, PTL
-----------------------------------------------------------------------------
(***************************************************************************)
(* Successes.  A run that succeeded pays for one entry of the audit: the   *)
(* one caller that waits for it, or that carries its result to the audit,  *)
(* holds the credit until then.                                            *)
(***************************************************************************)
Awaited(n) == {c \in Callers : call[c].at = "run" /\ call[c].name = n /\ runs[call[c].run].state = "ok"}

OneHolder ==
  \A c, d \in Callers : call[c].at = "run" /\ call[d].at = "run" /\ call[c].run = call[d].run => c = d
NamesAgree == \A c \in Callers : call[c].at = "run" => runs[call[c].run].name = call[c].name
CreditInv ==
  /\ OneHolder
  /\ NamesAgree
  /\ \A n \in Names : Cardinality(Recorded(n)) + Cardinality(Recording(n)) + Cardinality(Awaited(n))
                        <= Cardinality(Succeeded(n))

LEMMA CallersAreFinite ==
  ASSUME NEW S \in SUBSET Callers PROVE IsFiniteSet(S) /\ Cardinality(S) \in Nat
BY CallersAssumption, FS_Subset, FS_CardinalityType

LEMMA PlacesAreFinite ==
  ASSUME NEW T, NEW s \in Seq(T), NEW S \in SUBSET DOMAIN s
  PROVE  IsFiniteSet(S) /\ Cardinality(S) \in Nat
<1>1. IsFiniteSet(1..Len(s)) /\ DOMAIN s = 1..Len(s)
  BY FS_Interval
<1> QED
  BY <1>1, FS_Subset, FS_CardinalityType

LEMMA SetsAreFinite ==
  ASSUME TypeOK, NEW n
  PROVE  /\ IsFiniteSet(Recorded(n)) /\ Cardinality(Recorded(n)) \in Nat
         /\ IsFiniteSet(Recording(n)) /\ Cardinality(Recording(n)) \in Nat
         /\ IsFiniteSet(Awaited(n)) /\ Cardinality(Awaited(n)) \in Nat
         /\ IsFiniteSet(Succeeded(n)) /\ Cardinality(Succeeded(n)) \in Nat
<1>1. IsFiniteSet(Recorded(n)) /\ Cardinality(Recorded(n)) \in Nat
  BY PlacesAreFinite DEF Recorded, TypeOK
<1>2. IsFiniteSet(Succeeded(n)) /\ Cardinality(Succeeded(n)) \in Nat
  BY PlacesAreFinite DEF Succeeded, TypeOK
<1>3. Recording(n) \in SUBSET Callers /\ Awaited(n) \in SUBSET Callers
  BY DEF Recording, Awaited
<1> QED
  BY <1>1, <1>2, <1>3, CallersAreFinite

\* Two sets of callers that differ in one caller at most.
LEMMA OneMoves ==
  ASSUME NEW S \in SUBSET Callers, NEW T \in SUBSET Callers, NEW c, S \ {c} = T \ {c}
  PROVE  Cardinality(T) + (IF c \in S THEN 1 ELSE 0) = Cardinality(S) + (IF c \in T THEN 1 ELSE 0)
<1>1. /\ IsFiniteSet(S) /\ IsFiniteSet(T) /\ Cardinality(S) \in Nat /\ Cardinality(T) \in Nat
  BY CallersAreFinite
<1>2. /\ Cardinality(S \ {c}) = IF c \in S THEN Cardinality(S) - 1 ELSE Cardinality(S)
      /\ Cardinality(T \ {c}) = IF c \in T THEN Cardinality(T) - 1 ELSE Cardinality(T)
  BY <1>1, FS_RemoveElement
<1> QED
  BY <1>1, <1>2

\* What the audit forgets takes no success with it that it did not have.
Places(log, e) == {k \in DOMAIN log : log[k] = e}

LEMMA LatestCounts ==
  ASSUME NEW log \in Seq(Names \X BOOLEAN), Len(log) <= AuditCap + 1, NEW e
  PROVE  Cardinality(Places(Latest(log), e)) <= Cardinality(Places(log, e))
<1> USE SizeAssumption
<1>1. IsFiniteSet(Places(log, e)) /\ Cardinality(Places(log, e)) \in Nat
  BY PlacesAreFinite DEF Places
<1>2. CASE Len(log) <= AuditCap
  BY <1>1, <1>2 DEF Latest
<1>3. CASE Len(log) > AuditCap
  <2>1. Len(log) = AuditCap + 1 /\ Len(log) \in Nat /\ DOMAIN log = 1..Len(log)
    BY <1>3
  <2>2. Latest(log) = SubSeq(log, 2, Len(log))
    BY <2>1, <1>3 DEF Latest
  <2>3. DOMAIN Latest(log) = 1..(Len(log) - 1) /\ \A k \in 1..(Len(log) - 1) : Latest(log)[k] = log[k + 1]
    BY <2>1, <2>2
  <2> DEFINE f == [k \in Places(Latest(log), e) |-> k + 1]
  <2>4. \A k \in Places(Latest(log), e) : k \in Nat /\ k + 1 \in Places(log, e)
    BY <2>1, <2>3 DEF Places
  <2>5. f \in [Places(Latest(log), e) -> Places(log, e)]
    BY <2>4
  <2>6. \A j, k \in Places(Latest(log), e) : f[j] = f[k] => j = k
    BY <2>4
  <2> HIDE DEF f
  <2>7. f \in Injection(Places(Latest(log), e), Places(log, e))
    BY <2>5, <2>6, Fun_IsInj
  <2> QED
    BY <1>1, <2>7, FS_Injection
<1> QED
  BY <1>2, <1>3

LEMMA RecordCounts ==
  ASSUME TypeOK, NEW c \in Callers, Record(c), NEW n \in Names
  PROVE  Cardinality(Recorded(n))' <= Cardinality(Recorded(n)) + (IF c \in Recording(n) THEN 1 ELSE 0)
<1> DEFINE entry == <<call[c].name, call[c].ok>>
           all == Append(audit, entry)
           win == <<n, TRUE>>
           next == Len(audit) + 1
<1>1. entry \in Names \X BOOLEAN /\ call[c].at = "record"
  BY CallAt DEF Record
<1>2. audit \in Seq(Names \X BOOLEAN) /\ Len(audit) <= AuditCap /\ audit' = Latest(all)
  BY DEF TypeOK, Record
<1>3. c \in Recording(n) <=> entry = win
  BY <1>1, CallAt DEF Recording
<1>4. /\ Recorded(n) = Places(audit, win)
      /\ Recorded(n)' = Places(Latest(all), win)
  BY <1>2 DEF Recorded, Places
<1> HIDE DEF entry, win
<1>5. /\ all \in Seq(Names \X BOOLEAN) /\ Len(all) = next /\ next \in Nat \ {0}
      /\ DOMAIN audit = 1..(next - 1) /\ DOMAIN all = 1..next
      /\ all[next] = entry /\ \A k \in 1..(next - 1) : all[k] = audit[k]
  BY <1>1, <1>2
<1>6. next <= AuditCap + 1
  BY <1>2, SizeAssumption
<1> HIDE DEF all, next
<1>7. /\ entry = win => Places(all, win) = Places(audit, win) \cup {next}
      /\ entry # win => Places(all, win) = Places(audit, win)
  BY <1>5 DEF Places
<1>8. next \notin Places(audit, win)
  BY <1>5 DEF Places
<1>9. IsFiniteSet(Places(audit, win)) /\ Cardinality(Places(audit, win)) \in Nat
  BY <1>4, SetsAreFinite
<1>10. Cardinality(Places(all, win))
         = Cardinality(Places(audit, win)) + (IF entry = win THEN 1 ELSE 0)
  BY <1>7, <1>8, <1>9, FS_AddElement
<1>11. Cardinality(Places(Latest(all), win)) <= Cardinality(Places(all, win))
  BY <1>5, <1>6, LatestCounts
<1> QED
  BY <1>3, <1>4, <1>10, <1>11

LEMMA TakenAt ==
  ASSUME TypeOK, NEW c \in Callers, TakeFactory(c)
  PROVE  call[c].at = "load" /\ call'[c].at \in {"idle", "build"} /\ UNCHANGED runs
<1>1. call[c].at = "load" /\ UNCHANGED runs
  BY DEF TakeFactory
<1>2. CASE call' = [call EXCEPT ![c].at = "build"]
  <2>1. [call[c] EXCEPT !.at = "build"].at = "build"
    BY <1>1, CallAt
  <2>2. call'[c] = [call[c] EXCEPT !.at = "build"]
    BY <1>2 DEF TypeOK
  <2> QED
    BY <1>1, <2>1, <2>2
<1>3. CASE call' = [call EXCEPT ![c] = NoCall]
  BY <1>1, <1>3 DEF TypeOK, NoCall
<1> QED
  BY <1>2, <1>3 DEF TakeFactory

\* A caller's step but a launch changes no run, and begins to wait for none.
LEMMA StepRuns ==
  ASSUME TypeOK, NEW c \in Callers, Step(c), ~Launch(c)
  PROVE  UNCHANGED runs /\ call'[c].at # "run"
<1> USE DEF TypeOK, NoCall
<1>1. CASE TakeFactory(c)
  BY <1>1, TakenAt
<1>2. CASE Register(c)
  <2>1. call[c].at = "build" /\ UNCHANGED runs
    BY <1>2 DEF Register
  <2>2. [call[c] EXCEPT !.at = "lookup"].at = "lookup"
    BY <2>1, CallAt
  <2> QED
    BY <1>2, <2>1, <2>2 DEF Register
<1>3. CASE Refuse(c) \/ Collect(c) \/ TimesOut(c)
  BY <1>3 DEF Refuse, Collect, TimesOut
<1>4. CASE Record(c) \/ ListLoaded(c)
  BY <1>4 DEF Record, ListLoaded
<1> QED
  BY <1>1, <1>2, <1>3, <1>4 DEF Step

\* A launch appends a run that has not ended.
LEMMA Launching ==
  ASSUME TypeOK, NEW c \in Callers, Launch(c)
  PROVE  /\ call[c].at = "lookup"
         /\ call'[c].at = "run" /\ call'[c].run = Len(runs) + 1 /\ call'[c].name = call[c].name
         /\ DOMAIN runs' = DOMAIN runs \cup {Len(runs) + 1} /\ Len(runs) + 1 \notin DOMAIN runs
         /\ \A r \in DOMAIN runs : runs'[r] = runs[r]
         /\ runs'[Len(runs) + 1].name = call[c].name
         /\ runs'[Len(runs) + 1].state \in {"running", "queued"}
<1> DEFINE new == [name |-> call[c].name,
                   state |-> IF call[c].mode = "execute" THEN "running" ELSE "queued"]
<1>1. runs' = Append(runs, new) /\ call[c].at = "lookup"
  BY DEF Launch
<1>2. runs \in Seq(Run) /\ new \in Run
  BY <1>1, CallAt DEF TypeOK, Run
<1>3. new.name = call[c].name /\ new.state \in {"running", "queued"}
  OBVIOUS
<1>4. call'[c] = [at |-> "run", name |-> call[c].name, mode |-> call[c].mode, run |-> Len(runs) + 1]
  BY DEF Launch, TypeOK
<1> HIDE DEF new
<1>5. /\ DOMAIN runs = 1..Len(runs) /\ Len(runs) \in Nat
      /\ DOMAIN runs' = 1..(Len(runs) + 1)
      /\ \A r \in 1..Len(runs) : runs'[r] = runs[r]
      /\ runs'[Len(runs) + 1] = new
  BY <1>1, <1>2
<1> QED
  BY <1>1, <1>3, <1>4, <1>5

\* The credit of the caller that moves: it collects it with the result of the
\* run it waited for, and gives it up when the result is recorded.
LEMMA CreditMoves ==
  ASSUME TypeOK, NEW c \in Callers, Step(c), NEW n \in Names
  PROVE  /\ c \in Recording(n)' <=> c \in Awaited(n)
         /\ c \notin Awaited(n)'
         /\ c \in Recording(n) => Record(c)
<1>1. CASE Launch(c)
  <2>1. /\ call[c].at = "lookup" /\ call'[c].at = "run"
        /\ runs'[call'[c].run].state # "ok"
    BY <1>1, Launching
  <2> QED
    BY <2>1 DEF Recording, Awaited
<1>2. CASE Collect(c)
  <2>1. call[c].at = "run" /\ call[c].name \in Names
    BY <1>2, CallAt DEF Collect
  <2>2. call'[c] = [at |-> "record", name |-> call[c].name, mode |-> call[c].mode,
                    ok |-> runs[call[c].run].state = "ok"]
    BY <1>2 DEF Collect, TypeOK
  <2>3. CASE runs[call[c].run].state = "ok"
    <3>1. call'[c] = [at |-> "record", name |-> call[c].name, mode |-> call[c].mode, ok |-> TRUE]
      BY <2>2, <2>3
    <3> QED
      BY <2>1, <2>3, <3>1 DEF Recording, Awaited
  <2>4. CASE runs[call[c].run].state # "ok"
    <3>1. call'[c] = [at |-> "record", name |-> call[c].name, mode |-> call[c].mode, ok |-> FALSE]
      BY <2>2, <2>4
    <3> QED
      BY <2>1, <2>4, <3>1 DEF Recording, Awaited
  <2> QED
    BY <2>3, <2>4
<1>3. CASE TimesOut(c)
  <2>1. call[c].at = "run" /\ runs[call[c].run].state # "ok"
    BY <1>3 DEF TimesOut
  <2>2. call'[c].at = "record" /\ ~call'[c].ok
    BY <1>3 DEF TimesOut, TimeoutOk, TypeOK
  <2> QED
    BY <2>1, <2>2 DEF Recording, Awaited
<1>4. CASE Refuse(c)
  <2>1. call[c].at = "lookup" /\ call'[c].at = "record" /\ ~call'[c].ok
    BY <1>4 DEF Refuse, TypeOK
  <2> QED
    BY <2>1 DEF Recording, Awaited
<1>5. CASE Record(c)
  <2>1. call[c].at = "record" /\ call'[c].at = "idle"
    BY <1>5 DEF Record, TypeOK, NoCall
  <2> QED
    BY <1>5, <2>1 DEF Recording, Awaited
<1>6. CASE TakeFactory(c) \/ Register(c) \/ ListLoaded(c)
  <2>1. call[c].at \in {"load", "build", "list"}
    BY <1>6 DEF TakeFactory, Register, ListLoaded
  <2>2. call'[c].at \in {"idle", "build", "lookup"}
    <3>1. CASE TakeFactory(c)
      BY <3>1, TakenAt
    <3>2. CASE Register(c)
      <4>1. [call[c] EXCEPT !.at = "lookup"].at = "lookup"
        BY <3>2, CallAt DEF Register
      <4> QED
        BY <3>2, <4>1 DEF Register, TypeOK
    <3>3. CASE ListLoaded(c)
      BY <3>3 DEF ListLoaded, TypeOK, NoCall
    <3> QED
      BY <1>6, <3>1, <3>2, <3>3
  <2> QED
    BY <2>1, <2>2 DEF Recording, Awaited
<1> QED
  BY <1>1, <1>2, <1>3, <1>4, <1>5, <1>6 DEF Step

LEMMA CreditStep ==
  ASSUME TypeOK, CreditInv, NEW c \in Callers, Step(c) PROVE CreditInv'
<1>1. \A d \in Callers : d # c => call'[d] = call[d]
  BY Moves
<1>2. \A r \in DOMAIN runs : r \in DOMAIN runs' /\ runs'[r] = runs[r]
  <2>1. CASE Launch(c)
    BY <2>1, Launching
  <2>2. CASE ~Launch(c)
    BY <2>2, StepRuns
  <2> QED
    BY <2>1, <2>2
<1>3. \A d \in Callers : call[d].at = "run" => call[d].run \in DOMAIN runs
  BY DEF TypeOK
<1>4. OneHolder' /\ NamesAgree'
  <2>1. CASE Launch(c)
    BY <1>1, <1>2, <1>3, <2>1, Launching DEF CreditInv, OneHolder, NamesAgree
  <2>2. CASE ~Launch(c)
    BY <1>1, <1>2, <1>3, <2>2, StepRuns DEF CreditInv, OneHolder, NamesAgree
  <2> QED
    BY <2>1, <2>2
<1>5. ASSUME NEW n \in Names
      PROVE  Cardinality(Recorded(n))' + Cardinality(Recording(n))' + Cardinality(Awaited(n))'
               <= Cardinality(Succeeded(n))'
  <2>1. Succeeded(n)' = Succeeded(n)
    <3>1. CASE Launch(c)
      BY <1>2, <3>1, Launching DEF Succeeded
    <3>2. CASE ~Launch(c)
      BY <3>2, StepRuns DEF Succeeded
    <3> QED
      BY <3>1, <3>2
  <2>2. Recording(n)' \ {c} = Recording(n) \ {c}
    BY <1>1 DEF Recording
  <2>3. Awaited(n)' \ {c} = Awaited(n) \ {c}
    BY <1>1, <1>2, <1>3 DEF Awaited
  <2>4. /\ Recording(n) \in SUBSET Callers /\ Recording(n)' \in SUBSET Callers
        /\ Awaited(n) \in SUBSET Callers /\ Awaited(n)' \in SUBSET Callers
    BY DEF Recording, Awaited
  <2>5. Cardinality(Recording(n)') + (IF c \in Recording(n) THEN 1 ELSE 0)
          = Cardinality(Recording(n)) + (IF c \in Recording(n)' THEN 1 ELSE 0)
    BY <2>2, <2>4, OneMoves
  <2>6. Cardinality(Awaited(n)') + (IF c \in Awaited(n) THEN 1 ELSE 0)
          = Cardinality(Awaited(n)) + (IF c \in Awaited(n)' THEN 1 ELSE 0)
    BY <2>3, <2>4, OneMoves
  <2>7. Cardinality(Recorded(n))' <= Cardinality(Recorded(n)) + (IF c \in Recording(n) THEN 1 ELSE 0)
    <3>1. CASE Record(c)
      BY <3>1, RecordCounts
    <3>2. CASE ~Record(c)
      <4>1. UNCHANGED audit
        BY <3>2 DEF Step, TakeFactory, Register, Refuse, Launch, Collect, TimesOut, ListLoaded
      <4>2. Recorded(n)' = Recorded(n)
        BY <4>1 DEF Recorded
      <4> QED
        BY <4>2, SetsAreFinite
    <3> QED
      BY <3>1, <3>2
  <2>8. Cardinality(Recorded(n)) + Cardinality(Recording(n)) + Cardinality(Awaited(n))
          <= Cardinality(Succeeded(n))
    BY DEF CreditInv
  <2>9. Cardinality(Recorded(n))' \in Nat
    <3>1. TypeOK'
      BY StepType
    <3>2. Recorded(n)' \in SUBSET DOMAIN audit' /\ audit' \in Seq(Names \X BOOLEAN)
      BY <3>1 DEF Recorded, TypeOK
    <3> QED
      BY <3>2, PlacesAreFinite
  <2>10. Cardinality(Recording(n)') \in Nat /\ Cardinality(Awaited(n)') \in Nat
    BY <2>4, CallersAreFinite
  <2> HIDE DEF CreditInv
  <2>11. c \in Recording(n)' <=> c \in Awaited(n)
    BY CreditMoves
  <2>12. c \notin Awaited(n)'
    BY CreditMoves
  <2> QED
    BY <2>1, <2>5, <2>6, <2>7, <2>8, <2>9, <2>10, <2>11, <2>12, SetsAreFinite
<1> QED
  BY <1>4, <1>5 DEF CreditInv

\* A call that begins, and a tool that is offered, change no credit.
LEMMA CreditBegins ==
  ASSUME TypeOK, CreditInv, UNCHANGED <<audit, runs>>, NEW c \in Callers,
         \A d \in Callers : d # c => call'[d] = call[d],
         call[c] = NoCall \/ UNCHANGED call,
         call'[c].at \notin {"run", "record"} \/ UNCHANGED call
  PROVE  CreditInv'
<1>1. \A d \in Callers : /\ call'[d].at \in {"run", "record"} <=> call[d].at \in {"run", "record"}
                         /\ call[d].at \in {"run", "record"} => call'[d] = call[d]
  BY DEF NoCall
<1>2. ASSUME NEW n PROVE /\ Recorded(n)' = Recorded(n) /\ Recording(n)' = Recording(n)
                         /\ Awaited(n)' = Awaited(n) /\ Succeeded(n)' = Succeeded(n)
  <2>1. Recorded(n)' = Recorded(n) /\ Succeeded(n)' = Succeeded(n)
    BY DEF Recorded, Succeeded
  <2>2. Recording(n)' = Recording(n)
    BY <1>1 DEF Recording
  <2>3. Awaited(n)' = Awaited(n)
    BY <1>1 DEF Awaited
  <2> QED
    BY <2>1, <2>2, <2>3
<1>3. OneHolder' /\ NamesAgree'
  BY <1>1 DEF CreditInv, OneHolder, NamesAgree
<1> QED
  BY <1>2, <1>3 DEF CreditInv

\* A run that ends well adds a success, and a credit for one caller at most.
LEMMA CreditRuns ==
  ASSUME TypeOK, CreditInv, NEW r \in DOMAIN runs, RunStarts(r) \/ \E ok \in BOOLEAN : RunEnds(r, ok)
  PROVE  CreditInv'
<1>1. PICK s \in {"running", "ok", "failed"} : runs' = [runs EXCEPT ![r].state = s]
  BY DEF RunStarts, RunEnds
<1>2. runs[r].state # "ok" /\ UNCHANGED <<call, audit>>
  BY DEF RunStarts, RunEnds
<1>3. runs \in Seq(Run) /\ runs[r] \in Run
  BY DEF TypeOK
<1>4. /\ DOMAIN runs' = DOMAIN runs
      /\ runs'[r].state = s /\ runs'[r].name = runs[r].name
      /\ \A q \in DOMAIN runs : q # r => runs'[q] = runs[q]
  BY <1>1, <1>3 DEF Run
<1>5. \A d \in Callers : call[d].at = "run" => call[d].run \in DOMAIN runs
  BY DEF TypeOK
<1>6. OneHolder' /\ NamesAgree'
  BY <1>2, <1>4, <1>5 DEF CreditInv, OneHolder, NamesAgree
<1>7. ASSUME NEW n \in Names
      PROVE  Cardinality(Recorded(n))' + Cardinality(Recording(n))' + Cardinality(Awaited(n))'
               <= Cardinality(Succeeded(n))'
  <2>1. Recorded(n)' = Recorded(n) /\ Recording(n)' = Recording(n)
    BY <1>2 DEF Recorded, Recording
  <2>2. Cardinality(Recorded(n)) + Cardinality(Recording(n)) + Cardinality(Awaited(n))
          <= Cardinality(Succeeded(n))
    BY DEF CreditInv
  <2>3. CASE s = "ok" /\ runs[r].name = n
    <3>1. Succeeded(n)' = Succeeded(n) \cup {r} /\ r \notin Succeeded(n)
      BY <1>2, <1>4, <2>3 DEF Succeeded
    <3>2. Cardinality(Succeeded(n)') = Cardinality(Succeeded(n)) + 1
      BY <3>1, SetsAreFinite, FS_AddElement
    <3>3. Cardinality(Awaited(n)') <= Cardinality(Awaited(n)) + 1 /\ Cardinality(Awaited(n)') \in Nat
      <4>0. Awaited(n) \in SUBSET Callers /\ Awaited(n)' \in SUBSET Callers
        BY DEF Awaited
      <4>1. CASE \A c \in Callers : ~(call[c].at = "run" /\ call[c].run = r)
        <5>1. Awaited(n)' = Awaited(n)
          BY <1>2, <1>4, <1>5, <4>1 DEF Awaited
        <5> QED
          BY <5>1, SetsAreFinite
      <4>2. ASSUME NEW c \in Callers, call[c].at = "run", call[c].run = r
            PROVE  Cardinality(Awaited(n)') <= Cardinality(Awaited(n)) + 1
        <5>1. \A d \in Callers : d # c => ~(call[d].at = "run" /\ call[d].run = r)
          BY <4>2 DEF CreditInv, OneHolder
        <5>2. Awaited(n)' \ {c} = Awaited(n) \ {c}
          BY <1>2, <1>4, <1>5, <5>1 DEF Awaited
        <5>3. Cardinality(Awaited(n)') + (IF c \in Awaited(n) THEN 1 ELSE 0)
                = Cardinality(Awaited(n)) + (IF c \in Awaited(n)' THEN 1 ELSE 0)
          BY <4>0, <5>2, OneMoves
        <5>4. Cardinality(Awaited(n)') \in Nat /\ Cardinality(Awaited(n)) \in Nat
          BY <4>0, CallersAreFinite
        <5> QED
          BY <5>3, <5>4
      <4>3. Cardinality(Awaited(n)') \in Nat
        BY <4>0, CallersAreFinite
      <4> QED
        BY <4>1, <4>2, <4>3
    <3> QED
      BY <2>1, <2>2, <3>2, <3>3, SetsAreFinite
  <2>4. CASE ~(s = "ok" /\ runs[r].name = n)
    <3>1. Succeeded(n)' = Succeeded(n)
      BY <1>2, <1>4, <2>4 DEF Succeeded
    <3>2. Awaited(n)' = Awaited(n)
      BY <1>2, <1>4, <1>5, <2>4 DEF Awaited, CreditInv, NamesAgree
    <3> QED
      BY <2>1, <2>2, <3>1, <3>2
  <2> QED
    BY <2>3, <2>4
<1> QED
  BY <1>6, <1>7 DEF CreditInv

LEMMA CreditNext == TypeOK /\ CreditInv /\ [Next]_vars => CreditInv'
<1> SUFFICES ASSUME TypeOK, CreditInv, [Next]_vars PROVE CreditInv'
  OBVIOUS
<1>1. ASSUME NEW c \in Callers, NEW n \in Names, NEW mode \in Mode, Execute(c, n, mode)
      PROVE  CreditInv'
  <2>1. call[c] = NoCall /\ UNCHANGED <<audit, runs>> /\ \A d \in Callers : d # c => call'[d] = call[d]
    BY <1>1 DEF Execute, TypeOK
  <2>2. call'[c].at \in {"lookup", "load"}
    BY <1>1 DEF Execute, TypeOK
  <2> QED
    BY <2>1, <2>2, CreditBegins
<1>2. ASSUME NEW c \in Callers, NEW allowed \in SUBSET Names, List(c, allowed)
      PROVE  CreditInv'
  <2>1. call[c] = NoCall /\ UNCHANGED <<audit, runs>> /\ \A d \in Callers : d # c => call'[d] = call[d]
    BY <1>2 DEF List, TypeOK
  <2>2. call'[c].at = "list"
    BY <1>2 DEF List, TypeOK
  <2> QED
    BY <2>1, <2>2, CreditBegins
<1>3. CASE UNCHANGED <<call, audit, runs>>
  BY <1>3 DEF CreditInv, OneHolder, NamesAgree, Recorded, Recording, Awaited, Succeeded
<1> QED
  BY <1>1, <1>2, <1>3, CreditStep, CreditRuns DEF Next, vars, RegisterFactory

\* For any callers, tools and pool: the audit counts no success that the tool
\* did not have, whatever is refused, panics, times out or is forgotten.
THEOREM SuccessesAreEarned == Spec => []SuccessIsEarned
<1> DEFINE I == TypeOK /\ CreditInv
<1>1. Init => I
  <2> SUFFICES ASSUME Init PROVE CreditInv
    BY InitType
  <2>1. \A c \in Callers : call[c].at = "idle"
    BY DEF Init, NoCall
  <2>2. \A n : Recorded(n) = {} /\ Recording(n) = {} /\ Awaited(n) = {} /\ Succeeded(n) = {}
    BY <2>1 DEF Init, Recorded, Recording, Awaited, Succeeded
  <2> QED
    BY <2>1, <2>2, FS_EmptySet DEF CreditInv, OneHolder, NamesAgree
<1>2. I /\ [Next]_vars => I'
  BY NextType, CreditNext
<1>3. I => SuccessIsEarned
  BY SetsAreFinite DEF CreditInv, SuccessIsEarned
<1> QED BY <1>1, <1>2, <1>3, PTL DEF Spec
=============================================================================
