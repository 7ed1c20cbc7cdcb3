------------------------------ MODULE Catalog ------------------------------
(***************************************************************************)
(* igris-tools: the lazy catalogue of tools and the registry under it.     *)
(*                                                                         *)
(* Both are used through &self from any number of threads.  The factories, *)
(* the registry's tools and its audit have a mutex each, and no call holds *)
(* two: every locked read or write is a step, and other callers come       *)
(* between.  A tool runs outside the locks, in the caller's thread         *)
(* (execute) or on the blocking pool under a timeout (execute_async), and  *)
(* it may take for ever.  The pool goes on with a run whose caller has     *)
(* given up.                                                               *)
(***************************************************************************)
EXTENDS Integers, Sequences, FiniteSets

CONSTANTS
  Names,       \* names of tools
  Callers,     \* threads and tasks that use the catalogue
  PoolSize,    \* threads of the runtime's blocking pool
  AuditCap,    \* results the registry remembers
  MaxOffers,   \* bound on the register_factory calls for a name
  MaxRuns      \* bound on the runs of tools

ASSUME CallersAssumption == IsFiniteSet(Callers)
ASSUME SizeAssumption == PoolSize \in Nat \ {0} /\ AuditCap \in Nat \ {0}
ASSUME BoundAssumption == MaxOffers \in Nat /\ MaxRuns \in Nat

VARIABLES
  factories,   \* names in Catalog.factories
  tools,       \* names in Registry.inner
  audit,       \* Registry.audit, a sequence of <<name, ok>>
  call,        \* call[c]: where caller c is
  runs,        \* the runs so far, in the order they were asked for
  listed,      \* listed[c]: what c's last definitions_for returned
  offered,     \* history: register_factory calls per name
  built        \* history: tools instantiated per name

vars == <<factories, tools, audit, call, runs, listed, offered, built>>
loading == <<factories, tools, offered, built>>

Mode == {"execute", "execute_async"}
Run == [name : Names, state : {"queued", "running", "ok", "failed"}]
NoCall == [at |-> "idle"]
Call == {NoCall}
  \cup [at : {"load", "build", "lookup"}, name : Names, mode : Mode]
  \cup [at : {"run"}, name : Names, mode : Mode, run : Nat]
  \cup [at : {"record"}, name : Names, mode : Mode, ok : BOOLEAN]
  \cup [at : {"list"}, allowed : SUBSET Names, seen : SUBSET Names, owed : SUBSET Names]
Listing == [seen : SUBSET Names, owed : SUBSET Names]

(***************************************************************************)
(* Faulty variants of definitions below: each is a plausible slip in the   *)
(* code, and shows that some property would notice it.                     *)
(***************************************************************************)
NotKept(n) == tools
LoadedFirst(allowed) == tools \cap allowed
TimeoutIsFine == TRUE
TimedOnceRunning(r) == runs[r].state = "running"

(***************************************************************************)
(* The catalogue and the registry.                                         *)
(***************************************************************************)
\* The factory of n is consumed.
Without(n) == factories \ {n}

\* Registry::register.
With(n) == tools \cup {n}

\* The locked half of definitions_for: tools that are not loaded yet.
Described(allowed) == factories \cap allowed

\* Registry.audit keeps its latest entries.
Latest(log) == IF Len(log) > AuditCap THEN SubSeq(log, Len(log) - AuditCap + 1, Len(log)) ELSE log

\* `ok` of the ToolResult of a timeout.
TimeoutOk == FALSE

\* The timer of a call goes from the moment it is made, the wait for a thread
\* of the pool included.
Timed(r) == runs[r].state \in {"queued", "running"}

Pooled == {r \in DOMAIN runs : runs[r].state = "running"} \
          {r \in DOMAIN runs : \E c \in Callers : /\ call[c].at = "run" /\ call[c].run = r
                                                  /\ call[c].mode = "execute"}

\* Calls that may still ask for a run (used in a bound only).
Asking == {c \in Callers : call[c].at \in {"load", "build", "lookup"}}

-----------------------------------------------------------------------------
Init ==
  /\ factories = {} /\ tools = {} /\ audit = <<>> /\ runs = <<>>
  /\ call = [c \in Callers |-> NoCall]
  /\ listed = [c \in Callers |-> [seen |-> {}, owed |-> {}]]
  /\ offered = [n \in Names |-> 0]
  /\ built = [n \in Names |-> 0]

RegisterFactory(n) ==
  /\ offered[n] < MaxOffers
  /\ factories' = factories \cup {n}
  /\ offered' = [offered EXCEPT ![n] = @ + 1]
  /\ UNCHANGED <<tools, audit, call, runs, listed, built>>

(***************************************************************************)
(* Catalog::execute and execute_async: ensure_loaded, then the registry.   *)
(***************************************************************************)
Execute(c, n, mode) ==
  /\ call[c] = NoCall
  /\ Len(runs) + Cardinality(Asking) < MaxRuns
  /\ call' = [call EXCEPT ![c] =
                [at |-> IF n \in tools THEN "lookup" ELSE "load", name |-> n, mode |-> mode]]
  /\ UNCHANGED <<loading, audit, runs, listed>>

\* The second half of ensure_loaded.  Without a factory the tool is unknown.
TakeFactory(c) ==
  /\ call[c].at = "load"
  /\ \/ /\ call[c].name \in factories
        /\ factories' = Without(call[c].name)
        /\ call' = [call EXCEPT ![c].at = "build"]
     \/ /\ call[c].name \notin factories
        /\ call' = [call EXCEPT ![c] = NoCall]
        /\ UNCHANGED factories
  /\ UNCHANGED <<tools, audit, runs, listed, offered, built>>

Register(c) ==
  /\ call[c].at = "build"
  /\ tools' = With(call[c].name)
  /\ built' = [built EXCEPT ![call[c].name] = @ + 1]
  /\ call' = [call EXCEPT ![c].at = "lookup"]
  /\ UNCHANGED <<factories, audit, runs, listed, offered>>

\* The registry forgets no tool, so the look-up finds it.  Bad arguments are
\* recorded as a failure and nothing runs.
Refuse(c) ==
  /\ call[c].at = "lookup"
  /\ call' = [call EXCEPT ![c] = [at |-> "record", name |-> @.name, mode |-> @.mode, ok |-> FALSE]]
  /\ UNCHANGED <<loading, audit, runs, listed>>

Launch(c) ==
  /\ call[c].at = "lookup"
  /\ runs' = Append(runs, [name |-> call[c].name,
                           state |-> IF call[c].mode = "execute" THEN "running" ELSE "queued"])
  /\ call' = [call EXCEPT ![c] =
                [at |-> "run", name |-> @.name, mode |-> @.mode, run |-> Len(runs) + 1]]
  /\ UNCHANGED <<loading, audit, listed>>

\* A run that ended: its result, or the panic of a pooled one.
Collect(c) ==
  /\ call[c].at = "run"
  /\ runs[call[c].run].state \in {"ok", "failed"}
  /\ call' = [call EXCEPT ![c] = [at |-> "record", name |-> @.name, mode |-> @.mode,
                                  ok |-> runs[@.run].state = "ok"]]
  /\ UNCHANGED <<loading, audit, runs, listed>>

\* tokio::time::timeout: the caller leaves, the run stays in the pool.
TimesOut(c) ==
  /\ call[c].at = "run" /\ call[c].mode = "execute_async"
  /\ Timed(call[c].run)
  /\ runs[call[c].run].state \in {"queued", "running"}
  /\ call' = [call EXCEPT ![c] = [at |-> "record", name |-> @.name, mode |-> @.mode,
                                  ok |-> TimeoutOk]]
  /\ UNCHANGED <<loading, audit, runs, listed>>

\* Registry::record, and the call returns.
Record(c) ==
  /\ call[c].at = "record"
  /\ audit' = Latest(Append(audit, <<call[c].name, call[c].ok>>))
  /\ call' = [call EXCEPT ![c] = NoCall]
  /\ UNCHANGED <<loading, runs, listed>>

(***************************************************************************)
(* The blocking pool and the tools.                                        *)
(***************************************************************************)
RunStarts(r) ==
  /\ runs[r].state = "queued"
  /\ Cardinality(Pooled) < PoolSize
  /\ runs' = [runs EXCEPT ![r].state = "running"]
  /\ UNCHANGED <<loading, audit, call, listed>>

RunEnds(r, ok) ==
  /\ runs[r].state = "running"
  /\ runs' = [runs EXCEPT ![r].state = IF ok THEN "ok" ELSE "failed"]
  /\ UNCHANGED <<loading, audit, call, listed>>

(***************************************************************************)
(* Catalog::definitions_for: the factories, then the registry.  `owed` is  *)
(* what the catalogue held, loaded or not, when it began.                  *)
(***************************************************************************)
List(c, allowed) ==
  /\ call[c] = NoCall
  /\ call' = [call EXCEPT ![c] =
                [at |-> "list", allowed |-> allowed, seen |-> Described(allowed),
                 owed |-> (factories \cup tools) \cap allowed]]
  /\ UNCHANGED <<loading, audit, runs, listed>>

ListLoaded(c) ==
  /\ call[c].at = "list"
  /\ listed' = [listed EXCEPT ![c] = [seen |-> call[c].seen \cup (tools \cap call[c].allowed),
                                      owed |-> call[c].owed]]
  /\ call' = [call EXCEPT ![c] = NoCall]
  /\ UNCHANGED <<loading, audit, runs>>

Step(c) ==
  \/ TakeFactory(c) \/ Register(c) \/ Refuse(c) \/ Launch(c)
  \/ Collect(c) \/ TimesOut(c) \/ Record(c) \/ ListLoaded(c)

Next ==
  \/ \E n \in Names : RegisterFactory(n)
  \/ \E c \in Callers :
       \/ Step(c)
       \/ \E n \in Names, mode \in Mode : Execute(c, n, mode)
       \/ \E allowed \in SUBSET Names : List(c, allowed)
  \/ \E r \in DOMAIN runs : RunStarts(r) \/ \E ok \in BOOLEAN : RunEnds(r, ok)

\* Threads and timers go on; a tool need not, so neither a run nor the pool is fair.
Fairness == \A c \in Callers : WF_vars(Step(c))

Spec == Init /\ [][Next]_vars /\ Fairness

-----------------------------------------------------------------------------
(***************************************************************************)
(* Properties.                                                             *)
(***************************************************************************)
\* Every variable has its type, and the audit its limit.
TypeOK ==
  /\ factories \in SUBSET Names /\ tools \in SUBSET Names
  /\ audit \in Seq(Names \X BOOLEAN) /\ Len(audit) <= AuditCap
  /\ call \in [Callers -> Call] /\ runs \in Seq(Run)
  /\ \A c \in Callers : call[c].at = "run" => call[c].run \in DOMAIN runs
  /\ listed \in [Callers -> Listing]
  /\ offered \in [Names -> 0..MaxOffers] /\ built \in [Names -> Nat]

Building(n) == {c \in Callers : call[c].at = "build" /\ call[c].name = n}

\* A tool that was offered is not lost when several callers load it at once: it
\* waits, is loaded, or is just being loaded by someone.  A caller told
\* "unknown" can only have come while another one was loading.
NeverLost ==
  \A n \in Names : offered[n] > 0 => n \in factories \cup tools \/ Building(n) # {}

\* However many callers race to load it, a factory makes one tool, not two: there
\* are no two instances of a tool offered once.
BuiltOnce ==
  \A n \in Names :
    built[n] + Cardinality(Building(n)) + (IF n \in factories THEN 1 ELSE 0) <= offered[n]

\* definitions_for takes its locks one after the other, and still omits no tool
\* the catalogue held when it began, whoever loads tools in between.
ListedWhateverLoads == \A c \in Callers : listed[c].owed \subseteq listed[c].seen

Recorded(n) == {k \in DOMAIN audit : audit[k] = <<n, TRUE>>}
Recording(n) == {c \in Callers : call[c].at = "record" /\ call[c].name = n /\ call[c].ok}
Succeeded(n) == {r \in DOMAIN runs : runs[r].name = n /\ runs[r].state = "ok"}

\* success_rate counts no success the tool did not have: timeouts, refusals,
\* panics and runs that end after their caller left add none.
SuccessIsEarned ==
  \A n \in Names : Cardinality(Recorded(n)) + Cardinality(Recording(n)) <= Cardinality(Succeeded(n))

\* "A hung tool can never stall the async runtime": every execute_async returns,
\* though tools run for ever and hold all threads of the pool.
CallsReturn ==
  \A c \in Callers :
    (call[c] # NoCall /\ (call[c].at = "list" \/ call[c].mode = "execute_async")) ~> (call[c] = NoCall)
=============================================================================
