# IGRIS v5 in TLA+

Models of the parts of IGRIS v5 whose correctness depends on the order in which
things happen, their TLC runs, and machine-checked proofs of their most
important properties. `PROJECT.json` says which definition models which lines.

Run a check with `tlc -config MCMission.cfg MCMission` and a proof with
`tlapm MissionProofs.tla`.

## 1. Inventory

IGRIS is a Rust workspace of crates used by two programs, the FIELD panel
(`apps/field-dioxus`) and a CLI. Inside a process everything is shared by
`Arc<Mutex<..>>`, so that one call of a method is one step, and what interleaves
is a *sequence* of calls: look-up then use, read the disk then judge, settle then
announce. Between processes there is HTTP (transfers), UDP and HTTP (discovery),
and signed batches (synchronisation).

| Component | State it keeps | Operations | What is hard | What makes it correct |
|---|---|---|---|---|
| `igris-orchestrator` | nodes, order and state of a mission | add, begin, record, verify, pause, cancel, save, restore | concurrent drivers, retries, crash between begin and record, operator overrides | one holder per running node; dependencies first; Completed means done; bounded attempts; no dead end; termination |
| `igris-device` transfer and server | sessions, per-file byte counts, `.part` files | prepare, confirm, deny, upload, complete, sweep | awaits without the lock, disk errors, hang-ups, repeated and late bodies | no byte before approval; verified files stay; terminal states are final; completion is earned |
| `igris-device` sync | table of records by id | put, delta, merge | reordering, repetition, loss, clocks that disagree | convergence; order is irrelevant; stale records lose |
| `igris-policy` gate and approvals | autonomy, kill-switch, approvals | check, request, approve, deny, expire | the switch flips during a check; decision races deadline | killed means no grant; grants are backed; the first decision stands |
| `igris-policy` audit log | hash chain | append, verify | tampering | an entry altered, moved or left out from the middle is noticed |
| FIELD backend | the cores above | demo_step, approve, deny, kill, scan | two locks for one operation, events after the unlock | what is announced is true |
| `igris-memory` | SQLite table, search index | upsert, forget, restore, search, expire | equal stamps, tombstones without a stamp | last writer wins everywhere |
| `igris-tools` | registry, catalogue, audit | register, execute, lazy load | timeout with the tool still running, concurrent loads | a known tool is found; results are recorded once |
| `igris-device` pairing, trust, store | codes, pins, two files | issue, verify, pin, revoke, import, save, load | guesses against expiry, a crash at any point of a write | a code works once; state survives; a saved decision about a device stands |
| `igris-device` discovery | registry with last-seen times | sweep, merge, prune | sweeps that overlap, outlive their panel, or are dropped with it | the registry has the latest sighting |
| `igris-device` messages | none | sign, verify | delay, repetition, alteration, clocks that disagree | what is served was asked for, lately |
| `igris-router` | providers, statistics, policy | route, rank, fall back, record | a provider failing, policy and network changing in between, the budget | nothing leaves the device that must not; what can be answered is |
| `igris-reflex` | policy, bounded cache of decisions | classify, escalate, decide | rules that overlap, entries older than the policy | risky is asked about, always |
| `igris-agents` | roles' tables | plan, execute, hand over, ask another host | two tables that must agree, results that are spoiled | nobody uses a tool out of scope; results are genuine |
| `igris-voice` | detector, pipeline, synthesizer process | feed frames, barge in, interrupt | pauses, barge-in, a process that ends by itself | no speech lost, no voice left over |
| `igris-skills` | registry of runbooks | register, enable, disable, count | order of calls | nothing self-installs; what needs approval is gated |
| `igris-context` | none | compile, prefetch | duplicates, the budget | the most important that fits |
| events, telemetry | bus, bounded log | emit, subscribe, record | a receiver that lags | nothing is skipped silently |
| FIELD user interface | signals of the panels | scan, talk, timeline | tasks dropped with their panel | buttons come back; the timeline has no hole |
| `igris-sandbox` | roots, denylists, secrets | confine, check, redact | values that contain each other | nothing outside the roots; no value left in a text |
| runtime, gateway, vision | little | wiring, checks on bytes | | |

How they interact: the FIELD backend owns a mission, an approval store, a
policy, a memory store, telemetry and discovery, each behind its own lock, and an
event bus; no operation holds two of these locks. The device server owns a
session manager and the directory of `.part` files. The policy is cloned freely,
and its kill-switch is one atomic flag shared by all the clones. The
synchronisation engine is used through its methods; the transport that would
carry its batches is not in the repository, and neither is a host that joins the
voice pipeline, the agents, the router and the signed messages: the models
compose them as far as their contracts say, and leave open who calls when.

The hazards of the code, each at its line, are listed in `PROJECT.json`.

## 2. Modules

### Mission, TaskLedger

`Mission.tla` models `Mission` and `TaskNode` and their drivers. `nodes`, `order`
and `mstate` are the three fields of the struct; `disk` is the last result of
`to_json`; `work[d]` is the local variable of a driver that holds the id of a
task. Every method that changes a mission is an action (`Add`, `Checkpoint`,
`Verify`, `Pause`, `Resume`, `Start`, `Cancel`; `Succeed` and `Fail` are
`record_success` and `record_failure` with the `refresh_state` they end in). Only
`mark`, a setter "kept for tooling/debug", is left out.

A mission has no driver of its own; the repository drives it in two ways, and
`OneKindOfDriver` says that a host uses one of them:

* *Executors* do what `mission_demo` of the CLI and the tests do: `ready_tasks` and
  `begin` in one go (`Claim`), the task, then the result. Several may run at once,
  each with a task of its own.
* *Steppers* are callers of `FieldBackend::demo_step`, which looks up the ready
  task under one lock (`StepLookup`) and begins and completes it under a second
  (`StepRun`), by when anything may have changed.

A crash is atomic with the restore (`CrashAndRestore`: `from_json`, then
`reclaim_running`), because nothing of the mission exists in between.

`TaskLedger.tla` is what a mission promises: tasks become done once each and
after their dependencies, the ledger goes back only as a whole and to the copy
kept, and it is declared complete only when all is done. `ImplementsLedger`
states the refinement: `done` is the set of nodes that are `is_done`, `complete`
is `mstate = "Completed"`, `kept` the image of `disk`. Begin, failure, retry and
checkpoints are stutters of it.

### Transfer

One session of `SessionManager` with the handlers of `server.rs`. What a handler does under
the mutex is one step, and so is each await: `upload` is `UploadGate`
(`note_bytes`), `UploadOpen` (directory and file) and `UploadWrite`; `complete` is
`CompleteRead` (no lock) and `CompleteOk` or `CompleteErr`. `GiveUp` is the error
of an await, and the peer hanging up. A file is the sequence `1..Size[f]` of its
parts, and a body carries any one of them: repeated, lost and misordered bodies
are the peer's choice. A checksum is equality with that sequence. `age` is the time since `prepare`, cut
where the two TTLs cut it.

`closed` is a history variable, the files for which `complete` returned Ok.

### Sync

`local` is the `HashMap` of every device; `Merged` and `DeltaSince` are `merge` and
`delta_since` as functions of a table; `network` holds every batch ever sent, and
merging does not remove it, so that a batch may be late, repeated or never
arrive. Clocks are free (any stamp may be chosen at any time), but a device never stamps two
writes to one id alike. `written` is a history variable.

A batch has at most one record per id, as `delta_since` produces it.

### Approvals

The clock, the store, the switch, the autonomy, a client inside
`check_with_approval`, and the backend's two-step decisions. A call takes a step
for each read: the switch (`CheckKill`), the approval (`CheckApproval`, with the
sweep in it), then `check`, which reads the switch again (`CheckGate`). The
call borrows the store to its end, so nobody else touches it (`StoreFree`); the
clock and the switch go on. `held` is a history
variable: the clients during whose call the switch was on without a break.

### Catalog

`Registry` and the lazy `Catalog` over it, used by threads and tasks at once. The
factories, the tools and the audit have a mutex each and no call holds two, so
that every locked read or write is a step: `Execute` looks into the registry,
`TakeFactory` takes the factory out (or answers "unknown tool"), `Register` puts
the tool in, `Launch` or `Refuse` looks it up and validates, `Record` writes the
result. `List` and `ListLoaded` are the two halves of `definitions_for`. A run is
an entry of `runs`, which outlives its call: `TimesOut` lets the caller of
`execute_async` leave while the run keeps its thread of the pool, and the timer
counts the wait for a thread too.

It is assumed that a factory builds the tool it describes and does not panic. A tool
that panics under `execute` unwinds into its caller, which is not modelled; under
`execute_async` it is a failed run.

### Memory

Stores that exchange JSON exports. Each method is one SQL statement under the
mutex and so one step, but `import_json`, which upserts record after record
(`ImportOne`) and lets go of the lock in between; an error ends it half-way
(`ImportBreaks`). `exports` keeps every export made, so that a file may be
imported late, twice, or into any store. `forget_by_type` and `forget_expired`
leave `updated_at` as it was, unlike `soft_delete` and `restore`.

A record handed to `store` or `upsert` carries the stamp it was made with, which is any of
`Ages` old (`Store`). `Ahead` is how far the clock of a store is ahead, and `Distinct` the assumption
that two versions of one memory have different stamps. The properties that depend on
time hold with one clock, and two of them only with `Distinct`: without it upsert
lets the later arrival win (see section 4). `used`, `absorbed` and `gone` are
history variables.

A database that is lost in a crash is not modelled, because SQLite's own recovery
would have to be. Edges, the text index and ranking are left out.

### Intents, Voice, Agents, Work

`Intents.tla` is the rule core of `igris-reflex`: a text is the set of listed
phrases it contains (all `classify` looks at), the rules are tried in the code's order,
and `Decide` adds the default escalation policy. Confidence is in percent.

`Voice.tla` is `VoicePipeline` over `Vad` and `PiperTts`. One caller drives it
frame by frame; a frame is what the detector takes it for. `ingest` is
`BargeIn`, `SpeechFrame`, `QuietFrame` or, when the silent frames `Counted` have lasted
for the hangover, `Close` with what the transcriber and the rules make of the segment (`SttFails`,
`Unspoken`, `Acknowledge`). A segment has no greatest length; the user may talk on, pause, or
fall silent for good (`FallSilent`, after which `talking` is FALSE). The synthesizer's process may fail to start, have
ended already, and end at any time (`ChildEnds`), and nothing tells the pipeline.
`transcribed`, `preempting` and `acked` are history variables.

`Agents.tla` has the seven roles, `plan_for`, `execute_task`, `can_handoff` and the
a2a contract as operators. `Work.tla` extends both: an escalated transcript is a task,
which is handed on, executed, or asked of the agent of a paired device in a
signed `EcoMessage`. The network is the set of all messages sent, and of those
garbled on their way; the peer's clock is ahead by `Offset`. The code keeps no
record of the messages it took, so a repeated one is worked on again, as here.

### Answering

The `Reflex` engine with its cache, and `ModelRouter`. A caller decides a text (`Ask`), routes it
(`RouteTo`: candidates, scores as fractions, the budget, the two sorts), and
tries the plan provider by provider (`Try`, with `record_feedback`). Both policies, the
cloud's key and the network change at any time. A provider of the repository is
an echo that answers or a stub that fails. `route_to` and the tries are steps of their own,
because nothing in the code holds the policy between them; `routedUnder` and
`tried` are history variables.

### Peers

`OtpManager`, `TrustStore`, and `DeviceStore` with `write_atomic` in its steps:
the temporary file is begun, complete, renamed. The process may die, and a write
fail, at each of them; `Boot` and `LoadTrust` are `identity_or_create` and
`load_trust`. Codes and pins do not know of each other: a code that was accepted pins nothing, and
`RequirePin` pins whatever device it has no pin of, at any time, paired or not. `decided` and `standing` are
history variables: the last decision about a device, which is a first sighting, a revocation or an
import, and whether it is saved. One process uses the directory, and it saves one file at a time (for two see
section 4). Power failures, after which a rename may be lost, are left out.

### Field

The FIELD shell: navigation mounts and unmounts panels, and drops the tasks of the one that is
left; the Devices panel sweeps the LAN through a semaphore and merges what it
found; the Timeline panel is seeded from telemetry and then reads the bus,
whose receiver may lag; push-to-talk waits for a blocking capture. A handler and a piece of a task between two awaits
are steps, since they run on one thread. `Remember` stands for the clicks that
record and emit; `Heartbeat` is the gateway's. `newest` is a history variable.

### Recall, Skills, Audit, Sandbox, NativeTools, Wake

Pure modules: an operator per function, and what it promises as a predicate over
its arguments, which TLC evaluates over small inputs (the ASSUMEs of `MCMemory`,
`MCApprovals`, `MCCatalog` and `MCVoice`). `Recall` is search, the graph's neighbours,
and the context bundle; `Skills` the registry of runbooks over all histories of up
to four calls; `Audit` the chain of hashes over all logs of up to three entries, with
every edit of one entry; `Sandbox` the confinement of paths over all of up to three components, and
the redaction of texts with values that overlap and contain each other; `NativeTools`
the file tool over all histories of up to three calls on five places, and the denylists;
`Wake` the edit distance against all that two slips make of a word.

## 3. Runs

| Run | Instance | Shows |
|---|---|---|
| `mission_core` | three tasks in a diamond, one gated by hand, one with a retry, two executors, all operator controls, one crash | one holder, dependencies, completion, attempts, no dead end |
| `mission_live` | the same without operator | `MissionSettles` |
| `mission_step` | a chain as `FieldBackend::seed` builds it, two steppers, all controls, one crash | the ledger is implemented although look-up and run are two locks |
| `transfer` | a checksummed file of two parts and another of one, two requests at once | a session from offer to end |
| `sync` | three devices, two ids, three writes, two batches, stamps 1..2 | convergence and order |
| `approvals` | an approval with a deadline one tick away, two operators, a client, two levels; all short histories of skills and audit logs | the gate and the store; `Skills`, `Audit` |
| `catalog` | a tool offered twice, two callers, two runs, a pool of one thread | lazy loading, listing, the audit, and that calls return; `Sandbox`, `NativeTools` |
| `memory` | two stores, a memory that may expire, two writes of records made now or one tick ago, three ticks; all small tables and graphs | stale writes, deletes and exchanges; `Recall` |
| `voice` | eleven transcripts, three speech frames, a hangover of two, a peer that codes and whose clock is one ahead, one message garbled | speech, voices, acknowledgements, scope, messages and results; `Wake` |
| `answering` | two local and two cloud providers, a cache of one, two texts, three kinds of request, two escalation and three routing policies, two requests in a row | privacy, budget, cache, and that a request is answered |
| `peers` | one device, two fingerprints, two codes, two codes issued, two failures, two ticks | codes, files, and that decisions on trust stand |
| `field` | our address and two of one device, two sweeps on one permit, a bus of two, six events, three ticks | registry, timeline, and the two buttons |

Why the bounds are enough. *Mission*: two drivers are what a race needs, a
diamond has a join and two independent tasks, one retry and one crash combine in
every order; the proofs cover every other size. *Transfer*: two requests give every pairing of
handlers; two parts are the least that can be out of order, three bodies per file
let one be repeated; `MaxBodies` bounds uploads only. Deadlock is not checked
there, because a session that has ended may well stop; nor in `mission_live`,
`voice`, `answering` and `peers`, which end when their bounds are used up. *Sync*: a third device
relays what another wrote; two stamps make ties and inversions; two ids make
batches that overlap in part. *Approvals*: `MaxTime = 2` puts the clock before, at
and after the deadline; level 3 is above `max_auto_level` and level 1 is not.
*Catalog*: two callers race for one factory, and a second offer while a tool is
loaded or being built gives a second one; one thread of the pool is held for ever by
one run while the second waits; the audit of one entry drops the other. *Memory*:
a record a tick old arrives before, with and after a newer one; the rows of different memories do not touch each other, except that a sweep or an
import takes several, which the theorems cover; one is deleted, written again,
exported and imported at four different times.

*Voice and Work*: three frames are an utterance, an
acknowledgement and a barge-in, or two utterances with a pause that the hangover
bridges; there is a transcript for every rule and for every pair of rules whose order matters; one garbled
message is a forgery and the true one beside it; the clock passes the skew.
*Answering*: the second text evicts the first from a cache of one, so every
request may be a hit, a miss or an eviction; each policy allows, forbids or
prices the clouds. *Peers*: the second code supersedes the first or follows it, a
code meets one wrong guess and the limit; a second failure hits the recovery from the first; one device is pinned, saved, revoked,
saved and sighted anew, and a theorem has any number of them.
*Field*: the second sweep overlaps the first of a panel that was left, the bus of two
overruns by four events, three ticks pass the device timeout.

`MaxCrashes`, `MaxBodies`, `MaxStamp`, `MaxWrites`, `MaxBatches`, `MaxTime`, `MaxOffers`,
`MaxRuns`, `MaxFrames`, `MaxGarbled`, `MaxRequests`, `MaxIssues`, `MaxFailures` and
`MaxEvents` are the only bounds, and each is named in a guard.

Symmetry: requests in `transfer`, ids in `sync`, stores in `memory`, fingerprints and codes in `peers` are
interchangeable. Devices are not (their
ids are ordered), nor are tasks.

### Fairness

`mission_live`, `catalog`, `voice`, `answering` and `field` need it.

*Mission.* Executors loop while `ready_tasks` is not empty (the
loop of `mission_demo`): weak fairness of `Claim`. A task ends or
`run_with_timeout` drops it: weak fairness of `Succeed \/ Fail`, so that a task may
fail for ever. Nodes are all added, and what waits for verification is
verified, which are the caller's part of the protocol. Nothing is assumed
of `Resume`, `Save`, or crashes. A driver's fairness is the host's: the repository
has no daemon that would guarantee it.

*Catalog.* Each caller goes on with its call (weak fairness of `Step`), its timer
included: threads are scheduled and tokio's timers fire. Nothing is assumed of a tool or
of the pool, so that a tool may hang for ever and a run wait for ever for a thread.

*Voice.* The microphone goes on delivering frames, and once nobody talks there is no
speech in them: weak fairness of a frame without speech after `FallSilent` (`MicrophoneIsOn`). Nobody has to fall silent, and
of somebody who talks on nothing is claimed: while the pauses are shorter than the hangover the
detector hands nothing over, and `MaxFrames` has no part in the fairness. Nothing is assumed of the
synthesizer, of speech, or of anybody in `Work`.

*Answering.* The caller goes on with what it has begun: weak fairness of `Proceed`.
The environment may change for ever.

*Field.* The runtime polls its tasks, an HTTP request meets its timeout, and
`record_blocking` its deadline: weak fairness of `Probe`, `ProbeEnds`, `ScanEnds` for each sweep, of
`CaptureEnds` and of `TalkEnds`. Nothing is assumed of the operator, of any host, or of the bus.

## 4. Where documents and code disagree

Met in modelling, quoted and explained in `PROJECT.json` under `findings`; the models do what the code does.

*Missions.* A task that ends during a pause leaves, after `resume`, a running
mission with all nodes done that is never Completed. A late result makes a cancelled node come back.

*Transfers.* `complete` of one file closes a session in which another's checksum
was never looked at. Nobody calls the sweep. A body is noted before it is written. A repeated
`complete` announces "Failed".

*Policy.* An approval is looked up by id alone, so it lets any level through. `pending`
does not sweep. An entry's id is outside the audit chain, and a log cut short verifies.

*Memory, tools, context.* Equal stamps let the later arrival win; an older export undoes
`forget_by_type`; a tool is unknown while another caller loads it; duplicates in a bundle are
dropped only if they are neighbours.

*Voice.* The pipeline does not notice that the synthesizer has ended: the
first speech frame of the next utterance is taken for barge-in and dropped.
The flag for barge-in is raised even if there is no voice.

*Router, reflex, agents.* The fallbacks have the local echo first and not last, and are not compared with the
budget; the cache evicts the oldest and not the least recently used; the tools of the context are not looked at.

*Peers and shell.* A device is pinned at its first sighting and not "on first pairing": one that was revoked is
trusted again at the next. Two writers share one temporary file; `known` does not prune; the timeline is seeded newest first
and stops for good when it lags.

## 5. Proofs

| Module | Theorems | Assumptions |
|---|---|---|
| `MissionProofs` | `TypeCorrect`, `LeasesAreOwned`, `DependenciesComeFirst`, `CompletedIsTrue`, `AttemptsAreBounded`, `MissionsGoOn`, `MissionIsALedger` | those of `Mission`; `AttemptsAreBounded` also `Steppers = {}` |
| `TransferFieldProofs` | of the transfer `TypeCorrect`, `ApprovalComesFirst`, `NoTerminalIsLeft`, `ClosedFilesAreStored`, `CompletionIsEarned`, `EveryByteIsAccounted`; of the shell `FieldTypeCorrect`, `RegistryStaysLatest`, `TimelineNeverSkips` | those of `Transfer` and `Field` |
| `SyncPeersProofs` | of the synchronisation `TypeCorrect`, `RecordsAreWritten`, `PeersConverge`, `DeliveryOrderIsIrrelevant`, `StaleLoses`; of trust `PeersTypeCorrect`, `CodesStayEarned`, `OneIdentityForEver`, `TrustStands` | those of `Sync` and `Peers` |
| `ApprovalsProofs` | `TypeCorrect`, `OneDecision`, `AnnouncementsAreTrue`, `KilledGrantsNothing`, `GrantsAreBacked` | those of `Approvals` |
| `CatalogProofs` | `TypeCorrect`, `ListingIsComplete`, `NoToolIsLost`, `FactoriesAreUsedOnce`, `SuccessesAreEarned` | those of `Catalog` |
| `MemoryProofs` | `TypeCorrect`, `NoStoreGoesBack`, `DeletesHold`, `StoresAgree` | those of `Memory`; the last three `NoSkew`, the last two also `Distinct` |
| `VoiceProofs` | `TypeCorrect`, `NoSpeechIsLost`, `NoVoiceEscapes`, `SpeechWins`, `AcksAreHarmless`; of `Work` `WorkRunsThePipeline`, `PipelineIsSoundAtWork`, `ToolsStayInScope`, `OnlyWhatWasAsked`, `ResultsAreGenuine` | those of `Voice`; of the rest also those of `Work` |
| `AnsweringProofs` | `TypeCorrect`, `NothingGoesAstray`, `RiskStaysGated`, `CacheStaysSound`, `BudgetIsKept` | those of `Answering`; the last also `FreeLocalFallback` |

Every safety property that a run checks, and the refinement of `TaskLedger`, is stated by one of
these theorems: the run shows it on the instance of section 3, the theorem for
every value of the constants. A proof
module whose name has two parts proves about two components that share no
variable; `Peers` and `Field` therefore name their initial predicate, step, specification and
types `PeersInit`, `FieldNext` and so on.

Some of the theorems state properties that no run lists, because a theorem says more than
a run of them would: `TypeOK` of these modules, `TerminalIsFinal` and `CompletedIsEarned` of `Transfer`,
`NothingInvented` and `StaleNeverClobbers` of `Sync`, `GrantedMeansApproved` of
`Approvals`, `BuiltOnce` of `Catalog`, `SpeechSilencesVoice` of `Voice`, and
`RememberedRiskIsGated` of `Answering`, which is part of `CacheIsSound`.

*Mission.* `OneOwner` is inductive with the type and the fact that only executors
leave a node Running: a claim takes a pending node, and a pending node has no
holder because a holder's node is Running or Cancelled. `StartedAfterDeps` needs
that a node added has its dependencies added and that done is for ever (a
completed, verified node is touched by nothing but a restore), and, because a
restore copies it, that the saved mission satisfies the same; the invariant is therefore
stated of a mission given as an argument and held of the current and of the saved
one. `CompletedMeansAllDone` is proved in the same way. `RetryBudget` strengthens
to: a pending node has an attempt left over, a running one has used it, and each
crash allows one more. It needs executors only, since a stepper may begin a node again
(`begin` does not look at its state). `NoDeadEnd` needs one more invariant, `OrderInv`: the
dependencies of a task stand before it in the order of declaration, in memory and on the disk.
The first task in that order that is not done has all its dependencies done, so that it
can be begun, is running, or is completed and waits for a verification; that there is a first one
is the theorem that `<` is well founded. `MissionIsALedger` shows that every action, the
restore after a crash included, is a step of `TaskLedger` under its refinement mapping or a stutter.
The steps are proved between states that satisfy the invariant above.

*Transfer.* Approval is what `"Transferring" \in announced` records, and the
invariant ties it to the state and to everything a request may hold.
`ClosedIsStored` rests on the disk being append-only, and on what a completing
request read being a prefix of what is there. `BytesAccounted` counts
the requests in hand with lemmas on adding, moving and removing one.

*Field.* `merge_many` compares nothing, so that `RegistryIsLatest` rests on `SweepsAreFresh`: one
sweep is under way at most, and what it found it found no earlier than the latest sighting
of that device. The button's flag and the drop of a panel's tasks keep it so.
`TimelineHasNoHole` says that the lines from the bus are the last ones of the panel,
that each is the successor of the one before, and that the last is the event before the reader's
position; it is inductive with the fact that there are none before the subscription
(`SeededFirst`), and a receiver that lags stops instead of going on.

*Sync.* With the assumption on the clock, a stamp of an id names one record
everywhere (`OneRecordPerStamp`), so that `SupersededBy` is a strict total order on
the records of an id; merging is taking the greater of two, which is
commutative, associative and idempotent.

*Peers.* `CodesAreEarned` needs `PendingIsNewest`: a pending code is the device's
newest, has not been accepted, and has as many attempts as wrong guesses, fewer than the
limit. `StateSurvives` strengthens to `OneIdentity`: an identity is generated only while
there is none on the disk, no process has gone by one before, and a rename is the only step that changes
the file; a process that is up goes by what is on the disk. `DecisionsStand` strengthens to
`DecisionsKept`: a decision that is saved is in the file, one that is saved or made since the process came up is
what the process has in memory, and as long as there is no file nobody was pinned by one. All three
hold with a crash or a failed write between any two steps of `write_atomic`.

*Approvals.* Only a pending approval changes its state, so what is approved stays
approved (`ApprovedStays`): this is what lets an announcement, made after the
store's lock is let go, still be true, and a grant still be backed. `NoGrantWhileKilled`
strengthens to `HeldIsKilled`: while the switch has been engaged since a check began, the
check is still before its first read.

*Catalog.* A list under way has seen everything it owes, or it is among the tools
(`ListInHand`), because a tool leaves the factories only to become one and the
registry forgets none. `BuiltOnce` counts the callers that hold a factory, with
lemmas on what a step does to that set. `SuccessIsEarned` strengthens to `CreditInv`: the entries of
the audit, the callers about to record one, and the callers that wait for a run that
succeeded are together no more than the runs that succeeded. A run has one caller at most
(`OneHolder`), and a caller that leaves after its timeout takes its claim with it.

*Memory.* Every step adds at most one version, stamped with a time that has been, and one of its own if
stamps are distinct (`StepIsFresh`), so that every stamp there is was used, is not in the future
(`Stamps`), and, if stamps are distinct, names one version (`OneVersion`). A store
therefore moves forward only (`AbsorbedOrNewer`), and two stores that took each
other's version have equal stamps, hence equal versions. `Deleted` says why a
delete holds: no record that is about, and no live row of any store, has
the stamp of a tombstone, so that an import is older and loses or was made later.

*Voice.* `SpeechIsKept` is inductive with the type: a frame goes to one of three
sets, and the segment is emptied into the transcriber by the step that closes it.
`OneVoice` says more than that a voice is held: the detector is idle while there is one,
because speech would have silenced it, so no segment closes meanwhile, `speak` never drops a
handle, and there is always a frame to come that stops it. `AcksAreHarmless` follows from lemmas on
the rules: risky texts and transfers without target are escalated by the order of the rules and by the
confidence 55, below the policy's 60.

*Work.* Every step of `Work` is a step of the pipeline or leaves it alone
(`WorkRunsThePipeline`), so that what was proved of `Voice` holds there.
`ScopeIsKept` needs that a task is held by a role, and goes through the tables of all seven.
`ServedWasAsked` and `ResultIsGenuine` rest on what a signature with the shared key says whatever was done to the
message since: a signed request was asked for when it was signed (`SignedByHost`), a
signed artifact is one the peer made except perhaps for its content (`SignedByPeer`), which its
hash tells, and the peer makes an artifact only for a request it worked on (`MadeInAnswer`).

*Answering.* The plan has candidates only, and candidates satisfy the gates of
the policy they were ranked under; `tried` grows out of the plan, and is empty
when a request is routed (`NothingSentYet`). What `Put` keeps, it keeps as it was, and no policy
takes approval or reasoning away, so a risky text stays gated through any sequence of policies.

`CacheIsSound` strengthens to `QueueInv`: the queue names each text once, at
most `CacheCap` of them, and the map has the same; a text put anew is not in the queue, and what is
evicted is its front. The capacity is at least one (`CACHE_CAP` is 256), which `BoundAssumption` says.
`WithinBudget` holds although only the first choice is compared with the budget, and
needs to know what is registered: `FreeLocalFallback` says of the providers what `with_defaults()`
makes true, that models on the device cost nothing and that a tiny one is among them, which sees if any other does. It is
a hypothesis of the theorem and not an assumption of the module, since `register` takes any
provider; without it a provider over the budget may be a fallback. `BudgetInv`: while providers are tried, the first is
affordable, one on the device is still to come, and those that are not on the device come after
it; the one on the device answers, and nothing after it is tried.

What is only model-checked: the liveness properties `MissionSettles`,
`CallsReturn`, `SpeechIsHeard`, `AlwaysAnswered`, `ScanReturns` and `TalkReturns`, which
are out of the prover's reach, as `ENABLED` is; and what the recursive operators of
`Recall` compute, with the comparisons that the models of `Skills`, `Audit`, `Sandbox`, `NativeTools` and `Wake` make
over all short histories and small inputs.

## 6. Not modelled

* The shell behind the terminal tool, `igris-vision` and the runtime: checks on strings and bytes, then
  calls of the operating system, with no state that other calls could find changed.
* Certificates, key agreement and hashing: libraries, of which only that they tell
  inputs apart is used.
* Multicast announcements, QR payloads, tokens of a transfer, the SSE stream of its progress.
* A crash of the memory database, which would be a model of SQLite.
* Two processes in one data directory; a machine that loses power.
* Rendering, audio samples, the phrases' characters, prompts, wording.

## 7. What comes next

1. Theorems about the operators that the runs compare over small inputs and that are not
   recursive: confinement and redaction of `Sandbox`, registration and approval of `Skills`, the chain of `Audit`.
2. Types of `Work`, whose `WorkInv` has those of its messages only.
3. That the synchronisation implements a set of writes that only grows, as an abstract specification.
