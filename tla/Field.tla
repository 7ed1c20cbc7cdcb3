-------------------------------- MODULE Field --------------------------------
(***************************************************************************)
(* The FIELD shell at work: panels that are mounted and unmounted, the     *)
(* LAN sweep of igris-device's Discovery, the event bus with the timeline  *)
(* panel that reads it, the telemetry it is seeded from, and push-to-talk. *)
(*                                                                         *)
(* A click's handler, and each piece of an async task between two awaits,  *)
(* runs on the one UI thread, so it is a step.  Probes, the recorder and   *)
(* other holders of the bus (a gateway's heartbeat) run on other threads   *)
(* and come between.  A task belongs to the panel that spawned it, and is  *)
(* dropped with it; push-to-talk belongs to the shell, which stays.        *)
(***************************************************************************)
EXTENDS Integers, Sequences, FiniteSets

CONSTANTS
  Hosts,         \* the addresses of the subnet
  Own,           \* the one among them that is this host's
  Devices,       \* device ids
  Of,            \* Of[h]: the device that may answer at h
  Sweeps,        \* the sweeps that may be under way at once
  MaxConcurrent, \* DiscoveryConfig.max_concurrent
  Timeout,       \* DEVICE_TIMEOUT_SECS, in ticks
  BusCap,        \* BUS_CAPACITY
  KeepCap,       \* the entries telemetry keeps
  SeedCap,       \* the entries the timeline panel is seeded with
  ItemCap,       \* the lines the timeline panel keeps
  MaxTime,       \* bound on the clock
  MaxEvents      \* bound on the events emitted and the entries recorded, each

ASSUME HostAssumption == IsFiniteSet(Hosts) /\ Own \in Hosts /\ Of \in [Hosts -> Devices]
ASSUME CapAssumption ==
  /\ {MaxConcurrent, Timeout, BusCap, KeepCap, ItemCap} \subseteq Nat \ {0}
  /\ SeedCap \in 0..ItemCap
ASSUME BoundAssumption == MaxTime \in Nat /\ MaxEvents \in Nat \ {0}

VARIABLES
  now,       \* the monotonic clock
  panel,     \* nav: the panel that is mounted
  scanning,  \* the signal of the Devices panel
  sweep,     \* sweep[w]: a sweep under way, or Idle
  seen,      \* Discovery.devices: last_seen of the devices in the registry
  sent,      \* the events emitted so far, numbered
  recorded,  \* the telemetry entries recorded so far, numbered
  reader,    \* the timeline panel's receiver: Closed, Fallen, or the next event it takes
  items,     \* the lines of the timeline panel
  busy,      \* ptt_busy
  mic,       \* the recorder of push-to-talk
  newest     \* history: newest[d]: the latest last_seen merged

devices == <<scanning, sweep, seen, newest>>
events == <<sent, recorded>>
timeline == <<reader, items>>
talk == <<busy, mic>>
fieldVars == <<now, panel, devices, events, timeline, talk>>

Panel == {"Overview", "Memory", "Timeline", "Devices"}

\* subnet_targets: all but our own.
Targets == Hosts \ {Own}

Unseen == -1
Closed == 0
Fallen == -1
Empty == [d \in Devices |-> Unseen]
Idle == [at |-> "idle", todo |-> {}, flying |-> {}, found |-> Empty]
Entry(n) == [from |-> "telemetry", n |-> n]
Event(n) == [from |-> "bus", n |-> n]

(***************************************************************************)
(* Faulty variants of definitions below: each is a plausible slip in the   *)
(* code, and shows that some property would notice it.                     *)
(***************************************************************************)
ScanAnyTime == TRUE
PermitsOfAll(w) == Cardinality(Targets \ sweep[w].todo) < MaxConcurrent
SkipAhead == sent - BusCap + 1
BusyUnlessRecorded(outcome) == outcome # "samples"

(***************************************************************************)
(* Discovery.                                                              *)
(***************************************************************************)
\* prune: entries silent for longer than the timeout are dropped.
Pruned(registry) ==
  [d \in Devices |-> IF registry[d] # Unseen /\ now - registry[d] < Timeout
                     THEN registry[d] ELSE Unseen]

\* merge_many: what is fresh overwrites, and all is pruned.
Merged(fresh) ==
  Pruned([d \in Devices |-> IF fresh[d] # Unseen THEN fresh[d] ELSE seen[d]])

\* The button's early return.
MayScan == ~scanning

\* A permit of the semaphore is free.
PermitFree(w) == Cardinality(sweep[w].flying) < MaxConcurrent

Swept(w) == sweep[w].at = "sweeping" /\ sweep[w].todo = {} /\ sweep[w].flying = {}

(***************************************************************************)
(* Telemetry and the bus.                                                  *)
(***************************************************************************)
MinOf(a, b) == IF a < b THEN a ELSE b

\* Telemetry::recent(n): newest first.
Recent(n) == [i \in 1..MinOf(n, MinOf(recorded, KeepCap)) |-> Entry(recorded - i + 1)]

\* The receiver's next event was overwritten: recv returns Lagged.
Lagged == reader + BusCap <= sent

\* `while let Ok`: an error ends the loop, and the receiver is dropped.
AfterLag == Fallen

\* The panel keeps its latest lines.
Kept(lines) ==
  IF Len(lines) > ItemCap THEN SubSeq(lines, Len(lines) - ItemCap + 1, Len(lines)) ELSE lines

-----------------------------------------------------------------------------
\* FieldBackend::boot records an entry and emits a heartbeat.
FieldInit ==
  /\ now = 0 /\ panel = "Overview"
  /\ scanning = FALSE /\ sweep = [w \in Sweeps |-> Idle]
  /\ seen = Empty /\ newest = Empty
  /\ sent = 1 /\ recorded = 1
  /\ reader = Closed /\ items = <<>>
  /\ busy = FALSE /\ mic = "idle"

ClockTick ==
  /\ now < MaxTime
  /\ now' = now + 1
  /\ UNCHANGED <<panel, devices, events, timeline, talk>>

(***************************************************************************)
(* nav.set: the panel is unmounted, with its signals and its tasks, and    *)
(* another is mounted.  The timeline is seeded as it is mounted.           *)
(***************************************************************************)
Navigate(to) ==
  /\ to # panel
  /\ panel' = to
  /\ scanning' = FALSE
  /\ sweep' = [w \in Sweeps |-> Idle]
  /\ reader' = Closed
  /\ items' = IF to = "Timeline" THEN Recent(SeedCap) ELSE <<>>
  /\ UNCHANGED <<now, seen, newest, events, talk>>

(***************************************************************************)
(* SCAN LAN: FieldBackend::run_lan_scan on a throwaway Discovery.          *)
(***************************************************************************)
Scan(w) ==
  /\ panel = "Devices" /\ MayScan /\ sweep[w] = Idle
  /\ scanning' = TRUE
  /\ sweep' = [sweep EXCEPT ![w] = [at |-> "sweeping", todo |-> Targets, flying |-> {}, found |-> Empty]]
  /\ UNCHANGED <<now, panel, seen, newest, events, timeline, talk>>

Launched(s, h) == [s EXCEPT !.todo = @ \ {h}, !.flying = @ \cup {h}]

Probe(w) ==
  /\ PermitFree(w)
  /\ \E h \in sweep[w].todo : sweep' = [sweep EXCEPT ![w] = Launched(@, h)]
  /\ UNCHANGED <<now, panel, scanning, seen, newest, events, timeline, talk>>

\* A host answers, or the request fails or meets its timeout.
Failed(s, h) == [s EXCEPT !.flying = @ \ {h}]
Answered(s, h) == [Failed(s, h) EXCEPT !.found[Of[h]] = now]

ProbeEnds(w) ==
  /\ \E h \in sweep[w].flying : \/ sweep' = [sweep EXCEPT ![w] = Answered(@, h)]
                              \/ sweep' = [sweep EXCEPT ![w] = Failed(@, h)]
  /\ UNCHANGED <<now, panel, scanning, seen, newest, events, timeline, talk>>

\* The sweep prunes what it found; it is merged, and the button is back.
ScanEnds(w) ==
  LET fresh == Pruned(sweep[w].found)
  IN  /\ Swept(w)
      /\ seen' = Merged(fresh)
      /\ newest' = [d \in Devices |-> IF fresh[d] > newest[d] THEN fresh[d] ELSE newest[d]]
      /\ sweep' = [sweep EXCEPT ![w] = Idle]
      /\ scanning' = FALSE
      /\ UNCHANGED <<now, panel, events, timeline, talk>>

(***************************************************************************)
(* What is told to telemetry and to the bus.                               *)
(***************************************************************************)
\* memory_put, as an example of the clicks that record and emit.
Remember ==
  /\ panel = "Memory" /\ recorded < MaxEvents /\ sent < MaxEvents
  /\ recorded' = recorded + 1
  /\ sent' = sent + 1
  /\ UNCHANGED <<now, panel, devices, timeline, talk>>

\* Gateway::heartbeat_forever, or whoever else holds the bus.
Heartbeat ==
  /\ sent < MaxEvents
  /\ sent' = sent + 1
  /\ UNCHANGED <<now, panel, devices, recorded, timeline, talk>>

(***************************************************************************)
(* The timeline's future: subscribe, then take events until recv fails.    *)
(***************************************************************************)
Streaming == panel = "Timeline" /\ reader > Closed

Subscribe ==
  /\ panel = "Timeline" /\ reader = Closed
  /\ reader' = sent + 1
  /\ UNCHANGED <<now, panel, devices, events, items, talk>>

Receive ==
  /\ Streaming /\ reader <= sent /\ ~Lagged
  /\ items' = Kept(Append(items, Event(reader)))
  /\ reader' = reader + 1
  /\ UNCHANGED <<now, panel, devices, events, talk>>

\* The lines that are there stay.
FallBehind ==
  /\ Streaming /\ reader <= sent /\ Lagged
  /\ reader' = AfterLag
  /\ UNCHANGED <<now, panel, devices, events, items, talk>>

(***************************************************************************)
(* Push-to-talk.                                                           *)
(***************************************************************************)
Talk ==
  /\ ~busy
  /\ busy' = TRUE /\ mic' = "recording"
  /\ UNCHANGED <<now, panel, devices, events, timeline>>

\* record_blocking returns samples or an error by its deadline, or panics.
CaptureEnds ==
  /\ mic = "recording"
  /\ mic' \in {"samples", "no mic", "panicked"}
  /\ UNCHANGED <<now, panel, devices, events, timeline, busy>>

\* ptt_busy after the worker was joined.
BusyAfter(outcome) == FALSE

TalkEnds ==
  /\ mic \in {"samples", "no mic", "panicked"}
  /\ busy' = BusyAfter(mic) /\ mic' = "idle"
  /\ UNCHANGED <<now, panel, devices, events, timeline>>

FieldNext ==
  \/ ClockTick \/ Remember \/ Heartbeat \/ Subscribe \/ Receive \/ FallBehind
  \/ \E to \in Panel : Navigate(to)
  \/ \E w \in Sweeps : Scan(w) \/ Probe(w) \/ ProbeEnds(w) \/ ScanEnds(w)
  \/ Talk \/ CaptureEnds \/ TalkEnds

\* Tasks are polled, requests meet their timeout, a capture its deadline.
FieldFairness ==
  /\ \A w \in Sweeps : WF_fieldVars(Probe(w)) /\ WF_fieldVars(ProbeEnds(w)) /\ WF_fieldVars(ScanEnds(w))
  /\ WF_fieldVars(CaptureEnds) /\ WF_fieldVars(TalkEnds)

FieldSpec == FieldInit /\ [][FieldNext]_fieldVars /\ FieldFairness

-----------------------------------------------------------------------------
(***************************************************************************)
(* Properties.                                                             *)
(***************************************************************************)
\* Every variable has its type.
FieldTypeOK ==
  /\ now \in 0..MaxTime /\ panel \in Panel
  /\ scanning \in BOOLEAN /\ busy \in BOOLEAN
  /\ sweep \in [Sweeps -> [at : {"idle", "sweeping"}, todo : SUBSET Hosts, flying : SUBSET Hosts,
                           found : [Devices -> {Unseen} \cup 0..MaxTime]]]
  /\ seen \in [Devices -> {Unseen} \cup 0..MaxTime] /\ newest \in [Devices -> {Unseen} \cup 0..MaxTime]
  /\ sent \in 1..MaxEvents /\ recorded \in 1..MaxEvents
  /\ reader \in Fallen..(MaxEvents + 1)
  /\ items \in Seq([from : {"telemetry", "bus"}, n : 1..MaxEvents]) /\ Len(items) <= ItemCap
  /\ mic \in {"idle", "recording", "samples", "no mic", "panicked"}

\* merge_many overwrites whatever is in the registry; still the registry has,
\* of each device that was seen lately enough, the latest sighting: no sweep
\* that began earlier, was dropped with its panel, or ends late takes it back.
RegistryIsLatest ==
  \A d \in Devices :
    newest[d] # Unseen /\ now - newest[d] < Timeout => seen[d] = newest[d]

FromBus(item) == item.from = "bus"

\* "live stream": the lines the timeline has from the bus are its last ones,
\* consecutive, and end with the last event it took: however far it falls
\* behind and whatever is emitted meanwhile, it may stop but it never silently
\* skips an event.
TimelineHasNoHole ==
  /\ \A i \in 1..(Len(items) - 1) :
       FromBus(items[i]) => FromBus(items[i + 1]) /\ items[i + 1].n = items[i].n + 1
  /\ items # <<>> /\ FromBus(items[Len(items)]) /\ reader # Fallen =>
       items[Len(items)].n = reader - 1

\* A sweep comes to its end and gives the button back, though no host answers
\* and there are fewer permits than hosts, or its panel is left.
ScanReturns == scanning ~> ~scanning

\* Push-to-talk gives its button back, without a microphone and after a panic.
TalkReturns == busy ~> ~busy
=============================================================================
