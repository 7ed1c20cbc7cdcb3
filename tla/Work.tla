-------------------------------- MODULE Work --------------------------------
(***************************************************************************)
(* What becomes of a transcript that the voice pipeline escalates: the     *)
(* assistant takes it as a task, plans it itself, hands it to another      *)
(* role, or asks an agent of a paired device in a signed message, whose    *)
(* artifact comes back the same way.                                       *)
(*                                                                         *)
(* The repository has the parts (igris-agents, igris-device::message) and  *)
(* no host that joins them: who calls them when is left open here, as far  *)
(* as the contracts say.  The network loses, delays, repeats, reorders and *)
(* garbles messages: it is the set of all that was sent, and a message may *)
(* be taken at any time, more than once, or never.                         *)
(***************************************************************************)
EXTENDS Voice, Agents

CONSTANTS
  PeerRole,    \* the role of the paired device's agent
  Known,       \* the producers this host takes artifacts from
  Wanted,      \* the capabilities this host may ask for
  MaxSkew,     \* MAX_SKEW_SECS
  Offset,      \* how far the peer's clock is ahead of this host's
  MaxTime,     \* bound on the clock
  MaxGarbled   \* bound on the messages garbled

ASSUME PeerAssumption == PeerRole \in Role /\ Known \subseteq Role /\ Wanted \subseteq Capability
ASSUME ClockAssumption == MaxSkew \in Nat /\ Offset \in Nat
ASSUME WorkBounds == MaxTime \in Nat /\ MaxGarbled \in Nat

VARIABLES
  task,       \* where the task is, and with which role
  performed,  \* <<role, tool>>: the tools used for it, here or at the peer
  now,        \* true time
  net,        \* the messages sent, or garbled on their way
  garbled,    \* how many were garbled
  asked,      \* history: the requests sent, each with the time
  served,     \* history: the requests the peer worked on, each with the time
  made,       \* history: the artifacts made by the peer
  accepted    \* the artifacts this host accepted

jobs == <<task, performed, now, net, garbled, asked, served, made, accepted>>

NoTask == [at |-> "none"]
Held(role) == [at |-> "held", role |-> role]

HostClock == now
PeerClock == now + Offset

(***************************************************************************)
(* Faulty variants of definitions below: each is a plausible slip in the   *)
(* code, and shows that some property would notice it.                     *)
(***************************************************************************)
SignedAtAll(m, clock) ==
  /\ clock - m.stamp <= MaxSkew
  /\ m.stamp - clock <= MaxSkew
  /\ m.sig.key = "shared"

(***************************************************************************)
(* EcoMessage.  All messages have the one version there is.                *)
(***************************************************************************)
\* mac_input; the type and the name of the sender are not part of it.
MacInput(from, stamp, payload) == <<from, stamp, payload>>

\* EcoMessage::new and sign.
Signed(from, stamp, payload) ==
  [from |-> from, stamp |-> stamp, payload |-> payload,
   sig |-> [key |-> "shared", over |-> MacInput(from, stamp, payload)]]

\* EcoMessage::verify
Verified(m, clock) ==
  /\ clock - m.stamp <= MaxSkew
  /\ m.stamp - clock <= MaxSkew
  /\ m.sig = [key |-> "shared", over |-> MacInput(m.from, m.stamp, m.payload)]

Contents == {"result", "spoiled"}

\* What a message may come to be on its way: a later stamp, the signature of
\* someone else, another payload.
Garblings(m) ==
  {[m EXCEPT !.stamp = @ + 1], [m EXCEPT !.sig.key = "other"]}
    \cup (IF m.from = "host" THEN {[m EXCEPT !.payload.capability = c] : c \in Wanted}
          ELSE {[m EXCEPT !.payload.content = c] : c \in Contents})

-----------------------------------------------------------------------------
WorkInit ==
  /\ Init
  /\ task = NoTask /\ performed = {} /\ now = 0
  /\ net = {} /\ garbled = 0 /\ asked = {} /\ served = {} /\ made = {} /\ accepted = {}

\* The pipeline on its own: nothing is escalated, or there is a task already.
Listening ==
  /\ \/ ChildEnds \/ Interrupt \/ BargeIn \/ SpeechFrame \/ FallSilent \/ QuietFrame \/ SttFails
     \/ \E t \in Transcripts : Acknowledge(t)
     \/ \E t \in Transcripts :
          Unspoken(t) /\ (task # NoTask \/ ~(t.wake /\ Decide(t.says).reasoning))
  /\ UNCHANGED jobs

\* VoiceEvent::Escalated: the assistant has the task.
Escalated(t) ==
  /\ task = NoTask
  /\ t.wake /\ Decide(t.says).reasoning
  /\ Unspoken(t)
  /\ task' = Held("assistant")
  /\ UNCHANGED <<performed, now, net, garbled, asked, served, made, accepted>>

\* A Handoff for which can_handoff was asked.
HandOff(to) ==
  /\ task.at = "held"
  /\ CanHandoff(task.role, to, TRUE)
  /\ task' = Held(to)
  /\ UNCHANGED <<vars, performed, now, net, garbled, asked, served, made, accepted>>

Use(role) == performed \cup {<<role, PlanFor(role)[i]>> : i \in DOMAIN PlanFor(role)}

\* execute_task, and its steps; refused, the task is given up.
ExecuteTask(requested) ==
  /\ task.at = "held"
  /\ performed' = IF Accepts(task.role, [described |-> TRUE, requested |-> requested])
                  THEN Use(task.role) ELSE performed
  /\ task' = [at |-> "done"]
  /\ UNCHANGED <<vars, now, net, garbled, asked, served, made, accepted>>

\* A request to the peer, by a role that may delegate.
Ask(capability, input) ==
  LET request == [capability |-> capability, input |-> input] IN
  /\ task.at = "held"
  /\ CanDelegate(task.role)
  /\ net' = net \cup {Signed("host", HostClock, request)}
  /\ asked' = asked \cup {[request |-> request, at |-> now]}
  /\ task' = [at |-> "away"]
  /\ UNCHANGED <<vars, performed, now, garbled, served, made, accepted>>

\* The peer takes a request: the envelope, then the contract, then the plan.
\* What it made may be spoiled before it is put in a message.  The request
\* stands for its id.
Serve(m, content) ==
  LET art == MakeArtifact(m.payload, PeerRole, "result") IN
  /\ m \in net /\ m.from = "host"
  /\ Verified(m, PeerClock)
  /\ ValidTask(Capabilities[PeerRole], m.payload)
  /\ Accepts(PeerRole, [described |-> TRUE, requested |-> {}])
  /\ performed' = Use(PeerRole)
  /\ served' = served \cup {[request |-> m.payload, at |-> now]}
  /\ made' = made \cup {art}
  /\ net' = net \cup {Signed("peer", PeerClock, [art EXCEPT !.content = content])}
  /\ UNCHANGED <<vars, task, now, garbled, asked, accepted>>

\* This host takes an answer while it waits for one.
Take(m) ==
  /\ task.at = "away"
  /\ m \in net /\ m.from = "peer"
  /\ Verified(m, HostClock)
  /\ ValidArtifact(Known, m.payload)
  /\ accepted' = accepted \cup {m.payload}
  /\ task' = [at |-> "done"]
  /\ UNCHANGED <<vars, performed, now, net, garbled, asked, served, made>>

Garble(m) ==
  /\ garbled < MaxGarbled
  /\ \E g \in Garblings(m) \ net : net' = net \cup {g}
  /\ garbled' = garbled + 1
  /\ UNCHANGED <<vars, task, performed, now, asked, served, made, accepted>>

Tick ==
  /\ now < MaxTime
  /\ asked # {}
  /\ now' = now + 1
  /\ UNCHANGED <<vars, task, performed, net, garbled, asked, served, made, accepted>>

WorkNext ==
  \/ Listening \/ Tick
  \/ \E t \in Transcripts : Escalated(t)
  \/ \E to \in Role : HandOff(to)
  \/ \E requested \in SUBSET Tool : ExecuteTask(requested)
  \/ \E capability \in Wanted, input \in {"text", "blank"} : Ask(capability, input)
  \/ \E m \in net : Take(m) \/ Garble(m) \/ \E content \in Contents : Serve(m, content)

\* The microphone is on, as in Voice; nobody else must act.
WorkSpec == WorkInit /\ [][WorkNext]_<<vars, jobs>> /\ MicrophoneIsOn

-----------------------------------------------------------------------------
(***************************************************************************)
(* Properties.                                                             *)
(***************************************************************************)
\* plan_for and the tables of AgentDef are two places that must agree: whoever
\* gets the task and however it was handed on, no tool is used out of the scope
\* of the role, and no role that delegates does a worker's work.
ScopeIsKept ==
  \A use \in performed :
    /\ CanUse(use[1], use[2])
    /\ CanDelegate(use[1]) => use[2] \in {"memory_search", "messaging"}

\* EcoMessage::verify and validate_task: the peer works on nothing that was not
\* asked for, as it was asked for, and not long after, however messages are
\* garbled, repeated and delayed.
ServedWasAsked ==
  \A s \in served : \E a \in asked :
    /\ a.request = s.request
    /\ s.at - a.at <= MaxSkew - Offset
    /\ s.request.input # "blank"

\* verify_artifact under the envelope: a result that is accepted is one that
\* the peer made, unspoiled, in answer to a request.
ResultIsGenuine ==
  \A art \in accepted :
    /\ art \in made
    /\ \E s \in served : s.request = art.task
    /\ Supports(art.producer, art.task.capability)
=============================================================================
