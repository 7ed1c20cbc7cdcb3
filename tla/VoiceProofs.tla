---------------------------- MODULE VoiceProofs ----------------------------
(***************************************************************************)
(* Proofs about the voice pipeline: for any transcripts, any hangover and  *)
(* any number of frames, no speech is lost, no synthesizer gets away, and  *)
(* nothing risky is acknowledged off-hand.  Then about what becomes of a   *)
(* task: for any peer, clock, skew and number of messages spoiled on the   *)
(* way, tools stay in their scope and what is accepted is genuine.         *)
(***************************************************************************)
EXTENDS Work, TLAPS

(***************************************************************************)
(* What the rules promise: a text that is not left to reasoning is not     *)
(* risky, and names its target if it is a transfer.                        *)
(***************************************************************************)
LEMMA RiskyEscalates ==
  ASSUME NEW t, IsRisky(t)
  PROVE  Decide(t).reasoning
<1>1. Decide(t).reasoning = (Classify(t).reasoning \/ Classify(t).confidence < 60
                               \/ Classify(t).risk >= High)
  BY DEF Decide, Escalate, DefaultPolicy
<1>2. Classify(t).reasoning = TRUE
  BY DEF Classify, Risky
<1> QED
  BY <1>1, <1>2

LEMMA TargetlessEscalates ==
  ASSUME NEW t, ~IsRisky(t), IsTransfer(t), t \cap TargetNames = {}
  PROVE  Decide(t).reasoning
<1>1. Decide(t).reasoning = (Classify(t).reasoning \/ Classify(t).confidence < 60
                               \/ Classify(t).risk >= High)
  BY DEF Decide, Escalate, DefaultPolicy
<1>2. Classify(t) = FastSwap(t)
  BY DEF Classify
<1>3. FastSwap(t).confidence = 55
  BY DEF FastSwap, TargetOf
<1>4. Classify(t).confidence < 60
  BY <1>2, <1>3
<1> QED
  BY <1>1, <1>4, Zenon

LEMMA OtherRulesTransferNothing ==
  ASSUME NEW t, ~IsRisky(t), ~IsTransfer(t)
  PROVE  Decide(t).intent # "device_transfer"
<1>1. Classify(t).intent # "device_transfer"
  BY DEF Classify, Local, Planned
<1>2. Decide(t).intent = Classify(t).intent
  BY DEF Decide, Escalate
<1> QED
  BY <1>1, <1>2

LEMMA FastPathIsHarmless ==
  ASSUME NEW t \in Transcripts, FastPath(t)
  PROVE  /\ t.wake
         /\ t.says \cap (Destructive \cup ExternalSend) = {}
         /\ Decide(t.says).intent = "device_transfer" => t.says \cap TargetNames # {}
<1>1. t.wake /\ ~Decide(t.says).reasoning
  BY DEF FastPath
<1>2. ~IsRisky(t.says)
  BY <1>1, RiskyEscalates
<1>3. t.says \cap (Destructive \cup ExternalSend) = {}
  BY <1>2 DEF IsRisky
<1>4. ASSUME Decide(t.says).intent = "device_transfer" PROVE t.says \cap TargetNames # {}
  BY <1>1, <1>2, <1>4, TargetlessEscalates, OtherRulesTransferNothing
<1> QED
  BY <1>1, <1>3, <1>4

(***************************************************************************)
(* The invariants.                                                         *)
(***************************************************************************)
LEMMA TypeInit == Init => TypeOK
<1> SUFFICES ASSUME Init PROVE TypeOK
  OBVIOUS
<1>1. bargeIn \in BOOLEAN /\ live \in BOOLEAN /\ talking \in BOOLEAN
  BY Zenon DEF Init
<1>2. acked \subseteq Transcripts
  BY DEF Init
<1>3. /\ vadState \in {"Idle", "Speaking"} /\ silentRun \in Nat /\ segment \subseteq 1..frames
      /\ state \in VoiceState
      /\ spawned \in Nat /\ child \in 0..spawned
      /\ running \subseteq 1..spawned /\ ended \subseteq 1..spawned
      /\ frames \in 0..MaxFrames
      /\ transcribed \subseteq 1..frames /\ preempting \subseteq 1..frames
  BY FrameBound DEF Init, VoiceState, NoChild
<1> QED
  BY <1>1, <1>2, <1>3 DEF TypeOK

LEMMA TypeNext == TypeOK /\ [Next]_vars => TypeOK'
<1> SUFFICES ASSUME TypeOK, [Next]_vars PROVE TypeOK'
  OBVIOUS
<1> USE FrameBound DEF TypeOK, VoiceState, NoChild
<1>1. CASE ChildEnds
  BY <1>1 DEF ChildEnds, vad
<1>2. CASE Interrupt
  <2>1. live' \in BOOLEAN /\ bargeIn' \in BOOLEAN
    BY <1>2, Zenon DEF Interrupt, Silence, Cancel
  <2>2. /\ spawned' = spawned /\ child' = 0 /\ state' = "Listening"
        /\ running' \subseteq running /\ ended' \subseteq ended
        /\ UNCHANGED <<vad, talking, frames, transcribed, preempting, acked>>
    BY <1>2 DEF Interrupt, Silence, Cancel
  <2> QED
    BY <2>1, <2>2 DEF vad
<1>3. CASE BargeIn
  <2>1. live' \in BOOLEAN /\ bargeIn' \in BOOLEAN
    BY <1>3, Zenon DEF BargeIn, Silence, Cancel
  <2>2. /\ spawned' = spawned /\ child' = 0 /\ state' = "Listening"
        /\ running' \subseteq running /\ ended' \subseteq ended
        /\ UNCHANGED <<vad, talking, transcribed, acked>>
        /\ frames < MaxFrames /\ frames' = frames + 1
        /\ preempting' = preempting \cup {frames + 1}
    BY <1>3 DEF BargeIn, Silence, Cancel
  <2> QED
    BY <2>1, <2>2 DEF vad
<1>4. CASE SpeechFrame
  BY <1>4 DEF SpeechFrame, tts
<1>5. CASE QuietFrame
  BY <1>5 DEF QuietFrame, Counted, tts
<1>6. CASE SttFails
  BY <1>6 DEF SttFails, Close, Remaining, tts
<1>7. ASSUME NEW t \in Transcripts, Unspoken(t) PROVE TypeOK'
  BY <1>7 DEF Unspoken, Close, Remaining, tts
<1>8. ASSUME NEW t \in Transcripts, Acknowledge(t) PROVE TypeOK'
  <2>1. /\ vadState' = "Idle" /\ silentRun' = 0 /\ segment' \subseteq segment
        /\ transcribed' = transcribed \cup segment /\ UNCHANGED <<talking, frames, preempting>>
    BY <1>8 DEF Acknowledge, Close, Remaining
  <2>2. live' \in BOOLEAN
    BY <1>8, Zenon DEF Acknowledge, Speak
  <2>3. /\ spawned' \in Nat /\ child' \in 0..spawned'
        /\ running' \subseteq 1..spawned' /\ ended' \subseteq 1..spawned'
    <3>1. \/ /\ spawned' = spawned + 1 /\ child' = spawned + 1 /\ ended' = ended
             /\ running' \subseteq running \cup {spawned + 1}
          \/ UNCHANGED <<child, running, ended, spawned>>
      <4>1. Speak
        BY <1>8 DEF Acknowledge
      <4> QED
        BY <4>1 DEF Speak
    <3>2. spawned' \in Nat /\ spawned' >= spawned /\ child' \in 0..spawned'
      BY <3>1
    <3> HIDE DEF TypeOK
    <3>3. running \subseteq 1..spawned /\ ended \subseteq 1..spawned /\ spawned \in Nat
      BY DEF TypeOK
    <3>4. 1..spawned \subseteq 1..spawned'
      BY <3>2, <3>3
    <3>5. spawned' = spawned + 1 => spawned + 1 \in 1..spawned'
      BY <3>3
    <3>6. running' \subseteq 1..spawned' /\ ended' \subseteq 1..spawned'
      BY <3>1, <3>3, <3>4, <3>5
    <3> QED
      BY <3>2, <3>6
  <2>4. bargeIn' = TRUE /\ state' = "Speaking" /\ acked' = acked \cup {t}
    BY <1>8 DEF Acknowledge
  <2> QED
    BY <2>1, <2>2, <2>3, <2>4
<1>9. CASE UNCHANGED vars
  BY <1>9 DEF vars, vad, tts
<1>10. CASE FallSilent
  <2>1. talking' \in BOOLEAN
    BY <1>10, Zenon DEF FallSilent
  <2> QED
    BY <1>10, <2>1 DEF FallSilent, vad, tts
<1> QED
  BY <1>1, <1>2, <1>3, <1>4, <1>5, <1>6, <1>7, <1>8, <1>9, <1>10
     DEF Next, FrameWithoutSpeech, Transcribed

\* Every variable of the detector, the pipeline and the synthesizer keeps its
\* type.
THEOREM TypeCorrect == Spec => []TypeOK
BY TypeInit, TypeNext, PTL DEF Spec

LEMMA KeptNext == TypeOK /\ SpeechIsKept /\ [Next]_vars => SpeechIsKept'
<1> SUFFICES ASSUME TypeOK, SpeechIsKept, [Next]_vars PROVE SpeechIsKept'
  OBVIOUS
<1> USE DEF SpeechIsKept
<1>1. CASE ChildEnds
  BY <1>1 DEF ChildEnds, vad
<1>2. CASE Interrupt
  BY <1>2 DEF Interrupt, vad
<1>3. CASE BargeIn
  BY <1>3 DEF BargeIn, vad, TypeOK
<1>4. CASE SpeechFrame
  BY <1>4 DEF SpeechFrame, TypeOK
<1>5. CASE QuietFrame
  BY <1>5 DEF QuietFrame
<1>6. CASE Close
  BY <1>6 DEF Close, Remaining, TypeOK
<1>7. CASE UNCHANGED vars
  BY <1>7 DEF vars, vad
<1>8. CASE FallSilent
  BY <1>8 DEF FallSilent, vad
<1> QED
  BY <1>1, <1>2, <1>3, <1>4, <1>5, <1>6, <1>7, <1>8
     DEF Next, FrameWithoutSpeech, Transcribed, SttFails, Unspoken, Acknowledge

\* Every speech frame is transcribed once, waits in the segment, or silenced
\* a voice, whatever pauses and interruptions come in between.
THEOREM NoSpeechIsLost == Spec => []SpeechIsKept
<1>1. Init => SpeechIsKept
  BY DEF Init, SpeechIsKept
<1> QED
  BY <1>1, TypeInit, TypeNext, KeptNext, PTL DEF Spec

LEMMA OneVoiceNext == TypeOK /\ OneVoice /\ [Next]_vars => OneVoice'
<1> SUFFICES ASSUME TypeOK, OneVoice, [Next]_vars PROVE OneVoice'
  OBVIOUS
<1> USE DEF OneVoice
<1>1. CASE ChildEnds
  <2>1. running' \cup ended' = running \cup ended /\ running \cup ended # {}
    BY <1>1 DEF ChildEnds
  <2> QED
    BY <1>1, <2>1 DEF ChildEnds, vad
<1>2. CASE Silence
  <2>1. running' \cup ended' = (running \cup ended) \ {child}
    BY <1>2 DEF Silence, Cancel
  <2> QED
    BY <2>1
<1>3. CASE SpeechFrame
  BY <1>3 DEF SpeechFrame, tts
<1>4. CASE QuietFrame
  BY <1>4 DEF QuietFrame, tts
<1>5. CASE Close /\ UNCHANGED <<bargeIn, tts>>
  BY <1>5 DEF Close, tts
<1>6. ASSUME NEW t \in Transcripts, Acknowledge(t) PROVE OneVoice'
  <2>1. running = {} /\ ended = {} /\ vadState' = "Idle" /\ bargeIn' = TRUE
    BY <1>6 DEF Acknowledge, Close
  <2>2. Speak
    BY <1>6 DEF Acknowledge
  <2> QED
    BY <2>1, <2>2 DEF Speak
<1>7. CASE UNCHANGED vars
  BY <1>7 DEF vars, vad, tts
<1>8. CASE FallSilent
  BY <1>8 DEF FallSilent, vad, tts
<1> QED
  BY <1>1, <1>2, <1>3, <1>4, <1>5, <1>6, <1>7, <1>8
     DEF Next, FrameWithoutSpeech, Transcribed, Interrupt, BargeIn, SttFails, Unspoken

\* There is never a synthesizer, running or ended, that the pipeline does not
\* hold and would not stop at the next speech frame.
THEOREM NoVoiceEscapes == Spec => []OneVoice
<1>1. Init => OneVoice
  BY DEF Init, OneVoice
<1> QED
  BY <1>1, TypeInit, TypeNext, OneVoiceNext, PTL DEF Spec

\* Once a speech frame was taken nothing speaks.
THEOREM SpeechWins == Spec => SpeechSilencesVoice
<1>1. TypeOK /\ OneVoice /\ [Next]_vars
        => (frames' # frames => running' \cup ended' = {} /\ ~live') \/ UNCHANGED vars
  <2> SUFFICES ASSUME TypeOK, OneVoice, Next, frames' # frames
               PROVE  running' \cup ended' = {} /\ ~live'
    OBVIOUS
  <2>1. BargeIn \/ SpeechFrame
    BY DEF Next, FallSilent, FrameWithoutSpeech, Transcribed, ChildEnds, Interrupt, QuietFrame, SttFails, Unspoken,
           Acknowledge, Close
  <2>2. CASE BargeIn
    BY <2>2 DEF BargeIn, Silence, Cancel, OneVoice
  <2>3. CASE SpeechFrame
    BY <2>3 DEF SpeechFrame, tts, OneVoice, TypeOK
  <2> QED
    BY <2>1, <2>2, <2>3
<1>2. Init => OneVoice
  BY DEF Init, OneVoice
<1> QED
  BY <1>1, <1>2, TypeInit, TypeNext, OneVoiceNext, PTL DEF Spec, SpeechSilencesVoice

\* For any transcripts: what is acknowledged off-hand is harmless.
THEOREM AcksAreHarmless == Spec => []OnlyHarmlessAcked
<1>1. Init => OnlyHarmlessAcked
  BY DEF Init, OnlyHarmlessAcked
<1>2. OnlyHarmlessAcked /\ [Next]_vars => OnlyHarmlessAcked'
  <2> SUFFICES ASSUME OnlyHarmlessAcked, [Next]_vars PROVE OnlyHarmlessAcked'
    OBVIOUS
  <2>1. CASE acked' = acked
    BY <2>1 DEF OnlyHarmlessAcked
  <2>2. ASSUME NEW t \in Transcripts, Acknowledge(t) PROVE OnlyHarmlessAcked'
    <3>1. FastPath(t) /\ acked' = acked \cup {t}
      BY <2>2 DEF Acknowledge
    <3> QED
      BY <3>1, FastPathIsHarmless DEF OnlyHarmlessAcked
  <2> QED
    BY <2>1, <2>2
       DEF Next, FallSilent, FrameWithoutSpeech, Transcribed, ChildEnds, Interrupt, BargeIn, SpeechFrame, QuietFrame,
           SttFails, Unspoken, vars
<1> QED
  BY <1>1, <1>2, PTL DEF Spec
(***************************************************************************)
(* The pipeline with a host around it.                                     *)
(***************************************************************************)
\* Whatever the host and its peer do, they leave the pipeline alone, or take
\* one of its steps.
LEMMA WorkStepIsPipelineStep == [WorkNext]_<<vars, jobs>> => [Next]_vars
<1> SUFFICES ASSUME [WorkNext]_<<vars, jobs>> PROVE Next \/ UNCHANGED vars
  OBVIOUS
<1>1. CASE Listening
  BY <1>1 DEF Listening, Next, FrameWithoutSpeech, Transcribed
<1>2. ASSUME NEW t \in Transcripts, Escalated(t) PROVE Next
  BY <1>2 DEF Escalated, Next, FrameWithoutSpeech, Transcribed
<1>3. CASE Tick
  BY <1>3 DEF Tick
<1>4. CASE (\E to \in Role : HandOff(to)) \/ (\E requested \in SUBSET Tool : ExecuteTask(requested))
  BY <1>4 DEF HandOff, ExecuteTask
<1>5. ASSUME NEW capability \in Wanted, NEW input \in {"text", "blank"}, Ask(capability, input)
      PROVE  UNCHANGED vars
  BY <1>5 DEF Ask
<1>6. ASSUME NEW m \in net, Take(m) \/ Garble(m) \/ \E content \in Contents : Serve(m, content)
      PROVE  UNCHANGED vars
  BY <1>6 DEF Take, Garble, Serve
<1> QED
  BY <1>1, <1>2, <1>3, <1>4, <1>5, <1>6 DEF WorkNext

\* The host's specification implements the pipeline's.
THEOREM WorkRunsThePipeline == WorkSpec => Spec
<1>1. WorkInit => Init
  BY DEF WorkInit
<1> QED
  BY <1>1, WorkStepIsPipelineStep, PTL DEF WorkSpec, Spec

\* So what is true of the pipeline on its own is true of it in a host.
THEOREM PipelineIsSoundAtWork == WorkSpec => [](SpeechIsKept /\ OneVoice /\ OnlyHarmlessAcked)
BY WorkRunsThePipeline, NoSpeechIsLost, NoVoiceEscapes, AcksAreHarmless, PTL

(***************************************************************************)
(* Scopes.                                                                 *)
(***************************************************************************)
\* plan_for and the tables of AgentDef agree on every role.
LEMMA PlansAreInScope ==
  ASSUME NEW role \in Role, NEW i \in DOMAIN PlanFor(role)
  PROVE  /\ CanUse(role, PlanFor(role)[i])
         /\ CanDelegate(role) => PlanFor(role)[i] \in {"memory_search", "messaging"}
<1> USE DEF CanUse, CanDelegate, AllowedTools, PlanFor, Tier, Role
<1>1. CASE role = "planner"
  BY <1>1
<1>2. CASE role = "coder"
  BY <1>2
<1>3. CASE role = "researcher"
  BY <1>3
<1>4. CASE role = "developer"
  BY <1>4
<1>5. CASE role = "devops"
  BY <1>5
<1>6. CASE role = "communicator"
  BY <1>6
<1>7. CASE role = "assistant"
  BY <1>7
<1> QED
  BY <1>1, <1>2, <1>3, <1>4, <1>5, <1>6, <1>7

\* A task is held by one of the roles.
HolderIsRole == task.at = "held" => task.role \in Role

LEMMA HolderNext == HolderIsRole /\ [WorkNext]_<<vars, jobs>> => HolderIsRole'
<1> SUFFICES ASSUME HolderIsRole, [WorkNext]_<<vars, jobs>> PROVE HolderIsRole'
  OBVIOUS
<1> USE DEF HolderIsRole
<1>1. ASSUME NEW t \in Transcripts, Escalated(t) PROVE HolderIsRole'
  BY <1>1 DEF Escalated, Held, Role, AllowedTools
<1>2. ASSUME NEW to \in Role, HandOff(to) PROVE HolderIsRole'
  BY <1>2 DEF HandOff, Held
<1>3. CASE task' = [at |-> "done"] \/ task' = [at |-> "away"]
  BY <1>3
<1>4. CASE UNCHANGED task
  BY <1>4
<1>5. ASSUME NEW requested \in SUBSET Tool, ExecuteTask(requested) PROVE HolderIsRole'
  BY <1>3, <1>5 DEF ExecuteTask
<1>6. ASSUME NEW capability, NEW input, Ask(capability, input) PROVE HolderIsRole'
  BY <1>3, <1>6 DEF Ask
<1>7. ASSUME NEW m \in net, Take(m) \/ Garble(m) \/ \E content \in Contents : Serve(m, content)
      PROVE  HolderIsRole'
  BY <1>3, <1>4, <1>7 DEF Take, Garble, Serve
<1> QED
  BY <1>1, <1>2, <1>4, <1>5, <1>6, <1>7 DEF WorkNext, Listening, jobs, Tick

LEMMA ScopeNext == HolderIsRole /\ ScopeIsKept /\ [WorkNext]_<<vars, jobs>> => ScopeIsKept'
<1> SUFFICES ASSUME HolderIsRole, ScopeIsKept, [WorkNext]_<<vars, jobs>> PROVE ScopeIsKept'
  OBVIOUS
<1>1. ASSUME NEW role \in Role, performed' = Use(role) PROVE ScopeIsKept'
  BY <1>1, PlansAreInScope DEF ScopeIsKept, Use
<1>2. CASE UNCHANGED performed
  BY <1>2 DEF ScopeIsKept
<1>3. ASSUME NEW requested \in SUBSET Tool, ExecuteTask(requested) PROVE ScopeIsKept'
  BY <1>1, <1>2, <1>3 DEF ExecuteTask, HolderIsRole
<1>4. ASSUME NEW m \in net, NEW content \in Contents, Serve(m, content) PROVE ScopeIsKept'
  BY <1>1, <1>4, PeerAssumption DEF Serve
<1> QED
  BY <1>2, <1>3, <1>4
     DEF WorkNext, Listening, jobs, Tick, Escalated, HandOff, Ask, Take, Garble

\* Whoever gets the task and however it was handed on, here or at any peer,
\* no tool is used out of its role's scope.
THEOREM ToolsStayInScope == WorkSpec => []ScopeIsKept
<1>1. WorkInit => HolderIsRole /\ ScopeIsKept
  BY DEF WorkInit, HolderIsRole, ScopeIsKept, NoTask
<1> QED
  BY <1>1, HolderNext, ScopeNext, PTL DEF WorkSpec

(***************************************************************************)
(* Messages.  A message may be spoiled on its way, and its sender's name   *)
(* and what its signature was made over cannot.                            *)
(***************************************************************************)
Request == [capability : Capability, input : {"text", "blank"}]
Artifact == [task : Request, producer : Role, content : Contents,
             hash : {HashContent(content) : content \in Contents}]
HostMessage ==
  [from : {"host"}, stamp : Nat, payload : Request,
   sig : [key : {"shared", "other"}, over : {"host"} \X Nat \X Request]]
PeerMessage ==
  [from : {"peer"}, stamp : Nat, payload : Artifact,
   sig : [key : {"shared", "other"}, over : {"peer"} \X Nat \X Artifact]]

MessageTypes ==
  /\ now \in Nat
  /\ net \subseteq HostMessage \cup PeerMessage
  /\ served \subseteq [request : Request, at : Nat]
  /\ asked \subseteq [request : Request, at : Nat]
  /\ made \subseteq Artifact

\* What was signed with the shared key was asked for when it was signed, or
\* is an artifact of the peer, spoiled perhaps before it was signed.
SignedByHost ==
  \A m \in net : m.from = "host" /\ m.sig.key = "shared"
    => [request |-> m.sig.over[3], at |-> m.sig.over[2]] \in asked
SignedByPeer ==
  \A m \in net : m.from = "peer" /\ m.sig.key = "shared"
    => \E art \in made, content \in Contents : m.sig.over[3] = [art EXCEPT !.content = content]

\* What the peer makes, it makes for a request that it worked on.
MadeInAnswer ==
  \A art \in made :
    /\ art.content = "result" /\ art.hash = HashContent("result") /\ art.producer = PeerRole
    /\ Supports(PeerRole, art.task.capability)
    /\ \E s \in served : s.request = art.task

WorkInv == /\ MessageTypes /\ SignedByHost /\ SignedByPeer /\ MadeInAnswer
           /\ ServedWasAsked /\ ResultIsGenuine

LEMMA GarblingShape ==
  ASSUME NEW m \in HostMessage \cup PeerMessage, NEW g \in Garblings(m)
  PROVE  /\ g \in HostMessage \cup PeerMessage
         /\ g.from = m.from /\ g.sig.over = m.sig.over
         /\ g.sig.key = "shared" => m.sig.key = "shared"
<1>1. CASE g = [m EXCEPT !.stamp = @ + 1]
  BY <1>1 DEF HostMessage, PeerMessage
<1>2. CASE g = [m EXCEPT !.sig.key = "other"]
  BY <1>2 DEF HostMessage, PeerMessage
<1>3. ASSUME m.from = "host", NEW c \in Wanted, g = [m EXCEPT !.payload.capability = c]
      PROVE  g \in HostMessage /\ g.from = m.from /\ g.sig = m.sig
  <2>1. m \in HostMessage
    BY <1>3 DEF HostMessage, PeerMessage
  <2>2. [m.payload EXCEPT !.capability = c] \in Request
    BY <2>1, PeerAssumption DEF HostMessage, Request
  <2> QED
    BY <1>3, <2>1, <2>2 DEF HostMessage
<1>4. ASSUME m.from # "host", NEW c \in Contents, g = [m EXCEPT !.payload.content = c]
      PROVE  g \in PeerMessage /\ g.from = m.from /\ g.sig = m.sig
  <2>1. m \in PeerMessage
    BY <1>4 DEF HostMessage, PeerMessage
  <2>2. [m.payload EXCEPT !.content = c] \in Artifact
    BY <2>1 DEF PeerMessage, Artifact
  <2> QED
    BY <1>4, <2>1, <2>2 DEF PeerMessage
<1> QED
  BY <1>1, <1>2, <1>3, <1>4 DEF Garblings

LEMMA RequestIsSigned ==
  ASSUME NEW stamp \in Nat, NEW r \in Request
  PROVE  /\ Signed("host", stamp, r) \in HostMessage
         /\ Signed("host", stamp, r).from = "host"
         /\ Signed("host", stamp, r).sig.over[2] = stamp
         /\ Signed("host", stamp, r).sig.over[3] = r
BY DEF Signed, MacInput, HostMessage

LEMMA AnswerIsSigned ==
  ASSUME NEW stamp \in Nat, NEW art \in Artifact
  PROVE  /\ Signed("peer", stamp, art) \in PeerMessage
         /\ Signed("peer", stamp, art).from = "peer"
         /\ Signed("peer", stamp, art).sig.over[3] = art
BY DEF Signed, MacInput, PeerMessage

\* A message that verify() lets through is one that was signed, as it is.
LEMMA VerifiedIsSigned ==
  ASSUME NEW m, NEW clock, Verified(m, clock)
  PROVE  /\ m.sig.key = "shared"
         /\ m.sig.over[2] = m.stamp /\ m.sig.over[3] = m.payload
         /\ clock - m.stamp <= MaxSkew
BY DEF Verified, MacInput

LEMMA ArtifactIsMade ==
  ASSUME NEW r \in Request
  PROVE  /\ MakeArtifact(r, PeerRole, "result") \in Artifact
         /\ MakeArtifact(r, PeerRole, "result").task = r
         /\ MakeArtifact(r, PeerRole, "result").content = "result"
         /\ MakeArtifact(r, PeerRole, "result").hash = HashContent("result")
         /\ MakeArtifact(r, PeerRole, "result").producer = PeerRole
BY PeerAssumption DEF MakeArtifact, Artifact, Contents

LEMMA WorkTick ==
  WorkInv /\ UNCHANGED <<net, asked, served, made, accepted>> /\ now' \in Nat => WorkInv'
<1> SUFFICES ASSUME WorkInv, UNCHANGED <<net, asked, served, made, accepted>>, now' \in Nat
             PROVE  WorkInv'
  OBVIOUS
<1>1. MessageTypes'
  BY DEF WorkInv, MessageTypes
<1>2. SignedByHost' /\ SignedByPeer'
  BY DEF WorkInv, SignedByHost, SignedByPeer
<1>3. MadeInAnswer' /\ ServedWasAsked' /\ ResultIsGenuine'
  BY DEF WorkInv, MadeInAnswer, ServedWasAsked, ResultIsGenuine
<1> QED
  BY <1>1, <1>2, <1>3 DEF WorkInv

LEMMA WorkAsk ==
  ASSUME WorkInv, NEW capability \in Wanted, NEW input \in {"text", "blank"}, Ask(capability, input)
  PROVE  WorkInv'
<1> DEFINE r == [capability |-> capability, input |-> input]
           new == Signed("host", now, r)
<1>1. r \in Request /\ now \in Nat
  BY PeerAssumption DEF Request, WorkInv, MessageTypes
<1>2. /\ net' = net \cup {new} /\ asked' = asked \cup {[request |-> r, at |-> now]}
      /\ UNCHANGED <<now, served, made, accepted>>
  BY DEF Ask, HostClock
<1> HIDE DEF r, new
<1>3. new \in HostMessage /\ new.from = "host" /\ new.sig.over[2] = now /\ new.sig.over[3] = r
  BY <1>1, RequestIsSigned DEF new
<1>4. MessageTypes'
  BY <1>1, <1>2, <1>3 DEF WorkInv, MessageTypes
<1>5. SignedByHost' /\ SignedByPeer'
  BY <1>2, <1>3 DEF WorkInv, SignedByHost, SignedByPeer
<1>6. MadeInAnswer' /\ ServedWasAsked' /\ ResultIsGenuine'
  BY <1>2 DEF WorkInv, MadeInAnswer, ServedWasAsked, ResultIsGenuine
<1> QED
  BY <1>4, <1>5, <1>6 DEF WorkInv

LEMMA WorkGarble == ASSUME WorkInv, NEW m \in net, Garble(m) PROVE WorkInv'
<1>1. PICK g \in Garblings(m) : net' = net \cup {g} /\ UNCHANGED <<now, asked, served, made, accepted>>
  BY DEF Garble
<1>2. m \in HostMessage \cup PeerMessage
  BY DEF WorkInv, MessageTypes
<1>3. /\ g \in HostMessage \cup PeerMessage
      /\ g.from = m.from /\ g.sig.over = m.sig.over
      /\ g.sig.key = "shared" => m.sig.key = "shared"
  BY <1>2, GarblingShape
<1>4. MessageTypes'
  BY <1>1, <1>3 DEF WorkInv, MessageTypes
<1>5. SignedByHost'
  <2>1. g.from = "host" /\ g.sig.key = "shared"
          => [request |-> g.sig.over[3], at |-> g.sig.over[2]] \in asked
    BY <1>3 DEF WorkInv, SignedByHost
  <2> QED BY <1>1, <2>1 DEF WorkInv, SignedByHost
<1>7. SignedByPeer'
  <2>1. g.from = "peer" /\ g.sig.key = "shared"
          => \E art \in made, content \in Contents : g.sig.over[3] = [art EXCEPT !.content = content]
    <3>1. SUFFICES ASSUME g.from = "peer", g.sig.key = "shared"
                   PROVE  \E art \in made, content \in Contents :
                            g.sig.over[3] = [art EXCEPT !.content = content]
      OBVIOUS
    <3>2. m.from = "peer" /\ m.sig.key = "shared" /\ g.sig.over = m.sig.over
      BY <1>3, <3>1
    <3>3. PICK art \in made, content \in Contents : m.sig.over[3] = [art EXCEPT !.content = content]
      BY <3>2 DEF WorkInv, SignedByPeer
    <3> QED BY <3>2, <3>3
  <2> QED BY <1>1, <2>1 DEF WorkInv, SignedByPeer
<1>6. MadeInAnswer' /\ ServedWasAsked' /\ ResultIsGenuine'
  BY <1>1 DEF WorkInv, MadeInAnswer, ServedWasAsked, ResultIsGenuine
<1> QED
  BY <1>4, <1>5, <1>6, <1>7 DEF WorkInv

LEMMA WorkServe ==
  ASSUME WorkInv, NEW m \in net, NEW content \in Contents, Serve(m, content)
  PROVE  WorkInv'
<1> DEFINE art == MakeArtifact(m.payload, PeerRole, "result")
           sent == [art EXCEPT !.content = content]
           new == Signed("peer", PeerClock, sent)
           entry == [request |-> m.payload, at |-> now]
<1>1. /\ net' = net \cup {new} /\ made' = made \cup {art} /\ served' = served \cup {entry}
      /\ UNCHANGED <<now, asked, accepted>>
  BY DEF Serve
<1>2. /\ m \in HostMessage /\ m.payload \in Request /\ m.stamp \in Nat
      /\ now \in Nat /\ PeerClock = now + Offset /\ PeerClock \in Nat
  BY ClockAssumption DEF Serve, WorkInv, MessageTypes, HostMessage, PeerMessage, PeerClock
<1>3. /\ m.sig.key = "shared" /\ m.sig.over[2] = m.stamp /\ m.sig.over[3] = m.payload
      /\ PeerClock - m.stamp <= MaxSkew
  BY VerifiedIsSigned DEF Serve
<1>4. m.payload.capability \in Capabilities[PeerRole] /\ m.payload.input # "blank"
  BY DEF Serve, ValidTask
<1>5. /\ art \in Artifact /\ art.task = m.payload /\ art.content = "result"
      /\ art.hash = HashContent("result") /\ art.producer = PeerRole
  BY <1>2, ArtifactIsMade DEF art
<1>6. entry \in [request : Request, at : Nat] /\ entry.request = m.payload /\ entry.at = now
  BY <1>2
<1> HIDE DEF art, entry
<1>7. sent \in Artifact
  BY <1>5 DEF Artifact
<1>8. new \in PeerMessage /\ new.from = "peer" /\ new.sig.over[3] = sent
  BY <1>2, <1>7, AnswerIsSigned
<1>9. SignedByPeer'
  <2> HIDE DEF new
  <2>1. \E a \in made', c \in Contents : new.sig.over[3] = [a EXCEPT !.content = c]
    BY <1>1, <1>8
  <2> HIDE DEF sent
  <2>2. ASSUME NEW n \in net, n.from = "peer", n.sig.key = "shared"
        PROVE  \E a \in made', c \in Contents : n.sig.over[3] = [a EXCEPT !.content = c]
    <3>1. PICK a \in made, c \in Contents : n.sig.over[3] = [a EXCEPT !.content = c]
      BY <2>2 DEF WorkInv, SignedByPeer
    <3>2. a \in made'
      BY <1>1
    <3> QED BY <3>1, <3>2
  <2> QED
    BY <1>1, <2>1, <2>2 DEF SignedByPeer
<1> HIDE DEF sent, new
<1>10. MessageTypes'
  BY <1>1, <1>5, <1>6, <1>8 DEF WorkInv, MessageTypes
<1>11. SignedByHost'
  BY <1>1, <1>8 DEF WorkInv, SignedByHost
<1>12. MadeInAnswer'
  BY <1>1, <1>4, <1>5, <1>6 DEF WorkInv, MadeInAnswer, Supports
<1>13. ServedWasAsked'
  <2> DEFINE a == [request |-> m.payload, at |-> m.stamp]
  <2>1. a \in asked /\ a.request = entry.request
    BY <1>2, <1>3, <1>6 DEF WorkInv, SignedByHost, HostMessage
  <2>2. entry.at - a.at <= MaxSkew - Offset
    BY <1>2, <1>3, <1>6, ClockAssumption
  <2>3. entry.request.input # "blank"
    BY <1>4, <1>6
  <2> HIDE DEF a
  <2> QED
    BY <1>1, <2>1, <2>2, <2>3 DEF WorkInv, ServedWasAsked
<1>14. ResultIsGenuine'
  BY <1>1 DEF WorkInv, ResultIsGenuine
<1> QED
  BY <1>9, <1>10, <1>11, <1>12, <1>13, <1>14 DEF WorkInv

LEMMA WorkTake == ASSUME WorkInv, NEW m \in net, Take(m) PROVE WorkInv'
<1>1. /\ accepted' = accepted \cup {m.payload} /\ UNCHANGED <<now, net, asked, served, made>>
      /\ m.from = "peer" /\ HashContent(m.payload.content) = m.payload.hash
  BY DEF Take, ValidArtifact
<1>2. m.sig.key = "shared" /\ m.sig.over[3] = m.payload
  BY VerifiedIsSigned DEF Take
<1>3. PICK art \in made, content \in Contents : m.payload = [art EXCEPT !.content = content]
  BY <1>1, <1>2 DEF WorkInv, SignedByPeer
<1>4. /\ art \in Artifact /\ art.content = "result" /\ art.hash = HashContent("result")
      /\ art.producer = PeerRole /\ Supports(PeerRole, art.task.capability)
      /\ \E s \in served : s.request = art.task
  BY DEF WorkInv, MessageTypes, MadeInAnswer
<1>5. m.payload.content = content /\ m.payload.hash = art.hash
  BY <1>3, <1>4 DEF Artifact
<1>6. content = "result"
  BY <1>1, <1>4, <1>5 DEF HashContent
<1>7. m.payload = art
  BY <1>3, <1>4, <1>6 DEF Artifact
<1>8. ResultIsGenuine'
  BY <1>1, <1>4, <1>7 DEF WorkInv, ResultIsGenuine
<1>9. MessageTypes' /\ SignedByHost' /\ SignedByPeer' /\ MadeInAnswer' /\ ServedWasAsked'
  BY <1>1 DEF WorkInv, MessageTypes, SignedByHost, SignedByPeer, MadeInAnswer, ServedWasAsked
<1> QED
  BY <1>8, <1>9 DEF WorkInv

LEMMA WorkInvNext == WorkInv /\ [WorkNext]_<<vars, jobs>> => WorkInv'
<1> SUFFICES ASSUME WorkInv, [WorkNext]_<<vars, jobs>> PROVE WorkInv'
  OBVIOUS
<1>1. now \in Nat
  BY DEF WorkInv, MessageTypes
<1>2. CASE UNCHANGED <<now, net, asked, served, made, accepted>>
  BY <1>1, <1>2, WorkTick
<1>3. CASE Tick
  BY <1>1, <1>3, WorkTick DEF Tick
<1>4. ASSUME NEW t \in Transcripts, Escalated(t) PROVE WorkInv'
  BY <1>2, <1>4 DEF Escalated
<1>5. CASE (\E to \in Role : HandOff(to)) \/ (\E requested \in SUBSET Tool : ExecuteTask(requested))
  BY <1>2, <1>5 DEF HandOff, ExecuteTask
<1> QED
  BY <1>2, <1>3, <1>4, <1>5, WorkAsk, WorkTake, WorkGarble, WorkServe
     DEF WorkNext, Listening, jobs

LEMMA WorkInvInit == WorkInit => WorkInv
BY DEF WorkInit, WorkInv, MessageTypes, SignedByHost, SignedByPeer, MadeInAnswer,
       ServedWasAsked, ResultIsGenuine

\* For any clock skew and any number of messages garbled, repeated or delayed:
\* the peer works on nothing that was not asked for, as it was asked for, and
\* not for longer after than the skew allows.
THEOREM OnlyWhatWasAsked == WorkSpec => []ServedWasAsked
<1>1. WorkInv => ServedWasAsked
  BY DEF WorkInv
<1> QED
  BY <1>1, WorkInvInit, WorkInvNext, PTL DEF WorkSpec

\* A result that is accepted was made by the peer, is as it was made, and is
\* for a request that the peer worked on and is able to.
THEOREM ResultsAreGenuine == WorkSpec => []ResultIsGenuine
<1>1. WorkInv => ResultIsGenuine
  BY DEF WorkInv
<1> QED
  BY <1>1, WorkInvInit, WorkInvNext, PTL DEF WorkSpec
=============================================================================
