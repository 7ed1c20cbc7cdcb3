------------------------------- MODULE Voice -------------------------------
(***************************************************************************)
(* igris-voice: the pipeline from frames of sound to a spoken             *)
(* acknowledgement, over the voice-activity detector and a synthesizer     *)
(* that is a process of its own (PiperTts).                                *)
(*                                                                         *)
(* The pipeline is driven by one caller, frame by frame; what happens on   *)
(* its own is that the synthesizer's process ends.  Speech frames are      *)
(* numbered as they come; what a frame sounds like is the detector's       *)
(* verdict on it.  A segment has no greatest length: the user talks as long *)
(* as they like, pauses as they like, and may fall silent for good.  The   *)
(* events returned repeat what the states say.                             *)
(***************************************************************************)
EXTENDS Intents

CONSTANTS
  Transcripts,  \* what a segment may be transcribed to
  Hangover,     \* hangover_frames
  MaxFrames     \* bound on the speech frames

\* A transcript: whether the wake phrase is in it, and what it says.
ASSUME TranscriptAssumption ==
  Transcripts \subseteq [wake : BOOLEAN, says : SUBSET Phrases]
ASSUME HangoverAssumption == Hangover \in Nat
ASSUME FrameBound == MaxFrames \in Nat

VARIABLES
  vadState,     \* Vad.state
  silentRun,    \* Vad.silent_run
  segment,      \* Vad.segment: the speech frames in it
  state,        \* VoicePipeline.state
  bargeIn,      \* the shared flag: synthesis may be pre-empted
  live,         \* PiperTts.live
  child,        \* PiperTts.child: the synthesizer held, or NoChild
  running,      \* synthesizers that are running
  ended,        \* synthesizers that ended and nobody has waited for
  spawned,      \* how many synthesizers were started
  talking,      \* whether the user may say something yet
  frames,       \* speech frames so far
  transcribed,  \* history: the frames handed to the transcriber
  preempting,   \* history: the frames that silenced a voice instead
  acked         \* history: the transcripts that were acknowledged

vad == <<vadState, silentRun, segment>>
tts == <<live, child, running, ended, spawned>>
vars == <<vad, state, bargeIn, tts, talking, frames, transcribed, preempting, acked>>

NoChild == 0
VoiceState == {"Idle", "Listening", "Processing", "Speaking", "Error"}

(***************************************************************************)
(* Faulty variants of definitions below: each is a plausible slip in the   *)
(* code, and shows that some property would notice it.                     *)
(***************************************************************************)
Muted == live' = FALSE /\ UNCHANGED <<child, running, ended, spawned>>
SegmentKept(closed) == segment
NeverCounted == silentRun

(***************************************************************************)
(* The synthesizer.                                                        *)
(***************************************************************************)
\* PiperTts::speak: a process is started, and looked at once.  Whatever was
\* held is dropped, neither killed nor waited for.
Speak ==
  \/ /\ spawned' = spawned + 1
     /\ child' = spawned + 1
     /\ \/ live' = TRUE /\ running' = running \cup {spawned + 1}
        \/ live' = FALSE /\ UNCHANGED running    \* it had ended already
     /\ UNCHANGED ended
  \/ live' = FALSE /\ UNCHANGED <<child, running, ended, spawned>>  \* no such binary

\* PiperTts::cancel
Cancel ==
  /\ live' = FALSE
  /\ child' = NoChild
  /\ running' = running \ {child}
  /\ ended' = ended \ {child}
  /\ UNCHANGED spawned

\* The process ends by itself; nothing tells PiperTts.
ChildEnds ==
  /\ \E p \in running : running' = running \ {p} /\ ended' = ended \cup {p}
  /\ UNCHANGED <<vad, state, bargeIn, live, child, spawned, talking, frames, transcribed,
                 preempting, acked>>

(***************************************************************************)
(* The pipeline.                                                           *)
(***************************************************************************)
Init ==
  /\ vadState = "Idle" /\ silentRun = 0 /\ segment = {}
  /\ state = "Idle" /\ bargeIn = FALSE
  /\ live = FALSE /\ child = NoChild /\ running = {} /\ ended = {} /\ spawned = 0
  /\ talking = TRUE /\ frames = 0 /\ transcribed = {} /\ preempting = {} /\ acked = {}

Silence ==
  /\ Cancel
  /\ bargeIn' = FALSE
  /\ state' = "Listening"

\* interrupt(), when there is something to interrupt.
Interrupt ==
  /\ live
  /\ Silence
  /\ UNCHANGED <<vad, talking, frames, transcribed, preempting, acked>>

\* ingest() of a speech frame while the synthesizer is thought to speak: the
\* frame silences it and goes no further.
BargeIn ==
  /\ talking /\ frames < MaxFrames
  /\ live
  /\ Silence
  /\ frames' = frames + 1
  /\ preempting' = preempting \cup {frames + 1}
  /\ UNCHANGED <<vad, talking, transcribed, acked>>

\* ingest() of a speech frame otherwise.
SpeechFrame ==
  /\ talking /\ frames < MaxFrames
  /\ ~live
  /\ frames' = frames + 1
  /\ vadState' = "Speaking"
  /\ silentRun' = 0
  /\ segment' = segment \cup {frames + 1}
  /\ state' = IF vadState = "Idle" THEN "Listening" ELSE state
  /\ UNCHANGED <<bargeIn, tts, talking, transcribed, preempting, acked>>

\* The user says nothing more.
FallSilent ==
  /\ talking
  /\ talking' = FALSE
  /\ UNCHANGED <<vad, state, bargeIn, tts, frames, transcribed, preempting, acked>>

\* The frames without speech in a row, this one included.
Counted == silentRun + 1

\* The silence has lasted for the hangover.
HangoverOver == Counted >= Hangover

\* A frame without speech that the hangover bridges.
QuietFrame ==
  /\ vadState = "Speaking"
  /\ ~HangoverOver
  /\ silentRun' = Counted
  /\ UNCHANGED <<vadState, segment, state, bargeIn, tts, talking, frames, transcribed,
                 preempting, acked>>

\* What is left in the detector when a segment is handed over (mem::take).
Remaining(closed) == segment \ closed

\* The frame without speech that closes the segment.
Close ==
  /\ vadState = "Speaking"
  /\ HangoverOver
  /\ vadState' = "Idle"
  /\ silentRun' = 0
  /\ segment' = Remaining(segment)
  /\ transcribed' = transcribed \cup segment
  /\ UNCHANGED <<talking, frames, preempting>>

SttFails ==
  /\ Close
  /\ state' = "Error"
  /\ UNCHANGED <<bargeIn, tts, acked>>

\* The intents fast_ack has words for.
Acknowledged == {"device_transfer", "device_status", "memory_query"}

FastPath(t) ==
  /\ t.wake
  /\ ~Decide(t.says).reasoning
  /\ Decide(t.says).intent \in Acknowledged

\* Not woken, or left to reasoning, or nothing to say: no voice.
Unspoken(t) ==
  /\ Close
  /\ ~FastPath(t)
  /\ state' = "Idle"
  /\ UNCHANGED <<bargeIn, tts, acked>>

\* The acknowledgement is spoken; whether it could be started is not asked.
Acknowledge(t) ==
  /\ Close
  /\ FastPath(t)
  /\ Speak
  /\ bargeIn' = TRUE
  /\ state' = "Speaking"
  /\ acked' = acked \cup {t}

Transcribed == SttFails \/ \E t \in Transcripts : Unspoken(t) \/ Acknowledge(t)

\* ingest() of a frame without speech, while there is a segment.
FrameWithoutSpeech == QuietFrame \/ Transcribed

Next == ChildEnds \/ Interrupt \/ BargeIn \/ SpeechFrame \/ FallSilent \/ FrameWithoutSpeech

Spec == Init /\ [][Next]_vars

\* The microphone goes on delivering frames, and there is no speech in them
\* when nobody talks.
MicrophoneIsOn == WF_vars(~talking /\ FrameWithoutSpeech)
FairSpec == Spec /\ MicrophoneIsOn

(***************************************************************************)
(* Properties.                                                             *)
(***************************************************************************)
TypeOK ==
  /\ vadState \in {"Idle", "Speaking"}
  /\ silentRun \in Nat
  /\ segment \subseteq 1..frames
  /\ state \in VoiceState
  /\ bargeIn \in BOOLEAN /\ live \in BOOLEAN /\ talking \in BOOLEAN
  /\ spawned \in Nat /\ child \in 0..spawned
  /\ running \subseteq 1..spawned /\ ended \subseteq 1..spawned
  /\ frames \in 0..MaxFrames
  /\ transcribed \subseteq 1..frames /\ preempting \subseteq 1..frames
  /\ acked \subseteq Transcripts

\* Vad::ingest and the barge-in before it: every speech frame is handed to
\* the transcriber once, or waits in the segment, or was spent on silencing a
\* voice.  None is lost between two utterances and none is heard twice.
SpeechIsKept ==
  /\ 1..frames = transcribed \cup segment \cup preempting
  /\ transcribed \cap segment = {}
  /\ preempting \cap (transcribed \cup segment) = {}
  /\ segment = {} <=> vadState = "Idle"

\* speak() drops the handle it held and cancel() kills only what is held: the
\* pipeline must never leave a synthesizer behind that it can no longer stop,
\* or wait for.  Any there is, running or ended, is the one held, the flag for
\* barge-in is up and the next speech frame will reach cancel().
OneVoice ==
  running \cup ended # {} =>
    /\ running \cup ended = {child}
    /\ live /\ bargeIn
    /\ vadState = "Idle"

\* classify() tries the rules for risky operations first, and the policy asks
\* for reasoning when in doubt: nothing is acknowledged off-hand that destroys
\* or sends something, or that moves a file to a device nobody named.
OnlyHarmlessAcked ==
  \A t \in acked :
    /\ t.wake
    /\ t.says \cap (Destructive \cup ExternalSend) = {}
    /\ Decide(t.says).intent = "device_transfer" => t.says \cap TargetNames # {}

\* The barge-in path of ingest(): once a frame of the user's speech has been
\* taken, no synthesizer speaks or is left.
SpeechSilencesVoice == [][frames' # frames => running' \cup ended' = {} /\ ~live']_vars

\* The count of silent frames, the hangover and the barge-in together: however
\* often the user paused or interrupted, once they fall silent all that was
\* said reaches the transcriber, or has silenced a voice.  (Only then: while
\* somebody talks without a pause as long as the hangover, ingest() hands
\* nothing over, however long that is.)
SpeechIsHeard ==
  \A k \in 1..MaxFrames :
    frames >= k /\ ~talking ~> k \in transcribed \cup preempting
=============================================================================
