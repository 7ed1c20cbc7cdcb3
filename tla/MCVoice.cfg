SPECIFICATION WorkSpec
CONSTANTS
  Transcripts <- TranscriptsUsed
  Hangover = 2
  MaxFrames = 3
  PeerRole = "coder"
  Known = {"coder"}
  Wanted = {"run_tests", "deploy"}
  MaxSkew = 1
  Offset = 1
  MaxTime = 2
  MaxGarbled = 1
CHECK_DEADLOCK FALSE
INVARIANTS
  SpeechIsKept
  OneVoice
  OnlyHarmlessAcked
  ScopeIsKept
  ServedWasAsked
  ResultIsGenuine
PROPERTIES
  SpeechIsHeard
